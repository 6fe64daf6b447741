------------------------- MODULE AsioNetworkClient --------------------------
(***************************************************************************)
(* The client's end of a connection, network::AsioNetworkClient: connect   *)
(* (resolve, then one endpoint after the other), a write queue like        *)
(* AsioSession's but with its own rules about errors, the same reader, and *)
(* an io_context of its own that stops for good when it runs out of work.  *)
(***************************************************************************)
EXTENDS AsioSocket

CONSTANTS
  CONNECT,      (* the closure connect() posts                            *)
  DISCONNECT,   (* the closure disconnect() posts                         *)
  MaxEndpoints, (* bound: addresses a host name resolves to               *)
  MaxCalls,     (* bound: calls of the application                        *)
  MaxPeer,      (* bound: frames the peer sends                           *)
  MaxReceived   (* bound: messages after which no further length is read  *)
                (* from a stream that lost its framing                    *)

ASSUME ClientAssumption ==
  /\ CONNECT \notin Msgs
  /\ DISCONNECT \notin Msgs
  /\ CONNECT # DISCONNECT
  /\ MaxEndpoints \in Nat \ {0}
  /\ MaxCalls \in Nat
  /\ MaxPeer \in Nat
  /\ MaxReceived \in Nat

VARIABLES
  posted,         (* closures posted and not yet run                      *)
  io_stopped,     (* io_ is stopped: nothing posted runs any more         *)
  is_active,
  socket_open,    (* socket_.is_open(), what isConnected() returns        *)
  link,           (* how far connect() has got                            *)
  endpoints,      (* endpoints async_connect has not tried yet            *)
  write_queue,
  writes,         (* started async_write operations not yet handled       *)
  read,           (* the started async_read                               *)
  torn,           (* message_size_ came from a Torn frame: framing lost   *)
  taken,          (* frames of inbound read to their end                  *)
  inbound,        (* every frame the peer put on the wire                 *)
  outbound,       (* every frame this end put on the wire                 *)
  peer_closed,    (* the peer closed or reset the connection              *)
  calls,          (* calls by the application so far                      *)
  accepted,       (* history: messages ever pushed to write_queue_        *)
  received,       (* history: arguments of on_message_handler_            *)
  disconnects,    (* history: calls of on_disconnect_handler_             *)
  write_failed    (* history: a write has completed with an error         *)

(***************************************************************************)
(* is_writing_ is not here: the client never sets it to true, so it stays  *)
(* at the value it is declared with.                                       *)
(***************************************************************************)
writeVars == <<write_queue, writes, outbound, accepted, write_failed>>
readVars  == <<read, torn, taken, received>>
linkVars  == <<link, endpoints>>
stateVars == <<is_active, socket_open, disconnects>>
peerVars  == <<inbound, peer_closed>>
vars == <<posted, io_stopped, calls, writeVars, readVars, linkVars, stateVars, peerVars>>

Closures == Msgs \cup {CONNECT, DISCONNECT}

TypeOK ==
  /\ posted \in Seq(Closures)
  /\ io_stopped \in BOOLEAN
  /\ is_active \in BOOLEAN
  /\ socket_open \in BOOLEAN
  /\ link \in {"idle", "resolving", "connecting", "established", "refused",
               "connected", "closed"}
  /\ endpoints \in 0 .. MaxEndpoints
  /\ write_queue \in Seq(Msgs)
  /\ writes \in Seq(WriteOps)
  /\ read \in ReadOps
  /\ torn \in BOOLEAN
  /\ taken \in Nat
  /\ inbound \in Seq(Frames)
  /\ outbound \in Seq(Frames)
  /\ peer_closed \in BOOLEAN
  /\ calls \in Nat
  /\ accepted \in Seq(Msgs)
  /\ received \in Seq(Msgs \cup {Garbled})
  /\ disconnects \in Nat
  /\ write_failed \in BOOLEAN

Init ==
  /\ posted = <<>>
  /\ io_stopped = FALSE
  /\ is_active = TRUE
  /\ socket_open = FALSE
  /\ link = "idle"
  /\ endpoints = 0
  /\ write_queue = <<>>
  /\ writes = <<>>
  /\ read = NoRead
  /\ torn = FALSE
  /\ taken = 0
  /\ inbound = <<>>
  /\ outbound = <<>>
  /\ peer_closed = FALSE
  /\ calls = 0
  /\ accepted = <<>>
  /\ received = <<>>
  /\ disconnects = 0
  /\ write_failed = FALSE

-----------------------------------------------------------------------------
(* The io_context.                                                         *)

Connecting == {"resolving", "connecting", "established", "refused"}

\* Nothing is posted and no operation is outstanding.
NoWork ==
  /\ posted = <<>>
  /\ writes = <<>>
  /\ read.phase = "none"
  /\ link \notin Connecting

\* The end of every handler: an io_context without work stops itself, and
\* nothing in the client ever calls restart().
EndOfHandler == io_stopped' = NoWork'

\* poll() or run() finds no work.
PollIdle ==
  /\ ~io_stopped /\ NoWork
  /\ io_stopped' = TRUE
  /\ UNCHANGED <<posted, calls, writeVars, readVars, linkVars, stateVars, peerVars>>

Runs(closure) == ~io_stopped /\ posted # <<>> /\ Head(posted) = closure

\* socket_.close(): what was started and is pending is aborted.
CloseSocket(ops) ==
  /\ socket_open' = FALSE
  /\ writes' = AllAborted(ops)
  /\ read' = Aborted(read)
  /\ link' = CASE link \in {"connecting", "established"} -> "refused"
               [] link = "connected" -> "closed"
               [] OTHER -> link

\* A read started on a closed socket fails; the reader does start one when
\* disconnect() or a failed write comes between a read and its handler.
AsyncRead(op) == IF socket_open THEN op ELSE [op EXCEPT !.state = "failed"]

-----------------------------------------------------------------------------
(* What the application calls.  It connects one connection at a time: it   *)
(* may call connect() again when the last one failed, or behind the        *)
(* disconnect() of the one it has.                                         *)

Call(closure) ==
  /\ calls < MaxCalls
  /\ calls' = calls + 1
  /\ posted' = Append(posted, closure)

IsPosted(closure) == \E i \in DOMAIN posted : posted[i] = closure

Connect ==
  /\ is_active
  /\ \/ link \in {"idle", "closed"}
     \/ link = "connected" /\ IsPosted(DISCONNECT)
  /\ ~IsPosted(CONNECT)
  /\ Call(CONNECT)
  /\ UNCHANGED <<io_stopped, writeVars, readVars, linkVars, stateVars, peerVars>>

Send(m) ==
  /\ Call(m)
  /\ UNCHANGED <<io_stopped, writeVars, readVars, linkVars, stateVars, peerVars>>

Disconnect ==
  /\ Call(DISCONNECT)
  /\ UNCHANGED <<io_stopped, writeVars, readVars, linkVars, stateVars, peerVars>>

Stop ==
  /\ Call(DISCONNECT)
  /\ io_stopped' = TRUE
  /\ UNCHANGED <<writeVars, readVars, linkVars, stateVars, peerVars>>

-----------------------------------------------------------------------------
(* Connecting.                                                             *)

\* The closure of connect().
RunConnect ==
  /\ Runs(CONNECT)
  /\ posted' = Tail(posted)
  /\ link' = IF is_active THEN "resolving" ELSE link
  /\ UNCHANGED <<calls, endpoints, writeVars, readVars, stateVars, peerVars>>
  /\ EndOfHandler

\* on_disconnect_handler_ of a connection that never came up may try again.
ConnectionFailed ==
  /\ disconnects' = disconnects + 1
  /\ \/ UNCHANGED <<posted, calls>>
     \/ Call(CONNECT)

\* The completion handler of async_resolve.  The handler of a read that an
\* earlier disconnect() aborted was queued before it.  async_connect begins
\* by closing the socket, which a refused connection may have left open.
OnResolve ==
  /\ ~io_stopped /\ link = "resolving" /\ read.phase = "none"
  /\ \/ /\ ~is_active
        /\ link' = "idle"
        /\ UNCHANGED <<posted, calls, endpoints, disconnects, socket_open, writes>>
     \/ /\ is_active
        /\ link' = "idle" /\ ConnectionFailed
        /\ UNCHANGED <<endpoints, socket_open, writes>>
     \/ /\ is_active
        /\ link' = "connecting" /\ socket_open' = TRUE
        /\ writes' = AllAborted(writes)
        /\ endpoints' \in 0 .. MaxEndpoints - 1
        /\ UNCHANGED <<posted, calls, disconnects>>
  /\ UNCHANGED <<is_active, write_queue, outbound, accepted, write_failed,
                 readVars, peerVars>>
  /\ EndOfHandler

Establish ==
  /\ link = "connecting"
  /\ link' = "established"
  /\ UNCHANGED <<posted, io_stopped, calls, endpoints, writeVars, readVars,
                 stateVars, peerVars>>

\* An endpoint refuses; async_connect closes the socket and opens it again
\* for the next one, or gives up and leaves it open.
EndpointRefuses ==
  /\ ~io_stopped /\ link = "connecting"
  /\ IF endpoints > 0
     THEN /\ endpoints' = endpoints - 1
          /\ writes' = AllAborted(writes)
          /\ UNCHANGED link
     ELSE link' = "refused" /\ UNCHANGED <<endpoints, writes>>
  /\ UNCHANGED <<posted, io_stopped, calls, write_queue, outbound, accepted,
                 write_failed, readVars, stateVars, peerVars>>

\* The completion handler of async_connect.
OnConnect ==
  /\ ~io_stopped /\ link \in {"established", "refused"}
  /\ \/ /\ link = "established"
        /\ link' = "connected"
        /\ read' = IF is_active THEN AsyncRead(HeaderRead) ELSE read
        /\ UNCHANGED <<posted, calls, disconnects>>
     \/ /\ link = "refused"
        /\ link' = "idle"
        /\ IF is_active THEN ConnectionFailed
                        ELSE UNCHANGED <<posted, calls, disconnects>>
        /\ UNCHANGED read
  /\ UNCHANGED <<endpoints, writeVars, torn, taken, received,
                 is_active, socket_open, peerVars>>
  /\ EndOfHandler

-----------------------------------------------------------------------------
(* Writing.                                                                *)

\* Before the connection is up the kernel takes nothing, so such a write is
\* always finished later, from freed memory; on a socket that is closed, or
\* left open by a refused connection, it fails.
AsyncWrite(m, ops) ==
  LET Started(s) == writes' = Append(ops, [data |-> m, state |-> s])
      Up == link \in {"established", "connected"} IN
  \/ socket_open /\ Up /\ Started("done") /\ outbound' = Append(outbound, m)
  \/ socket_open /\ (Up \/ link = "connecting") /\ Started("pending") /\ UNCHANGED outbound
  \/ ~(socket_open /\ (Up \/ link = "connecting")) /\ Started("failed") /\ UNCHANGED outbound

DoWrite(queue, ops) ==
  IF queue = <<>> THEN writes' = ops /\ UNCHANGED outbound
                  ELSE AsyncWrite(Head(queue), ops)

\* Wrong on purpose: start a write for every closure.
AlwaysStart == TRUE

ShouldStart == write_queue = <<>>

Accepts == is_active /\ socket_open

\* The closure of send(m).
RunSend ==
  /\ \E m \in Msgs : Runs(m)
  /\ posted' = Tail(posted)
  /\ IF Accepts
     THEN LET queue == Append(write_queue, Head(posted)) IN
          /\ write_queue' = queue
          /\ accepted' = Append(accepted, Head(posted))
          /\ IF ShouldStart THEN DoWrite(queue, writes) ELSE UNCHANGED <<writes, outbound>>
          /\ UNCHANGED write_failed
     ELSE UNCHANGED writeVars
  /\ UNCHANGED <<calls, readVars, linkVars, stateVars, peerVars>>
  /\ EndOfHandler

WriteCompletes ==
  \E i \in DOMAIN writes :
    /\ link \in {"established", "connected"}
    /\ ~Finished(writes[i])
    /\ writes' = [writes EXCEPT ![i].state = "done"]
    /\ \E f \in LateBytes(writes[i].data) : outbound' = Append(outbound, f)
    /\ UNCHANGED <<posted, io_stopped, calls, write_queue, accepted, write_failed,
                   readVars, linkVars, stateVars, peerVars>>

\* The peer is gone, or the endpoint the write waited for has refused.
WriteFails ==
  \E i \in DOMAIN writes :
    /\ ~Finished(writes[i])
    /\ peer_closed \/ link \in {"refused", "idle", "resolving"}
    /\ writes' = [writes EXCEPT ![i].state = "failed"]
    /\ UNCHANGED <<posted, io_stopped, calls, write_queue, outbound, accepted,
                   write_failed, readVars, linkVars, stateVars, peerVars>>

\* Wrong on purpose: the frame is left in the queue it was sent from.
KeepFront(queue) == queue

PopFront(queue) == Tail(queue)

\* Wrong on purpose: after a frame is written, nothing continues.
StopAfterWrite(queue, ops) == writes' = ops /\ UNCHANGED outbound

ContinueWriting(queue, ops) == DoWrite(queue, ops)

\* The completion handler of async_write.  An error closes the socket and
\* leaves is_active_ and the queue as they are.
OnWrite ==
  /\ ~io_stopped /\ writes # <<>> /\ Finished(Head(writes))
  /\ \/ /\ ~is_active
        /\ writes' = Tail(writes)
        /\ UNCHANGED <<write_queue, outbound, write_failed, socket_open, read, link>>
     \/ /\ is_active /\ Head(writes).state = "done"
        /\ write_queue' = PopFront(write_queue)
        /\ ContinueWriting(write_queue', Tail(writes))
        /\ UNCHANGED <<write_failed, socket_open, read, link>>
     \/ /\ is_active /\ Head(writes).state = "failed"
        /\ CloseSocket(Tail(writes))
        /\ write_failed' = TRUE
        /\ UNCHANGED <<write_queue, outbound>>
  /\ UNCHANGED <<posted, calls, accepted, torn, taken, received, endpoints,
                 is_active, disconnects, peerVars>>
  /\ EndOfHandler

-----------------------------------------------------------------------------
(* Reading: a length, then a body of that length.                          *)

\* The next length arrives: that of the next frame or, once the framing is
\* lost, four bytes from anywhere in what has not been read, the rest of a
\* frame already begun included.
HeaderArrives ==
  /\ read = HeaderRead
  /\ taken < Len(inbound)
  /\ torn => Len(received) < MaxReceived
  /\ read' = [read EXCEPT !.state = "done"]
  /\ torn' = (torn \/ inbound[taken + 1] = Torn)
  /\ UNCHANGED <<posted, io_stopped, calls, taken, received,
                 writeVars, linkVars, stateVars, peerVars>>

\* The body arrives.  Once the framing is lost it ends anywhere in what
\* follows, or never; a zero or a short length ends inside the same frame.
BodyArrives ==
  /\ read = BodyRead
  /\ taken' \in IF torn THEN taken .. Len(inbound) ELSE {taken + 1}
  /\ read' = [read EXCEPT !.state = "done"]
  /\ UNCHANGED <<posted, io_stopped, calls, torn, received, writeVars, linkVars,
                 stateVars, peerVars>>

ReadFails ==
  /\ ~Finished(read) /\ peer_closed
  /\ read' = [read EXCEPT !.state = "failed"]
  /\ UNCHANGED <<posted, io_stopped, calls, torn, taken, received,
                 writeVars, linkVars, stateVars, peerVars>>

\* Wrong on purpose: what follows a wrong length is taken for a frame.
LastFrame == IF taken = 0 THEN Garbled ELSE inbound[taken]

\* What a finished body read left in message_buffer_: the last frame taken
\* and, once the framing is lost, bytes of which nothing is promised.
MessageBuffer == IF torn THEN Garbled ELSE inbound[taken]

\* The completion handlers of the two async_reads.
OnRead ==
  /\ ~io_stopped /\ read.phase # "none" /\ Finished(read)
  /\ \/ /\ read.state = "failed" \/ ~is_active
        /\ read' = NoRead
        /\ is_active' = FALSE
        /\ disconnects' = disconnects + 1
        /\ UNCHANGED received
     \/ /\ read.state = "done" /\ is_active
        /\ \/ /\ read.phase = "header"
              /\ read' = AsyncRead(BodyRead)
              /\ UNCHANGED received
           \/ /\ read.phase = "body"
              /\ received' = Append(received, MessageBuffer)
              /\ read' = AsyncRead(HeaderRead)
        /\ UNCHANGED <<is_active, disconnects>>
  /\ UNCHANGED <<posted, calls, torn, taken, socket_open, writeVars,
                 linkVars, peerVars>>
  /\ EndOfHandler

-----------------------------------------------------------------------------
\* The closure of disconnect().
RunDisconnect ==
  /\ Runs(DISCONNECT)
  /\ posted' = Tail(posted)
  /\ IF socket_open THEN CloseSocket(writes)
                    ELSE UNCHANGED <<socket_open, writes, read, link>>
  /\ UNCHANGED <<calls, write_queue, outbound, accepted, write_failed, 
                 torn, taken, received, endpoints, is_active, disconnects, peerVars>>
  /\ EndOfHandler

-----------------------------------------------------------------------------
(* The peer, as far as this end can tell.                                  *)

PeerSends(f) ==
  /\ ~peer_closed /\ link \in {"established", "connected"}
  /\ Len(inbound) < MaxPeer
  /\ inbound' = Append(inbound, f)
  /\ UNCHANGED <<posted, io_stopped, calls, writeVars, readVars, linkVars, stateVars,
                 peer_closed>>

PeerCloses ==
  /\ ~peer_closed /\ link \in {"established", "connected"}
  /\ peer_closed' = TRUE
  /\ UNCHANGED <<posted, io_stopped, calls, writeVars, readVars, linkVars, stateVars,
                 inbound>>

-----------------------------------------------------------------------------
Application == Connect \/ Disconnect \/ Stop \/ \E m \in Msgs : Send(m)
Kernel      == Establish \/ EndpointRefuses \/ WriteCompletes \/ WriteFails
               \/ HeaderArrives \/ BodyArrives \/ ReadFails
Handlers    == RunConnect \/ RunSend \/ RunDisconnect \/ OnResolve \/ OnConnect
               \/ OnWrite \/ OnRead \/ PollIdle
Peer        == PeerCloses \/ \E f \in Frames : PeerSends(f)

Next == Application \/ Kernel \/ Handlers \/ Peer

Spec == Init /\ [][Next]_vars

(***************************************************************************)
(* The program polls the io_context while it runs; a resolver answers; an  *)
(* attempt to connect succeeds or fails; a started write finishes or, once *)
(* its connection is gone, fails.                                          *)
(***************************************************************************)
Fairness ==
  /\ WF_vars(RunConnect) /\ WF_vars(RunSend) /\ WF_vars(RunDisconnect)
  /\ WF_vars(OnResolve) /\ WF_vars(OnConnect) /\ WF_vars(OnWrite) /\ WF_vars(OnRead)
  /\ WF_vars(Establish \/ EndpointRefuses)
  /\ WF_vars(WriteCompletes \/ WriteFails)

FairSpec == Spec /\ Fairness

-----------------------------------------------------------------------------
(* Properties.                                                             *)

\* Never two async_writes at once on one socket.  The client has no flag for
\* it: only a front frame left in write_queue_ until its handler ran.
SingleWrite == Len(writes) <= 1

\* What is still queued while no write is under way was left there by a
\* write that failed: the client stalls in no other way.
StallsOnlyAfterFailure ==
  (is_active /\ write_queue # <<>> /\ writes = <<>>) => write_failed

\* What is queued is written, or the client has lost the connection for good:
\* a read error, a failed write or a stopped io_context.  A write started
\* while connecting is no exception.
QueueSettles ==
  (write_queue # <<>>)
    ~> (write_queue = <<>> \/ ~is_active \/ write_failed \/ io_stopped)
=============================================================================
