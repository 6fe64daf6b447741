---------------------------- MODULE AsioSession -----------------------------
(***************************************************************************)
(* One server-side connection, network::AsioSession.  Every method the     *)
(* application calls only posts a closure to the io_context; the closures  *)
(* and the completion handlers of the session's reads and writes run one   *)
(* at a time on the thread that polls the io_context.  Posted closures run *)
(* in the order they were posted; when a completion is run between them    *)
(* depends on the kernel.                                                  *)
(***************************************************************************)
EXTENDS AsioSocket

CONSTANTS
  CLOSE,       (* the closure close() posts; send(m) posts the closure m  *)
  MaxCalls,    (* bound: calls of send and close by the application       *)
  MaxPeer,     (* bound: frames the peer sends                            *)
  MaxReceived  (* bound: messages after which no further length is read   *)
               (* from a stream that lost its framing                     *)

ASSUME SessionAssumption ==
  /\ CLOSE \notin Msgs
  /\ MaxCalls \in Nat
  /\ MaxPeer \in Nat
  /\ MaxReceived \in Nat

VARIABLES
  posted,         (* closures posted and not yet run                      *)
  is_active,
  socket_open,    (* socket_.is_open()                                    *)
  write_queue,    (* write_queue_, a frame is the message in it           *)
  is_writing,
  writes,         (* started async_write operations not yet handled       *)
  read,           (* the started async_read                               *)
  torn,           (* message_size_ came from a Torn frame: framing lost   *)
  taken,          (* frames of inbound read to their end                  *)
  inbound,        (* every frame the peer put on the wire                 *)
  outbound,       (* every frame this end put on the wire                 *)
  peer_closed,    (* the peer closed or reset the connection              *)
  calls,          (* calls of send and close so far                       *)
  accepted,       (* history: messages ever pushed to write_queue_        *)
  received,       (* history: arguments of on_message_handler_            *)
  disconnects     (* history: calls of on_disconnect_handler_             *)

writeVars == <<write_queue, is_writing, writes, outbound, accepted>>
readVars  == <<read, torn, taken, received>>
stateVars == <<is_active, socket_open, disconnects>>
peerVars  == <<inbound, peer_closed>>
vars == <<posted, calls, writeVars, readVars, stateVars, peerVars>>

CallTypeOK == posted \in Seq(Msgs \cup {CLOSE}) /\ calls \in Nat /\ disconnects \in Nat
WriteTypeOK ==
  /\ write_queue \in Seq(Msgs)
  /\ writes \in Seq(WriteOps)
  /\ outbound \in Seq(Frames)
  /\ accepted \in Seq(Msgs)
ReadTypeOK ==
  /\ read \in ReadOps
  /\ taken \in Nat
  /\ inbound \in Seq(Frames)
  /\ received \in Seq(Msgs \cup {Garbled})
FlagTypeOK ==
  /\ is_active \in BOOLEAN
  /\ socket_open \in BOOLEAN
  /\ is_writing \in BOOLEAN
  /\ torn \in BOOLEAN
  /\ peer_closed \in BOOLEAN

TypeOK == CallTypeOK /\ WriteTypeOK /\ ReadTypeOK /\ FlagTypeOK

\* A session as doAccept leaves it: connected, its first read started.
Init ==
  /\ posted = <<>>
  /\ is_active = TRUE
  /\ socket_open = TRUE
  /\ write_queue = <<>>
  /\ is_writing = FALSE
  /\ writes = <<>>
  /\ read = HeaderRead
  /\ torn = FALSE
  /\ taken = 0
  /\ inbound = <<>>
  /\ outbound = <<>>
  /\ peer_closed = FALSE
  /\ calls = 0
  /\ accepted = <<>>
  /\ received = <<>>
  /\ disconnects = 0

-----------------------------------------------------------------------------
(* What the application calls.                                             *)

Send(m) ==
  /\ calls < MaxCalls
  /\ calls' = calls + 1
  /\ posted' = Append(posted, m)
  /\ UNCHANGED <<writeVars, readVars, stateVars, peerVars>>

Close ==
  /\ calls < MaxCalls
  /\ calls' = calls + 1
  /\ posted' = Append(posted, CLOSE)
  /\ UNCHANGED <<writeVars, readVars, stateVars, peerVars>>

\* on_disconnect_handler_ runs.  The handler doAccept installs calls close();
\* one the application installs in its place need not.  rest: what is left
\* of the posted closures.
Disconnected(rest) ==
  /\ disconnects' = disconnects + 1
  /\ posted' \in {rest, Append(rest, CLOSE)}

-----------------------------------------------------------------------------
(* Writing.                                                                *)

\* async_write tries the kernel at once, while the buffer still exists;
\* what the kernel does not take then is left for later.  ops: the
\* operations already started.
AsyncWrite(m, ops) ==
  \/ /\ writes' = Append(ops, [data |-> m, state |-> "done"])
     /\ outbound' = Append(outbound, m)
  \/ /\ writes' = Append(ops, [data |-> m, state |-> "pending"])
     /\ UNCHANGED outbound

NothingToWrite(queue) == ~is_active \/ queue = <<>>

DoWrite(queue, ops) ==
  IF NothingToWrite(queue)
  THEN is_writing' = FALSE /\ writes' = ops /\ UNCHANGED outbound
  ELSE is_writing' = TRUE /\ AsyncWrite(Head(queue), ops)

\* Wrong on purpose: start a write for every closure.
AlwaysStart == TRUE

ShouldStart == write_queue = <<>> /\ ~is_writing

\* Wrong on purpose: the closure does not look at is_active_.
AcceptsWhileOpen == socket_open

Accepts == is_active /\ socket_open

\* The closure of send(m).
RunSend ==
  /\ posted # <<>> /\ Head(posted) # CLOSE
  /\ posted' = Tail(posted)
  /\ IF Accepts
     THEN LET queue == Append(write_queue, Head(posted)) IN
          /\ write_queue' = queue
          /\ accepted' = Append(accepted, Head(posted))
          /\ IF ShouldStart THEN DoWrite(queue, writes)
                            ELSE UNCHANGED <<is_writing, writes, outbound>>
     ELSE UNCHANGED writeVars
  /\ UNCHANGED <<calls, readVars, stateVars, peerVars>>

\* The kernel takes the rest of a frame, from memory the session has freed.
WriteCompletes ==
  \E i \in DOMAIN writes :
    /\ ~Finished(writes[i])
    /\ writes' = [writes EXCEPT ![i].state = "done"]
    /\ \E f \in LateBytes(writes[i].data) : outbound' = Append(outbound, f)
    /\ UNCHANGED <<posted, calls, write_queue, is_writing, accepted,
                   readVars, stateVars, peerVars>>

WriteFails ==
  \E i \in DOMAIN writes :
    /\ ~Finished(writes[i]) /\ peer_closed
    /\ writes' = [writes EXCEPT ![i].state = "failed"]
    /\ UNCHANGED <<posted, calls, write_queue, is_writing, accepted, outbound,
                   readVars, stateVars, peerVars>>

\* Wrong on purpose: the frame is left in the queue it was sent from.
KeepFront(queue) == queue

PopFront(queue) == Tail(queue)

\* Wrong on purpose: after a frame is written, nothing continues.
StopAfterWrite(queue, ops) ==
  is_writing' = FALSE /\ writes' = ops /\ UNCHANGED outbound

ContinueWriting(queue, ops) == DoWrite(queue, ops)

\* The completion handler of async_write.
OnWrite ==
  /\ writes # <<>> /\ Finished(Head(writes))
  /\ \/ /\ ~is_active
        /\ writes' = Tail(writes)
        /\ UNCHANGED <<posted, write_queue, is_writing, outbound>>
     \/ /\ is_active /\ Head(writes).state = "done"
        /\ write_queue' = PopFront(write_queue)
        /\ ContinueWriting(write_queue', Tail(writes))
        /\ UNCHANGED posted
     \/ /\ is_active /\ Head(writes).state = "failed"
        /\ writes' = Tail(writes)
        /\ posted' = Append(posted, CLOSE)
        /\ UNCHANGED <<write_queue, is_writing, outbound>>
  /\ UNCHANGED <<calls, accepted, readVars, stateVars, peerVars>>

-----------------------------------------------------------------------------
(* Reading: a length, then a body of that length.                          *)

\* The next length arrives: that of the next frame or, once the framing is
\* lost, four bytes from anywhere in what has not been read, the rest of a
\* frame already begun included.
HeaderArrives ==
  /\ read = HeaderRead
  /\ taken < Len(inbound)
  /\ torn => Len(received) < MaxReceived
  /\ read' = [read EXCEPT !.state = "done"]
  /\ torn' = (torn \/ inbound[taken + 1] = Torn)
  /\ UNCHANGED <<posted, calls, taken, received,
                 writeVars, stateVars, peerVars>>

\* The body arrives.  Once the framing is lost a body ends anywhere in the
\* bytes that follow, or never: a zero or a short length ends inside the
\* frame it was read from, whose rest gives further lengths and messages.
BodyArrives ==
  /\ read = BodyRead
  /\ taken' \in IF torn THEN taken .. Len(inbound) ELSE {taken + 1}
  /\ read' = [read EXCEPT !.state = "done"]
  /\ UNCHANGED <<posted, calls, torn, received, writeVars, stateVars, peerVars>>

ReadFails ==
  /\ ~Finished(read) /\ peer_closed
  /\ read' = [read EXCEPT !.state = "failed"]
  /\ UNCHANGED <<posted, calls, torn, taken, received,
                 writeVars, stateVars, peerVars>>

\* Wrong on purpose: what follows a wrong length is taken for a frame.
LastFrame == IF taken = 0 THEN Garbled ELSE inbound[taken]

\* What a finished body read left in message_buffer_: the last frame taken
\* and, once the framing is lost, bytes of which nothing is promised.
MessageBuffer == IF torn THEN Garbled ELSE inbound[taken]

\* Wrong on purpose: only the error code is looked at.
RefusesErrors == read.state = "failed"

ReadRefused == read.state = "failed" \/ ~is_active

HandleReadError ==
  /\ read' = NoRead
  /\ is_active' = FALSE
  /\ Disconnected(posted)
  /\ UNCHANGED <<received, socket_open>>

\* The completion handlers of the two async_reads; startReading starts the
\* next one.
OnRead ==
  /\ read.phase # "none" /\ Finished(read)
  /\ \/ ReadRefused /\ HandleReadError
     \/ /\ ~ReadRefused
        /\ \/ read.phase = "header" /\ read' = BodyRead /\ UNCHANGED received
           \/ /\ read.phase = "body"
              /\ received' = Append(received, MessageBuffer)
              /\ read' = HeaderRead
        /\ UNCHANGED <<posted, stateVars>>
  /\ UNCHANGED <<calls, torn, taken, writeVars, peerVars>>

-----------------------------------------------------------------------------
(* Closing.                                                                *)

\* Wrong on purpose: a close is carried out however often it is posted.
CloseAlways == TRUE

\* Wrong on purpose: the guard of close() is the wrong way round.
CloseWhenInactive == ~is_active

CloseApplies == is_active

\* The closure of close().
RunClose ==
  /\ posted # <<>> /\ Head(posted) = CLOSE
  /\ IF CloseApplies
     THEN /\ is_active' = FALSE
          /\ Disconnected(Tail(posted))
          /\ socket_open' = FALSE
          /\ writes' = AllAborted(writes)
          /\ read' = Aborted(read)
     ELSE /\ posted' = Tail(posted)
          /\ UNCHANGED <<stateVars, writes, read>>
  /\ UNCHANGED <<calls, write_queue, is_writing, outbound, accepted,
                 torn, taken, received, peerVars>>

-----------------------------------------------------------------------------
(* The peer, as far as this end can tell.                                  *)

PeerSends(f) ==
  /\ ~peer_closed
  /\ Len(inbound) < MaxPeer
  /\ inbound' = Append(inbound, f)
  /\ UNCHANGED <<posted, calls, writeVars, readVars, stateVars, peer_closed>>

PeerCloses ==
  /\ ~peer_closed
  /\ peer_closed' = TRUE
  /\ UNCHANGED <<posted, calls, writeVars, readVars, stateVars, inbound>>

-----------------------------------------------------------------------------
Application == Close \/ \E m \in Msgs : Send(m)
Kernel      == WriteCompletes \/ WriteFails \/ HeaderArrives \/ BodyArrives \/ ReadFails
Handlers    == RunSend \/ RunClose \/ OnWrite \/ OnRead
Peer        == PeerCloses \/ \E f \in Frames : PeerSends(f)

Next == Application \/ Kernel \/ Handlers \/ Peer

Spec == Init /\ [][Next]_vars

(***************************************************************************)
(* The program polls the io_context for as long as it runs, so a posted    *)
(* closure and a finished operation are handled; a connected peer that     *)
(* keeps reading lets a started write finish.  Nothing is assumed of the   *)
(* application or of what the peer sends.                                  *)
(***************************************************************************)
Fairness ==
  /\ WF_vars(RunSend) /\ WF_vars(RunClose)
  /\ WF_vars(OnWrite) /\ WF_vars(OnRead)
  /\ WF_vars(WriteCompletes \/ WriteFails)

FairSpec == Spec /\ Fairness

-----------------------------------------------------------------------------
(* Properties.                                                             *)

\* Never two async_writes at once on one socket: asio would interleave the
\* bytes of their frames.  Nothing but the write queue prevents it.
SingleWrite == Len(writes) <= 1

\* 1 when the front of write_queue_ is on the wire already and only the
\* handler that will pop it has not run.
FrontOnTheWire == IF writes # <<>> /\ Head(writes).state = "done" THEN 1 ELSE 0

\* The wire carries the accepted messages in the order of the send calls,
\* each once: the frame at each place is that message (or what its freed
\* buffer became), and while the session is active every accepted message
\* is on the wire or still queued.
WireInOrder ==
  /\ Len(outbound) <= Len(accepted)
  /\ \A i \in DOMAIN outbound : outbound[i] \in LateBytes(accepted[i])
  /\ is_active =>
       Len(accepted) = Len(outbound) + Len(write_queue) - FrontOnTheWire

\* on_disconnect tells the application of every deactivation, and at most
\* twice: close() and the read it aborts, or a read error alone, report it.
DisconnectReported ==
  /\ is_active <=> disconnects = 0
  /\ disconnects <= 2

\* After the application was told of the disconnect it is never handed
\* another message, whatever read was already under way.
NoMessageAfterDisconnect ==
  [][disconnects > 0 => received' = received]_vars

\* A deactivated session takes no further message and starts no further
\* write, however many sends were posted before the deactivation (a read
\* error leaves the socket open: is_active_ alone stands in their way).
NoWriteAfterDeactivation ==
  [][~is_active => accepted' = accepted /\ Len(writes') <= Len(writes)]_vars

\* A queued message is written or the session ends; no finished write leaves
\* the queue stalled.
QueueDrains == (write_queue # <<>>) ~> (write_queue = <<>> \/ ~is_active)

\* A close() posted behind sends is not lost: the session ends.
CloseTakesEffect == (\E i \in DOMAIN posted : posted[i] = CLOSE) ~> ~is_active
=============================================================================
