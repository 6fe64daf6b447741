---------------------- MODULE AsioNetworkClientProofs -----------------------
(***************************************************************************)
(* Proofs about AsioNetworkClient, for any messages and any bounds.        *)
(***************************************************************************)
EXTENDS AsioNetworkClient, SequenceTheorems, TLAPS

-----------------------------------------------------------------------------
(* Sequences of operations.                                                *)

LEMMA EmptyLen ==
  ASSUME NEW S, NEW seq \in Seq(S)
  PROVE  seq = <<>> <=> Len(seq) = 0
BY EmptySeq

\* Handling the only operation leaves none.
LEMMA SingleTail ==
  ASSUME NEW S, NEW seq \in Seq(S), seq # <<>>, Len(seq) <= 1
  PROVE  Len(seq) = 1 /\ Tail(seq) = <<>> /\ Tail(seq) \in Seq(S)
<1>1. Len(seq) \in Nat /\ Len(seq) # 0
  BY EmptyLen, LenProperties
<1>2. Len(seq) = 1
  BY <1>1
<1>3. Tail(seq) \in Seq(S) /\ Len(Tail(seq)) = 0
  BY <1>2, HeadTailProperties
<1>4. QED
  BY <1>2, <1>3, EmptyLen

\* Closing the socket keeps every started operation: only results change.
LEMMA AbortedType ==
  ASSUME NEW op \in WriteOps
  PROVE  /\ Aborted(op) \in WriteOps
         /\ Aborted(op).data = op.data
         /\ Aborted(op).state # "pending"
         /\ Aborted(op).state = "done" <=> op.state = "done"
BY DEF Aborted, Finished, WriteOps, OpStates

LEMMA AllAbortedType ==
  ASSUME NEW ops \in Seq(WriteOps)
  PROVE  /\ AllAborted(ops) \in Seq(WriteOps)
         /\ Len(AllAborted(ops)) = Len(ops)
         /\ \A i \in 1 .. Len(ops) : AllAborted(ops)[i] = Aborted(ops[i])
<1>1. /\ Len(ops) \in Nat
      /\ DOMAIN ops = 1 .. Len(ops)
      /\ \A i \in 1 .. Len(ops) : ops[i] \in WriteOps
  OBVIOUS
<1>2. \A i \in 1 .. Len(ops) : Aborted(ops[i]) \in WriteOps
  BY <1>1, AbortedType
<1>3. AllAborted(ops) = [i \in 1 .. Len(ops) |-> Aborted(ops[i])]
  BY <1>1 DEF AllAborted
<1>4. AllAborted(ops) \in [1 .. Len(ops) -> WriteOps]
  BY <1>2, <1>3
<1>5. AllAborted(ops) \in Seq(WriteOps)
  BY <1>1, <1>4, SeqDef
<1>6. Len(AllAborted(ops)) = Len(ops)
  BY <1>1, <1>4, <1>5
<1>7. QED
  BY <1>1, <1>3, <1>5, <1>6

\* An operation that ends leaves the others, and every data, as they were.
LEMMA SetStateType ==
  ASSUME NEW ops \in Seq(WriteOps), NEW i \in DOMAIN ops, NEW s \in OpStates
  PROVE  /\ [ops EXCEPT ![i].state = s] \in Seq(WriteOps)
         /\ Len([ops EXCEPT ![i].state = s]) = Len(ops)
         /\ [ops EXCEPT ![i].state = s][i] = [data |-> ops[i].data, state |-> s]
<1>1. i \in 1 .. Len(ops) /\ ops[i] \in WriteOps
  OBVIOUS
<1>2. [ops[i] EXCEPT !.state = s] = [data |-> ops[i].data, state |-> s]
  BY <1>1 DEF WriteOps
<1>3. [ops[i] EXCEPT !.state = s] \in WriteOps
  BY <1>1, <1>2 DEF WriteOps
<1>4. QED
  BY <1>1, <1>2, <1>3, ExceptSeq

-----------------------------------------------------------------------------
(* What a step of Next is, one case for each action.                       *)

LEMMA NextCases ==
  ASSUME Next,
         NEW G,
         Connect => G,
         Disconnect => G,
         Stop => G,
         \A m \in Msgs : Send(m) => G,
         Establish => G,
         EndpointRefuses => G,
         WriteCompletes => G,
         WriteFails => G,
         HeaderArrives => G,
         BodyArrives => G,
         ReadFails => G,
         RunConnect => G,
         RunSend => G,
         RunDisconnect => G,
         OnResolve => G,
         OnConnect => G,
         OnWrite => G,
         OnRead => G,
         PollIdle => G,
         PeerCloses => G,
         \A f \in Frames : PeerSends(f) => G
  PROVE  G
BY Zenon DEF Next, Application, Kernel, Handlers, Peer

-----------------------------------------------------------------------------
(* The inductive invariant.                                                *)

CallType == posted \in Seq(Closures) /\ calls \in Nat

FlagType ==
  /\ io_stopped \in BOOLEAN
  /\ is_active \in BOOLEAN
  /\ socket_open \in BOOLEAN
  /\ torn \in BOOLEAN
  /\ peer_closed \in BOOLEAN
  /\ write_failed \in BOOLEAN
  /\ disconnects \in Nat

LinkType ==
  /\ link \in {"idle", "resolving", "connecting", "established", "refused",
               "connected", "closed"}
  /\ endpoints \in 0 .. MaxEndpoints

WriteType ==
  /\ write_queue \in Seq(Msgs)
  /\ writes \in Seq(WriteOps)
  /\ outbound \in Seq(Frames)
  /\ accepted \in Seq(Msgs)

ReadType ==
  /\ read \in ReadOps
  /\ taken \in Nat
  /\ inbound \in Seq(Frames)
  /\ received \in Seq(Msgs \cup {Garbled})

\* The client has no flag that a write is under way.  What takes its place is
\* the front of the queue, which stays there until its write was handled: an
\* empty queue of an active client means that no write is under way, and a
\* queue that waits for none was left behind by a write that failed.
QueueInv ==
  /\ Len(writes) <= 1
  /\ is_active /\ write_queue = <<>> => writes = <<>>
  /\ is_active /\ write_queue # <<>> /\ writes = <<>> => write_failed

LengthRead == read.phase = "header" /\ read.state = "done"
BodyComing == read.phase = "body" /\ read.state = "pending"
BodyDone   == read.phase = "body" /\ read.state = "done"

\* A reader whose framing is intact never takes the length of a Torn frame.
ReadInv ==
  /\ taken <= Len(inbound)
  /\ LengthRead \/ BodyComing =>
       /\ taken < Len(inbound)
       /\ ~torn => inbound[taken + 1] # Torn
  /\ BodyDone /\ ~torn => taken > 0
  /\ ~torn => \A i \in 1 .. taken : inbound[i] # Torn

ClientInv == CallType /\ FlagType /\ LinkType /\ WriteType /\ ReadType /\ QueueInv /\ ReadInv

LEMMA InvInit == Init => ClientInv
<1> SUFFICES ASSUME Init PROVE ClientInv
  OBVIOUS
<1>1. CallType
  BY DEF Init, CallType
<1>7. FlagType
  BY DEF Init, FlagType
<1>2. LinkType
  BY ClientAssumption DEF Init, LinkType
<1>3. WriteType /\ QueueInv
  BY DEF Init, WriteType, QueueInv
<1>4. ReadType
  BY DEF Init, ReadType, ReadOps, OpStates, NoRead
<1>5. ReadInv
  BY DEF Init, ReadInv, LengthRead, BodyComing, BodyDone, NoRead
<1>6. QED
  BY <1>1, <1>2, <1>3, <1>4, <1>5, <1>7 DEF ClientInv

-----------------------------------------------------------------------------
(* What the steps have in common.                                          *)

LEMMA Posts ==
  ASSUME CallType, NEW c \in Closures, Call(c)
  PROVE  CallType'
BY AppendProperties DEF Call, CallType

LEMMA RunsPosted ==
  ASSUME CallType, posted # <<>>, posted' = Tail(posted), calls' = calls
  PROVE  CallType'
BY DEF CallType

LEMMA HandlerEnds ==
  ASSUME EndOfHandler
  PROVE  io_stopped' \in BOOLEAN
BY DEF EndOfHandler, NoWork

\* What a step that leaves the variables of a group alone preserves.
LEMMA WriteFrame ==
  ASSUME WriteType, QueueInv, UNCHANGED writeVars, is_active' => is_active
  PROVE  WriteType' /\ QueueInv'
BY DEF WriteType, QueueInv, writeVars

LEMMA ReadFrame ==
  ASSUME ReadType, ReadInv, UNCHANGED <<readVars, inbound>>
  PROVE  ReadType' /\ ReadInv'
<1>1. ReadType'
  BY DEF ReadType, readVars
<1>2. ReadInv'
  BY DEF ReadInv, LengthRead, BodyComing, BodyDone, readVars
<1>3. QED
  BY <1>1, <1>2

\* A socket that closes changes results of writes, not how many there are.
LEMMA AbortFrame ==
  ASSUME WriteType, QueueInv, writes' = AllAborted(writes),
         UNCHANGED <<write_queue, outbound, accepted, write_failed, is_active>>
  PROVE  WriteType' /\ QueueInv'
<1>1. writes' \in Seq(WriteOps) /\ Len(writes') = Len(writes)
  BY AllAbortedType DEF WriteType
<1>2. writes' = <<>> <=> writes = <<>>
  BY <1>1, EmptyLen DEF WriteType
<1>3. QED
  BY <1>1, <1>2 DEF WriteType, QueueInv

LEMMA AbortReadFrame ==
  ASSUME ReadType, ReadInv, read' = Aborted(read), UNCHANGED <<torn, taken, received, inbound>>
  PROVE  ReadType' /\ ReadInv'
<1>1. ReadType'
  BY DEF ReadType, Aborted, Finished, ReadOps, OpStates
<1>2. ReadInv'
  BY DEF ReadType, ReadInv, LengthRead, BodyComing, BodyDone, Aborted, Finished, ReadOps, OpStates
<1>3. QED
  BY <1>1, <1>2

LEMMA CloseLink ==
  ASSUME LinkType, NEW ops, CloseSocket(ops), endpoints' = endpoints
  PROVE  LinkType'
BY DEF LinkType, CloseSocket

LEMMA AsyncReadType ==
  ASSUME NEW op \in {HeaderRead, BodyRead}
  PROVE  /\ AsyncRead(op) \in ReadOps
         /\ AsyncRead(op).phase = op.phase
         /\ AsyncRead(op).state \in {"pending", "failed"}
BY DEF AsyncRead, HeaderRead, BodyRead, ReadOps, OpStates

LEMMA BufferType ==
  ASSUME FlagType, ReadType, ReadInv, BodyDone
  PROVE  MessageBuffer \in Msgs \cup {Garbled}
<1>1. CASE torn
  BY <1>1 DEF MessageBuffer
<1>2. CASE ~torn
  <2>1. taken \in 1 .. Len(inbound) /\ taken \in 1 .. taken
    BY <1>2 DEF ReadType, ReadInv
  <2>2. inbound[taken] \in Frames /\ inbound[taken] # Torn
    BY <1>2, <2>1 DEF ReadType, ReadInv
  <2>3. QED
    BY <1>2, <2>2 DEF MessageBuffer, Frames
<1>3. QED
  BY <1>1, <1>2

\* With nothing under way, DoWrite starts a write if there is one to start.
LEMMA DoWriteCases ==
  ASSUME NEW queue \in Seq(Msgs), NEW ops \in Seq(WriteOps), ops = <<>>,
         outbound \in Seq(Frames), DoWrite(queue, ops)
  PROVE  /\ writes' \in Seq(WriteOps)
         /\ outbound' \in Seq(Frames)
         /\ Len(writes') <= 1
         /\ writes' = <<>> <=> queue = <<>>
<1>1. CASE queue = <<>>
  <2>1. writes' = ops /\ UNCHANGED outbound
    BY <1>1 DEF DoWrite
  <2>2. Len(ops) = 0
    BY EmptyLen
  <2>3. QED
    BY <1>1, <2>1, <2>2
<1>2. CASE queue # <<>>
  <2>1. Head(queue) \in Msgs /\ AsyncWrite(Head(queue), ops)
    BY <1>2 DEF DoWrite
  <2>2. PICK s \in OpStates : writes' = Append(ops, [data |-> Head(queue), state |-> s])
    BY <2>1 DEF AsyncWrite, OpStates
  <2>3. [data |-> Head(queue), state |-> s] \in WriteOps
    BY <2>1, <2>2 DEF WriteOps
  <2>4. writes' \in Seq(WriteOps) /\ Len(writes') = Len(ops) + 1 /\ writes' # <<>>
    BY <2>2, <2>3, AppendProperties
  <2>5. Len(ops) = 0
    BY EmptyLen
  <2>6. /\ outbound' = outbound \/ outbound' = Append(outbound, Head(queue))
        /\ Head(queue) \in Frames
    BY <2>1 DEF AsyncWrite, Frames
  <2>7. outbound' \in Seq(Frames)
    BY <2>6
  <2>8. QED
    BY <1>2, <2>4, <2>5, <2>7
<1>3. QED
  BY <1>1, <1>2

-----------------------------------------------------------------------------
(* Every step keeps the invariant.                                         *)

LEMMA InvStep ==
  ASSUME ClientInv, [Next]_vars
  PROVE  ClientInv'
<1> USE ClientAssumption, FramesAreDistinct DEF ClientInv
<1> DEFINE Quiet == UNCHANGED <<writeVars, readVars, linkVars, stateVars, peerVars>>
\* Steps that only post, or run what was posted for nothing.
<1>1. ASSUME CallType', Quiet, io_stopped' \in BOOLEAN PROVE ClientInv'
  <2>1. WriteType' /\ QueueInv'
    BY <1>1, WriteFrame DEF stateVars
  <2>2. ReadType' /\ ReadInv'
    BY <1>1, ReadFrame DEF peerVars
  <2>3. FlagType'
    BY <1>1 DEF FlagType, stateVars, readVars, peerVars, writeVars
  <2>4. LinkType'
    BY <1>1 DEF LinkType, linkVars
  <2>5. QED
    BY <1>1, <2>1, <2>2, <2>3, <2>4
<1>2. CASE Connect
  <2>1. Call(CONNECT) /\ Quiet /\ io_stopped' = io_stopped /\ CONNECT \in Closures
    BY <1>2 DEF Connect, Closures
  <2>2. QED
    BY <1>1, <2>1, Posts DEF FlagType
<1>3. CASE Disconnect
  <2>1. Call(DISCONNECT) /\ Quiet /\ io_stopped' = io_stopped /\ DISCONNECT \in Closures
    BY <1>3 DEF Disconnect, Closures
  <2>2. QED
    BY <1>1, <2>1, Posts DEF FlagType
<1>4. CASE Stop
  <2>1. Call(DISCONNECT) /\ Quiet /\ io_stopped' = TRUE /\ DISCONNECT \in Closures
    BY <1>4 DEF Stop, Closures
  <2>2. QED
    BY <1>1, <2>1, Posts DEF FlagType
<1>5. ASSUME NEW m \in Msgs, Send(m) PROVE ClientInv'
  <2>1. Call(m) /\ Quiet /\ io_stopped' = io_stopped /\ m \in Closures
    BY <1>5 DEF Send, Closures
  <2>2. QED
    BY <1>1, <2>1, Posts DEF FlagType
<1>6. CASE Establish
  <2>1. /\ link' = "established"
        /\ UNCHANGED <<posted, io_stopped, calls, endpoints, writeVars, readVars, stateVars,
                       peerVars>>
    BY <1>6 DEF Establish
  <2>2. WriteType' /\ QueueInv'
    BY <2>1, WriteFrame DEF stateVars
  <2>3. ReadType' /\ ReadInv'
    BY <2>1, ReadFrame DEF peerVars
  <2>4. FlagType'
    BY <2>1 DEF FlagType, stateVars, readVars, peerVars, writeVars
  <2>5. LinkType' /\ CallType'
    BY <2>1 DEF LinkType, CallType
  <2>6. QED
    BY <2>2, <2>3, <2>4, <2>5
<1>7. CASE EndpointRefuses
  <2>1. /\ UNCHANGED <<posted, io_stopped, calls, write_queue, outbound, accepted,
                       write_failed, readVars, stateVars, peerVars>>
        /\ \/ /\ endpoints > 0 /\ endpoints' = endpoints - 1
              /\ writes' = AllAborted(writes) /\ UNCHANGED link
           \/ link' = "refused" /\ UNCHANGED <<endpoints, writes>>
    BY <1>7 DEF EndpointRefuses
  <2>2. WriteType' /\ QueueInv'
    BY <2>1, AbortFrame, WriteFrame DEF stateVars, writeVars
  <2>3. ReadType' /\ ReadInv'
    BY <2>1, ReadFrame DEF peerVars
  <2>4. FlagType'
    BY <2>1 DEF FlagType, stateVars, readVars, peerVars
  <2>5. LinkType' /\ CallType'
    BY <2>1 DEF LinkType, CallType
  <2>6. QED
    BY <2>2, <2>3, <2>4, <2>5
<1>8. ASSUME NEW i \in DOMAIN writes, NEW st \in OpStates,
             writes' = [writes EXCEPT ![i].state = st],
             outbound' \in Seq(Frames),
             UNCHANGED <<posted, io_stopped, calls, write_queue, accepted, write_failed,
                         readVars, linkVars, stateVars, peerVars>>
      PROVE  ClientInv'
  <2>1. writes' \in Seq(WriteOps) /\ Len(writes') = Len(writes)
    <3>1. writes \in Seq(WriteOps)
      BY DEF WriteType
    <3>2. /\ [writes EXCEPT ![i].state = st] \in Seq(WriteOps)
          /\ Len([writes EXCEPT ![i].state = st]) = Len(writes)
      BY <3>1, SetStateType
    <3>3. QED
      BY <1>8, <3>2
  <2>2. writes' = <<>> <=> writes = <<>>
    BY <2>1, EmptyLen DEF WriteType
  <2>3. WriteType' /\ QueueInv'
    BY <1>8, <2>1, <2>2 DEF WriteType, QueueInv, stateVars
  <2>4. ReadType' /\ ReadInv'
    BY <1>8, ReadFrame DEF peerVars
  <2>5. FlagType'
    BY <1>8 DEF FlagType, readVars, stateVars, peerVars
  <2>6. LinkType' /\ CallType'
    BY <1>8 DEF LinkType, CallType, linkVars
  <2>7. QED
    BY <2>3, <2>4, <2>5, <2>6
<1>9. CASE WriteCompletes
  <2>1. PICK i \in DOMAIN writes :
          /\ writes' = [writes EXCEPT ![i].state = "done"]
          /\ \E f \in LateBytes(writes[i].data) : outbound' = Append(outbound, f)
          /\ UNCHANGED <<posted, io_stopped, calls, write_queue, accepted, write_failed,
                         readVars, linkVars, stateVars, peerVars>>
    BY <1>9 DEF WriteCompletes
  <2>2. writes[i] \in WriteOps
    BY DEF WriteType
  <2>3. PICK f \in Frames : outbound' = Append(outbound, f)
    BY <2>1, <2>2 DEF LateBytes, Frames, WriteOps
  <2>4. outbound' \in Seq(Frames)
    BY <2>3 DEF WriteType
  <2>5. QED
    BY <1>8, <2>1, <2>4 DEF OpStates
<1>10. CASE WriteFails
  <2>1. outbound \in Seq(Frames)
    BY DEF WriteType
  <2>2. QED
    BY <1>8, <1>10, <2>1 DEF WriteFails, OpStates
\* Steps of the reader and of the peer.
<1>11. ASSUME UNCHANGED <<posted, io_stopped, calls, writeVars, linkVars, stateVars>>,
              ReadType', ReadInv', torn' \in BOOLEAN, peer_closed' \in BOOLEAN
       PROVE  ClientInv'
  <2>1. WriteType' /\ QueueInv'
    BY <1>11, WriteFrame DEF stateVars
  <2>2. FlagType'
    BY <1>11 DEF FlagType, writeVars, stateVars
  <2>3. LinkType' /\ CallType'
    BY <1>11 DEF LinkType, CallType, linkVars
  <2>4. QED
    BY <1>11, <2>1, <2>2, <2>3
<1>12. CASE HeaderArrives
  <2>1. /\ taken < Len(inbound) /\ read = HeaderRead
        /\ read' = [phase |-> "header", state |-> "done"]
        /\ torn' = (torn \/ inbound[taken + 1] = Torn)
        /\ UNCHANGED <<posted, io_stopped, calls, taken, received, writeVars, linkVars,
                       stateVars, peerVars>>
    BY <1>12 DEF HeaderArrives, HeaderRead
  <2>2. ReadType'
    BY <2>1 DEF ReadType, ReadOps, OpStates, peerVars
  <2>3. ReadInv'
    BY <2>1 DEF ReadType, ReadInv, LengthRead, BodyComing, BodyDone, peerVars
  <2>4. torn' \in BOOLEAN /\ peer_closed' \in BOOLEAN
    BY <2>1 DEF FlagType, peerVars
  <2>5. QED
    BY <1>11, <2>1, <2>2, <2>3, <2>4
<1>13. CASE BodyArrives
  <2>1. /\ read = BodyRead /\ read' = [phase |-> "body", state |-> "done"]
        /\ taken' \in IF torn THEN taken .. Len(inbound) ELSE {taken + 1}
        /\ UNCHANGED <<posted, io_stopped, calls, torn, received, writeVars, linkVars,
                       stateVars, peerVars>>
    BY <1>13 DEF BodyArrives, BodyRead
  <2>2. taken < Len(inbound) /\ (~torn => inbound[taken + 1] # Torn)
    BY <2>1 DEF ReadInv, BodyComing, BodyRead
  <2>3. /\ taken' \in Nat /\ taken' <= Len(inbound)
        /\ ~torn => taken' = taken + 1
    BY <2>1, <2>2 DEF ReadType
  <2>4. ReadType'
    BY <2>1, <2>3 DEF ReadType, ReadOps, OpStates, peerVars
  <2>5. ReadInv'
    BY <2>1, <2>2, <2>3 DEF ReadType, ReadInv, LengthRead, BodyComing, BodyDone, peerVars
  <2>6. QED
    BY <1>11, <2>1, <2>4, <2>5 DEF FlagType, peerVars
<1>14. CASE ReadFails
  <2>1. /\ read' = [phase |-> read.phase, state |-> "failed"]
        /\ UNCHANGED <<posted, io_stopped, calls, torn, taken, received, writeVars,
                       linkVars, stateVars, peerVars>>
    BY <1>14 DEF ReadFails, ReadType, ReadOps
  <2>2. ReadType' /\ ReadInv'
    BY <2>1 DEF ReadType, ReadInv, LengthRead, BodyComing, BodyDone, ReadOps, OpStates, peerVars
  <2>3. QED
    BY <1>11, <2>1, <2>2 DEF FlagType, peerVars
<1>15. CASE RunConnect
  <2>1. /\ CallType' /\ io_stopped' \in BOOLEAN
        /\ link' \in {"resolving", link}
        /\ UNCHANGED <<endpoints, writeVars, readVars, stateVars, peerVars>>
    BY <1>15, RunsPosted, HandlerEnds DEF RunConnect, Runs
  <2>2. WriteType' /\ QueueInv'
    BY <2>1, WriteFrame DEF stateVars
  <2>3. ReadType' /\ ReadInv'
    BY <2>1, ReadFrame DEF peerVars
  <2>4. FlagType'
    BY <2>1 DEF FlagType, stateVars, readVars, peerVars, writeVars
  <2>5. LinkType'
    BY <2>1 DEF LinkType
  <2>6. QED
    BY <2>1, <2>2, <2>3, <2>4, <2>5
<1>16. CASE RunSend
  <2>1. /\ UNCHANGED <<readVars, linkVars, stateVars, peerVars>>
        /\ CallType' /\ io_stopped' \in BOOLEAN /\ Head(posted) \in Msgs
    BY <1>16, RunsPosted, HandlerEnds DEF RunSend, Runs
  <2>2. CASE ~Accepts
    BY <1>1, <1>16, <2>1, <2>2 DEF RunSend
  <2>3. CASE Accepts
    <3> DEFINE queue == Append(write_queue, Head(posted))
    <3>1. write_queue' = queue /\ accepted' = Append(accepted, Head(posted))
          /\ write_failed' = write_failed
      BY <1>16, <2>3 DEF RunSend
    <3>2. queue \in Seq(Msgs) /\ queue # <<>> /\ accepted' \in Seq(Msgs)
      BY <2>1, <3>1 DEF WriteType
    <3>3. WriteType' /\ QueueInv'
      <4>1. CASE ShouldStart
        <5>1. DoWrite(queue, writes)
          BY <1>16, <2>3, <4>1 DEF RunSend
        <5>2. writes = <<>>
          BY <2>3, <4>1 DEF ShouldStart, Accepts, QueueInv
        <5>3. /\ writes' \in Seq(WriteOps) /\ outbound' \in Seq(Frames)
              /\ Len(writes') <= 1 /\ writes' # <<>>
          BY <3>2, <5>1, <5>2, DoWriteCases DEF WriteType
        <5>4. QED
          BY <3>1, <3>2, <5>3 DEF WriteType, QueueInv
      <4>2. CASE ~ShouldStart
        <5>1. UNCHANGED <<writes, outbound>> /\ write_queue # <<>>
          BY <1>16, <2>3, <4>2 DEF RunSend, ShouldStart
        <5>2. QED
          BY <2>1, <3>1, <3>2, <5>1 DEF WriteType, QueueInv, stateVars
      <4>3. QED
        BY <4>1, <4>2
    <3>4. ReadType' /\ ReadInv'
      BY <2>1, ReadFrame DEF peerVars
    <3>5. FlagType'
      BY <2>1, <3>1 DEF FlagType, readVars, stateVars, peerVars
    <3>6. LinkType'
      BY <2>1 DEF LinkType, linkVars
    <3>7. QED
      BY <2>1, <3>3, <3>4, <3>5, <3>6
  <2>4. QED
    BY <2>2, <2>3
<1>17. CASE RunDisconnect
  <2>1. /\ CallType' /\ io_stopped' \in BOOLEAN
        /\ UNCHANGED <<write_queue, outbound, accepted, write_failed, torn, taken, received,
                       endpoints, is_active, disconnects, peerVars>>
    BY <1>17, RunsPosted, HandlerEnds DEF RunDisconnect, Runs
  <2>2. CASE ~socket_open
    BY <1>1, <1>17, <2>1, <2>2 DEF RunDisconnect, writeVars, readVars, linkVars, stateVars
  <2>3. CASE socket_open
    <3>1. CloseSocket(writes)
      BY <1>17, <2>3 DEF RunDisconnect
    <3>2. WriteType' /\ QueueInv'
      BY <2>1, <3>1, AbortFrame DEF CloseSocket
    <3>3. ReadType' /\ ReadInv'
      BY <2>1, <3>1, AbortReadFrame DEF CloseSocket, peerVars
    <3>4. LinkType'
      BY <2>1, <3>1, CloseLink
    <3>5. FlagType'
      BY <2>1, <3>1 DEF FlagType, CloseSocket, peerVars
    <3>6. QED
      BY <2>1, <3>2, <3>3, <3>4, <3>5
  <2>4. QED
    BY <2>2, <2>3
<1>18. CASE OnResolve
  <2>1. /\ UNCHANGED <<is_active, write_queue, outbound, accepted, write_failed,
                       readVars, peerVars>>
        /\ io_stopped' \in BOOLEAN
        /\ link' \in {"idle", "connecting"}
        /\ endpoints' \in {endpoints} \cup 0 .. MaxEndpoints - 1
        /\ writes' = writes \/ writes' = AllAborted(writes)
        /\ socket_open' = socket_open \/ socket_open' = TRUE
        /\ \/ UNCHANGED <<posted, calls>>
           \/ Call(CONNECT)
        /\ disconnects' = disconnects \/ disconnects' = disconnects + 1
    BY <1>18, HandlerEnds DEF OnResolve, ConnectionFailed
  <2>2. CallType'
    BY <2>1, Posts DEF CallType, Closures
  <2>3. WriteType' /\ QueueInv'
    BY <2>1, AbortFrame, WriteFrame DEF writeVars
  <2>4. ReadType' /\ ReadInv'
    BY <2>1, ReadFrame DEF peerVars
  <2>5. LinkType'
    BY <2>1 DEF LinkType
  <2>6. FlagType'
    <3>1. socket_open' \in BOOLEAN
      <4>1. CASE socket_open' = socket_open
        BY <4>1 DEF FlagType
      <4>2. CASE socket_open' = TRUE
        BY <4>2
      <4>3. QED
        BY <2>1, <4>1, <4>2
    <3>2. disconnects' \in Nat
      BY <2>1 DEF FlagType
    <3>3. QED
      BY <2>1, <3>1, <3>2 DEF FlagType, readVars, peerVars
  <2>7. QED
    BY <2>2, <2>3, <2>4, <2>5, <2>6
<1>19. CASE OnConnect
  <2>1. /\ UNCHANGED <<endpoints, writeVars, torn, taken, received, is_active, socket_open,
                       peerVars>>
        /\ io_stopped' \in BOOLEAN
        /\ link' \in {"connected", "idle"}
        /\ read' \in {read, AsyncRead(HeaderRead)}
        /\ \/ UNCHANGED <<posted, calls>>
           \/ Call(CONNECT)
        /\ disconnects' = disconnects \/ disconnects' = disconnects + 1
    BY <1>19, HandlerEnds DEF OnConnect, ConnectionFailed
  <2>2. CallType'
    BY <2>1, Posts DEF CallType, Closures
  <2>3. WriteType' /\ QueueInv'
    BY <2>1, WriteFrame
  <2>4. ReadType' /\ ReadInv'
    <3>1. CASE read' = read
      BY <2>1, <3>1, ReadFrame DEF peerVars, readVars
    <3>2. CASE read' = AsyncRead(HeaderRead)
      <4>1. read' \in ReadOps /\ read'.phase = "header" /\ read'.state # "done"
        BY <3>2, AsyncReadType DEF HeaderRead
      <4>2. QED
        BY <2>1, <4>1 DEF ReadType, ReadInv, LengthRead, BodyComing, BodyDone, peerVars
    <3>3. QED
      BY <2>1, <3>1, <3>2
  <2>5. LinkType'
    BY <2>1 DEF LinkType
  <2>6. FlagType'
    BY <2>1 DEF FlagType, peerVars, writeVars
  <2>7. QED
    BY <2>2, <2>3, <2>4, <2>5, <2>6
<1>20. CASE OnWrite
  <2>1. /\ writes # <<>> /\ io_stopped' \in BOOLEAN
        /\ UNCHANGED <<posted, calls, accepted, torn, taken, received, endpoints,
                       is_active, disconnects, peerVars>>
    BY <1>20, HandlerEnds DEF OnWrite
  <2>2. CallType'
    BY <2>1 DEF CallType
  <2>3. Len(writes) = 1 /\ Tail(writes) = <<>> /\ Tail(writes) \in Seq(WriteOps)
    BY <2>1, SingleTail DEF WriteType, QueueInv
  <2>4. ASSUME UNCHANGED <<write_failed, socket_open, read, link>>, WriteType', QueueInv'
        PROVE  ClientInv'
    <3>1. ReadType' /\ ReadInv'
      BY <2>1, <2>4, ReadFrame DEF peerVars, readVars
    <3>2. FlagType'
      BY <2>1, <2>4 DEF FlagType, peerVars
    <3>3. LinkType'
      BY <2>1, <2>4 DEF LinkType
    <3>4. QED
      BY <2>2, <2>4, <3>1, <3>2, <3>3
  <2>5. CASE ~is_active
    <3>1. /\ writes' = Tail(writes)
          /\ UNCHANGED <<write_queue, outbound, write_failed, socket_open, read, link>>
      BY <1>20, <2>5 DEF OnWrite
    <3>2. WriteType' /\ QueueInv'
      BY <2>1, <2>3, <2>5, <3>1 DEF WriteType, QueueInv
    <3>3. QED
      BY <2>4, <3>1, <3>2
  <2>6. CASE is_active /\ Head(writes).state = "done"
    <3>1. /\ write_queue' = Tail(write_queue)
          /\ DoWrite(write_queue', Tail(writes))
          /\ UNCHANGED <<write_failed, socket_open, read, link>>
      BY <1>20, <2>6 DEF OnWrite, PopFront, ContinueWriting
    <3>2. write_queue # <<>>
      BY <2>1, <2>6 DEF QueueInv
    <3>3. write_queue' \in Seq(Msgs)
      BY <3>1, <3>2 DEF WriteType
    <3>4. /\ writes' \in Seq(WriteOps) /\ outbound' \in Seq(Frames)
          /\ Len(writes') <= 1
          /\ writes' = <<>> <=> write_queue' = <<>>
      BY <2>3, <3>1, <3>3, DoWriteCases DEF WriteType
    <3>5. WriteType' /\ QueueInv'
      BY <2>1, <3>3, <3>4 DEF WriteType, QueueInv
    <3>6. QED
      BY <2>4, <3>1, <3>5
  <2>7. CASE is_active /\ Head(writes).state = "failed"
    <3>1. /\ CloseSocket(Tail(writes)) /\ write_failed' = TRUE
          /\ UNCHANGED <<write_queue, outbound>>
      BY <1>20, <2>7 DEF OnWrite
    <3>2. writes' \in Seq(WriteOps) /\ Len(writes') = 0 /\ writes' = <<>>
      <4>1. writes' = AllAborted(Tail(writes))
        BY <3>1 DEF CloseSocket
      <4>2. Len(Tail(writes)) = 0
        BY <2>3, EmptyLen
      <4>3. writes' \in Seq(WriteOps) /\ Len(writes') = 0
        BY <2>3, <4>1, <4>2, AllAbortedType
      <4>4. QED
        BY <4>3, EmptyLen
    <3>3. WriteType' /\ QueueInv'
      BY <2>1, <3>1, <3>2 DEF WriteType, QueueInv
    <3>4. ReadType' /\ ReadInv'
      BY <2>1, <3>1, AbortReadFrame DEF CloseSocket, peerVars
    <3>5. LinkType'
      BY <2>1, <3>1, CloseLink
    <3>6. FlagType'
      BY <2>1, <3>1 DEF FlagType, CloseSocket, peerVars
    <3>7. QED
      BY <2>2, <3>3, <3>4, <3>5, <3>6
  <2>8. QED
    BY <1>20, <2>5, <2>6, <2>7 DEF OnWrite
<1>21. CASE OnRead
  <2>1. /\ read.phase # "none" /\ Finished(read) /\ io_stopped' \in BOOLEAN
        /\ UNCHANGED <<posted, calls, torn, taken, socket_open, writeVars, linkVars, peerVars>>
    BY <1>21, HandlerEnds DEF OnRead
  <2>2. ASSUME is_active' \in BOOLEAN, is_active' => is_active, disconnects' \in Nat,
             ReadType', ReadInv'
        PROVE  ClientInv'
    <3>1. WriteType' /\ QueueInv'
      BY <2>1, <2>2, WriteFrame
    <3>2. FlagType'
      BY <2>1, <2>2 DEF FlagType, peerVars, writeVars
    <3>3. LinkType' /\ CallType'
      BY <2>1 DEF LinkType, CallType, linkVars
    <3>4. QED
      BY <2>2, <3>1, <3>2, <3>3
  <2>3. CASE read' = NoRead /\ is_active' = FALSE /\ disconnects' = disconnects + 1
             /\ UNCHANGED received
    <3>1. ReadType' /\ ReadInv'
      BY <2>1, <2>3 DEF ReadType, ReadInv, LengthRead, BodyComing, BodyDone, peerVars,
                        NoRead, ReadOps, OpStates
    <3>2. disconnects' \in Nat
      BY <2>3 DEF FlagType
    <3>3. is_active' = FALSE
      BY <2>3
    <3>4. QED
      BY <2>2, <3>1, <3>2, <3>3
  <2>4. CASE read.state = "done" /\ read.phase = "header" /\ read' = AsyncRead(BodyRead)
             /\ UNCHANGED <<received, is_active, disconnects>>
    <3>1. read' \in ReadOps /\ read'.phase = "body" /\ read'.state # "done"
      BY <2>4, AsyncReadType DEF BodyRead
    <3>2. LengthRead
      BY <2>4 DEF LengthRead
    <3>3. ReadType' /\ ReadInv'
      BY <2>1, <2>4, <3>1, <3>2 DEF ReadType, ReadInv, LengthRead, BodyComing, BodyDone, peerVars
    <3>4. QED
      BY <2>2, <2>4, <3>3 DEF FlagType
  <2>5. CASE read.state = "done" /\ read.phase = "body" /\ read' = AsyncRead(HeaderRead)
             /\ received' = Append(received, MessageBuffer)
             /\ UNCHANGED <<is_active, disconnects>>
    <3>1. read' \in ReadOps /\ read'.phase = "header" /\ read'.state # "done"
      BY <2>5, AsyncReadType DEF HeaderRead
    <3>2. MessageBuffer \in Msgs \cup {Garbled}
      BY <2>5, BufferType DEF BodyDone
    <3>3. received' \in Seq(Msgs \cup {Garbled})
      BY <2>5, <3>2 DEF ReadType
    <3>4. ReadType' /\ ReadInv'
      BY <2>1, <2>5, <3>1, <3>3 DEF ReadType, ReadInv, LengthRead, BodyComing, BodyDone, peerVars
    <3>5. QED
      BY <2>2, <2>5, <3>4 DEF FlagType
  <2>6. QED
    BY <1>21, <2>3, <2>4, <2>5 DEF OnRead
<1>22. CASE PollIdle
  BY <1>1, <1>22 DEF PollIdle, CallType
<1>23. CASE PeerCloses
  <2>1. /\ peer_closed' = TRUE
        /\ UNCHANGED <<posted, io_stopped, calls, writeVars, readVars, linkVars, stateVars,
                       inbound>>
    BY <1>23 DEF PeerCloses
  <2>2. ReadType' /\ ReadInv'
    BY <2>1, ReadFrame
  <2>3. QED
    BY <1>11, <2>1, <2>2 DEF FlagType, readVars
<1>24. ASSUME NEW f \in Frames, PeerSends(f) PROVE ClientInv'
  <2>1. /\ inbound' = Append(inbound, f)
        /\ UNCHANGED <<posted, io_stopped, calls, writeVars, readVars, linkVars, stateVars,
                       peer_closed>>
    BY <1>24 DEF PeerSends
  <2>2. /\ inbound' \in Seq(Frames) /\ Len(inbound') = Len(inbound) + 1
        /\ \A i \in 1 .. Len(inbound) : inbound'[i] = inbound[i]
    BY <2>1 DEF ReadType
  <2>3. ReadType'
    BY <2>1, <2>2 DEF ReadType, readVars
  <2>4. ReadInv'
    BY <2>1, <2>2 DEF ReadType, ReadInv, LengthRead, BodyComing, BodyDone, readVars
  <2>5. QED
    BY <1>11, <2>1, <2>3, <2>4 DEF FlagType, readVars
<1>25. CASE UNCHANGED vars
  BY <1>1, <1>25 DEF vars, CallType, FlagType
<1>26. CASE Next
  BY <1>26, <1>2, <1>3, <1>4, <1>5, <1>6, <1>7, <1>9, <1>10, <1>12, <1>13, <1>14, <1>15,
     <1>16, <1>17, <1>18, <1>19, <1>20, <1>21, <1>22, <1>23, <1>24, NextCases
<1>27. QED
  BY <1>25, <1>26

LEMMA InvAlways == Spec => []ClientInv
BY InvInit, InvStep, PTL DEF Spec

(***************************************************************************)
(* Every reachable state is well typed: the front of an empty write_queue_ *)
(* is never popped, and message_buffer_ holds a frame that was received.   *)
(***************************************************************************)
THEOREM TypeCorrect == Spec => []TypeOK
<1>1. ClientInv => TypeOK
  BY DEF ClientInv, CallType, FlagType, LinkType, WriteType, ReadType, TypeOK
<1>2. QED
  BY <1>1, InvAlways, PTL

(***************************************************************************)
(* Never two async_writes at once, though nothing ever sets is_writing_:   *)
(* however connect, disconnect, send and the handlers interleave, the      *)
(* queue's front frame stands for the write under way.                     *)
(***************************************************************************)
THEOREM OneWriteAtATime == Spec => []SingleWrite
<1>1. ClientInv => SingleWrite
  BY DEF ClientInv, QueueInv, SingleWrite
<1>2. QED
  BY <1>1, InvAlways, PTL

(***************************************************************************)
(* A frame that waits while nothing is being written was left behind by a  *)
(* write that failed, in no other way.                                     *)
(***************************************************************************)
THEOREM OnlyFailureStalls == Spec => []StallsOnlyAfterFailure
<1>1. ClientInv => StallsOnlyAfterFailure
  BY DEF ClientInv, QueueInv, StallsOnlyAfterFailure
<1>2. QED
  BY <1>1, InvAlways, PTL
=============================================================================
