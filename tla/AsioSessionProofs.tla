------------------------- MODULE AsioSessionProofs --------------------------
(***************************************************************************)
(* Proofs about AsioSession, for any messages and any bounds.              *)
(***************************************************************************)
EXTENDS AsioSession, SequenceTheorems, TLAPS

-----------------------------------------------------------------------------
(* Sequences of operations.                                                *)

LEMMA EmptyLen ==
  ASSUME NEW S, NEW seq \in Seq(S)
  PROVE  seq = <<>> <=> Len(seq) = 0
BY EmptySeq

\* Handling the only operation leaves none.
LEMMA SingleTail ==
  ASSUME NEW S, NEW seq \in Seq(S), seq # <<>>, Len(seq) <= 1
  PROVE  Len(seq) = 1 /\ Tail(seq) = <<>> /\ Tail(seq) \in Seq(S)
<1>1. Len(seq) \in Nat /\ Len(seq) # 0
  BY EmptyLen, LenProperties
<1>2. Len(seq) = 1
  BY <1>1
<1>3. Tail(seq) \in Seq(S) /\ Len(Tail(seq)) = 0
  BY <1>2, HeadTailProperties
<1>4. QED
  BY <1>2, <1>3, EmptyLen

\* Closing the socket keeps every started operation: only results change.
LEMMA AbortedType ==
  ASSUME NEW op \in WriteOps
  PROVE  /\ Aborted(op) \in WriteOps
         /\ Aborted(op).data = op.data
         /\ Aborted(op).state # "pending"
         /\ Aborted(op).state = "done" <=> op.state = "done"
BY DEF Aborted, Finished, WriteOps, OpStates

LEMMA AllAbortedType ==
  ASSUME NEW ops \in Seq(WriteOps)
  PROVE  /\ AllAborted(ops) \in Seq(WriteOps)
         /\ Len(AllAborted(ops)) = Len(ops)
         /\ \A i \in 1 .. Len(ops) : AllAborted(ops)[i] = Aborted(ops[i])
<1>1. /\ Len(ops) \in Nat
      /\ DOMAIN ops = 1 .. Len(ops)
      /\ \A i \in 1 .. Len(ops) : ops[i] \in WriteOps
  OBVIOUS
<1>2. \A i \in 1 .. Len(ops) : Aborted(ops[i]) \in WriteOps
  BY <1>1, AbortedType
<1>3. AllAborted(ops) = [i \in 1 .. Len(ops) |-> Aborted(ops[i])]
  BY <1>1 DEF AllAborted
<1>4. AllAborted(ops) \in [1 .. Len(ops) -> WriteOps]
  BY <1>2, <1>3
<1>5. AllAborted(ops) \in Seq(WriteOps)
  BY <1>1, <1>4, SeqDef
<1>6. Len(AllAborted(ops)) = Len(ops)
  BY <1>1, <1>4, <1>5
<1>7. QED
  BY <1>1, <1>3, <1>5, <1>6

\* An operation that ends leaves the others, and every data, as they were.
LEMMA SetStateType ==
  ASSUME NEW ops \in Seq(WriteOps), NEW i \in DOMAIN ops, NEW s \in OpStates
  PROVE  /\ [ops EXCEPT ![i].state = s] \in Seq(WriteOps)
         /\ Len([ops EXCEPT ![i].state = s]) = Len(ops)
         /\ [ops EXCEPT ![i].state = s][i] = [data |-> ops[i].data, state |-> s]
<1>1. i \in 1 .. Len(ops) /\ ops[i] \in WriteOps
  OBVIOUS
<1>2. [ops[i] EXCEPT !.state = s] = [data |-> ops[i].data, state |-> s]
  BY <1>1 DEF WriteOps
<1>3. [ops[i] EXCEPT !.state = s] \in WriteOps
  BY <1>1, <1>2 DEF WriteOps
<1>4. QED
  BY <1>1, <1>2, <1>3, ExceptSeq

-----------------------------------------------------------------------------
(* What a step of Next is, one case for each action.                       *)

LEMMA NextCases ==
  ASSUME Next,
         NEW G,
         Close => G,
         \A m \in Msgs : Send(m) => G,
         RunSend => G,
         RunClose => G,
         OnWrite => G,
         OnRead => G,
         WriteCompletes => G,
         WriteFails => G,
         HeaderArrives => G,
         BodyArrives => G,
         ReadFails => G,
         PeerCloses => G,
         \A f \in Frames : PeerSends(f) => G
  PROVE  G
BY Zenon DEF Next, Application, Kernel, Handlers, Peer

\* With nothing under way, DoWrite starts at most one operation.
LEMMA DoWriteCases ==
  ASSUME NEW queue \in Seq(Msgs), NEW ops \in Seq(WriteOps),
         ops = <<>>,
         outbound \in Seq(Frames),
         DoWrite(queue, ops)
  PROVE  /\ writes' \in Seq(WriteOps)
         /\ outbound' \in Seq(Frames)
         /\ Len(writes') <= 1
         /\ writes' = <<>> \/ (is_active /\ queue # <<>>)
<1>1. CASE NothingToWrite(queue)
  <2>1. writes' = ops /\ UNCHANGED outbound
    BY <1>1 DEF DoWrite
  <2>2. Len(ops) = 0
    BY EmptyLen
  <2>3. Len(writes') <= 1
    BY <2>1, <2>2
  <2>4. QED
    BY <2>1, <2>3
<1>2. CASE ~NothingToWrite(queue)
  <2>1. is_active /\ queue # <<>> /\ Head(queue) \in Msgs
    BY <1>2 DEF NothingToWrite
  <2>2. is_writing' = TRUE /\ AsyncWrite(Head(queue), ops)
    BY <1>2 DEF DoWrite
  <2>3. PICK s \in OpStates : writes' = Append(ops, [data |-> Head(queue), state |-> s])
    BY <2>2 DEF AsyncWrite, OpStates
  <2>4. [data |-> Head(queue), state |-> s] \in WriteOps
    BY <2>1, <2>3 DEF WriteOps
  <2>5. writes' \in Seq(WriteOps) /\ Len(writes') = 1
    <3>1. writes' \in Seq(WriteOps) /\ Len(writes') = Len(ops) + 1
      BY <2>3, <2>4, AppendProperties
    <3>2. Len(ops) = 0
      BY EmptyLen
    <3>3. QED
      BY <3>1, <3>2
  <2>6. /\ outbound' = outbound \/ outbound' = Append(outbound, Head(queue))
        /\ Head(queue) \in Frames
    BY <2>1, <2>2 DEF AsyncWrite, Frames
  <2>7. outbound' \in Seq(Frames)
    BY <2>6
  <2>8. QED
    BY <2>1, <2>5, <2>7
<1>3. QED
  BY <1>1, <1>2

-----------------------------------------------------------------------------
(* Types.  The inductive invariant has two more parts.  A write is only    *)
(* started for the front of a queue that holds it: while the session is    *)
(* active, an empty queue means that no write is under way.  And a reader  *)
(* whose framing is intact never takes the length of a Torn frame.         *)

QueueInv ==
  /\ Len(writes) <= 1
  /\ is_active /\ write_queue = <<>> => writes = <<>>

LengthRead == read.phase = "header" /\ read.state = "done"
BodyComing == read.phase = "body" /\ read.state = "pending"
BodyDone   == read.phase = "body" /\ read.state = "done"

ReadInv ==
  /\ taken <= Len(inbound)
  /\ LengthRead \/ BodyComing =>
       /\ taken < Len(inbound)
       /\ ~torn => inbound[taken + 1] # Torn
  /\ BodyDone /\ ~torn => taken > 0
  /\ ~torn => \A i \in 1 .. taken : inbound[i] # Torn

TypeInv == TypeOK /\ QueueInv /\ ReadInv

LEMMA TypeInvInit == Init => TypeInv
<1> SUFFICES ASSUME Init PROVE TypeInv
  OBVIOUS
<1>1. CallTypeOK
  BY DEF Init, CallTypeOK
<1>2. FlagTypeOK
  BY DEF Init, FlagTypeOK
<1>3. WriteTypeOK /\ QueueInv
  BY DEF Init, WriteTypeOK, QueueInv
<1>4. ReadTypeOK
  BY DEF Init, ReadTypeOK, ReadOps, OpStates, HeaderRead
<1>5. ReadInv
  BY DEF Init, ReadInv, LengthRead, BodyComing, BodyDone, HeaderRead
<1>6. QED
  BY <1>1, <1>2, <1>3, <1>4, <1>5 DEF TypeInv, TypeOK

(* What a step that leaves the variables of a group alone preserves.       *)

LEMMA WriteFrame ==
  ASSUME WriteTypeOK, QueueInv, UNCHANGED writeVars, is_active' => is_active
  PROVE  WriteTypeOK' /\ QueueInv'
BY DEF WriteTypeOK, QueueInv, writeVars

LEMMA ReadFrame ==
  ASSUME ReadTypeOK, ReadInv, UNCHANGED readVars, inbound' = inbound
  PROVE  ReadTypeOK' /\ ReadInv'
<1>1. ReadTypeOK'
  BY DEF ReadTypeOK, readVars
<1>2. ReadInv'
  BY DEF ReadInv, LengthRead, BodyComing, BodyDone, readVars
<1>3. QED
  BY <1>1, <1>2

LEMMA TypeInvStep ==
  ASSUME TypeInv, [Next]_vars
  PROVE  TypeInv'
<1> USE SessionAssumption, FramesAreDistinct DEF TypeInv, TypeOK
<1>1. ASSUME CallTypeOK', UNCHANGED <<writeVars, readVars, stateVars, peerVars>>
      PROVE  TypeInv'
  <2>1. FlagTypeOK' /\ (is_active' => is_active)
    BY <1>1 DEF FlagTypeOK, writeVars, readVars, stateVars, peerVars
  <2>2. QED
    BY <1>1, <2>1, WriteFrame, ReadFrame DEF peerVars
<1>2. CASE Close
  BY <1>1, <1>2, AppendProperties DEF Close, CallTypeOK, stateVars
<1>3. ASSUME NEW m \in Msgs, Send(m) PROVE TypeInv'
  BY <1>1, <1>3, AppendProperties DEF Send, CallTypeOK, stateVars
<1>4. CASE RunSend
  <2>1. /\ UNCHANGED <<calls, readVars, stateVars, peerVars>>
        /\ posted # <<>> /\ posted' = Tail(posted)
        /\ Head(posted) # CLOSE
    BY <1>4 DEF RunSend
  <2>2. CallTypeOK' /\ Head(posted) \in Msgs
    BY <2>1 DEF CallTypeOK, stateVars
  <2>3. ReadTypeOK' /\ ReadInv' /\ (is_active' => is_active)
    BY <2>1, ReadFrame DEF peerVars, stateVars
  <2>4. CASE ~Accepts
    <3>1. UNCHANGED writeVars
      BY <1>4, <2>4 DEF RunSend
    <3>2. QED
      BY <1>1, <2>1, <2>2, <3>1
  <2>5. CASE Accepts
    <3> DEFINE queue == Append(write_queue, Head(posted))
    <3>1. write_queue' = queue /\ accepted' = Append(accepted, Head(posted))
      BY <1>4, <2>5 DEF RunSend
    <3>2. queue \in Seq(Msgs) /\ queue # <<>> /\ accepted' \in Seq(Msgs)
      BY <2>2, <3>1 DEF WriteTypeOK
    <3>3. /\ WriteTypeOK' /\ QueueInv'
          /\ is_writing' \in BOOLEAN
      <4>1. CASE ShouldStart
        <5>1. DoWrite(queue, writes)
          BY <1>4, <2>5, <4>1 DEF RunSend
        <5>2. writes = <<>>
          BY <2>5, <4>1 DEF ShouldStart, Accepts, QueueInv
        <5>3. /\ writes' \in Seq(WriteOps) /\ outbound' \in Seq(Frames)
              /\ Len(writes') <= 1
          BY <3>2, <5>1, <5>2, DoWriteCases DEF WriteTypeOK
        <5>4. is_writing' \in BOOLEAN
          BY <5>1 DEF DoWrite
        <5>6. WriteTypeOK' /\ QueueInv'
          BY <3>1, <3>2, <5>3 DEF WriteTypeOK, QueueInv
        <5>7. QED
          BY <5>4, <5>6
      <4>2. CASE ~ShouldStart
        <5>1. UNCHANGED <<is_writing, writes, outbound>>
          BY <1>4, <2>5, <4>2 DEF RunSend
        <5>2. WriteTypeOK' /\ QueueInv'
          BY <3>1, <3>2, <5>1 DEF WriteTypeOK, QueueInv
        <5>3. QED
          BY <5>1, <5>2 DEF FlagTypeOK
      <4>3. QED
        BY <4>1, <4>2
    <3>4. FlagTypeOK'
      BY <2>1, <3>3 DEF FlagTypeOK, readVars, stateVars, peerVars
    <3>5. QED
      BY <2>2, <2>3, <3>3, <3>4
  <2>6. QED
    BY <2>4, <2>5
<1>5. CASE RunClose
  <2>1. posted # <<>> /\ UNCHANGED <<calls, peerVars>>
    BY <1>5 DEF RunClose
  <2>2. CASE ~CloseApplies
    <3>1. posted' = Tail(posted) /\ UNCHANGED <<writeVars, readVars, stateVars>>
      BY <1>5, <2>2 DEF RunClose, writeVars, readVars
    <3>2. CallTypeOK'
      BY <2>1, <3>1 DEF CallTypeOK, stateVars
    <3>3. QED
      BY <1>1, <2>1, <3>1, <3>2
  <2>3. CASE CloseApplies
    <3>1. /\ is_active' = FALSE /\ socket_open' = FALSE
          /\ disconnects' = disconnects + 1
          /\ posted' = Tail(posted) \/ posted' = Append(Tail(posted), CLOSE)
          /\ writes' = AllAborted(writes) /\ read' = Aborted(read)
          /\ UNCHANGED <<write_queue, is_writing, outbound, accepted, torn, taken,
                         received, peerVars>>
      BY <1>5, <2>3 DEF RunClose, Disconnected
    <3>2. CallTypeOK'
      BY <2>1, <3>1 DEF CallTypeOK
    <3>3. writes' \in Seq(WriteOps) /\ Len(writes') = Len(writes)
      BY <3>1, AllAbortedType DEF WriteTypeOK
    <3>4. WriteTypeOK' /\ QueueInv'
      BY <3>1, <3>3 DEF WriteTypeOK, QueueInv
    <3>5. ReadTypeOK'
      BY <3>1 DEF ReadTypeOK, peerVars, Aborted, Finished, ReadOps, OpStates
    <3>6. ReadInv'
      BY <3>1 DEF ReadTypeOK, ReadInv, LengthRead, BodyComing, BodyDone, peerVars, Aborted,
                  Finished, ReadOps, OpStates
    <3>7. FlagTypeOK'
      BY <3>1 DEF FlagTypeOK, peerVars
    <3>8. QED
      BY <3>2, <3>4, <3>5, <3>6, <3>7
  <2>4. QED
    BY <2>2, <2>3
<1>6. CASE OnWrite
  <2>1. /\ writes # <<>> /\ Finished(Head(writes))
        /\ UNCHANGED <<calls, accepted, readVars, stateVars, peerVars>>
    BY <1>6 DEF OnWrite
  <2>2. Len(writes) = 1 /\ Tail(writes) = <<>> /\ Tail(writes) \in Seq(WriteOps)
    BY <2>1, SingleTail DEF WriteTypeOK, QueueInv
  <2>3. ReadTypeOK' /\ ReadInv' /\ is_active' = is_active
    BY <2>1, ReadFrame DEF peerVars, stateVars
  <2>4. CASE ~is_active
    <3>1. writes' = Tail(writes) /\ UNCHANGED <<posted, write_queue, is_writing, outbound>>
      BY <1>6, <2>4 DEF OnWrite
    <3>2. CallTypeOK'
      BY <2>1, <3>1 DEF CallTypeOK, stateVars
    <3>3. WriteTypeOK' /\ QueueInv'
      BY <2>1, <2>2, <3>1 DEF WriteTypeOK, QueueInv
    <3>4. FlagTypeOK'
      BY <2>1, <3>1 DEF FlagTypeOK, readVars, stateVars, peerVars
    <3>5. QED
      BY <2>3, <3>2, <3>3, <3>4
  <2>5. CASE is_active /\ Head(writes).state = "done"
    <3>1. /\ write_queue' = Tail(write_queue) /\ UNCHANGED posted
          /\ DoWrite(Tail(write_queue), Tail(writes))
      BY <1>6, <2>5 DEF OnWrite, PopFront, ContinueWriting
    <3>2. write_queue # <<>>
      BY <2>1, <2>5 DEF QueueInv
    <3>3. write_queue' \in Seq(Msgs)
      BY <3>1, <3>2 DEF WriteTypeOK
    <3>4. /\ writes' \in Seq(WriteOps) /\ outbound' \in Seq(Frames)
          /\ Len(writes') <= 1
          /\ writes' = <<>> \/ write_queue' # <<>>
      BY <2>2, <3>1, <3>3, DoWriteCases DEF WriteTypeOK
    <3>7. WriteTypeOK' /\ QueueInv'
      BY <2>1, <3>3, <3>4 DEF WriteTypeOK, QueueInv
    <3>8. is_writing' \in BOOLEAN
      BY <3>1 DEF DoWrite
    <3>9. FlagTypeOK'
      BY <2>1, <3>8 DEF FlagTypeOK, readVars, stateVars, peerVars
    <3>10. CallTypeOK'
      BY <2>1, <3>1 DEF CallTypeOK, stateVars
    <3>11. QED
      BY <2>3, <3>7, <3>9, <3>10
  <2>6. CASE is_active /\ Head(writes).state = "failed"
    <3>1. /\ writes' = Tail(writes) /\ posted' = Append(posted, CLOSE)
          /\ UNCHANGED <<write_queue, is_writing, outbound>>
      BY <1>6, <2>6 DEF OnWrite
    <3>2. CallTypeOK'
      BY <2>1, <3>1 DEF CallTypeOK, stateVars
    <3>3. WriteTypeOK' /\ QueueInv'
      BY <2>1, <2>2, <3>1 DEF WriteTypeOK, QueueInv
    <3>4. FlagTypeOK'
      BY <2>1, <3>1 DEF FlagTypeOK, readVars, stateVars, peerVars
    <3>5. QED
      BY <2>3, <3>2, <3>3, <3>4
  <2>7. QED
    BY <1>6, <2>4, <2>5, <2>6 DEF OnWrite
<1>7. CASE OnRead
  <2>1. /\ read.phase # "none" /\ Finished(read)
        /\ UNCHANGED <<calls, torn, taken, writeVars, peerVars>>
    BY <1>7 DEF OnRead
  <2>2. CASE HandleReadError
    <3>1. /\ read' = NoRead /\ is_active' = FALSE
          /\ disconnects' = disconnects + 1
          /\ posted' = posted \/ posted' = Append(posted, CLOSE)
          /\ UNCHANGED <<received, socket_open>>
      BY <2>2 DEF HandleReadError, Disconnected
    <3>2. CallTypeOK'
      BY <2>1, <3>1 DEF CallTypeOK
    <3>3. WriteTypeOK' /\ QueueInv'
      BY <2>1, <3>1, WriteFrame
    <3>4. ReadTypeOK' /\ ReadInv'
      BY <2>1, <3>1 DEF ReadTypeOK, ReadInv, LengthRead, BodyComing, BodyDone, peerVars,
                        NoRead, ReadOps, OpStates
    <3>5. FlagTypeOK'
      BY <2>1, <3>1 DEF FlagTypeOK, writeVars, peerVars
    <3>6. QED
      BY <3>2, <3>3, <3>4, <3>5
  <2>3. CASE ~ReadRefused /\ read.phase = "header" /\ read' = BodyRead
             /\ UNCHANGED <<received, posted, stateVars>>
    <3>1. LengthRead
      BY <2>1, <2>3 DEF ReadTypeOK, ReadOps, OpStates, ReadRefused, LengthRead, Finished
    <3>2. ReadTypeOK' /\ ReadInv'
      BY <2>1, <2>3, <3>1 DEF ReadTypeOK, ReadInv, LengthRead, BodyComing, BodyDone, peerVars,
                              BodyRead, ReadOps, OpStates
    <3>3. QED
      BY <2>1, <2>3, <3>2, WriteFrame DEF CallTypeOK, FlagTypeOK, stateVars, peerVars, writeVars
  <2>4. CASE ~ReadRefused /\ read.phase = "body" /\ read' = HeaderRead
             /\ received' = Append(received, MessageBuffer)
             /\ UNCHANGED <<posted, stateVars>>
    <3>1. BodyDone
      BY <2>1, <2>4 DEF ReadTypeOK, ReadOps, OpStates, ReadRefused, BodyDone, Finished
    <3>2. MessageBuffer \in Msgs \cup {Garbled}
      <4>1. CASE torn
        BY <4>1 DEF MessageBuffer
      <4>2. CASE ~torn
        <5>1. taken \in 1 .. Len(inbound) /\ taken \in 1 .. taken
          BY <3>1, <4>2 DEF ReadTypeOK, ReadInv
        <5>2. inbound[taken] \in Frames /\ inbound[taken] # Torn
          BY <4>2, <5>1 DEF ReadTypeOK, ReadInv
        <5>3. QED
          BY <4>2, <5>2 DEF MessageBuffer, Frames
      <4>3. QED
        BY <4>1, <4>2
    <3>3. received' \in Seq(Msgs \cup {Garbled})
      BY <2>4, <3>2 DEF ReadTypeOK
    <3>4. ReadTypeOK' /\ ReadInv'
      BY <2>1, <2>4, <3>3 DEF ReadTypeOK, ReadInv, LengthRead, BodyComing, BodyDone, peerVars,
                              HeaderRead, ReadOps, OpStates
    <3>5. QED
      BY <2>1, <2>4, <3>4, WriteFrame DEF CallTypeOK, FlagTypeOK, stateVars, peerVars, writeVars
  <2>5. QED
    BY <1>7, <2>2, <2>3, <2>4 DEF OnRead
<1>8. ASSUME NEW i \in DOMAIN writes, NEW s \in OpStates,
             writes' = [writes EXCEPT ![i].state = s],
             outbound' \in Seq(Frames),
             UNCHANGED <<posted, calls, write_queue, is_writing, accepted,
                         readVars, stateVars, peerVars>>
      PROVE  TypeInv'
  <2>1. writes' \in Seq(WriteOps) /\ Len(writes') = Len(writes)
    <3>1. writes \in Seq(WriteOps)
      BY DEF WriteTypeOK
    <3>2. /\ [writes EXCEPT ![i].state = s] \in Seq(WriteOps)
          /\ Len([writes EXCEPT ![i].state = s]) = Len(writes)
      BY <3>1, SetStateType
    <3>3. QED
      BY <1>8, <3>2
  <2>2. is_active /\ write_queue = <<>> => writes' = <<>>
    BY <2>1, EmptyLen DEF WriteTypeOK, QueueInv
  <2>3. WriteTypeOK' /\ QueueInv'
    BY <1>8, <2>1, <2>2 DEF WriteTypeOK, QueueInv, stateVars
  <2>4. ReadTypeOK' /\ ReadInv'
    BY <1>8, ReadFrame DEF peerVars
  <2>5. FlagTypeOK'
    BY <1>8 DEF FlagTypeOK, readVars, stateVars, peerVars
  <2>6. CallTypeOK'
    BY <1>8 DEF CallTypeOK, stateVars
  <2>7. QED
    BY <2>3, <2>4, <2>5, <2>6
<1>9. CASE WriteCompletes
  <2>1. PICK i \in DOMAIN writes :
          /\ writes' = [writes EXCEPT ![i].state = "done"]
          /\ \E f \in LateBytes(writes[i].data) : outbound' = Append(outbound, f)
          /\ UNCHANGED <<posted, calls, write_queue, is_writing, accepted,
                         readVars, stateVars, peerVars>>
    BY <1>9 DEF WriteCompletes
  <2>2. writes[i] \in WriteOps
    BY DEF WriteTypeOK
  <2>3. PICK f \in Frames : outbound' = Append(outbound, f)
    BY <2>1, <2>2 DEF LateBytes, Frames, WriteOps
  <2>4. outbound' \in Seq(Frames)
    BY <2>3 DEF WriteTypeOK
  <2>5. QED
    BY <1>8, <2>1, <2>4 DEF OpStates
<1>10. CASE WriteFails
  <2>1. outbound \in Seq(Frames)
    BY DEF WriteTypeOK
  <2>2. QED
    BY <1>8, <1>10, <2>1 DEF WriteFails, OpStates
<1>11. ASSUME UNCHANGED <<posted, calls, writeVars, stateVars, peer_closed>>,
              ReadTypeOK', ReadInv', torn' \in BOOLEAN
       PROVE  TypeInv'
  <2>1. WriteTypeOK' /\ QueueInv'
    BY <1>11, WriteFrame DEF stateVars
  <2>2. FlagTypeOK'
    BY <1>11 DEF FlagTypeOK, writeVars, stateVars
  <2>3. CallTypeOK'
    BY <1>11 DEF CallTypeOK, stateVars
  <2>4. QED
    BY <1>11, <2>1, <2>2, <2>3
<1>12. CASE HeaderArrives
  <2>1. /\ taken < Len(inbound) /\ read = HeaderRead
        /\ read' = [phase |-> "header", state |-> "done"]
        /\ torn' = (torn \/ inbound[taken + 1] = Torn)
        /\ UNCHANGED <<posted, calls, taken, received, writeVars, stateVars, peerVars>>
    BY <1>12 DEF HeaderArrives, HeaderRead
  <2>2. ReadTypeOK'
    BY <2>1 DEF ReadTypeOK, ReadOps, OpStates, peerVars
  <2>3. ReadInv'
    BY <2>1 DEF ReadTypeOK, ReadInv, LengthRead, BodyComing, BodyDone, peerVars
  <2>4. torn' \in BOOLEAN
    BY <2>1 DEF FlagTypeOK
  <2>5. QED
    BY <1>11, <2>1, <2>2, <2>3, <2>4 DEF peerVars
<1>13. CASE BodyArrives
  <2>1. /\ read = BodyRead /\ read' = [phase |-> "body", state |-> "done"]
        /\ taken' \in IF torn THEN taken .. Len(inbound) ELSE {taken + 1}
        /\ UNCHANGED <<posted, calls, torn, received, writeVars, stateVars, peerVars>>
    BY <1>13 DEF BodyArrives, BodyRead
  <2>2. taken < Len(inbound) /\ (~torn => inbound[taken + 1] # Torn)
    BY <2>1 DEF ReadInv, BodyComing, BodyRead
  <2>3. /\ taken' \in Nat /\ taken' <= Len(inbound)
        /\ ~torn => taken' = taken + 1
    BY <2>1, <2>2 DEF ReadTypeOK
  <2>4. ReadTypeOK'
    BY <2>1, <2>3 DEF ReadTypeOK, ReadOps, OpStates, peerVars
  <2>5. ReadInv'
    BY <2>1, <2>2, <2>3 DEF ReadTypeOK, ReadInv, LengthRead, BodyComing, BodyDone, peerVars
  <2>6. QED
    BY <1>11, <2>1, <2>4, <2>5 DEF FlagTypeOK, peerVars
<1>14. CASE ReadFails
  <2>1. /\ read' = [phase |-> read.phase, state |-> "failed"]
        /\ UNCHANGED <<posted, calls, torn, taken, received, writeVars, stateVars, peerVars>>
    BY <1>14 DEF ReadFails, ReadTypeOK, ReadOps
  <2>2. ReadTypeOK' /\ ReadInv'
    BY <2>1 DEF ReadTypeOK, ReadInv, LengthRead, BodyComing, BodyDone, ReadOps, OpStates, peerVars
  <2>3. QED
    BY <1>11, <2>1, <2>2 DEF FlagTypeOK, peerVars
<1>15. ASSUME NEW f \in Frames, PeerSends(f) PROVE TypeInv'
  <2>1. /\ inbound' = Append(inbound, f)
        /\ UNCHANGED <<posted, calls, writeVars, readVars, stateVars, peer_closed>>
    BY <1>15 DEF PeerSends
  <2>2. /\ inbound' \in Seq(Frames) /\ Len(inbound') = Len(inbound) + 1
        /\ \A i \in 1 .. Len(inbound) : inbound'[i] = inbound[i]
    BY <2>1 DEF ReadTypeOK
  <2>3. ReadTypeOK'
    BY <2>1, <2>2 DEF ReadTypeOK, readVars
  <2>4. ReadInv'
    BY <2>1, <2>2 DEF ReadTypeOK, ReadInv, LengthRead, BodyComing, BodyDone, readVars
  <2>5. QED
    BY <1>11, <2>1, <2>3, <2>4 DEF FlagTypeOK, readVars
<1>16. CASE PeerCloses
  <2>1. /\ peer_closed' = TRUE
        /\ UNCHANGED <<posted, calls, writeVars, readVars, stateVars, inbound>>
    BY <1>16 DEF PeerCloses
  <2>2. FlagTypeOK' /\ (is_active' => is_active)
    BY <2>1 DEF FlagTypeOK, writeVars, readVars, stateVars
  <2>3. CallTypeOK'
    BY <2>1 DEF CallTypeOK, stateVars
  <2>4. QED
    BY <2>1, <2>2, <2>3, WriteFrame, ReadFrame
<1>17. CASE UNCHANGED vars
  <2>1. CallTypeOK'
    BY <1>17 DEF vars, CallTypeOK, stateVars
  <2>2. QED
    BY <1>1, <1>17, <2>1 DEF vars
<1>18. CASE Next
  BY <1>18, <1>2, <1>3, <1>4, <1>5, <1>6, <1>7, <1>9, <1>10, <1>12, <1>13, <1>14, <1>15,
     <1>16, NextCases
<1>19. QED
  BY <1>17, <1>18

(***************************************************************************)
(* Every reachable state is well typed: in particular the front of an      *)
(* empty write_queue_ is never sent, and message_buffer_ always holds a    *)
(* frame that was received.                                                *)
(***************************************************************************)
THEOREM TypeCorrect == Spec => []TypeOK
<1>1. Spec => []TypeInv
  BY TypeInvInit, TypeInvStep, PTL DEF Spec
<1>2. TypeInv => TypeOK
  BY DEF TypeInv
<1>3. QED
  BY <1>1, <1>2, PTL

(***************************************************************************)
(* Never two async_writes at once, however the closures of send() and      *)
(* close() interleave with the completion handlers.                        *)
(***************************************************************************)
THEOREM OneWriteAtATime == Spec => []SingleWrite
<1>1. Spec => []TypeInv
  BY TypeInvInit, TypeInvStep, PTL DEF Spec
<1>2. TypeInv => SingleWrite
  BY DEF TypeInv, QueueInv, SingleWrite
<1>3. QED
  BY <1>1, <1>2, PTL

-----------------------------------------------------------------------------
(* The disconnect.  Only the step that clears is_active_ in close() and    *)
(* the one in handleReadError report it, and after handleReadError nothing *)
(* is read any more.                                                       *)

ReportInv ==
  /\ is_active => disconnects = 0 /\ read.phase # "none"
  /\ ~is_active => disconnects \in {1, 2}
  /\ disconnects = 2 => read.phase = "none"

DisconnectInv == TypeInv /\ ReportInv

LEMMA ReportFrame ==
  ASSUME ReportInv, UNCHANGED <<is_active, disconnects>>, read'.phase = read.phase
  PROVE  ReportInv'
BY DEF ReportInv

LEMMA ReportInvStep ==
  ASSUME TypeInv, ReportInv, [Next]_vars
  PROVE  ReportInv'
<1> USE DEF stateVars, readVars
<1>1. ASSUME UNCHANGED <<readVars, stateVars>> PROVE ReportInv'
  BY <1>1, ReportFrame
<1>2. CASE Close
  BY <1>1, <1>2 DEF Close
<1>3. ASSUME NEW m \in Msgs, Send(m) PROVE ReportInv'
  BY <1>1, <1>3 DEF Send
<1>4. CASE RunSend
  BY <1>1, <1>4 DEF RunSend
<1>5. CASE RunClose
  <2>1. CASE ~CloseApplies
    BY <1>5, <2>1, ReportFrame DEF RunClose
  <2>2. CASE CloseApplies
    <3>1. disconnects' = disconnects + 1 /\ is_active' = FALSE /\ read' = Aborted(read)
      BY <1>5, <2>2 DEF RunClose, Disconnected
    <3>2. disconnects = 0 /\ read.phase # "none"
      BY <2>2 DEF CloseApplies, ReportInv
    <3>3. QED
      BY <3>1, <3>2 DEF ReportInv
  <2>3. QED
    BY <2>1, <2>2
<1>6. CASE OnWrite
  BY <1>1, <1>6 DEF OnWrite
<1>7. CASE OnRead
  <2>1. CASE HandleReadError
    <3>1. disconnects' = disconnects + 1 /\ is_active' = FALSE /\ read'.phase = "none"
      BY <2>1 DEF HandleReadError, Disconnected, NoRead
    <3>2. disconnects \in {0, 1}
      BY <1>7 DEF OnRead, ReportInv
    <3>3. QED
      BY <3>1, <3>2 DEF ReportInv
  <2>2. CASE UNCHANGED stateVars /\ read'.phase # "none"
    BY <1>7, <2>2 DEF OnRead, ReportInv
  <2>3. QED
    BY <1>7, <2>1, <2>2 DEF OnRead, BodyRead, HeaderRead
<1>8. CASE WriteCompletes
  BY <1>1, <1>8 DEF WriteCompletes
<1>9. CASE WriteFails
  BY <1>1, <1>9 DEF WriteFails
<1>10. CASE HeaderArrives
  BY <1>10, ReportFrame DEF HeaderArrives, HeaderRead
<1>11. CASE BodyArrives
  BY <1>11, ReportFrame DEF BodyArrives, BodyRead
<1>12. CASE ReadFails
  BY <1>12, ReportFrame DEF ReadFails, TypeInv, TypeOK, ReadTypeOK, ReadOps
<1>13. CASE PeerCloses
  BY <1>1, <1>13 DEF PeerCloses
<1>14. ASSUME NEW f \in Frames, PeerSends(f) PROVE ReportInv'
  BY <1>1, <1>14 DEF PeerSends
<1>15. CASE UNCHANGED vars
  BY <1>1, <1>15 DEF vars
<1>16. CASE Next
  BY <1>16, <1>2, <1>3, <1>4, <1>5, <1>6, <1>7, <1>8, <1>9, <1>10, <1>11, <1>12, <1>13,
     <1>14, NextCases
<1>17. QED
  BY <1>15, <1>16

LEMMA DisconnectInvariant == Spec => []DisconnectInv
<1>1. Init => DisconnectInv
  BY TypeInvInit DEF DisconnectInv, ReportInv, Init, HeaderRead
<1>2. DisconnectInv /\ [Next]_vars => DisconnectInv'
  BY TypeInvStep, ReportInvStep DEF DisconnectInv
<1>3. QED
  BY <1>1, <1>2, PTL DEF Spec

(***************************************************************************)
(* The application is told of every deactivation, and at most twice.       *)
(***************************************************************************)
THEOREM EveryDisconnectReported == Spec => []DisconnectReported
<1>1. DisconnectInv => DisconnectReported
  BY DEF DisconnectInv, ReportInv, DisconnectReported
<1>2. QED
  BY <1>1, DisconnectInvariant, PTL

(***************************************************************************)
(* Once the application was told, no message handler runs again: the only  *)
(* step that calls it is refused by the handlers of an inactive session.   *)
(***************************************************************************)
THEOREM SilentAfterDisconnect == Spec => NoMessageAfterDisconnect
<1>1. ASSUME DisconnectInv, [Next]_vars, disconnects > 0 PROVE received' = received
  <2> USE DEF readVars
  <2>1. ~is_active
    BY <1>1 DEF DisconnectInv, ReportInv
  <2>2. CASE OnRead
    BY <2>1, <2>2 DEF OnRead, ReadRefused, HandleReadError
  <2>3. CASE Close
    BY <2>3 DEF Close
  <2>4. ASSUME NEW m \in Msgs, Send(m) PROVE received' = received
    BY <2>4 DEF Send
  <2>5. CASE RunSend
    BY <2>5 DEF RunSend
  <2>6. CASE RunClose
    BY <2>6 DEF RunClose
  <2>7. CASE OnWrite
    BY <2>7 DEF OnWrite
  <2>8. CASE WriteCompletes
    BY <2>8 DEF WriteCompletes
  <2>9. CASE WriteFails
    BY <2>9 DEF WriteFails
  <2>10. CASE HeaderArrives
    BY <2>10 DEF HeaderArrives
  <2>11. CASE BodyArrives
    BY <2>11 DEF BodyArrives
  <2>12. CASE ReadFails
    BY <2>12 DEF ReadFails
  <2>13. CASE PeerCloses
    BY <2>13 DEF PeerCloses
  <2>14. ASSUME NEW f \in Frames, PeerSends(f) PROVE received' = received
    BY <2>14 DEF PeerSends
  <2>15. CASE UNCHANGED vars
    BY <2>15 DEF vars
  <2>16. CASE Next
    BY <2>16, <2>2, <2>3, <2>4, <2>5, <2>6, <2>7, <2>8, <2>9, <2>10, <2>11, <2>12, <2>13,
       <2>14, NextCases
  <2>17. QED
    BY <1>1, <2>15, <2>16
<1>2. DisconnectInv /\ [Next]_vars => [disconnects > 0 => received' = received]_vars
  BY <1>1
<1>3. QED
  BY <1>2, DisconnectInvariant, PTL DEF Spec, NoMessageAfterDisconnect

(***************************************************************************)
(* A deactivated session takes no message and starts no write: what is     *)
(* left of the write queue stays there, whatever is still posted.          *)
(***************************************************************************)
THEOREM NoWriteOnceInactive == Spec => NoWriteAfterDeactivation
<1> DEFINE Idle == accepted' = accepted /\ Len(writes') <= Len(writes)
<1>1. ASSUME TypeInv, [Next]_vars, ~is_active PROVE Idle
  <2> USE DEF writeVars
  <2>1. writes \in Seq(WriteOps) /\ Len(writes) \in Nat
    BY <1>1, LenProperties DEF TypeInv, TypeOK, WriteTypeOK
  <2>2. ASSUME writes' = writes, accepted' = accepted PROVE Idle
    BY <2>1, <2>2
  <2>3. ASSUME NEW i \in DOMAIN writes, NEW s \in OpStates,
               writes' = [writes EXCEPT ![i].state = s], accepted' = accepted
        PROVE  Idle
    <3>1. Len(writes') = Len(writes)
      BY <2>1, <2>3, SetStateType
    <3>2. QED
      BY <2>1, <2>3, <3>1
  <2> HIDE DEF Idle
  <2>4. CASE Close
    BY <2>2, <2>4 DEF Close
  <2>5. ASSUME NEW m \in Msgs, Send(m) PROVE Idle
    BY <2>2, <2>5 DEF Send
  <2>6. CASE RunSend
    BY <1>1, <2>2, <2>6 DEF RunSend, Accepts
  <2>7. CASE RunClose
    BY <1>1, <2>2, <2>7 DEF RunClose, CloseApplies
  <2>8. CASE OnWrite
    <3>1. writes # <<>> /\ writes' = Tail(writes) /\ accepted' = accepted
      BY <1>1, <2>8 DEF OnWrite
    <3>2. Len(writes') = Len(writes) - 1
      BY <2>1, <3>1, HeadTailProperties
    <3>3. QED
      BY <2>1, <3>1, <3>2 DEF Idle
  <2>9. CASE OnRead
    BY <2>2, <2>9 DEF OnRead
  <2>10. CASE WriteCompletes
    BY <2>3, <2>10 DEF WriteCompletes, OpStates
  <2>11. CASE WriteFails
    BY <2>3, <2>11 DEF WriteFails, OpStates
  <2>12. CASE HeaderArrives
    BY <2>2, <2>12 DEF HeaderArrives
  <2>13. CASE BodyArrives
    BY <2>2, <2>13 DEF BodyArrives
  <2>14. CASE ReadFails
    BY <2>2, <2>14 DEF ReadFails
  <2>15. CASE PeerCloses
    BY <2>2, <2>15 DEF PeerCloses
  <2>16. ASSUME NEW f \in Frames, PeerSends(f) PROVE Idle
    BY <2>2, <2>16 DEF PeerSends
  <2>17. CASE UNCHANGED vars
    BY <2>2, <2>17 DEF vars
  <2>18. CASE Next
    BY <2>18, <2>4, <2>5, <2>6, <2>7, <2>8, <2>9, <2>10, <2>11, <2>12, <2>13, <2>14, <2>15,
       <2>16, NextCases
  <2>19. QED
    BY <1>1, <2>17, <2>18
<1>2. TypeInv /\ [Next]_vars => [~is_active => Idle]_vars
  BY <1>1
<1>3. QED
  BY <1>2, TypeInvInit, TypeInvStep, PTL DEF Spec, NoWriteAfterDeactivation

-----------------------------------------------------------------------------
(***************************************************************************)
(* The order of the frames on the wire, for any messages and any bounds.   *)
(*                                                                         *)
(* WireInOrder only counts what is on the wire and what is queued.  The    *)
(* invariant behind it says which messages they are: the queue of an       *)
(* active session is the end of what was accepted, and the write under way *)
(* carries the first accepted message that is not on the wire.             *)
(***************************************************************************)
InOrder(out, acc) ==
  /\ Len(out) <= Len(acc)
  /\ \A i \in 1 .. Len(out) : out[i] \in LateBytes(acc[i])

UnderWay(ops, out, acc) ==
  ops # <<>> /\ ops[1].state = "pending" =>
    Len(out) < Len(acc) /\ ops[1].data = acc[Len(out) + 1]

OnTheWire(ops) == IF ops # <<>> /\ ops[1].state = "done" THEN 1 ELSE 0

EndOf(acc, queue) ==
  /\ Len(queue) <= Len(acc)
  /\ \A j \in 1 .. Len(queue) : queue[j] = acc[Len(acc) - Len(queue) + j]

WireInv ==
  /\ InOrder(outbound, accepted)
  /\ UnderWay(writes, outbound, accepted)
  /\ is_active =>
       /\ Len(accepted) = Len(outbound) + Len(write_queue) - OnTheWire(writes)
       /\ EndOf(accepted, write_queue)

-----------------------------------------------------------------------------
(* The relations between the three sequences.                              *)

LEMMA InOrderAppend ==
  ASSUME NEW out \in Seq(Frames), NEW acc \in Seq(Msgs), InOrder(out, acc),
         Len(out) < Len(acc), NEW f \in LateBytes(acc[Len(out) + 1]), f \in Frames
  PROVE  InOrder(Append(out, f), acc)
<1>1. /\ Len(Append(out, f)) = Len(out) + 1
      /\ \A i \in 1 .. Len(out) : Append(out, f)[i] = out[i]
      /\ Append(out, f)[Len(out) + 1] = f
  OBVIOUS
<1>2. Len(out) \in Nat /\ Len(acc) \in Nat
  BY LenProperties
<1>3. ASSUME NEW i \in 1 .. Len(out) + 1 PROVE Append(out, f)[i] \in LateBytes(acc[i])
  <2>1. CASE i \in 1 .. Len(out)
    BY <1>1, <2>1 DEF InOrder
  <2>2. CASE i = Len(out) + 1
    BY <1>1, <2>2
  <2>3. QED
    BY <1>2, <1>3, <2>1, <2>2
<1>4. QED
  BY <1>1, <1>2, <1>3 DEF InOrder

\* A message accepted now changes nothing in front of it.
LEMMA AcceptedGrows ==
  ASSUME NEW out \in Seq(Frames), NEW acc \in Seq(Msgs), NEW ops \in Seq(WriteOps),
         NEW m \in Msgs, InOrder(out, acc), UnderWay(ops, out, acc)
  PROVE  InOrder(out, Append(acc, m)) /\ UnderWay(ops, out, Append(acc, m))
<1>1. /\ Len(Append(acc, m)) = Len(acc) + 1
      /\ \A i \in 1 .. Len(acc) : Append(acc, m)[i] = acc[i]
      /\ Len(out) \in Nat /\ Len(acc) \in Nat
  OBVIOUS
<1>2. InOrder(out, Append(acc, m))
  BY <1>1 DEF InOrder
<1>3. UnderWay(ops, out, Append(acc, m))
  <2>1. Len(out) < Len(acc) => Len(out) + 1 \in 1 .. Len(acc)
    BY <1>1
  <2>2. QED
    BY <1>1, <2>1 DEF UnderWay
<1>4. QED
  BY <1>2, <1>3

LEMMA EndOfAppend ==
  ASSUME NEW queue \in Seq(Msgs), NEW acc \in Seq(Msgs), NEW m \in Msgs, EndOf(acc, queue)
  PROVE  EndOf(Append(acc, m), Append(queue, m))
<1>1. /\ Len(Append(acc, m)) = Len(acc) + 1
      /\ Len(Append(queue, m)) = Len(queue) + 1
      /\ Len(queue) \in Nat /\ Len(acc) \in Nat
      /\ \A i \in 1 .. Len(acc) : Append(acc, m)[i] = acc[i]
      /\ \A i \in 1 .. Len(queue) : Append(queue, m)[i] = queue[i]
      /\ Append(acc, m)[Len(acc) + 1] = m
      /\ Append(queue, m)[Len(queue) + 1] = m
  OBVIOUS
<1>2. ASSUME NEW j \in 1 .. Len(queue) + 1
      PROVE  Append(queue, m)[j] = Append(acc, m)[Len(acc) - Len(queue) + j]
  <2>1. CASE j \in 1 .. Len(queue)
    <3>1. Len(acc) - Len(queue) + j \in 1 .. Len(acc)
      BY <1>1, <2>1 DEF EndOf
    <3>2. QED
      BY <1>1, <2>1, <3>1 DEF EndOf
  <2>2. CASE j = Len(queue) + 1
    <3>1. Len(acc) - Len(queue) + j = Len(acc) + 1
      BY <1>1, <2>2
    <3>2. QED
      BY <1>1, <2>2, <3>1
  <2>3. j \in 1 .. Len(queue) \/ j = Len(queue) + 1
    BY <1>1, <1>2
  <2>4. QED
    BY <2>1, <2>2, <2>3
<1>3. Len(Append(acc, m)) - Len(Append(queue, m)) = Len(acc) - Len(queue)
  BY <1>1
<1>4. Len(Append(queue, m)) <= Len(Append(acc, m))
  BY <1>1 DEF EndOf
<1>5. QED
  BY <1>1, <1>2, <1>3, <1>4 DEF EndOf

LEMMA EndOfTail ==
  ASSUME NEW queue \in Seq(Msgs), NEW acc \in Seq(Msgs), queue # <<>>, EndOf(acc, queue)
  PROVE  EndOf(acc, Tail(queue))
<1>1. /\ Len(queue) \in Nat /\ Len(acc) \in Nat /\ Len(queue) >= 1
      /\ Len(Tail(queue)) = Len(queue) - 1
      /\ \A j \in 1 .. Len(queue) - 1 : Tail(queue)[j] = queue[j + 1]
  OBVIOUS
<1>2. ASSUME NEW j \in 1 .. Len(queue) - 1
      PROVE  Tail(queue)[j] = acc[Len(acc) - (Len(queue) - 1) + j]
  <2>1. j + 1 \in 1 .. Len(queue) /\ Tail(queue)[j] = queue[j + 1]
    BY <1>1
  <2>2. queue[j + 1] = acc[Len(acc) - Len(queue) + (j + 1)]
    BY <2>1 DEF EndOf
  <2>3. Len(acc) - Len(queue) + (j + 1) = Len(acc) - (Len(queue) - 1) + j
    BY <1>1
  <2>4. QED
    BY <2>1, <2>2, <2>3
<1>3. QED
  BY <1>1, <1>2 DEF EndOf

\* A write started with nothing under way carries the first message that is
\* not on the wire.
LEMMA StartsInOrder ==
  ASSUME NEW queue \in Seq(Msgs), NEW acc \in Seq(Msgs), NEW ops, ops = <<>>,
         outbound \in Seq(Frames),
         InOrder(outbound, acc), EndOf(acc, queue),
         Len(acc) = Len(outbound) + Len(queue),
         DoWrite(queue, ops)
  PROVE  /\ InOrder(outbound', acc)
         /\ UnderWay(writes', outbound', acc)
         /\ Len(acc) = Len(outbound') + Len(queue) - OnTheWire(writes')
<1>0. Len(queue) \in Nat /\ Len(acc) \in Nat /\ Len(outbound) \in Nat
  BY LenProperties
<1>1. CASE NothingToWrite(queue)
  <2>1. writes' = <<>> /\ outbound' = outbound
    BY <1>1 DEF DoWrite
  <2>2. OnTheWire(writes') = 0 /\ UnderWay(writes', outbound', acc)
    BY <2>1 DEF OnTheWire, UnderWay
  <2>3. QED
    BY <1>0, <2>1, <2>2
<1>2. CASE ~NothingToWrite(queue)
  <2>1. queue # <<>> /\ AsyncWrite(Head(queue), ops)
    BY <1>2 DEF NothingToWrite, DoWrite
  <2>2. 1 \in 1 .. Len(queue) /\ Head(queue) = queue[1] /\ Head(queue) \in Msgs
    BY <2>1
  <2>3. Len(outbound) < Len(acc) /\ Head(queue) = acc[Len(outbound) + 1]
    <3>1. queue[1] = acc[Len(acc) - Len(queue) + 1]
      BY <2>2 DEF EndOf
    <3>2. Len(acc) - Len(queue) + 1 = Len(outbound) + 1
      BY <1>0
    <3>3. QED
      BY <1>0, <2>2, <3>1, <3>2
  <2>4. ASSUME writes' = Append(ops, [data |-> Head(queue), state |-> "done"]),
               outbound' = Append(outbound, Head(queue))
        PROVE  /\ InOrder(outbound', acc)
               /\ UnderWay(writes', outbound', acc)
               /\ Len(acc) = Len(outbound') + Len(queue) - OnTheWire(writes')
    <3>1. writes' # <<>> /\ writes'[1] = [data |-> Head(queue), state |-> "done"]
      BY <2>4
    <3>2. OnTheWire(writes') = 1 /\ UnderWay(writes', outbound', acc)
      BY <3>1 DEF OnTheWire, UnderWay
    <3>3. Head(queue) \in LateBytes(acc[Len(outbound) + 1]) /\ Head(queue) \in Frames
      BY <2>2, <2>3 DEF LateBytes, Frames
    <3>4. InOrder(outbound', acc)
      BY <2>3, <2>4, <3>3, InOrderAppend
    <3>5. Len(outbound') = Len(outbound) + 1
      BY <2>4, <3>3
    <3>6. QED
      BY <1>0, <3>2, <3>4, <3>5
  <2>5. ASSUME writes' = Append(ops, [data |-> Head(queue), state |-> "pending"]),
               outbound' = outbound
        PROVE  /\ InOrder(outbound', acc)
               /\ UnderWay(writes', outbound', acc)
               /\ Len(acc) = Len(outbound') + Len(queue) - OnTheWire(writes')
    <3>1. writes' # <<>> /\ writes'[1] = [data |-> Head(queue), state |-> "pending"]
      BY <2>5
    <3>2. OnTheWire(writes') = 0
      BY <3>1 DEF OnTheWire
    <3>3. UnderWay(writes', outbound', acc)
      BY <2>3, <2>5, <3>1 DEF UnderWay
    <3>4. QED
      BY <1>0, <2>5, <3>2, <3>3
  <2>6. QED
    BY <2>1, <2>4, <2>5 DEF AsyncWrite
<1>3. QED
  BY <1>1, <1>2

\* With one write at a time, the operation that ends is the first.
LEMMA OnlyOperation ==
  ASSUME NEW ops \in Seq(WriteOps), Len(ops) <= 1, NEW i \in DOMAIN ops
  PROVE  i = 1 /\ Len(ops) = 1 /\ ops[1] \in WriteOps
<1>1. i \in 1 .. Len(ops) /\ Len(ops) \in Nat /\ ops[i] \in WriteOps
  OBVIOUS
<1>2. \A n \in Nat : n <= 1 => \A k \in 1 .. n : k = 1 /\ n = 1
  OBVIOUS
<1>3. i = 1 /\ Len(ops) = 1
  BY <1>1, <1>2
<1>4. QED
  BY <1>1, <1>3

-----------------------------------------------------------------------------
(* The steps.                                                              *)

\* A step that leaves the accepted messages, the queue and the wire alone and
\* can only end the operation under way without its frame.
LEMMA WireFrame ==
  ASSUME WireInv, UNCHANGED <<outbound, accepted, write_queue>>,
         UnderWay(writes', outbound, accepted),
         is_active' => is_active /\ OnTheWire(writes') = OnTheWire(writes)
  PROVE  WireInv'
BY DEF WireInv

LEMMA WireInvStep ==
  ASSUME TypeInv, WireInv, [Next]_vars
  PROVE  WireInv'
<1> USE DEF writeVars, stateVars
<1>0. /\ write_queue \in Seq(Msgs) /\ writes \in Seq(WriteOps) /\ Len(writes) <= 1
      /\ outbound \in Seq(Frames) /\ accepted \in Seq(Msgs)
      /\ posted \in Seq(Msgs \cup {CLOSE})
      /\ Len(write_queue) \in Nat /\ Len(accepted) \in Nat /\ Len(outbound) \in Nat
  BY LenProperties DEF TypeInv, TypeOK, WriteTypeOK, CallTypeOK, QueueInv
<1>1. ASSUME UNCHANGED writeVars, is_active' => is_active PROVE WireInv'
  BY <1>1 DEF WireInv
<1>2. CASE Close
  BY <1>1, <1>2 DEF Close
<1>3. ASSUME NEW m \in Msgs, Send(m) PROVE WireInv'
  BY <1>1, <1>3 DEF Send
<1>4. CASE RunSend
  <2>1. CASE ~Accepts
    BY <1>1, <1>4, <2>1 DEF RunSend
  <2>2. CASE Accepts
    <3> DEFINE m == Head(posted)
               queue == Append(write_queue, m)
               acc == Append(accepted, m)
    <3>1. /\ is_active /\ is_active' = is_active
          /\ write_queue' = queue /\ accepted' = acc
      BY <1>4, <2>2 DEF RunSend, Accepts
    <3>2. m \in Msgs
      BY <1>0, <1>4 DEF RunSend
    <3> HIDE DEF m
    <3>3. /\ queue \in Seq(Msgs) /\ acc \in Seq(Msgs)
          /\ Len(queue) = Len(write_queue) + 1 /\ Len(acc) = Len(accepted) + 1
      BY <1>0, <3>2
    <3>4. EndOf(acc, queue)
      BY <1>0, <3>1, <3>2, EndOfAppend DEF WireInv
    <3>5. InOrder(outbound, acc) /\ UnderWay(writes, outbound, acc)
      BY <1>0, <3>2, AcceptedGrows DEF WireInv
    <3>6. Len(accepted) = Len(outbound) + Len(write_queue) - OnTheWire(writes)
      BY <3>1 DEF WireInv
    <3> HIDE DEF queue, acc
    <3>7. CASE ShouldStart
      <4>1. write_queue = <<>> /\ writes = <<>>
        BY <3>1, <3>7 DEF ShouldStart, TypeInv, QueueInv
      <4>2. DoWrite(queue, writes)
        BY <1>4, <2>2, <3>7 DEF RunSend, queue, m
      <4>3. Len(acc) = Len(outbound) + Len(queue)
        <5>1. OnTheWire(writes) = 0
          BY <4>1 DEF OnTheWire
        <5>2. QED
          BY <1>0, <3>3, <3>6, <5>1
      <4>4. /\ InOrder(outbound', acc)
            /\ UnderWay(writes', outbound', acc)
            /\ Len(acc) = Len(outbound') + Len(queue) - OnTheWire(writes')
        BY <1>0, <3>3, <3>4, <3>5, <4>1, <4>2, <4>3, StartsInOrder
      <4>5. QED
        BY <3>1, <3>4, <4>4 DEF WireInv
    <3>8. CASE ~ShouldStart
      <4>1. writes' = writes /\ outbound' = outbound
        BY <1>4, <2>2, <3>8 DEF RunSend
      <4>2. OnTheWire(writes) \in {0, 1} /\ OnTheWire(writes') = OnTheWire(writes)
        BY <4>1 DEF OnTheWire
      <4>3. Len(acc) = Len(outbound) + Len(queue) - OnTheWire(writes)
        BY <1>0, <3>3, <3>6, <4>2
      <4>4. QED
        BY <3>1, <3>4, <3>5, <4>1, <4>2, <4>3 DEF WireInv
    <3>9. QED
      BY <3>7, <3>8
  <2>3. QED
    BY <2>1, <2>2
<1>5. CASE RunClose
  <2>1. CASE ~CloseApplies
    BY <1>1, <1>5, <2>1 DEF RunClose
  <2>2. CASE CloseApplies
    <3>1. /\ is_active' = FALSE /\ writes' = AllAborted(writes)
          /\ UNCHANGED <<outbound, accepted, write_queue>>
      BY <1>5, <2>2 DEF RunClose
    <3>2. UnderWay(writes', outbound, accepted)
      <4>1. ASSUME writes' # <<>> PROVE writes'[1].state # "pending"
        <5>1. writes' \in Seq(WriteOps) /\ Len(writes') = Len(writes) /\ Len(writes') # 0
          BY <1>0, <3>1, <4>1, AllAbortedType, EmptyLen
        <5>2. 1 \in 1 .. Len(writes)
          BY <1>0, <5>1, LenProperties
        <5>3. writes[1] \in WriteOps /\ writes'[1] = Aborted(writes[1])
          BY <1>0, <3>1, <5>2, AllAbortedType
        <5>4. QED
          BY <5>3, AbortedType
      <4>2. QED
        BY <4>1 DEF UnderWay
    <3>3. QED
      BY <3>1, <3>2, WireFrame
  <2>3. QED
    BY <2>1, <2>2
<1>6. CASE OnWrite
  <2>1. /\ writes # <<>> /\ Finished(Head(writes)) /\ Head(writes) = writes[1]
        /\ accepted' = accepted /\ is_active' = is_active
    BY <1>0, <1>6 DEF OnWrite
  <2>2. Tail(writes) = <<>>
    BY <1>0, <2>1, SingleTail
  <2>3. ASSUME writes' = <<>>, UNCHANGED <<outbound, write_queue>>,
               is_active => writes[1].state # "done"
        PROVE  WireInv'
    <3>1. /\ UnderWay(writes', outbound, accepted) /\ OnTheWire(writes') = 0
          /\ is_active => OnTheWire(writes) = 0
      BY <2>3 DEF UnderWay, OnTheWire
    <3>2. QED
      BY <2>1, <2>3, <3>1, WireFrame
  <2>4. CASE ~is_active
    BY <1>6, <2>2, <2>3, <2>4 DEF OnWrite
  <2>5. CASE is_active /\ writes[1].state = "failed"
    BY <1>6, <2>1, <2>2, <2>3, <2>5 DEF OnWrite
  <2>6. CASE is_active /\ writes[1].state = "done"
    <3> DEFINE queue == Tail(write_queue)
    <3>1. write_queue' = queue /\ DoWrite(queue, Tail(writes))
      BY <1>6, <2>1, <2>6 DEF OnWrite, PopFront, ContinueWriting
    <3>2. write_queue # <<>>
      BY <2>1, <2>6 DEF TypeInv, QueueInv
    <3>3. queue \in Seq(Msgs) /\ Len(queue) = Len(write_queue) - 1
      BY <1>0, <3>2
    <3>4. EndOf(accepted, queue)
      BY <1>0, <2>6, <3>2, EndOfTail DEF WireInv
    <3> HIDE DEF queue
    <3>5. Len(accepted) = Len(outbound) + Len(queue)
      <4>1. OnTheWire(writes) = 1
        BY <2>1, <2>6 DEF OnTheWire
      <4>2. QED
        BY <1>0, <2>6, <3>3, <4>1 DEF WireInv
    <3>6. /\ InOrder(outbound', accepted)
          /\ UnderWay(writes', outbound', accepted)
          /\ Len(accepted) = Len(outbound') + Len(queue) - OnTheWire(writes')
      <4>1. InOrder(outbound, accepted)
        BY DEF WireInv
      <4>2. QED
        BY <1>0, <2>2, <3>1, <3>3, <3>4, <3>5, <4>1, StartsInOrder
    <3>7. QED
      BY <2>1, <3>1, <3>4, <3>6 DEF WireInv
  <2>7. QED
    BY <1>6, <2>1, <2>4, <2>5, <2>6 DEF OnWrite
<1>7. CASE OnRead
  BY <1>1, <1>7 DEF OnRead, HandleReadError
<1>8. ASSUME NEW i \in DOMAIN writes, NEW s \in OpStates,
             writes' = [writes EXCEPT ![i].state = s]
      PROVE  /\ i = 1 /\ writes # <<>> /\ writes' # <<>>
             /\ writes'[1].state = s /\ writes[1] \in WriteOps
  <2>1. i = 1 /\ Len(writes) = 1 /\ writes[1] \in WriteOps
    BY <1>0, <1>8, OnlyOperation
  <2>2. writes'[1] = [data |-> writes[1].data, state |-> s] /\ Len(writes') = Len(writes)
    BY <1>0, <1>8, <2>1, SetStateType
  <2>3. writes # <<>> /\ writes' # <<>>
    BY <2>1, <2>2
  <2>4. QED
    BY <2>1, <2>2, <2>3
<1>9. CASE WriteCompletes
  <2>1. PICK i \in DOMAIN writes :
          /\ writes[i].state = "pending"
          /\ writes' = [writes EXCEPT ![i].state = "done"]
          /\ \E f \in LateBytes(writes[i].data) : outbound' = Append(outbound, f)
          /\ UNCHANGED <<write_queue, accepted, is_active>>
    BY <1>9 DEF WriteCompletes, Finished
  <2>2. i = 1 /\ writes # <<>> /\ writes' # <<>> /\ writes'[1].state = "done"
    BY <1>8, <2>1 DEF OpStates
  <2>3. writes[1] \in WriteOps
    BY <1>8, <2>1 DEF OpStates
  <2>4. Len(outbound) < Len(accepted) /\ writes[1].data = accepted[Len(outbound) + 1]
    BY <2>1, <2>2 DEF WireInv, UnderWay
  <2>5. PICK f \in LateBytes(writes[1].data) : outbound' = Append(outbound, f)
    BY <2>1, <2>2
  <2>6. f \in Frames
    BY <2>3, <2>5 DEF LateBytes, Frames, WriteOps
  <2>7. InOrder(outbound', accepted)
    BY <1>0, <2>4, <2>5, <2>6, InOrderAppend DEF WireInv
  <2>8. /\ OnTheWire(writes) = 0 /\ OnTheWire(writes') = 1
        /\ UnderWay(writes', outbound', accepted)
    BY <2>1, <2>2 DEF OnTheWire, UnderWay
  <2>9. Len(outbound') = Len(outbound) + 1
    BY <1>0, <2>5, <2>6
  <2>10. QED
    BY <1>0, <2>1, <2>7, <2>8, <2>9 DEF WireInv
<1>10. CASE WriteFails
  <2>1. PICK i \in DOMAIN writes :
          /\ writes[i].state = "pending"
          /\ writes' = [writes EXCEPT ![i].state = "failed"]
          /\ UNCHANGED <<write_queue, accepted, outbound, is_active>>
    BY <1>10 DEF WriteFails, Finished
  <2>2. /\ i = 1 /\ writes # <<>> /\ writes' # <<>>
        /\ writes'[1].state = "failed"
    BY <1>8, <2>1 DEF OpStates
  <2>3. /\ OnTheWire(writes) = 0 /\ OnTheWire(writes') = 0
        /\ UnderWay(writes', outbound, accepted)
    BY <2>1, <2>2 DEF OnTheWire, UnderWay
  <2>4. QED
    BY <2>1, <2>3, WireFrame
<1>11. CASE HeaderArrives
  BY <1>1, <1>11 DEF HeaderArrives
<1>12. CASE BodyArrives
  BY <1>1, <1>12 DEF BodyArrives
<1>13. CASE ReadFails
  BY <1>1, <1>13 DEF ReadFails
<1>14. CASE PeerCloses
  BY <1>1, <1>14 DEF PeerCloses
<1>15. ASSUME NEW f \in Frames, PeerSends(f) PROVE WireInv'
  BY <1>1, <1>15 DEF PeerSends
<1>16. CASE UNCHANGED vars
  BY <1>1, <1>16 DEF vars
<1>17. CASE Next
  BY <1>17, <1>2, <1>3, <1>4, <1>5, <1>6, <1>7, <1>9, <1>10, <1>11, <1>12, <1>13, <1>14,
     <1>15, NextCases
<1>18. QED
  BY <1>16, <1>17

(***************************************************************************)
(* What a session puts on the wire is what it accepted, in that order and  *)
(* each message once, whatever its freed buffers became; nothing accepted  *)
(* is dropped from the queue of an active session before it is written.    *)
(***************************************************************************)
THEOREM WireCarriesAcceptedInOrder == Spec => []WireInOrder
<1> DEFINE Inv == TypeInv /\ WireInv
<1>1. Init => Inv
  <2>1. Init => WireInv
    BY DEF Init, WireInv, InOrder, UnderWay, OnTheWire, EndOf
  <2>2. QED
    BY <2>1, TypeInvInit
<1>2. Inv /\ [Next]_vars => Inv'
  BY TypeInvStep, WireInvStep
<1>3. ASSUME Inv PROVE WireInOrder
  <2>1. writes \in Seq(WriteOps) /\ outbound \in Seq(Frames)
    BY <1>3 DEF TypeInv, TypeOK, WriteTypeOK
  <2>2. writes # <<>> => Head(writes) = writes[1]
    BY <2>1
  <2>3. FrontOnTheWire = OnTheWire(writes)
    BY <2>2 DEF FrontOnTheWire, OnTheWire
  <2>4. DOMAIN outbound = 1 .. Len(outbound)
    BY <2>1
  <2>5. QED
    BY <1>3, <2>3, <2>4 DEF WireInv, InOrder, WireInOrder
<1>4. Spec => []Inv
  <2> HIDE DEF Inv
  <2>1. QED
    BY <1>1, <1>2, PTL DEF Spec
<1>5. QED
  BY <1>3, <1>4, PTL
=============================================================================
