------------------------- MODULE CommandQueueProofs -------------------------
(***************************************************************************)
(* Proofs about CommandQueue, for any commands, any finite set of threads  *)
(* and any number of pushes.                                               *)
(***************************************************************************)
EXTENDS CommandQueue, FiniteSetTheorems, SequenceTheorems, TLAPS

-----------------------------------------------------------------------------
(* The threads inside Pop: finite sets, and disjoint.                      *)

SetTypeOK ==
  /\ stopped \in BOOLEAN
  /\ calling \in SUBSET Threads
  /\ waiting \in SUBSET (Threads \ calling)
SeqTypeOK ==
  /\ queue \in Seq(Commands)
  /\ pushed \in Seq(Commands)
  /\ popped \in Seq(Commands)

LEMMA TypesInit == Init => SetTypeOK /\ SeqTypeOK
<1>1. Init => SetTypeOK
  BY DEF Init, SetTypeOK
<1>2. Init => SeqTypeOK
  BY DEF Init, SeqTypeOK
<1>3. QED
  BY <1>1, <1>2

LEMMA CountCalling ==
  ASSUME NEW S, S \subseteq Threads
  PROVE  /\ IsFiniteSet(S) /\ Cardinality(S) \in Nat
         /\ \A t \in Threads : t \notin S => Cardinality(S \cup {t}) = Cardinality(S) + 1
         /\ \A t \in S : Cardinality(S \ {t}) = Cardinality(S) - 1
<1>1. IsFiniteSet(S)
  BY QueueAssumption, FS_Subset
<1>2. QED
  BY <1>1, FS_CardinalityType, FS_AddElement, FS_RemoveElement

-----------------------------------------------------------------------------
(* Types.                                                                  *)

LEMMA SetTypeStep ==
  ASSUME SetTypeOK, [Next]_vars
  PROVE  SetTypeOK'
<1>1. ASSUME NEW T \in SUBSET waiting, Wake(T), stopped' \in BOOLEAN
      PROVE  SetTypeOK'
  BY <1>1 DEF SetTypeOK, Wake
<1>2. CASE Stop
  BY <1>1, <1>2 DEF Stop, NotifyAll
<1>3. ASSUME NEW c \in Commands, Push(c) PROVE SetTypeOK'
  <2>1. stopped' \in BOOLEAN
    BY <1>3 DEF Push, SetTypeOK
  <2>2. CASE waiting = {}
    BY <1>1, <1>3, <2>1, <2>2 DEF Push, NotifyOne
  <2>3. CASE waiting # {}
    BY <1>1, <1>3, <2>1, <2>3 DEF Push, NotifyOne
  <2>4. QED
    BY <2>2, <2>3
<1>4. ASSUME NEW t \in Threads, CallPop(t) PROVE SetTypeOK'
  BY <1>4 DEF CallPop, SetTypeOK
<1>5. ASSUME NEW t \in Threads, RunPop(t) PROVE SetTypeOK'
  BY <1>5 DEF RunPop, SetTypeOK
<1>6. ASSUME NEW t \in Threads, SpuriousWake(t) PROVE SetTypeOK'
  BY <1>1, <1>6 DEF SpuriousWake, SetTypeOK
<1>7. CASE UNCHANGED vars
  BY <1>7 DEF vars, SetTypeOK
<1>8. QED
  BY <1>2, <1>3, <1>4, <1>5, <1>6, <1>7 DEF Next

\* A command is only taken from a queue that has one.
LEMMA TakesFrontOfQueue ==
  ASSUME NEW t \in Threads, RunPop(t)
  PROVE  \/ UNCHANGED <<queue, popped>>
         \/ queue # <<>> /\ ~stopped /\ TakeFront
BY DEF RunPop, ReturnsNothing

LEMMA NextCases ==
  ASSUME [Next]_vars,
         NEW G,
         Stop => G,
         \A c \in Commands : Push(c) => G,
         \A t \in Threads : CallPop(t) => G,
         \A t \in Threads : RunPop(t) => G,
         \A t \in Threads : SpuriousWake(t) => G,
         UNCHANGED vars => G
  PROVE  G
BY Zenon DEF Next

LEMMA SeqTypeStep ==
  ASSUME SeqTypeOK, [Next]_vars
  PROVE  SeqTypeOK'
<1>1. ASSUME NEW c \in Commands, Push(c) PROVE SeqTypeOK'
  BY <1>1 DEF Push, SeqTypeOK
<1>2. ASSUME NEW t \in Threads, RunPop(t) PROVE SeqTypeOK'
  <2>1. UNCHANGED pushed
    BY <1>2 DEF RunPop
  <2>2. CASE UNCHANGED <<queue, popped>>
    BY <2>1, <2>2 DEF SeqTypeOK
  <2>3. CASE queue # <<>> /\ ~stopped /\ TakeFront
    <3>1. Head(queue) \in Commands /\ Tail(queue) \in Seq(Commands)
      BY <2>3 DEF SeqTypeOK
    <3>2. QED
      BY <2>1, <2>3, <3>1 DEF SeqTypeOK, TakeFront
  <2>4. QED
    BY <1>2, <2>2, <2>3, TakesFrontOfQueue
<1>3. ASSUME UNCHANGED <<queue, pushed, popped>> PROVE SeqTypeOK'
  BY <1>3 DEF SeqTypeOK
<1>4. (Stop => SeqTypeOK') /\ (UNCHANGED vars => SeqTypeOK')
  BY <1>3 DEF Stop, vars
<1>5. \A t \in Threads : (CallPop(t) => SeqTypeOK') /\ (SpuriousWake(t) => SeqTypeOK')
  BY <1>3 DEF CallPop, SpuriousWake
<1>6. QED
  BY <1>1, <1>2, <1>4, <1>5, NextCases

(***************************************************************************)
(* Every reachable state is well typed: no thread both waits and runs.     *)
(***************************************************************************)
THEOREM TypeCorrect == Spec => []TypeOK
<1>1. Spec => [](SetTypeOK /\ SeqTypeOK)
  BY TypesInit, SetTypeStep, SeqTypeStep, PTL DEF Spec
<1>2. SetTypeOK /\ SeqTypeOK => TypeOK
  BY DEF SetTypeOK, SeqTypeOK, TypeOK
<1>3. QED
  BY <1>1, <1>2, PTL

-----------------------------------------------------------------------------
(* Wakeups.  A push adds a command and, if anybody waits, moves one thread *)
(* from waiting to calling; a thread leaves calling with a command, or     *)
(* because the queue is empty, or because the queue was stopped, and then  *)
(* nobody waits.                                                           *)

WakeInv ==
  /\ NoLostWakeup
  /\ stopped => waiting = {}

LEMMA WakeStep ==
  ASSUME SetTypeOK, SeqTypeOK, WakeInv, [Next]_vars
  PROVE  WakeInv'
<1>1. Len(queue) \in Nat /\ Cardinality(calling) \in Nat
  BY CountCalling, LenProperties DEF SetTypeOK, SeqTypeOK
<1>2. CASE Stop
  BY <1>2 DEF Stop, NotifyAll, Wake, WakeInv, NoLostWakeup
<1>3. ASSUME NEW c \in Commands, Push(c) PROVE WakeInv'
  <2>1. queue' = Append(queue, c) /\ stopped' = stopped
    BY <1>3 DEF Push
  <2>2. Len(queue') = Len(queue) + 1
    BY <2>1 DEF SeqTypeOK
  <2>3. CASE waiting = {}
    BY <1>3, <2>1, <2>3 DEF Push, NotifyOne, Wake, WakeInv, NoLostWakeup
  <2>4. CASE waiting # {}
    <3>1. PICK t \in waiting : Wake({t})
      BY <1>3, <2>4 DEF Push, NotifyOne
    <3>2. t \in Threads /\ t \notin calling /\ calling \subseteq Threads
      BY DEF SetTypeOK
    <3>3. Cardinality(calling') = Cardinality(calling) + 1
      BY <3>1, <3>2, CountCalling DEF Wake
    <3>4. Len(queue) <= Cardinality(calling) /\ ~stopped
      BY <2>4 DEF WakeInv, NoLostWakeup
    <3>5. Len(queue') <= Cardinality(calling')
      BY <1>1, <2>2, <3>3, <3>4
    <3>6. QED
      BY <2>1, <3>4, <3>5 DEF WakeInv, NoLostWakeup
  <2>5. QED
    BY <2>3, <2>4
<1>4. ASSUME NEW t \in Threads, t \notin calling, calling' = calling \cup {t},
             waiting' \subseteq waiting, UNCHANGED <<queue, stopped>>
      PROVE  WakeInv'
  <2>1. Cardinality(calling') = Cardinality(calling) + 1
    BY <1>4, CountCalling DEF SetTypeOK
  <2>2. waiting' # {} => Len(queue) <= Cardinality(calling')
    BY <1>1, <1>4, <2>1 DEF WakeInv, NoLostWakeup
  <2>3. QED
    BY <1>4, <2>2 DEF WakeInv, NoLostWakeup
<1>5. ASSUME NEW t \in Threads, CallPop(t) PROVE WakeInv'
  BY <1>4, <1>5 DEF CallPop
<1>6. ASSUME NEW t \in Threads, SpuriousWake(t) PROVE WakeInv'
  BY <1>4, <1>6 DEF SpuriousWake, Wake, SetTypeOK
<1>7. ASSUME NEW t \in Threads, RunPop(t) PROVE WakeInv'
  <2>1. t \in calling /\ calling' = calling \ {t} /\ stopped' = stopped
    BY <1>7 DEF RunPop
  <2>2. Cardinality(calling') = Cardinality(calling) - 1
    BY <2>1, CountCalling DEF SetTypeOK
  <2>3. CASE queue = <<>> /\ ~stopped
    <3>1. queue' = <<>>
      BY <1>7, <2>3 DEF RunPop
    <3>2. Len(queue') = 0
      BY <3>1
    <3>3. Cardinality(calling') \in Nat
      BY <2>1, CountCalling DEF SetTypeOK
    <3>4. Len(queue') <= Cardinality(calling')
      BY <3>2, <3>3
    <3>5. QED
      BY <2>1, <2>3, <3>4 DEF WakeInv, NoLostWakeup
  <2>4. CASE stopped
    <3>1. waiting' = {}
      BY <1>7, <2>4 DEF RunPop, WakeInv
    <3>2. QED
      BY <3>1 DEF WakeInv, NoLostWakeup
  <2>5. CASE queue # <<>> /\ ~stopped
    <3>1. queue' = Tail(queue) /\ waiting' = waiting
      BY <1>7, <2>5 DEF RunPop, ReturnsNothing, TakeFront
    <3>2. Len(queue') = Len(queue) - 1
      BY <2>5, <3>1, HeadTailProperties DEF SeqTypeOK
    <3>3. waiting # {} => Len(queue') <= Cardinality(calling')
      BY <1>1, <2>2, <3>2 DEF WakeInv, NoLostWakeup
    <3>4. QED
      BY <2>1, <2>5, <3>1, <3>3 DEF WakeInv, NoLostWakeup
  <2>6. QED
    BY <2>3, <2>4, <2>5
<1>8. CASE UNCHANGED vars
  BY <1>8 DEF vars, WakeInv, NoLostWakeup
<1>9. QED
  BY <1>2, <1>3, <1>5, <1>6, <1>7, <1>8, NextCases

(***************************************************************************)
(* notify_one is enough: no command sits in the queue while every thread   *)
(* in Pop is blocked.                                                      *)
(***************************************************************************)
THEOREM WakeupsAreNotLost == Spec => []NoLostWakeup
<1>1. Init => WakeInv
  BY DEF Init, WakeInv, NoLostWakeup
<1>2. Spec => [](SetTypeOK /\ SeqTypeOK /\ WakeInv)
  BY <1>1, TypesInit, SetTypeStep, SeqTypeStep, WakeStep, PTL DEF Spec
<1>3. WakeInv => NoLostWakeup
  BY DEF WakeInv
<1>4. QED
  BY <1>2, <1>3, PTL

(***************************************************************************)
(* Commands leave in the order in which they were pushed, none lost, none  *)
(* twice.                                                                  *)
(***************************************************************************)
THEOREM QueueIsFIFO == Spec => []FirstInFirstOut
<1>1. Init => FirstInFirstOut
  BY DEF Init, FirstInFirstOut
<1>2. ASSUME SeqTypeOK, FirstInFirstOut, [Next]_vars PROVE FirstInFirstOut'
  <2>1. ASSUME NEW c \in Commands, Push(c) PROVE FirstInFirstOut'
    <3>1. pushed' = Append(popped \o queue, c) /\ queue' = Append(queue, c) /\ popped' = popped
      BY <1>2, <2>1 DEF Push, FirstInFirstOut
    <3>2. Append(popped \o queue, c) = popped \o Append(queue, c)
      BY <1>2 DEF SeqTypeOK
    <3>3. QED
      BY <3>1, <3>2 DEF FirstInFirstOut
  <2>2. ASSUME NEW t \in Threads, RunPop(t) PROVE FirstInFirstOut'
    <3>1. UNCHANGED pushed
      BY <2>2 DEF RunPop
    <3>2. CASE UNCHANGED <<queue, popped>>
      BY <1>2, <3>1, <3>2 DEF FirstInFirstOut
    <3>3. CASE queue # <<>> /\ ~stopped /\ TakeFront
      <4>1. popped \o queue = Append(popped, Head(queue)) \o Tail(queue)
        BY <1>2, <3>3 DEF SeqTypeOK
      <4>2. QED
        BY <1>2, <3>1, <3>3, <4>1 DEF FirstInFirstOut, TakeFront
    <3>4. QED
      BY <2>2, <3>2, <3>3, TakesFrontOfQueue
  <2>3. ASSUME UNCHANGED <<queue, pushed, popped>> PROVE FirstInFirstOut'
    BY <1>2, <2>3 DEF FirstInFirstOut
  <2>4. (Stop => FirstInFirstOut') /\ (UNCHANGED vars => FirstInFirstOut')
    BY <2>3 DEF Stop, vars
  <2>5. \A t \in Threads :
          (CallPop(t) => FirstInFirstOut') /\ (SpuriousWake(t) => FirstInFirstOut')
    BY <2>3 DEF CallPop, SpuriousWake
  <2>6. QED
    BY <1>2, <2>1, <2>2, <2>4, <2>5, NextCases
<1>3. QED
  BY <1>1, <1>2, TypesInit, SeqTypeStep, PTL DEF Spec

(***************************************************************************)
(* Once the queue is stopped, Pop hands out nothing.                       *)
(***************************************************************************)
THEOREM StoppedHandsOutNothing == Spec => NothingAfterStop
<1>1. ASSUME [Next]_vars, stopped PROVE popped' = popped
  <2>1. ASSUME NEW t \in Threads, RunPop(t) PROVE popped' = popped
    BY <1>1, <2>1, TakesFrontOfQueue
  <2>2. QED
    BY <1>1, <2>1 DEF Next, Stop, Push, CallPop, SpuriousWake, vars
<1>2. [Next]_vars => [stopped => popped' = popped]_vars
  BY <1>1
<1>3. QED
  BY <1>2, PTL DEF Spec, NothingAfterStop

=============================================================================
