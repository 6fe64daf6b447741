----------------------- MODULE CommandExecutorProofs ------------------------
(***************************************************************************)
(* Proofs about CommandExecutor, for any commands, any macros, any depth   *)
(* of nested activations and any handlers registered before its own.       *)
(***************************************************************************)
EXTENDS CommandExecutor, FiniteSetTheorems, SequenceTheorems, TLAPS

-----------------------------------------------------------------------------
(* The stack of activations.                                               *)

LEMMA TopType ==
  ASSUME NEW S, NEW seq \in Seq(S), seq # <<>>
  PROVE  /\ Len(seq) \in Nat /\ Len(seq) >= 1
         /\ Len(seq) \in 1 .. Len(seq) /\ Len(seq) \in DOMAIN seq
         /\ seq[Len(seq)] \in S
OBVIOUS

LEMMA WiderType ==
  ASSUME NEW S, NEW T, S \subseteq T, NEW seq \in Seq(S)
  PROVE  seq \in Seq(T)
OBVIOUS

\* Entering WorkerLoop.
LEMMA Pushed ==
  ASSUME NEW S, NEW seq \in Seq(S), NEW e \in S
  PROVE  /\ Append(seq, e) \in Seq(S)
         /\ Append(seq, e) # <<>>
         /\ Len(Append(seq, e)) = Len(seq) + 1
         /\ \A i \in 1 .. Len(seq) : Append(seq, e)[i] = seq[i]
         /\ Append(seq, e)[Len(seq) + 1] = e
OBVIOUS

\* The innermost activation goes on.
LEMMA Replaced ==
  ASSUME NEW S, NEW seq \in Seq(S), seq # <<>>, NEW e \in S
  PROVE  /\ [seq EXCEPT ![Len(seq)] = e] \in Seq(S)
         /\ [seq EXCEPT ![Len(seq)] = e] # <<>>
         /\ Len([seq EXCEPT ![Len(seq)] = e]) = Len(seq)
         /\ [seq EXCEPT ![Len(seq)] = e][Len(seq)] = e
         /\ \A i \in 1 .. Len(seq) - 1 : [seq EXCEPT ![Len(seq)] = e][i] = seq[i]
<1> DEFINE n == Len(seq)
           new == [seq EXCEPT ![n] = e]
<1>1. n \in Nat /\ n \in 1 .. n
  BY TopType
<1>2. /\ new \in Seq(S) /\ Len(new) = n
      /\ \A i \in 1 .. n : new[i] = IF i = n THEN e ELSE seq[i]
  BY <1>1, ExceptSeq
<1>3. new # <<>>
  BY <1>1, <1>2, EmptySeq
<1> HIDE DEF new, n
<1>4. new[n] = e /\ \A i \in 1 .. n - 1 : new[i] = seq[i]
  BY <1>1, <1>2
<1>5. QED
  BY <1>2, <1>3, <1>4 DEF new, n

\* Leaving WorkerLoop.
LEMMA Dropped ==
  ASSUME NEW S, NEW seq \in Seq(S), seq # <<>>
  PROVE  /\ SubSeq(seq, 1, Len(seq) - 1) \in Seq(S)
         /\ Len(SubSeq(seq, 1, Len(seq) - 1)) = Len(seq) - 1
         /\ \A i \in 1 .. Len(seq) - 1 : SubSeq(seq, 1, Len(seq) - 1)[i] = seq[i]
<1> DEFINE n == Len(seq) - 1
           new == SubSeq(seq, 1, n)
<1>1. n \in Nat
  BY TopType
<1>2. \A i \in 1 .. n : seq[i] \in S
  OBVIOUS
<1>3. /\ new \in Seq(S)
      /\ Len(new) = IF 1 <= n THEN n - 1 + 1 ELSE 0
      /\ \A i \in 1 .. n - 1 + 1 : new[i] = seq[1 + i - 1]
  BY <1>1, <1>2, SubSeqProperties
<1> HIDE DEF new, n
<1>4. Len(new) = n /\ \A i \in 1 .. n : new[i] = seq[i]
  <2>1. n - 1 + 1 = n /\ \A i \in 1 .. n : 1 + i - 1 = i
    BY <1>1
  <2>2. (1 <= n => Len(new) = n) /\ (~(1 <= n) => n = 0)
    BY <1>1, <1>3, <2>1
  <2>3. Len(new) = n
    BY <1>3, <2>1, <2>2
  <2>4. \A i \in 1 .. n : new[i] = seq[i]
    BY <1>3, <2>1
  <2>5. QED
    BY <2>3, <2>4
<1>5. QED
  BY <1>3, <1>4 DEF new, n

-----------------------------------------------------------------------------
(* What an activation is in: every one but the innermost is in its         *)
(* callback, every one that took a command took its caller's, and none     *)
(* waits.  The queue holds the command of an activation that has not come  *)
(* to take it, and nothing else.                                           *)

WellFormed(a, n) ==
  /\ a \in Activations
  /\ a.own \in 1 .. n
  /\ a.phase # "waiting"
  /\ a.phase \notin {"enqueued", "pop"} => a.taken = a.own

StackInv ==
  /\ stack \in Seq(Activations)
  /\ \A i \in 1 .. Len(stack) : WellFormed(stack[i], Len(submitted))
  /\ \A i \in 1 .. Len(stack) - 1 : stack[i].phase = "callback"

StillToTake == Is("enqueued") \/ Is("pop")

QueueInv ==
  ~stopped => /\ StillToTake => queue = <<Top.own>>
              /\ ~StillToTake => queue = <<>>

LEMMA TopWellFormed ==
  ASSUME StackInv, stack # <<>>
  PROVE  /\ WellFormed(Top, Len(submitted)) /\ Top \in Activations
         /\ Len(stack) \in Nat /\ Len(stack) >= 1
<1>1. Len(stack) \in 1 .. Len(stack) /\ Len(stack) \in Nat /\ Len(stack) >= 1
  BY TopType DEF StackInv
<1>2. QED
  BY <1>1 DEF StackInv, Top, WellFormed

\* The innermost activation goes on.
LEMMA TopGoesOn ==
  ASSUME StackInv, stack # <<>>, submitted' = submitted,
         NEW a, WellFormed(a, Len(submitted)), TopBecomes(a)
  PROVE  StackInv' /\ stack' # <<>> /\ Top' = a
<1>1. a \in Activations
  BY DEF WellFormed
<1>2. /\ stack' \in Seq(Activations) /\ stack' # <<>> /\ Len(stack') = Len(stack)
      /\ stack'[Len(stack)] = a
      /\ \A i \in 1 .. Len(stack) - 1 : stack'[i] = stack[i]
  BY <1>1, Replaced DEF StackInv, TopBecomes
<1>3. Len(stack) \in Nat /\ Len(stack) >= 1
  BY TopWellFormed
<1>4. \A i \in 1 .. Len(stack) : i = Len(stack) \/ i \in 1 .. Len(stack) - 1
  BY <1>3
<1>5. \A i \in 1 .. Len(stack) : WellFormed(stack'[i], Len(submitted))
  BY <1>2, <1>4, Zenon DEF StackInv
<1>6. \A i \in 1 .. Len(stack) - 1 : stack'[i].phase = "callback"
  BY <1>2 DEF StackInv
<1>7. QED
  BY <1>2, <1>5, <1>6 DEF StackInv, Top

\* The caller goes on: in its callback, if it is an activation.
LEMMA CallerGoesOn ==
  ASSUME StackInv, stack # <<>>, submitted' = submitted, stack' = Below
  PROVE  /\ StackInv' /\ ~StillToTake'
         /\ stack' # <<>> => Top'.phase = "callback"
<1>1. /\ stack' \in Seq(Activations) /\ Len(stack') = Len(stack) - 1
      /\ \A i \in 1 .. Len(stack) - 1 : stack'[i] = stack[i]
  BY Dropped DEF StackInv, Below
<1>2. Len(stack) \in Nat /\ Len(stack) >= 1
  BY TopWellFormed
<1>3. /\ \A i \in 1 .. Len(stack) - 1 : i \in 1 .. Len(stack)
      /\ \A i \in 1 .. Len(stack) - 1 - 1 : i \in 1 .. Len(stack) - 1
  BY <1>2
<1>4. StackInv'
  <2>1. \A i \in 1 .. Len(stack') : WellFormed(stack'[i], Len(submitted))
    BY <1>1, <1>3, Zenon DEF StackInv
  <2>2. \A i \in 1 .. Len(stack') - 1 : stack'[i].phase = "callback"
    BY <1>1, <1>3 DEF StackInv
  <2>3. QED
    BY <1>1, <2>1, <2>2 DEF StackInv
<1>5. ASSUME stack' # <<>> PROVE Top'.phase = "callback"
  <2>1. Len(stack') \in 1 .. Len(stack')
    BY <1>1, <1>5, TopType
  <2>2. QED
    BY <1>1, <2>1 DEF StackInv, Top
<1>6. QED
  BY <1>4, <1>5 DEF StillToTake, Is

\* The caller is an activation whose callback throws.
LEMMA CallerFails ==
  ASSUME StackInv, stack # <<>>, Len(stack) # 1, submitted' = submitted,
         stack' = [Below EXCEPT ![Len(Below)] = [Outer EXCEPT !.phase = "failed"]]
  PROVE  StackInv' /\ ~StillToTake'
<1> DEFINE n == Len(stack) - 1
           a == [Outer EXCEPT !.phase = "failed"]
<1>1. /\ Below \in Seq(Activations) /\ Len(Below) = n
      /\ \A i \in 1 .. n : Below[i] = stack[i]
  BY Dropped DEF StackInv, Below
<1>2. Len(stack) \in Nat /\ n \in Nat /\ n >= 1
  <2>1. Len(stack) \in Nat /\ Len(stack) >= 1
    BY TopWellFormed
  <2>2. \A k \in Nat : k >= 1 /\ k # 1 => k - 1 \in Nat /\ k - 1 >= 1
    OBVIOUS
  <2>3. QED
    BY <2>1, <2>2
<1>3. Below # <<>>
  BY <1>1, <1>2, EmptySeq
<1>4. WellFormed(a, Len(submitted))
  <2>1. n \in 1 .. Len(stack) /\ n \in 1 .. Len(stack) - 1
    BY <1>2
  <2>2. WellFormed(Outer, Len(submitted)) /\ Outer.phase = "callback"
    BY <2>1 DEF StackInv, Outer
  <2>3. QED
    BY <2>2 DEF WellFormed, Activations, Phases
<1> HIDE DEF a, n
<1>5. a \in Activations
  BY <1>4 DEF WellFormed
<1>6. stack' = [Below EXCEPT ![Len(Below)] = a]
  BY DEF a
<1>7. /\ stack' \in Seq(Activations) /\ stack' # <<>> /\ Len(stack') = n /\ stack'[n] = a
      /\ \A i \in 1 .. n - 1 : stack'[i] = Below[i]
  BY <1>1, <1>3, <1>5, <1>6, Replaced
<1>8. \A i \in 1 .. n : i = n \/ i \in 1 .. n - 1
  BY <1>2
<1>9. \A i \in 1 .. n - 1 : i \in 1 .. n /\ i \in 1 .. Len(stack)
  BY <1>2 DEF n
<1>10. \A i \in 1 .. n - 1 : stack'[i] = stack[i]
  BY <1>1, <1>7, <1>9
<1>11. \A i \in 1 .. n : WellFormed(stack'[i], Len(submitted))
  BY <1>4, <1>7, <1>8, <1>9, <1>10, Zenon DEF StackInv
<1>12. \A i \in 1 .. n - 1 : stack'[i].phase = "callback"
  BY <1>9, <1>10 DEF StackInv, n
<1>13. StackInv'
  BY <1>7, <1>11, <1>12 DEF StackInv
<1>14. Top'.phase = "failed"
  <2>1. Outer \in Activations
    <3>1. n \in 1 .. Len(stack)
      BY <1>2 DEF n
    <3>2. QED
      BY <3>1 DEF StackInv, WellFormed, Outer, n
  <2>2. QED
    BY <1>7, <2>1 DEF Top, a, Activations
<1>15. QED
  BY <1>13, <1>14 DEF StillToTake, Is

\* A caller enters WorkerLoop; it is the program or an activation in its
\* callback.
LEMMA CallerEnters ==
  ASSUME StackInv, stack = <<>> \/ Is("callback"),
         NEW n, n = Len(submitted) + 1, Len(submitted) \in Nat, Len(submitted') = n,
         stack' = Append(stack, [phase |-> "enqueued", own |-> n, taken |-> 0, part |-> 0])
  PROVE  StackInv' /\ stack' # <<>> /\ Top'.phase = "enqueued" /\ Top'.own = n
<1> DEFINE a == [phase |-> "enqueued", own |-> n, taken |-> 0, part |-> 0]
<1>1. WellFormed(a, n) /\ a.phase = "enqueued" /\ a.own = n
  BY DEF WellFormed, Activations, Phases
<1> HIDE DEF a
<1>2. a \in Activations
  BY <1>1 DEF WellFormed
<1>3. /\ stack' \in Seq(Activations) /\ stack' # <<>> /\ Len(stack') = Len(stack) + 1
      /\ \A i \in 1 .. Len(stack) : stack'[i] = stack[i]
      /\ stack'[Len(stack) + 1] = a
  BY <1>2, Pushed DEF StackInv, a
<1>4. Len(stack) \in Nat
  BY LenProperties DEF StackInv
<1>5. \A b : WellFormed(b, Len(submitted)) => WellFormed(b, n)
  BY DEF WellFormed
<1>6. \A i \in 1 .. Len(stack) + 1 : i = Len(stack) + 1 \/ i \in 1 .. Len(stack)
  BY <1>4
<1>7. \A i \in 1 .. Len(stack') : WellFormed(stack'[i], n)
  BY <1>1, <1>3, <1>5, <1>6, Zenon DEF StackInv
<1>8. ASSUME NEW i \in 1 .. Len(stack') - 1 PROVE stack'[i].phase = "callback"
  <2>1. i \in 1 .. Len(stack) /\ (i = Len(stack) \/ i \in 1 .. Len(stack) - 1)
    BY <1>3, <1>4
  <2>2. stack # <<>>
    BY <2>1
  <2>3. stack[i].phase = "callback"
    BY <2>1, <2>2 DEF StackInv, Is, Top
  <2>4. QED
    BY <1>3, <2>1, <2>3
<1>9. QED
  BY <1>1, <1>3, <1>7, <1>8 DEF StackInv, Top

-----------------------------------------------------------------------------
(* Types, and who takes which command.                                     *)

HistoryTypeOK ==
  /\ submitted \in Seq(Commands)
  /\ popped \in Seq(1 .. Len(submitted))
  /\ effects \in Seq(Seq(Nat)) /\ Len(effects) = Len(submitted)
  /\ escaped \in Nat

HandlerTypeOK ==
  /\ earlier \in Earlier
  /\ handlers \in Seq(HandlerKinds) /\ handlers # <<>>
  /\ retry_count \in [Commands -> 0 .. 2]
  /\ recoveries \in Seq([command : Commands, how : {"retry", "log"}])

QueueTypeOK == queue \in Seq(1 .. Len(submitted)) /\ stopped \in BOOLEAN

TypeInv == HistoryTypeOK /\ HandlerTypeOK /\ QueueTypeOK /\ StackInv /\ QueueInv

LEMMA TypeInvInit == Init => TypeInv
<1> SUFFICES ASSUME Init PROVE TypeInv
  OBVIOUS
<1>1. HistoryTypeOK
  BY DEF Init, HistoryTypeOK
<1>2. HandlerTypeOK
  <2>1. earlier \in Seq(HandlerKinds) /\ ConstructorHandlers \in Seq(HandlerKinds)
    BY ExecutorAssumption DEF Init, ConstructorHandlers, HandlerKinds
  <2>2. /\ handlers \in Seq(HandlerKinds)
        /\ Len(handlers) = Len(earlier) + Len(ConstructorHandlers)
    BY <2>1, ConcatProperties DEF Init
  <2>3. Len(ConstructorHandlers) = 2 /\ Len(earlier) \in Nat
    BY <2>1, LenProperties DEF ConstructorHandlers
  <2>4. handlers # <<>>
    BY <2>2, <2>3, EmptySeq
  <2>5. QED
    BY <2>2, <2>4 DEF Init, HandlerTypeOK
<1>3. QueueTypeOK /\ StackInv
  <2>1. QueueTypeOK
    <3>1. <<>> \in Seq(1 .. Len(submitted))
      OBVIOUS
    <3>2. queue \in Seq(1 .. Len(submitted))
      BY <3>1 DEF Init
    <3>3. stopped \in BOOLEAN
      BY DEF Init
    <3>4. QED
      BY <3>2, <3>3 DEF QueueTypeOK
  <2>2. stack = <<>> /\ Len(stack) = 0
    BY DEF Init
  <2>3. StackInv
    BY <2>2 DEF StackInv
  <2>4. QED
    BY <2>1, <2>3
<1>4. QueueInv
  BY DEF Init, QueueInv, StillToTake, Is
<1>5. QED
  BY <1>1, <1>2, <1>3, <1>4 DEF TypeInv

\* The command of an activation that is past Pop.
LEMMA RunningType ==
  ASSUME TypeInv, stack # <<>>, Top.phase \notin {"enqueued", "pop"}
  PROVE  /\ Top.taken = Top.own /\ Top.taken \in 1 .. Len(submitted)
         /\ Running \in Commands /\ Parts[Running] \in Nat
<1>1. Top.taken = Top.own /\ Top.own \in 1 .. Len(submitted)
  BY TopWellFormed DEF TypeInv, WellFormed
<1>2. Running \in Commands
  BY <1>1 DEF Running, TypeInv, HistoryTypeOK
<1>3. QED
  BY <1>1, <1>2, ExecutorAssumption

\* A step inside an activation that is past Pop, and stays past it.
LEMMA InsideStep ==
  ASSUME TypeInv, UNCHANGED <<queueVars, submitted>>, HistoryTypeOK', HandlerTypeOK',
         StackInv', ~StillToTake, ~StillToTake'
  PROVE  TypeInv'
BY DEF TypeInv, QueueTypeOK, QueueInv, queueVars

LEMMA TypeInvStep ==
  ASSUME TypeInv, [Next]_vars
  PROVE  TypeInv'
<1> USE DEF queueVars, handlerVars
<1>0. Len(submitted) \in Nat /\ StackInv
  BY LenProperties DEF TypeInv, HistoryTypeOK
<1>1. ASSUME NEW c \in Commands, EnqueueCommand(c) PROVE TypeInv'
  <2> DEFINE n == Len(submitted) + 1
  <2>1. /\ submitted' \in Seq(Commands) /\ Len(submitted') = n
        /\ effects' \in Seq(Seq(Nat)) /\ Len(effects') = Len(effects) + 1
    BY <1>1 DEF EnqueueCommand, TypeInv, HistoryTypeOK
  <2>2. 1 .. Len(submitted) \subseteq 1 .. n /\ n \in 1 .. n
    BY <1>0
  <2>3. queue' = Append(queue, n)
    BY <1>1, <2>1 DEF EnqueueCommand
  <2> HIDE DEF n
  <2>4. queue' \in Seq(1 .. n) /\ popped' \in Seq(1 .. n)
    <3>1. queue \in Seq(1 .. n) /\ popped \in Seq(1 .. n)
      BY <2>2, WiderType DEF TypeInv, QueueTypeOK, HistoryTypeOK
    <3>2. popped' = popped
      BY <1>1 DEF EnqueueCommand
    <3>3. QED
      BY <2>2, <2>3, <3>1, <3>2
  <2>5. HistoryTypeOK' /\ QueueTypeOK' /\ HandlerTypeOK'
    BY <1>1, <2>1, <2>4 DEF EnqueueCommand, TypeInv, HistoryTypeOK, QueueTypeOK, HandlerTypeOK
  <2>6. StackInv' /\ stack' # <<>> /\ Top'.phase = "enqueued" /\ Top'.own = n
    <3>1. stack' = Append(stack, [phase |-> "enqueued", own |-> n, taken |-> 0, part |-> 0])
      BY <1>1, <2>1 DEF EnqueueCommand
    <3>2. stack = <<>> \/ Is("callback")
      BY <1>1 DEF EnqueueCommand
    <3>3. QED
      BY <1>0, <2>1, <3>1, <3>2, CallerEnters DEF n
  <2>7. QueueInv'
    <3>1. ASSUME ~stopped PROVE queue = <<>>
      BY <1>1, <3>1 DEF EnqueueCommand, TypeInv, QueueInv, StillToTake, Is
    <3>2. ASSUME ~stopped PROVE queue' = <<Top'.own>>
      BY <2>3, <2>6, <3>1, <3>2
    <3>3. StillToTake' /\ stopped' = stopped
      BY <1>1, <2>6 DEF EnqueueCommand, StillToTake, Is
    <3>4. QED
      BY <3>2, <3>3 DEF QueueInv
  <2>8. QED
    BY <2>5, <2>6, <2>7 DEF TypeInv
<1>2. ASSUME NEW h \in HandlerKinds, RegisterHandler(h) PROVE TypeInv'
  <2>1. handlers' \in Seq(HandlerKinds) /\ handlers' # <<>>
    BY <1>2 DEF RegisterHandler, TypeInv, HandlerTypeOK
  <2>2. HandlerTypeOK' /\ HistoryTypeOK' /\ QueueTypeOK'
    BY <1>2, <2>1 DEF RegisterHandler, TypeInv, HandlerTypeOK, HistoryTypeOK, QueueTypeOK
  <2>3. StackInv' /\ QueueInv'
    BY <1>2 DEF RegisterHandler, TypeInv, StackInv, QueueInv, StillToTake, Is, Top
  <2>4. QED
    BY <2>2, <2>3 DEF TypeInv
<1>3. CASE WorkerLoop
  <2> DEFINE a == [Top EXCEPT !.phase = "pop"]
  <2>1. /\ stack # <<>> /\ Top.phase = "enqueued" /\ TopBecomes(a)
        /\ UNCHANGED <<queueVars, handlerVars, submitted, effects, escaped>>
    BY <1>3 DEF WorkerLoop, Is, TopMoves
  <2>2. WellFormed(a, Len(submitted)) /\ a.phase = "pop" /\ a.own = Top.own
    BY <1>0, <2>1, TopWellFormed DEF WellFormed, Activations, Phases
  <2> HIDE DEF a
  <2>3. StackInv' /\ stack' # <<>> /\ Top' = a
    BY <1>0, <2>1, <2>2, TopGoesOn
  <2>4. StillToTake /\ StillToTake' /\ Top'.own = Top.own
    BY <2>1, <2>2, <2>3 DEF StillToTake, Is
  <2>5. QueueInv'
    BY <2>1, <2>4 DEF TypeInv, QueueInv
  <2>6. HandlerTypeOK' /\ HistoryTypeOK' /\ QueueTypeOK'
    BY <2>1 DEF TypeInv, HandlerTypeOK, HistoryTypeOK, QueueTypeOK
  <2>7. QED
    BY <2>3, <2>5, <2>6 DEF TypeInv
<1>4. CASE Stop
  <2>1. /\ stopped' = TRUE
        /\ UNCHANGED <<queue, popped, stack, handlerVars, submitted, effects, escaped>>
    BY <1>4 DEF Stop
  <2>2. HandlerTypeOK' /\ HistoryTypeOK' /\ QueueTypeOK'
    BY <2>1 DEF TypeInv, HandlerTypeOK, HistoryTypeOK, QueueTypeOK
  <2>3. StackInv' /\ QueueInv'
    BY <1>0, <2>1 DEF StackInv, QueueInv
  <2>4. QED
    BY <2>2, <2>3 DEF TypeInv
<1>5. CASE Pop
  <2>1. /\ stack # <<>> /\ Top.phase = "pop" /\ StillToTake
        /\ UNCHANGED <<handlerVars, submitted, effects, escaped>>
    BY <1>5 DEF Pop, Is, StillToTake
  <2>2. CASE stopped
    <3>1. UNCHANGED <<stopped, queue, popped>> /\ stack' = Below
      BY <1>5, <2>2 DEF Pop, NoCommand
    <3>2. StackInv'
      BY <1>0, <2>1, <3>1, CallerGoesOn
    <3>3. HandlerTypeOK' /\ HistoryTypeOK' /\ QueueTypeOK' /\ QueueInv'
      BY <2>1, <2>2, <3>1 DEF TypeInv, HandlerTypeOK, HistoryTypeOK, QueueTypeOK, QueueInv
    <3>4. QED
      BY <3>2, <3>3 DEF TypeInv
  <2>3. CASE ~stopped
    <3> DEFINE a == [Top EXCEPT !.phase = "execute", !.taken = Head(queue)]
    <3>1. queue = <<Top.own>>
      BY <2>1, <2>3 DEF TypeInv, QueueInv
    <3>2. queue # <<>> /\ Head(queue) = Top.own /\ Tail(queue) = <<>>
      BY <3>1
    <3>3. /\ queue' = Tail(queue) /\ popped' = Append(popped, Head(queue))
          /\ stopped' = stopped /\ TopBecomes(a)
      BY <1>5, <2>3, <3>2 DEF Pop, NoCommand, TakeFront
    <3>4. WellFormed(a, Len(submitted)) /\ a.phase = "execute"
      BY <1>0, <2>1, <3>2, TopWellFormed DEF WellFormed, Activations, Phases
    <3> HIDE DEF a
    <3>5. StackInv' /\ ~StillToTake'
      BY <1>0, <2>1, <3>3, <3>4, TopGoesOn DEF StillToTake, Is
    <3>6. QueueInv'
      BY <3>2, <3>3, <3>5 DEF QueueInv
    <3>7. Head(queue) \in 1 .. Len(submitted)
      BY <3>2 DEF TypeInv, QueueTypeOK
    <3>8. HandlerTypeOK' /\ HistoryTypeOK' /\ QueueTypeOK'
      BY <2>1, <3>2, <3>3, <3>7 DEF TypeInv, HandlerTypeOK, HistoryTypeOK, QueueTypeOK
    <3>9. QED
      BY <3>5, <3>6, <3>8 DEF TypeInv
  <2>4. QED
    BY <2>2, <2>3
<1>6. CASE RunPart
  <2> DEFINE a == [Top EXCEPT !.part = @ + 1]
  <2>1. /\ stack # <<>> /\ Top.phase \in {"execute", "retry"} /\ TopBecomes(a)
        /\ effects' = [effects EXCEPT ![Top.taken] = Append(@, Top.part + 1)]
        /\ UNCHANGED <<queueVars, handlerVars, submitted, escaped>>
    BY <1>6 DEF RunPart, Is
  <2>2. WellFormed(a, Len(submitted)) /\ a.phase = Top.phase /\ Top.part \in Nat
    BY <1>0, <2>1, TopWellFormed DEF WellFormed, Activations
  <2> HIDE DEF a
  <2>3. StackInv' /\ ~StillToTake' /\ ~StillToTake
    BY <1>0, <2>1, <2>2, TopGoesOn DEF StillToTake, Is
  <2>4. Top.taken \in 1 .. Len(effects)
    BY <2>1, RunningType DEF TypeInv, HistoryTypeOK
  <2>5. Append(effects[Top.taken], Top.part + 1) \in Seq(Nat)
    BY <2>2, <2>4 DEF TypeInv, HistoryTypeOK
  <2>6. effects' \in Seq(Seq(Nat)) /\ Len(effects') = Len(effects)
    BY <2>1, <2>4, <2>5, ExceptSeq DEF TypeInv, HistoryTypeOK
  <2>7. HistoryTypeOK' /\ HandlerTypeOK'
    BY <2>1, <2>6 DEF TypeInv, HistoryTypeOK, HandlerTypeOK
  <2>8. QED
    BY <2>1, <2>3, <2>7, InsideStep
<1>7. ASSUME stack # <<>>, ~StillToTake, stack' = Below,
             UNCHANGED <<queueVars, submitted>>, HistoryTypeOK', HandlerTypeOK'
      PROVE  TypeInv'
  BY <1>0, <1>7, CallerGoesOn, InsideStep
<1>8. ASSUME NEW p \in {"callback", "failed"}, stack # <<>>, ~StillToTake, TopMoves(p),
             UNCHANGED <<queueVars, handlerVars, submitted, effects, escaped>>
      PROVE  TypeInv'
  <2> DEFINE a == [Top EXCEPT !.phase = p]
  <2>1. Top.phase \notin {"enqueued", "pop"}
    BY <1>8 DEF StillToTake, Is
  <2>2. WellFormed(a, Len(submitted)) /\ a.phase = p /\ TopBecomes(a)
    BY <1>0, <1>8, <2>1, TopWellFormed DEF WellFormed, Activations, Phases, TopMoves
  <2> HIDE DEF a
  <2>3. StackInv' /\ ~StillToTake'
    BY <1>0, <1>8, <2>2, TopGoesOn DEF StillToTake, Is
  <2>4. HistoryTypeOK' /\ HandlerTypeOK'
    BY <1>8 DEF TypeInv, HistoryTypeOK, HandlerTypeOK
  <2>5. QED
    BY <1>8, <2>3, <2>4, InsideStep
<1>9. CASE CommandDone
  <2>1. /\ stack # <<>> /\ ~StillToTake
        /\ UNCHANGED <<queueVars, handlerVars, submitted, effects, escaped>>
    BY <1>9 DEF CommandDone, Is, StillToTake
  <2>2. HistoryTypeOK' /\ HandlerTypeOK'
    BY <2>1 DEF TypeInv, HistoryTypeOK, HandlerTypeOK
  <2>3. QED
    BY <1>7, <1>8, <1>9, <2>1, <2>2 DEF CommandDone, Returns
<1>10. CASE CallbackDone
  <2>1. /\ stack # <<>> /\ ~StillToTake /\ stack' = Below
        /\ UNCHANGED <<queueVars, handlerVars, submitted, effects, escaped>>
    BY <1>10 DEF CallbackDone, Is, StillToTake, Returns
  <2>2. HistoryTypeOK' /\ HandlerTypeOK'
    BY <2>1 DEF TypeInv, HistoryTypeOK, HandlerTypeOK
  <2>3. QED
    BY <1>7, <2>1, <2>2
<1>11. CASE Throws
  <2>1. /\ stack # <<>> /\ ~StillToTake /\ TopMoves("failed")
        /\ UNCHANGED <<queueVars, handlerVars, submitted, effects, escaped>>
    BY <1>11 DEF Throws, Is, StillToTake
  <2>2. QED
    BY <1>8, <2>1
<1>12. CASE RetryThrows
  <2>1. /\ stack # <<>> /\ ~StillToTake
        /\ UNCHANGED <<queueVars, handlerVars, submitted, effects>>
    BY <1>12 DEF RetryThrows, Is, StillToTake
  <2>2. HistoryTypeOK' /\ HandlerTypeOK'
    BY <1>12, <2>1 DEF RetryThrows, TypeInv, HistoryTypeOK, HandlerTypeOK
  <2>3. CASE Len(stack) = 1
    BY <1>7, <1>12, <2>1, <2>2, <2>3 DEF RetryThrows
  <2>4. CASE Len(stack) # 1
    <3>1. StackInv' /\ ~StillToTake'
      BY <1>0, <1>12, <2>1, <2>4, CallerFails DEF RetryThrows
    <3>2. QED
      BY <2>1, <2>2, <3>1, InsideStep
  <2>5. QED
    BY <2>3, <2>4
<1>13. CASE Recover
  <2> DEFINE c == Running
             h == handlers[1]
             a == [Top EXCEPT !.phase = "retry", !.part = 0]
  <2>1. /\ stack # <<>> /\ ~StillToTake /\ Top.phase = "failed"
        /\ Count(h, c)
        /\ recoveries' = Append(recoveries, [command |-> c, how |-> Answers(h, c)])
        /\ TopBecomes(a) \/ stack' = Below
        /\ UNCHANGED <<queueVars, earlier, handlers, submitted, effects, escaped>>
    BY <1>13 DEF Recover, Is, StillToTake, Returns
  <2>2. c \in Commands
    BY <2>1, RunningType
  <2>3. retry_count' \in [Commands -> 0 .. 2]
    <3>1. retry_count \in [Commands -> 0 .. 2]
      BY DEF TypeInv, HandlerTypeOK
    <3>2. (IF retry_count[c] < 2 THEN retry_count[c] + 1 ELSE 0) \in 0 .. 2
      BY <2>2, <3>1
    <3>3. CASE h # "twoTries"
      BY <2>1, <3>1, <3>3 DEF Count
    <3>4. CASE h = "twoTries"
      BY <2>1, <2>2, <3>1, <3>2, <3>4 DEF Count
    <3>5. QED
      BY <3>3, <3>4
  <2>4. [command |-> c, how |-> Answers(h, c)] \in [command : Commands, how : {"retry", "log"}]
    BY <2>2 DEF Answers
  <2> HIDE DEF c, h
  <2>5. HistoryTypeOK' /\ HandlerTypeOK'
    BY <2>1, <2>3, <2>4 DEF TypeInv, HistoryTypeOK, HandlerTypeOK
  <2>6. CASE stack' = Below
    BY <1>7, <2>1, <2>5, <2>6
  <2>7. CASE TopBecomes(a)
    <3>1. WellFormed(a, Len(submitted)) /\ a.phase = "retry"
      BY <1>0, <2>1, TopWellFormed DEF WellFormed, Activations, Phases
    <3> HIDE DEF a
    <3>2. StackInv' /\ ~StillToTake'
      BY <1>0, <2>1, <2>7, <3>1, TopGoesOn DEF StillToTake, Is
    <3>3. QED
      BY <2>1, <2>5, <3>2, InsideStep
  <2>8. QED
    BY <2>1, <2>6, <2>7
<1>14. CASE UNCHANGED vars
  <2>1. HandlerTypeOK' /\ HistoryTypeOK' /\ QueueTypeOK'
    BY <1>14 DEF vars, TypeInv, HandlerTypeOK, HistoryTypeOK, QueueTypeOK
  <2>2. StackInv' /\ QueueInv'
    BY <1>14 DEF vars, TypeInv, StackInv, QueueInv, StillToTake, Is, Top
  <2>3. QED
    BY <2>1, <2>2 DEF TypeInv
<1>15. QED
  BY <1>1, <1>2, <1>3, <1>4, <1>5, <1>6, <1>9, <1>10, <1>11, <1>12, <1>13, <1>14 DEF Next

LEMMA TypeInvariant == Spec => []TypeInv
BY TypeInvInit, TypeInvStep, PTL DEF Spec

(***************************************************************************)
(* Every reachable state is well typed: in particular Handle is never      *)
(* asked without a handler, and answers for a command that was submitted.  *)
(***************************************************************************)
THEOREM TypeCorrect == Spec => []TypeOK
<1>1. TypeInv => TypeOK
  BY DEF TypeInv, HistoryTypeOK, HandlerTypeOK, QueueTypeOK, StackInv, TypeOK
<1>2. QED
  BY <1>1, TypeInvariant, PTL

(***************************************************************************)
(* The only thread never blocks in Pop, whatever fails and however deep    *)
(* callbacks nest: every WorkerLoop finds its caller's command.            *)
(***************************************************************************)
THEOREM NobodyWaits == Spec => []NeverWaits
<1>1. TypeInv => NeverWaits
  BY DEF TypeInv, StackInv, WellFormed, NeverWaits
<1>2. QED
  BY <1>1, TypeInvariant, PTL

(***************************************************************************)
(* Every WorkerLoop executes the command its caller enqueued: neither an   *)
(* outer activation nor a failed one leaves a command in the queue.        *)
(***************************************************************************)
THEOREM EachRunsItsOwn == Spec => []RunsOwnCommand
<1>1. TypeInv => RunsOwnCommand
  BY DEF TypeInv, StackInv, WellFormed, RunsOwnCommand
<1>2. QED
  BY <1>1, TypeInvariant, PTL

-----------------------------------------------------------------------------
(* The handlers of the game.  The first one logs, so nothing is executed   *)
(* again; the parts of a command that took effect are those its activation *)
(* is through with.                                                        *)

EffectsInOrder ==
  \A s \in 1 .. Len(effects) : \A k \in 1 .. Len(effects[s]) : effects[s][k] = k

TopEffects ==
  /\ StillToTake => Top.part = 0 /\ effects[Top.own] = <<>>
  /\ Is("execute") => Top.part = Len(effects[Top.taken])

OwnHandlersInv ==
  OnlyOwnHandlers =>
    /\ handlers[1] = "log" /\ escaped = 0
    /\ ~Is("retry")
    /\ EffectsInOrder /\ TopEffects

LEMMA OwnHandlersInvInit == Init => OwnHandlersInv
<1> SUFFICES ASSUME Init, OnlyOwnHandlers PROVE OwnHandlersInv
  BY DEF OwnHandlersInv
<1>1. handlers = <<"log", "retry">>
  <2>1. ConstructorHandlers \in Seq(HandlerKinds)
    BY DEF ConstructorHandlers, HandlerKinds
  <2>2. <<>> \o ConstructorHandlers = ConstructorHandlers
    BY <2>1, ConcatEmptySeq
  <2>3. QED
    BY <2>2 DEF Init, OnlyOwnHandlers, ConstructorHandlers
<1>2. ~Is("retry") /\ ~Is("execute") /\ ~StillToTake
  BY DEF Init, Is, StillToTake
<1>3. EffectsInOrder
  <2>1. Len(effects) = 0
    BY DEF Init
  <2>2. QED
    BY <2>1 DEF EffectsInOrder
<1>4. QED
  BY <1>1, <1>2, <1>3 DEF Init, OwnHandlersInv, TopEffects

\* A step after which the innermost activation, if there is one, neither
\* executes nor has still to take its command.
LEMMA OwnHandlersFrame ==
  ASSUME OwnHandlersInv, UNCHANGED <<earlier, handlers, effects, escaped>>,
         ~Is("retry")', ~Is("execute")', ~StillToTake'
  PROVE  OwnHandlersInv'
BY DEF OwnHandlersInv, OnlyOwnHandlers, EffectsInOrder, TopEffects

LEMMA OwnHandlersInvStep ==
  ASSUME TypeInv, OwnHandlersInv, [Next]_vars
  PROVE  OwnHandlersInv'
<1> USE DEF queueVars, handlerVars
<1>0. /\ StackInv /\ Len(submitted) \in Nat /\ submitted \in Seq(Commands)
      /\ effects \in Seq(Seq(Nat)) /\ Len(effects) = Len(submitted)
      /\ handlers \in Seq(HandlerKinds) /\ handlers # <<>>
  BY LenProperties DEF TypeInv, HistoryTypeOK, HandlerTypeOK
<1>1. earlier' = earlier
  BY DEF Next, vars, EnqueueCommand, RegisterHandler, WorkerLoop, Stop, Pop, RunPart,
         CommandDone, CallbackDone, Throws, RetryThrows, Recover
<1>2. CASE ~OnlyOwnHandlers
  BY <1>1, <1>2 DEF OwnHandlersInv, OnlyOwnHandlers
<1>3. CASE OnlyOwnHandlers
  <2>0. /\ handlers[1] = "log" /\ escaped = 0 /\ ~Is("retry")
        /\ EffectsInOrder /\ TopEffects
    BY <1>3 DEF OwnHandlersInv
  <2>1. ASSUME NEW c \in Commands, EnqueueCommand(c) PROVE OwnHandlersInv'
    <3> DEFINE n == Len(submitted) + 1
    <3>1. /\ effects' = Append(effects, <<>>) /\ Len(submitted') = n
          /\ UNCHANGED <<handlers, escaped>>
      BY <1>0, <2>1 DEF EnqueueCommand
    <3>2. /\ Len(effects') = n /\ effects'[n] = <<>>
          /\ \A s \in 1 .. Len(effects) : effects'[s] = effects[s]
      BY <1>0, <3>1
    <3>3. stack' = Append(stack, [phase |-> "enqueued", own |-> n, taken |-> 0, part |-> 0])
      BY <2>1, <3>1 DEF EnqueueCommand
    <3>4. stack' # <<>> /\ Top' = [phase |-> "enqueued", own |-> n, taken |-> 0, part |-> 0]
      <4>1. stack \in Seq(Activations)
        BY <1>0 DEF StackInv
      <4>2. [phase |-> "enqueued", own |-> n, taken |-> 0, part |-> 0] \in Activations
        BY <1>0 DEF Activations, Phases
      <4>3. QED
        BY <3>3, <4>1, <4>2, Pushed DEF Top
    <3>5. EffectsInOrder'
      <4>1. \A s \in 1 .. n : s = n \/ s \in 1 .. Len(effects)
        BY <1>0
      <4>2. ASSUME NEW s \in 1 .. n PROVE \A k \in 1 .. Len(effects'[s]) : effects'[s][k] = k
        <5>1. CASE s = n
          <6>1. Len(effects'[s]) = 0
            BY <3>2, <5>1
          <6>2. QED
            BY <6>1
        <5>2. CASE s \in 1 .. Len(effects)
          BY <2>0, <3>2, <5>2 DEF EffectsInOrder
        <5>3. QED
          BY <4>1, <5>1, <5>2
      <4>3. QED
        BY <3>2, <4>2 DEF EffectsInOrder
    <3>6. TopEffects'
      BY <3>2, <3>4 DEF TopEffects, Is
    <3>7. ~Is("retry")'
      BY <3>4 DEF Is
    <3>8. QED
      BY <2>0, <3>1, <3>5, <3>6, <3>7 DEF OwnHandlersInv
  <2>2. ASSUME NEW h \in HandlerKinds, RegisterHandler(h) PROVE OwnHandlersInv'
    <3>1. handlers'[1] = handlers[1]
      <4>1. 1 \in 1 .. Len(handlers)
        BY <1>0, TopType
      <4>2. handlers' = Append(handlers, h)
        BY <2>2 DEF RegisterHandler
      <4>3. QED
        BY <1>0, <2>2, <4>1, <4>2
    <3>2. UNCHANGED <<stack, effects, escaped>>
      BY <2>2 DEF RegisterHandler
    <3>3. QED
      BY <2>0, <3>1, <3>2
         DEF OwnHandlersInv, EffectsInOrder, TopEffects, StillToTake, Is, Top
  <2>3. CASE WorkerLoop
    <3> DEFINE a == [Top EXCEPT !.phase = "pop"]
    <3>1. /\ stack # <<>> /\ Top.phase = "enqueued" /\ TopBecomes(a)
          /\ UNCHANGED <<handlers, submitted, effects, escaped>>
      BY <2>3 DEF WorkerLoop, Is, TopMoves
    <3>2. /\ WellFormed(a, Len(submitted)) /\ a.phase = "pop"
          /\ a.own = Top.own /\ a.part = Top.part
      BY <1>0, <3>1, TopWellFormed DEF WellFormed, Activations, Phases
    <3> HIDE DEF a
    <3>3. stack' # <<>> /\ Top' = a
      BY <1>0, <3>1, <3>2, TopGoesOn
    <3>4. StillToTake
      BY <3>1 DEF StillToTake, Is
    <3>5. TopEffects' /\ ~Is("retry")'
      BY <2>0, <3>1, <3>2, <3>3, <3>4 DEF TopEffects, Is
    <3>6. QED
      BY <2>0, <3>1, <3>5 DEF OwnHandlersInv, EffectsInOrder
  <2>4. CASE Stop
    BY <2>0, <2>4 DEF Stop, OwnHandlersInv, EffectsInOrder, TopEffects, StillToTake, Is, Top
  <2>5. CASE Pop
    <3>1. /\ stack # <<>> /\ Top.phase = "pop" /\ StillToTake
          /\ UNCHANGED <<handlers, submitted, effects, escaped>>
      BY <2>5 DEF Pop, Is, StillToTake
    <3>2. CASE stopped
      <4>1. stack' = Below
        BY <2>5, <3>2 DEF Pop, NoCommand
      <4>2. ~StillToTake' /\ (stack' # <<>> => Top'.phase = "callback")
        BY <1>0, <3>1, <4>1, CallerGoesOn
      <4>3. QED
        BY <1>1, <3>1, <4>2, OwnHandlersFrame DEF Is
    <3>3. CASE ~stopped
      <4> DEFINE a == [Top EXCEPT !.phase = "execute", !.taken = Head(queue)]
      <4>1. queue = <<Top.own>>
        BY <3>1, <3>3 DEF TypeInv, QueueInv
      <4>2. queue # <<>> /\ Head(queue) = Top.own
        BY <4>1
      <4>3. TopBecomes(a)
        BY <2>5, <3>3, <4>2 DEF Pop, NoCommand
      <4>4. /\ WellFormed(a, Len(submitted)) /\ a.phase = "execute"
            /\ a.taken = Top.own /\ a.part = Top.part
        BY <1>0, <3>1, <4>2, TopWellFormed DEF WellFormed, Activations, Phases
      <4> HIDE DEF a
      <4>5. stack' # <<>> /\ Top' = a
        BY <1>0, <3>1, <4>3, <4>4, TopGoesOn
      <4>6. Top'.part = Len(effects'[Top'.taken])
        <5>1. Top.part = 0 /\ effects[Top.own] = <<>>
          BY <2>0, <3>1 DEF TopEffects
        <5>2. QED
          BY <3>1, <4>4, <4>5, <5>1
      <4>7. ~StillToTake' /\ ~Is("retry")'
        BY <4>4, <4>5 DEF StillToTake, Is
      <4>8. QED
        BY <2>0, <3>1, <4>6, <4>7 DEF OwnHandlersInv, EffectsInOrder, TopEffects
    <3>4. QED
      BY <3>2, <3>3
  <2>6. CASE RunPart
    <3> DEFINE a == [Top EXCEPT !.part = @ + 1]
               t == Top.taken
    <3>1. /\ stack # <<>> /\ Top.phase = "execute" /\ Is("execute") /\ TopBecomes(a)
          /\ effects' = [effects EXCEPT ![t] = Append(effects[t], Top.part + 1)]
          /\ UNCHANGED <<handlers, submitted, escaped>>
      BY <2>0, <2>6 DEF RunPart, Is
    <3>2. /\ WellFormed(a, Len(submitted)) /\ a.phase = "execute"
          /\ a.taken = t /\ a.part = Top.part + 1 /\ Top.part \in Nat
      <4>1. Top \in Activations /\ WellFormed(Top, Len(submitted))
        BY <1>0, <3>1, TopWellFormed DEF WellFormed
      <4>2. /\ a \in Activations /\ a.own = Top.own /\ a.phase = "execute"
            /\ a.taken = t /\ a.part = Top.part + 1 /\ Top.part \in Nat
        BY <3>1, <4>1 DEF Activations
      <4>3. WellFormed(a, Len(submitted))
        BY <3>1, <4>1, <4>2 DEF WellFormed
      <4>4. QED
        BY <4>2, <4>3
    <3> HIDE DEF a
    <3>3. stack' # <<>> /\ Top' = a
      BY <1>0, <3>1, <3>2, TopGoesOn
    <3>4. t \in 1 .. Len(effects) /\ effects[t] \in Seq(Nat)
      BY <1>0, <3>1, RunningType
    <3>5. Top.part = Len(effects[t])
      BY <2>0, <3>1 DEF TopEffects
    <3> HIDE DEF t
    <3>6. /\ Append(effects[t], Top.part + 1) \in Seq(Nat)
          /\ Len(Append(effects[t], Top.part + 1)) = Top.part + 1
          /\ \A k \in 1 .. Top.part : Append(effects[t], Top.part + 1)[k] = effects[t][k]
          /\ Append(effects[t], Top.part + 1)[Top.part + 1] = Top.part + 1
      BY <3>2, <3>4, <3>5
    <3>7. /\ Len(effects') = Len(effects)
          /\ \A s \in 1 .. Len(effects) :
               effects'[s] = IF s = t THEN Append(effects[t], Top.part + 1) ELSE effects[s]
      BY <1>0, <3>1, <3>4, <3>6, ExceptSeq
    <3>8. EffectsInOrder'
      <4>1. ASSUME NEW k \in 1 .. Top.part + 1
            PROVE  Append(effects[t], Top.part + 1)[k] = k
        <5>1. k \in 1 .. Top.part \/ k = Top.part + 1
          BY <3>2
        <5>2. CASE k \in 1 .. Top.part
          BY <2>0, <3>4, <3>5, <3>6, <5>2 DEF EffectsInOrder
        <5>3. QED
          BY <3>6, <5>1, <5>2
      <4>2. ASSUME NEW s \in 1 .. Len(effects)
            PROVE  \A k \in 1 .. Len(effects'[s]) : effects'[s][k] = k
        BY <2>0, <3>6, <3>7, <4>1 DEF EffectsInOrder
      <4>3. QED
        BY <3>7, <4>2 DEF EffectsInOrder
    <3>9. TopEffects' /\ ~Is("retry")'
      <4>1. Top'.part = Len(effects'[Top'.taken])
        BY <3>2, <3>3, <3>4, <3>6, <3>7
      <4>2. ~StillToTake' /\ ~Is("retry")'
        BY <3>2, <3>3 DEF StillToTake, Is
      <4>3. QED
        BY <4>1, <4>2 DEF TopEffects
    <3>10. QED
      BY <2>0, <3>1, <3>8, <3>9 DEF OwnHandlersInv
  <2>7. ASSUME stack # <<>>, stack' = Below,
               UNCHANGED <<handlers, submitted, effects, escaped>>
        PROVE  OwnHandlersInv'
    <3>1. ~StillToTake' /\ (stack' # <<>> => Top'.phase = "callback")
      BY <1>0, <2>7, CallerGoesOn
    <3>2. QED
      BY <1>1, <2>7, <3>1, OwnHandlersFrame DEF Is
  <2>8. ASSUME NEW p \in {"callback", "failed"}, stack # <<>>, ~StillToTake, TopMoves(p),
               UNCHANGED <<handlers, submitted, effects, escaped>>
        PROVE  OwnHandlersInv'
    <3> DEFINE a == [Top EXCEPT !.phase = p]
    <3>1. Top.phase \notin {"enqueued", "pop"}
      BY <2>8 DEF StillToTake, Is
    <3>2. WellFormed(a, Len(submitted)) /\ a.phase = p /\ TopBecomes(a)
      BY <1>0, <2>8, <3>1, TopWellFormed DEF WellFormed, Activations, Phases, TopMoves
    <3> HIDE DEF a
    <3>3. stack' # <<>> /\ Top' = a
      BY <1>0, <2>8, <3>2, TopGoesOn
    <3>4. QED
      BY <1>1, <2>8, <3>2, <3>3, OwnHandlersFrame DEF StillToTake, Is
  <2>9. CASE CommandDone
    BY <2>0, <2>8, <2>9 DEF CommandDone, Is, StillToTake
  <2>10. CASE CallbackDone
    BY <2>7, <2>10 DEF CallbackDone, Is, Returns
  <2>11. CASE Throws
    BY <2>8, <2>11 DEF Throws, Is, StillToTake
  <2>12. CASE RetryThrows
    BY <2>0, <2>12 DEF RetryThrows
  <2>13. CASE Recover
    <3>1. stack # <<>> /\ UNCHANGED <<handlers, submitted, effects, escaped>>
      BY <2>13 DEF Recover, Is
    <3>2. stack' = Below
      BY <2>0, <2>13 DEF Recover, Answers, Returns
    <3>3. QED
      BY <2>7, <3>1, <3>2
  <2>14. CASE UNCHANGED vars
    BY <2>0, <2>14 DEF vars, OwnHandlersInv, EffectsInOrder, TopEffects, StillToTake, Is, Top
  <2>15. QED
    BY <2>1, <2>2, <2>3, <2>4, <2>5, <2>6, <2>9, <2>10, <2>11, <2>12, <2>13, <2>14 DEF Next
<1>4. QED
  BY <1>2, <1>3

LEMMA OwnHandlersInvariant == Spec => [](TypeInv /\ OwnHandlersInv)
<1>1. Init => TypeInv /\ OwnHandlersInv
  BY TypeInvInit, OwnHandlersInvInit
<1>2. TypeInv /\ OwnHandlersInv /\ [Next]_vars => (TypeInv /\ OwnHandlersInv)'
  BY TypeInvStep, OwnHandlersInvStep
<1>3. QED
  BY <1>1, <1>2, PTL DEF Spec

(***************************************************************************)
(* With the handlers the game registers, no exception leaves WorkerLoop.   *)
(***************************************************************************)
THEOREM NothingEscapes == Spec => []FailuresAreContained
<1>1. OwnHandlersInv => FailuresAreContained
  BY DEF OwnHandlersInv, FailuresAreContained
<1>2. QED
  BY <1>1, OwnHandlersInvariant, PTL

(***************************************************************************)
(* With the handlers the game registers, what a command changed is what    *)
(* its first parts change, once: no failure, of the command or of what     *)
(* runs in the callback after it, applies a part again or out of order.    *)
(***************************************************************************)
THEOREM EffectsApplyOnce == Spec => []EffectsArePrefix
<1>1. ASSUME TypeInv, OwnHandlersInv PROVE EffectsArePrefix
  <2>1. ASSUME OnlyOwnHandlers, NEW s \in DOMAIN effects
        PROVE  effects[s] = [k \in 1 .. Len(effects[s]) |-> k]
    <3>1. effects \in Seq(Seq(Nat))
      BY <1>1 DEF TypeInv, HistoryTypeOK
    <3>2. s \in 1 .. Len(effects) /\ effects[s] \in Seq(Nat)
      BY <2>1, <3>1
    <3>3. \A k \in 1 .. Len(effects[s]) : effects[s][k] = k
      BY <1>1, <2>1, <3>2 DEF OwnHandlersInv, EffectsInOrder
    <3>4. effects[s] = [k \in 1 .. Len(effects[s]) |-> effects[s][k]]
      BY <3>2
    <3>5. QED
      BY <3>3, <3>4
  <2>2. QED
    BY <2>1 DEF EffectsArePrefix
<1>2. QED
  BY <1>1, OwnHandlersInvariant, PTL

-----------------------------------------------------------------------------
(* A TwoTriesThenLogHandler registered first.  It stays the first, since   *)
(* the constructor and RegisterHandler only append, and its count for a    *)
(* command object is the number of that object's failures, modulo three.   *)

Asked == earlier # <<>> /\ earlier[1] = "twoTries"

\* Counting the failures of c among the first i of a sequence of recoveries.
Among(c, seq, i) == {j \in 1 .. i : seq[j].command = c}

FailuresIn(c, seq, i) == Cardinality(Among(c, seq, i))

AnsweredInTurn(seq) ==
  \A i \in DOMAIN seq :
    seq[i].how = IF FailuresIn(seq[i].command, seq, i) % 3 = 0 THEN "log" ELSE "retry"

TwoTriesInv ==
  Asked =>
    /\ handlers[1] = "twoTries"
    /\ \A c \in Commands : retry_count[c] = FailuresIn(c, recoveries, Len(recoveries)) % 3
    /\ AnsweredInTurn(recoveries)

LEMMA FailuresCount ==
  ASSUME NEW c, NEW seq, NEW i \in Nat
  PROVE  /\ FailuresIn(c, seq, i) \in Nat
         /\ FailuresIn(c, seq, i + 1)
              = FailuresIn(c, seq, i) + IF seq[i + 1].command = c THEN 1 ELSE 0
<1>1. IsFiniteSet(1 .. i) /\ Among(c, seq, i) \subseteq 1 .. i
  BY FS_Interval DEF Among
<1>2. IsFiniteSet(Among(c, seq, i)) /\ Cardinality(Among(c, seq, i)) \in Nat
  BY <1>1, FS_Subset, FS_CardinalityType
<1>3. \A j : j \in 1 .. i + 1 <=> j \in 1 .. i \/ j = i + 1
  OBVIOUS
<1>4. i + 1 \notin Among(c, seq, i)
  BY DEF Among
<1>5. CASE seq[i + 1].command = c
  <2>1. Among(c, seq, i + 1) = Among(c, seq, i) \cup {i + 1}
    BY <1>3, <1>5 DEF Among
  <2>2. Cardinality(Among(c, seq, i + 1)) = Cardinality(Among(c, seq, i)) + 1
    BY <1>2, <1>4, <2>1, FS_AddElement
  <2>3. QED
    BY <1>2, <1>5, <2>2 DEF FailuresIn
<1>6. CASE seq[i + 1].command # c
  <2>1. Among(c, seq, i + 1) = Among(c, seq, i)
    BY <1>3, <1>6 DEF Among
  <2>2. QED
    BY <1>2, <1>6, <2>1 DEF FailuresIn
<1>7. QED
  BY <1>2, <1>5, <1>6 DEF FailuresIn

LEMMA TwoTriesInvInit == Init => TwoTriesInv
<1> SUFFICES ASSUME Init, Asked PROVE TwoTriesInv
  BY DEF TwoTriesInv
<1>1. earlier \in Seq(HandlerKinds) /\ ConstructorHandlers \in Seq(HandlerKinds)
  BY ExecutorAssumption DEF Init, ConstructorHandlers, HandlerKinds
<1>2. handlers[1] = "twoTries"
  <2>1. Len(earlier) \in Nat /\ Len(earlier) # 0 /\ Len(ConstructorHandlers) \in Nat
    BY <1>1, EmptySeq, LenProperties DEF Asked
  <2>2. \A i \in 1 .. Len(earlier) + Len(ConstructorHandlers) :
          (earlier \o ConstructorHandlers)[i] =
            IF i <= Len(earlier) THEN earlier[i] ELSE ConstructorHandlers[i - Len(earlier)]
    BY <1>1, ConcatProperties
  <2>3. 1 \in 1 .. Len(earlier) + Len(ConstructorHandlers) /\ 1 <= Len(earlier)
    BY <2>1
  <2>4. QED
    BY <2>2, <2>3 DEF Init, Asked
<1>3. recoveries = <<>> /\ Len(recoveries) = 0 /\ DOMAIN recoveries = {}
  <2>1. recoveries = <<>>
    BY DEF Init
  <2>2. QED
    BY <2>1
<1>4. \A c \in Commands : FailuresIn(c, recoveries, Len(recoveries)) = 0
  <2>1. \A c : Among(c, recoveries, 0) = {}
    BY DEF Among
  <2>2. QED
    BY <1>3, <2>1, FS_EmptySet DEF FailuresIn
<1>5. AnsweredInTurn(recoveries)
  BY <1>3 DEF AnsweredInTurn
<1>6. QED
  BY <1>2, <1>4, <1>5 DEF Init, TwoTriesInv

LEMMA TwoTriesInvStep ==
  ASSUME TypeInv, TwoTriesInv, [Next]_vars
  PROVE  TwoTriesInv'
<1> USE DEF queueVars, handlerVars
<1>0. /\ recoveries \in Seq([command : Commands, how : {"retry", "log"}])
      /\ handlers \in Seq(HandlerKinds) /\ handlers # <<>>
      /\ retry_count \in [Commands -> 0 .. 2]
  BY DEF TypeInv, HandlerTypeOK
<1>1. ASSUME UNCHANGED handlerVars PROVE TwoTriesInv'
  BY <1>1 DEF TwoTriesInv, Asked
<1>2. ASSUME NEW h \in HandlerKinds, RegisterHandler(h) PROVE TwoTriesInv'
  <2>1. handlers' = Append(handlers, h) /\ UNCHANGED <<earlier, retry_count, recoveries>>
    BY <1>2 DEF RegisterHandler
  <2>2. handlers'[1] = handlers[1]
    BY <1>0, <2>1, EmptySeq
  <2>3. QED
    BY <2>1, <2>2 DEF TwoTriesInv, Asked
<1>3. CASE Recover
  <2> SUFFICES ASSUME Asked' PROVE TwoTriesInv'
    BY DEF TwoTriesInv
  <2> DEFINE c == Running
             n == Len(recoveries)
             entry == [command |-> c, how |-> Answers("twoTries", c)]
  <2>1. UNCHANGED <<earlier, handlers>> /\ Asked
    BY <1>3 DEF Recover, Asked
  <2>2. /\ handlers[1] = "twoTries" /\ AnsweredInTurn(recoveries)
        /\ \A d \in Commands : retry_count[d] = FailuresIn(d, recoveries, n) % 3
    BY <2>1 DEF TwoTriesInv
  <2>3. /\ Count("twoTries", c) /\ recoveries' = Append(recoveries, entry)
    BY <1>3, <2>2 DEF Recover
  <2>4. c \in Commands
    BY <1>3, RunningType DEF Recover, Is
  <2>5. entry \in [command : Commands, how : {"retry", "log"}]
    BY <2>4 DEF Answers
  <2> DEFINE new == recoveries'
  <2>6. /\ Len(new) = n + 1 /\ n \in Nat
        /\ \A j \in 1 .. n : new[j] = recoveries[j]
        /\ new[n + 1].command = c /\ new[n + 1].how = Answers("twoTries", c)
        /\ DOMAIN recoveries = 1 .. n /\ DOMAIN new = 1 .. n + 1
    BY <1>0, <2>3, <2>5
  <2> HIDE DEF n, c, entry, new
  <2>7. ASSUME NEW d, NEW i \in 0 .. n PROVE FailuresIn(d, new, i) = FailuresIn(d, recoveries, i)
    <3>1. \A j \in 1 .. i : new[j] = recoveries[j]
      BY <2>6
    <3>2. Among(d, new, i) = Among(d, recoveries, i)
      BY <3>1 DEF Among
    <3>3. QED
      BY <3>2 DEF FailuresIn
  <2>8. ASSUME NEW d
        PROVE  /\ FailuresIn(d, recoveries, n) \in Nat
               /\ FailuresIn(d, new, n + 1)
                    = FailuresIn(d, recoveries, n) + IF c = d THEN 1 ELSE 0
    <3>1. n \in 0 .. n
      BY <2>6
    <3>2. FailuresIn(d, new, n) = FailuresIn(d, recoveries, n)
      BY <2>7, <3>1
    <3>3. /\ FailuresIn(d, new, n) \in Nat
          /\ FailuresIn(d, new, n + 1)
               = FailuresIn(d, new, n) + IF new[n + 1].command = d THEN 1 ELSE 0
      BY <2>6, FailuresCount
    <3>4. QED
      BY <2>6, <3>2, <3>3
  <2>9. retry_count[c] = FailuresIn(c, recoveries, n) % 3 /\ retry_count[c] \in 0 .. 2
    BY <1>0, <2>2, <2>4
  <2>10. retry_count' = [retry_count EXCEPT ![c] = IF @ < 2 THEN @ + 1 ELSE 0]
    BY <2>3 DEF Count
  <2>11. FailuresIn(c, new, n + 1) % 3 = IF retry_count[c] < 2 THEN retry_count[c] + 1 ELSE 0
    <3>1. \A m \in Nat : (m + 1) % 3 = IF m % 3 < 2 THEN (m % 3) + 1 ELSE 0
      OBVIOUS
    <3>2. /\ FailuresIn(c, new, n + 1) = FailuresIn(c, recoveries, n) + 1
          /\ FailuresIn(c, recoveries, n) \in Nat
      BY <2>8
    <3>3. QED
      BY <2>9, <3>1, <3>2
  <2>12. \A d \in Commands : retry_count'[d] = FailuresIn(d, new, n + 1) % 3
    <3>1. ASSUME NEW d \in Commands, d # c
          PROVE  retry_count'[d] = FailuresIn(d, new, n + 1) % 3
      <4>1. FailuresIn(d, new, n + 1) = FailuresIn(d, recoveries, n)
        BY <2>8, <3>1
      <4>2. retry_count'[d] = retry_count[d]
        BY <1>0, <2>10, <3>1
      <4>3. QED
        BY <2>2, <4>1, <4>2
    <3>2. retry_count'[c] = FailuresIn(c, new, n + 1) % 3
      <4>1. retry_count'[c] = IF retry_count[c] < 2 THEN retry_count[c] + 1 ELSE 0
        BY <1>0, <2>4, <2>10
      <4>2. QED
        BY <2>11, <4>1
    <3>3. QED
      BY <3>1, <3>2
  <2>13. AnsweredInTurn(new)
    <3>1. ASSUME NEW i \in 1 .. n
          PROVE  new[i].how =
                   IF FailuresIn(new[i].command, new, i) % 3 = 0 THEN "log" ELSE "retry"
      <4>1. new[i] = recoveries[i] /\ i \in 0 .. n
        BY <2>6
      <4>2. recoveries[i].how =
              IF FailuresIn(recoveries[i].command, recoveries, i) % 3 = 0 THEN "log" ELSE "retry"
        BY <2>2, <2>6 DEF AnsweredInTurn
      <4>3. QED
        BY <2>7, <4>1, <4>2
    <3>2. new[n + 1].how =
            IF FailuresIn(new[n + 1].command, new, n + 1) % 3 = 0 THEN "log" ELSE "retry"
      <4>1. Answers("twoTries", c) = IF retry_count[c] < 2 THEN "retry" ELSE "log"
        BY DEF Answers
      <4>2. QED
        BY <2>6, <2>9, <2>11, <4>1
    <3>3. \A i \in 1 .. n + 1 : i \in 1 .. n \/ i = n + 1
      BY <2>6
    <3>4. QED
      BY <2>6, <3>1, <3>2, <3>3 DEF AnsweredInTurn
  <2>14. QED
    BY <2>1, <2>2, <2>6, <2>12, <2>13 DEF TwoTriesInv, new
<1>4. CASE Next
  BY <1>1, <1>2, <1>3, <1>4 DEF Next, EnqueueCommand, WorkerLoop, Stop, Pop, RunPart,
     CommandDone, CallbackDone, Throws, RetryThrows
<1>5. CASE UNCHANGED vars
  BY <1>1, <1>5 DEF vars
<1>6. QED
  BY <1>4, <1>5

(***************************************************************************)
(* A command object that fails under a TwoTriesThenLogHandler is repeated  *)
(* twice, then logged, then repeated again, whatever other objects fail in *)
(* between and whatever handlers are registered behind it.                 *)
(***************************************************************************)
THEOREM TwoRetriesThenALog == Spec => []TwoTriesThenLog
<1>1. Init => TypeInv /\ TwoTriesInv
  BY TypeInvInit, TwoTriesInvInit
<1>2. TypeInv /\ TwoTriesInv /\ [Next]_vars => TypeInv' /\ TwoTriesInv'
  BY TypeInvStep, TwoTriesInvStep
<1>3. TwoTriesInv => TwoTriesThenLog
  BY DEF TwoTriesInv, Asked, TwoTriesThenLog, AnsweredInTurn, FailuresIn, Among, FailuresUpTo
<1>4. QED
  BY <1>1, <1>2, <1>3, PTL DEF Spec

-----------------------------------------------------------------------------
(* The executor implements a CommandQueue whose only thread is its own:    *)
(* EnqueueCommand is a Push, entering WorkerLoop a CallPop, Pop a RunPop,  *)
(* Stop a Stop, and everything else a stutter.                             *)

Calling == IF Is("pop") THEN {"worker"} ELSE {}
Waiting == IF Is("waiting") THEN {"worker"} ELSE {}
Numbers == [i \in 1 .. Len(submitted) |-> i]

LEMMA NoOneWaits ==
  ASSUME StackInv
  PROVE  Waiting = {}
<1>1. stack # <<>> => Len(stack) \in 1 .. Len(stack)
  BY TopType DEF StackInv
<1>2. QED
  BY <1>1 DEF StackInv, WellFormed, Is, Top, Waiting

LEMMA NoOneWaitsNext ==
  ASSUME StackInv'
  PROVE  Waiting' = {}
<1>1. stack' # <<>> => Len(stack') \in 1 .. Len(stack')
  BY TopType DEF StackInv
<1>2. QED
  BY <1>1 DEF StackInv, WellFormed, Is, Top, Waiting

\* A step that is none of the queue's business.
LEMMA QueueStutters ==
  ASSUME StackInv, StackInv', UNCHANGED <<queueVars, submitted>>, Is("pop")' <=> Is("pop")
  PROVE  UNCHANGED Queue!vars
<1>1. Waiting = {} /\ Waiting' = {}
  BY NoOneWaits, NoOneWaitsNext
<1>2. Calling' = Calling /\ Numbers' = Numbers
  BY DEF Calling, Numbers
<1>3. QED
  BY <1>1, <1>2 DEF Queue!vars, queueVars, Calling, Waiting, Numbers

LEMMA NumbersGrow ==
  ASSUME Len(submitted) \in Nat, Len(submitted') = Len(submitted) + 1
  PROVE  /\ Numbers' = Append(Numbers, Len(submitted'))
         /\ Len(Numbers) = Len(submitted)
<1> DEFINE n == Len(submitted)
<1>1. Numbers \in Seq(Nat) /\ Len(Numbers) = n
  BY DEF Numbers
<1>2. /\ Append(Numbers, n + 1) \in Seq(Nat) /\ Len(Append(Numbers, n + 1)) = n + 1
      /\ \A i \in 1 .. n + 1 : Append(Numbers, n + 1)[i] = i
  BY <1>1 DEF Numbers
<1>3. Numbers' \in Seq(Nat) /\ Len(Numbers') = n + 1 /\ \A i \in 1 .. n + 1 : Numbers'[i] = i
  BY DEF Numbers
<1>4. QED
  BY <1>1, <1>2, <1>3, SeqEqual

LEMMA QueueInit == Init => Queue!Init
<1> SUFFICES ASSUME Init PROVE Queue!Init
  OBVIOUS
<1>1. ~Is("pop") /\ ~Is("waiting")
  BY DEF Init, Is
<1>2. [i \in 1 .. Len(submitted) |-> i] = <<>>
  BY DEF Init
<1>3. QED
  BY <1>1, <1>2 DEF Init, Queue!Init

LEMMA QueueStep ==
  ASSUME TypeInv, TypeInv', [Next]_vars
  PROVE  [Queue!Next]_(Queue!vars)
<1> USE DEF queueVars
<1>0. /\ StackInv /\ StackInv' /\ Len(submitted) \in Nat
      /\ Waiting = {} /\ Waiting' = {}
      /\ queue \in Seq(1 .. Len(submitted))
  BY LenProperties, NoOneWaits, NoOneWaitsNext DEF TypeInv, HistoryTypeOK, QueueTypeOK
\* The steps of an activation that is past Pop.
<1>1. ASSUME UNCHANGED <<queueVars, submitted>>, ~Is("pop"), ~Is("pop")'
      PROVE  UNCHANGED Queue!vars
  BY <1>0, <1>1, QueueStutters
<1>2. ASSUME stack # <<>>, stack' = Below, UNCHANGED submitted PROVE ~Is("pop")'
  BY <1>0, <1>2, CallerGoesOn DEF StillToTake
<1>3. ASSUME stack # <<>>, UNCHANGED submitted,
             NEW a, TopBecomes(a), WellFormed(a, Len(submitted)), a.phase # "pop"
      PROVE  ~Is("pop")'
  BY <1>0, <1>3, TopGoesOn DEF Is
<1>4. ASSUME NEW p \in {"callback", "failed"}, stack # <<>>, UNCHANGED submitted,
             Top.phase \notin {"enqueued", "pop"}, TopMoves(p)
      PROVE  ~Is("pop")'
  <2> DEFINE a == [Top EXCEPT !.phase = p]
  <2>1. WellFormed(a, Len(submitted)) /\ a.phase = p /\ TopBecomes(a)
    BY <1>0, <1>4, TopWellFormed DEF WellFormed, Activations, Phases, TopMoves
  <2> HIDE DEF a
  <2>2. QED
    BY <1>3, <1>4, <2>1
<1>5. ASSUME NEW c \in Commands, EnqueueCommand(c) PROVE Queue!Next
  <2>0. PICK n \in Nat : n = Len(submitted')
    BY <1>0, <1>5 DEF EnqueueCommand, TypeInv, HistoryTypeOK
  <2>1. /\ Len(submitted) < MaxSubmits /\ n = Len(submitted) + 1
        /\ queue' = Append(queue, n) /\ UNCHANGED <<stopped, popped>>
    BY <1>0, <1>5, <2>0 DEF EnqueueCommand, TypeInv, HistoryTypeOK
  <2>2. n \in 1 .. MaxSubmits
    BY <1>0, <2>1, ExecutorAssumption
  <2>3. ~Is("pop")
    BY <1>5 DEF EnqueueCommand, Is
  <2>4. ~Is("pop")'
    <3>1. stack = <<>> \/ Is("callback")
      BY <1>5 DEF EnqueueCommand
    <3>2. stack' = Append(stack, [phase |-> "enqueued", own |-> n, taken |-> 0, part |-> 0])
      BY <1>5, <2>0 DEF EnqueueCommand
    <3>3. Top'.phase = "enqueued"
      BY <1>0, <2>0, <2>1, <3>1, <3>2, CallerEnters
    <3>4. QED
      BY <3>3 DEF Is
  <2>5. Numbers' = Append(Numbers, n) /\ Len(Numbers) = Len(submitted)
    BY <1>0, <2>0, <2>1, NumbersGrow
  <2>6. Queue!Push(n)
    BY <1>0, <2>1, <2>3, <2>4, <2>5
       DEF Queue!Push, Queue!NotifyOne, Queue!Wake, Waiting, Numbers
  <2>7. QED
    BY <2>2, <2>6 DEF Queue!Next
<1>6. CASE WorkerLoop
  <2>1. /\ stack # <<>> /\ Is("enqueued") /\ ~Is("pop") /\ TopMoves("pop")
        /\ UNCHANGED <<queueVars, submitted>>
    BY <1>6 DEF WorkerLoop, Is
  <2>2. Is("pop")'
    <3> DEFINE a == [Top EXCEPT !.phase = "pop"]
    <3>1. WellFormed(a, Len(submitted)) /\ a.phase = "pop" /\ TopBecomes(a)
      BY <1>0, <2>1, TopWellFormed DEF WellFormed, Activations, Phases, TopMoves
    <3> HIDE DEF a
    <3>2. stack' # <<>> /\ Top' = a
      BY <1>0, <2>1, <3>1, TopGoesOn
    <3>3. QED
      BY <3>1, <3>2 DEF Is
  <2>3. Numbers' = Numbers
    BY <2>1 DEF Numbers
  <2>4. Queue!CallPop("worker")
    BY <1>0, <2>1, <2>2, <2>3 DEF Queue!CallPop, Waiting, Numbers
  <2>5. QED
    BY <2>4 DEF Queue!Next
<1>7. CASE Stop
  <2>1. stopped' = TRUE /\ UNCHANGED <<queue, popped, stack, submitted>>
    BY <1>7 DEF Stop
  <2>2. Calling' = Calling /\ Numbers' = Numbers
    BY <2>1 DEF Calling, Numbers, Is, Top
  <2>3. Queue!Stop
    BY <1>0, <2>1, <2>2 DEF Queue!Stop, Queue!NotifyAll, Queue!Wake, Waiting, Calling, Numbers
  <2>4. QED
    BY <2>3 DEF Queue!Next
<1>8. CASE Pop
  <2>1. stack # <<>> /\ Is("pop") /\ UNCHANGED submitted
    BY <1>8 DEF Pop, Is
  <2>2. Numbers' = Numbers
    BY <2>1 DEF Numbers
  <2>3. queue = <<>> => stopped
    BY <2>1 DEF TypeInv, QueueInv, StillToTake
  <2>4. ~Is("pop")' /\ UNCHANGED stopped
        /\ IF stopped THEN UNCHANGED <<queue, popped>>
                      ELSE queue' = Tail(queue) /\ popped' = Append(popped, Head(queue))
    <3>1. CASE stopped
      BY <1>2, <1>8, <2>1, <3>1 DEF Pop, NoCommand
    <3>2. CASE ~stopped
      <4> DEFINE a == [Top EXCEPT !.phase = "execute", !.taken = Head(queue)]
      <4>1. /\ queue' = Tail(queue) /\ popped' = Append(popped, Head(queue))
            /\ stopped' = stopped /\ TopBecomes(a)
        BY <1>8, <2>3, <3>2 DEF Pop, NoCommand, TakeFront
      <4>2. Head(queue) = Top.own
        BY <2>1, <3>2 DEF TypeInv, QueueInv, StillToTake
      <4>3. WellFormed(a, Len(submitted)) /\ a.phase = "execute"
        BY <1>0, <2>1, <4>2, TopWellFormed DEF WellFormed, Activations, Phases
      <4> HIDE DEF a
      <4>4. ~StillToTake'
        BY <1>0, <2>1, <4>1, <4>3, TopGoesOn DEF StillToTake, Is
      <4>5. QED
        BY <3>2, <4>1, <4>4 DEF StillToTake
    <3>3. QED
      BY <3>1, <3>2
  <2>5. Queue!RunPop("worker")
    BY <1>0, <2>1, <2>2, <2>3, <2>4
       DEF Queue!RunPop, Queue!ReturnsNothing, Queue!TakeFront, Waiting, Numbers
  <2>6. QED
    BY <2>5 DEF Queue!Next
<1>9. CASE RunPart
  <2> DEFINE a == [Top EXCEPT !.part = @ + 1]
  <2>1. /\ stack # <<>> /\ Top.phase \in {"execute", "retry"} /\ TopBecomes(a)
        /\ UNCHANGED <<queueVars, submitted>>
    BY <1>9 DEF RunPart, Is
  <2>2. WellFormed(a, Len(submitted)) /\ a.phase = Top.phase
    BY <1>0, <2>1, TopWellFormed DEF WellFormed, Activations
  <2> HIDE DEF a
  <2>3. ~Is("pop")'
    BY <1>3, <2>1, <2>2
  <2>4. QED
    BY <1>1, <2>1, <2>3 DEF Is
<1>10. CASE CommandDone
  <2>1. /\ stack # <<>> /\ Top.phase \in {"execute", "retry"}
        /\ UNCHANGED <<queueVars, submitted>>
        /\ TopMoves("callback") \/ stack' = Below
    BY <1>10 DEF CommandDone, Is, Returns
  <2>2. ~Is("pop")'
    BY <1>2, <1>4, <2>1
  <2>3. QED
    BY <1>1, <2>1, <2>2 DEF Is
<1>11. CASE CallbackDone
  <2>1. /\ stack # <<>> /\ ~Is("pop") /\ stack' = Below /\ UNCHANGED <<queueVars, submitted>>
    BY <1>11 DEF CallbackDone, Is, Returns
  <2>2. QED
    BY <1>1, <1>2, <2>1
<1>12. CASE Throws
  <2>1. /\ stack # <<>> /\ Top.phase \notin {"enqueued", "pop"} /\ TopMoves("failed")
        /\ UNCHANGED <<queueVars, submitted>>
    BY <1>12 DEF Throws, Is
  <2>2. QED
    BY <1>1, <1>4, <2>1 DEF Is
<1>13. CASE RetryThrows
  <2>1. /\ stack # <<>> /\ Top.phase = "retry" /\ UNCHANGED <<queueVars, submitted>>
        /\ \/ stack' = Below
           \/ /\ Len(stack) # 1
              /\ stack' = [Below EXCEPT ![Len(Below)] = [Outer EXCEPT !.phase = "failed"]]
    BY <1>13 DEF RetryThrows, Is
  <2>2. ~Is("pop")'
    BY <1>0, <1>2, <2>1, CallerFails DEF StillToTake
  <2>3. QED
    BY <1>1, <2>1, <2>2 DEF Is
<1>14. CASE Recover
  <2> DEFINE a == [Top EXCEPT !.phase = "retry", !.part = 0]
  <2>1. /\ stack # <<>> /\ Top.phase = "failed" /\ UNCHANGED <<queueVars, submitted>>
        /\ TopBecomes(a) \/ stack' = Below
    BY <1>14 DEF Recover, Is, Returns
  <2>2. WellFormed(a, Len(submitted)) /\ a.phase = "retry"
    BY <1>0, <2>1, TopWellFormed DEF WellFormed, Activations, Phases
  <2> HIDE DEF a
  <2>3. ~Is("pop")'
    BY <1>2, <1>3, <2>1, <2>2
  <2>4. QED
    BY <1>1, <2>1, <2>3 DEF Is
<1>15. ASSUME NEW h \in HandlerKinds, RegisterHandler(h) PROVE UNCHANGED Queue!vars
  BY <1>0, <1>15, QueueStutters DEF RegisterHandler, Is, Top
<1>16. CASE UNCHANGED vars
  BY <1>0, <1>16, QueueStutters DEF vars, Is, Top
<1>17. QED
  BY <1>5, <1>6, <1>7, <1>8, <1>9, <1>10, <1>11, <1>12, <1>13, <1>14, <1>15, <1>16 DEF Next

(***************************************************************************)
(* The executor implements a CommandQueue used by one thread: it pops only *)
(* inside Pop, takes commands in the order in which they were pushed, and  *)
(* nothing after Stop, so what holds of the queue holds of the executor's. *)
(***************************************************************************)
THEOREM ImplementsCommandQueue == Spec => UsesCommandQueue
<1>1. TypeInv /\ TypeInv' /\ [Next]_vars => [Queue!Next]_(Queue!vars)
  BY QueueStep
<1>2. QED
  BY <1>1, QueueInit, TypeInvariant, PTL DEF Spec, UsesCommandQueue, Queue!Spec

=============================================================================
