---------------------------- MODULE CommandQueue ----------------------------
(***************************************************************************)
(* CommandQueue: commands pushed by any thread, popped by any thread that  *)
(* calls Pop, which blocks on a condition variable while the queue is      *)
(* empty, until somebody pushes or stops the queue.  Every method holds    *)
(* mtx_ from its first line to its last, except while Pop waits.           *)
(***************************************************************************)
EXTENDS Integers, Sequences, FiniteSets

CONSTANTS
  Commands,
  Threads,   (* the threads that call Pop                                  *)
  MaxPush    (* bound: calls of Push                                       *)

ASSUME QueueAssumption == IsFiniteSet(Threads) /\ MaxPush \in Nat

VARIABLES
  queue,     (* queue_                                                     *)
  stopped,   (* stopped_                                                   *)
  calling,   (* threads inside Pop that still have to look at the queue    *)
  waiting,   (* threads blocked in cv_.wait                                *)
  pushed,    (* history: every command ever pushed                         *)
  popped     (* history: every command Pop ever returned                   *)

vars == <<queue, stopped, calling, waiting, pushed, popped>>

TypeOK ==
  /\ queue \in Seq(Commands)
  /\ stopped \in BOOLEAN
  /\ calling \in SUBSET Threads
  /\ waiting \in SUBSET (Threads \ calling)
  /\ pushed \in Seq(Commands)
  /\ popped \in Seq(Commands)

Init ==
  /\ queue = <<>>
  /\ stopped = FALSE
  /\ calling = {}
  /\ waiting = {}
  /\ pushed = <<>>
  /\ popped = <<>>

\* These threads stop waiting; each looks at the queue again when it gets
\* the mutex.
Wake(threads) ==
  /\ waiting' = waiting \ threads
  /\ calling' = calling \cup threads

\* Wrong on purpose: a push that nobody hears of.
NotifyNobody == Wake({})

NotifyOne == IF waiting = {} THEN Wake({}) ELSE \E t \in waiting : Wake({t})

Push(c) ==
  /\ Len(pushed) < MaxPush
  /\ queue' = Append(queue, c)
  /\ pushed' = Append(pushed, c)
  /\ NotifyOne
  /\ UNCHANGED <<stopped, popped>>

CallPop(t) ==
  /\ t \notin calling \cup waiting
  /\ calling' = calling \cup {t}
  /\ UNCHANGED <<queue, stopped, waiting, pushed, popped>>

\* Wrong on purpose: the command is returned and stays in the queue.
KeepFront == popped' = Append(popped, Head(queue)) /\ UNCHANGED queue

TakeFront == popped' = Append(popped, Head(queue)) /\ queue' = Tail(queue)

\* Wrong on purpose: a stopped queue hands out what is left in it.
ReturnsNothingWhenEmpty == queue = <<>>

ReturnsNothing == stopped

\* Pop has the mutex: it waits, or returns.
RunPop(t) ==
  /\ t \in calling
  /\ calling' = calling \ {t}
  /\ IF queue = <<>> /\ ~stopped
     THEN waiting' = waiting \cup {t} /\ UNCHANGED <<queue, popped>>
     ELSE /\ UNCHANGED waiting
          /\ IF ReturnsNothing THEN UNCHANGED <<queue, popped>> ELSE TakeFront
  /\ UNCHANGED <<stopped, pushed>>

\* cv_.wait may wake with no notification.
SpuriousWake(t) ==
  /\ t \in waiting
  /\ Wake({t})
  /\ UNCHANGED <<queue, stopped, pushed, popped>>

\* Wrong on purpose: of the threads that wait, Stop wakes one.
NotifyAny == NotifyOne

NotifyAll == Wake(waiting)

Stop ==
  /\ stopped' = TRUE
  /\ NotifyAll
  /\ UNCHANGED <<queue, pushed, popped>>

Next ==
  \/ Stop
  \/ \E c \in Commands : Push(c)
  \/ \E t \in Threads : CallPop(t) \/ RunPop(t) \/ SpuriousWake(t)

Spec == Init /\ [][Next]_vars

(***************************************************************************)
(* A thread that may take the mutex gets it: the program does not say in   *)
(* which order, nor does it promise any push, pop or stop.                 *)
(***************************************************************************)
FairSpec == Spec /\ \A t \in Threads : WF_vars(RunPop(t))

-----------------------------------------------------------------------------
(* Properties.                                                             *)

\* No wakeup is lost: while some thread waits, there is for every command in
\* the queue a thread on its way to it.  notify_one is enough only because
\* each Push wakes another thread.
NoLostWakeup == waiting # {} => Len(queue) <= Cardinality(calling)

\* Commands leave in the order in which they were pushed, each once.
FirstInFirstOut == pushed = popped \o queue

\* Once stopped, Pop hands out nothing: what is left in the queue stays.
NothingAfterStop == [][stopped => popped' = popped]_vars

\* Stop releases every thread that waits in Pop, and every one about to.
StopReleases ==
  \A t \in Threads : (stopped /\ t \in waiting \cup calling) ~> t \notin waiting \cup calling

\* No command stays in the queue while some thread is in Pop.
CommandsAreTaken ==
  \A n \in 0 .. MaxPush :
    (Len(popped) = n /\ queue # <<>> /\ waiting \cup calling # {})
      ~> (stopped \/ Len(popped) > n)
=============================================================================
