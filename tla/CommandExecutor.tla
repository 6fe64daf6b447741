-------------------------- MODULE CommandExecutor ---------------------------
(***************************************************************************)
(* CommandExecutor with the ExceptionHandler it recovers by.  One thread:  *)
(* whoever has a command enqueues it and calls WorkerLoop, which takes one *)
(* command from the queue, executes it and calls back (World::Update in    *)
(* the game).  The callback's systems may enqueue and call WorkerLoop in   *)
(* their turn, so WorkerLoop is re-entered: stack holds its activations.   *)
(* Exceptions leave a command at any of its parts, or the callback.        *)
(***************************************************************************)
EXTENDS Integers, Sequences, FiniteSets

CONSTANTS
  Commands,    (* command objects                                          *)
  Parts,       (* [Commands -> Nat]: a MacroCommand has the parts its      *)
               (* commands have, nested macros flattened; others have one  *)
  Earlier,     (* what may be registered before the executor exists: a set *)
               (* of sequences of HandlerKinds                             *)
  MaxSubmits,  (* bound: calls of EnqueueCommand                           *)
  MaxHandlers  (* bound: registered handlers                               *)

HandlerKinds == {"log", "retry", "twoTries"}

ASSUME ExecutorAssumption ==
  /\ Parts \in [Commands -> Nat]
  /\ Earlier \subseteq Seq(HandlerKinds)
  /\ MaxSubmits \in Nat
  /\ MaxHandlers \in Nat

VARIABLES
  queue,        (* queue_, an entry is the number of its submission        *)
  stopped,      (* the queue's stopped_                                    *)
  stack,        (* activations of WorkerLoop, the innermost last           *)
  earlier,      (* the handlers registered before the executor was built   *)
  handlers,     (* ExceptionHandler::handlers_                             *)
  retry_count,  (* TwoTriesThenLogHandler::retry_count_                    *)
  submitted,    (* history: the command of each submission                 *)
  popped,       (* history: the submissions Pop returned                   *)
  effects,      (* history: the parts of each submission that took effect  *)
  recoveries,   (* history: what Handle answered, and for which command    *)
  escaped       (* history: exceptions that left the outermost WorkerLoop  *)

queueVars   == <<queue, stopped, popped>>
handlerVars == <<earlier, handlers, retry_count, recoveries>>
vars == <<queueVars, stack, handlerVars, submitted, effects, escaped>>

(***************************************************************************)
(* own is what the caller of this activation enqueued, taken what Pop      *)
(* returned to it, part how many parts the running Execute is through.     *)
(***************************************************************************)
Phases == {"enqueued", "pop", "waiting", "execute", "callback", "failed", "retry"}
Activations == [phase : Phases, own : Nat, taken : Nat, part : Nat]

TypeOK ==
  /\ queue \in Seq(1 .. Len(submitted))
  /\ stopped \in BOOLEAN
  /\ stack \in Seq(Activations)
  /\ earlier \in Earlier
  /\ handlers \in Seq(HandlerKinds)
  /\ retry_count \in [Commands -> 0 .. 2]
  /\ submitted \in Seq(Commands)
  /\ popped \in Seq(1 .. Len(submitted))
  /\ effects \in Seq(Seq(Nat)) /\ Len(effects) = Len(submitted)
  /\ recoveries \in Seq([command : Commands, how : {"retry", "log"}])
  /\ escaped \in Nat

\* Wrong on purpose: the more specific handler first.
RetryHandlerFirst == <<"retry", "log">>

\* What the constructor registers.
ConstructorHandlers == <<"log", "retry">>

Init ==
  /\ queue = <<>>
  /\ stopped = FALSE
  /\ stack = <<>>
  /\ earlier \in Earlier
  /\ handlers = earlier \o ConstructorHandlers
  /\ retry_count = [c \in Commands |-> 0]
  /\ submitted = <<>>
  /\ popped = <<>>
  /\ effects = <<>>
  /\ recoveries = <<>>
  /\ escaped = 0

Top == stack[Len(stack)]
Is(phase) == stack # <<>> /\ Top.phase = phase
Outer == stack[Len(stack) - 1]
Below == SubSeq(stack, 1, Len(stack) - 1)
TopBecomes(activation) == stack' = [stack EXCEPT ![Len(stack)] = activation]
TopMoves(phase) == TopBecomes([Top EXCEPT !.phase = phase])

\* The command the innermost activation executes.
Running == submitted[Top.taken]

-----------------------------------------------------------------------------
(* The callers: the program, or a system inside an activation's callback.  *)

\* EnqueueCommand, by code that calls WorkerLoop next.
EnqueueCommand(c) ==
  /\ Len(submitted) < MaxSubmits
  /\ stack = <<>> \/ Is("callback")
  /\ submitted' = Append(submitted, c)
  /\ effects' = Append(effects, <<>>)
  /\ queue' = Append(queue, Len(submitted'))
  /\ stack' = Append(stack, [phase |-> "enqueued", own |-> Len(submitted'),
                             taken |-> 0, part |-> 0])
  /\ UNCHANGED <<stopped, popped, handlerVars, escaped>>

WorkerLoop ==
  /\ Is("enqueued")
  /\ TopMoves("pop")
  /\ UNCHANGED <<queueVars, handlerVars, submitted, effects, escaped>>

\* Stop, by the program, a command or a callback.
Stop ==
  /\ ~stopped
  /\ stack = <<>> \/ Is("execute") \/ Is("retry") \/ Is("callback")
  /\ stopped' = TRUE
  /\ UNCHANGED <<queue, popped, stack, handlerVars, submitted, effects, escaped>>

RegisterHandler(h) ==
  /\ Len(handlers) < MaxHandlers
  /\ handlers' = Append(handlers, h)
  /\ UNCHANGED <<queueVars, stack, earlier, retry_count, recoveries, submitted, effects, escaped>>

-----------------------------------------------------------------------------
(* One activation.                                                         *)

\* Wrong on purpose: the loop that is commented out around the body.
LoopsOn == TopMoves("pop")

\* WorkerLoop returns to its caller.
Returns == stack' = Below

\* Wrong on purpose: the command stays in the queue.
PeekFront == UNCHANGED queue

TakeFront == queue' = Tail(queue)

\* Wrong on purpose: a stopped queue hands out what is left in it.
NothingToTake == queue = <<>>

NoCommand == stopped

\* queue_.Pop().  It waits for ever when there is nothing: the only thread
\* that could push is the one that waits.
Pop ==
  /\ Is("pop")
  /\ IF queue = <<>> /\ ~stopped
     THEN TopMoves("waiting") /\ UNCHANGED queueVars
     ELSE /\ UNCHANGED stopped
          /\ IF NoCommand
             THEN stack' = Below /\ UNCHANGED <<queue, popped>>
             ELSE /\ TakeFront
                  /\ popped' = Append(popped, Head(queue))
                  /\ TopBecomes([Top EXCEPT !.phase = "execute", !.taken = Head(queue)])
  /\ UNCHANGED <<handlerVars, submitted, effects, escaped>>

\* The next part of the command takes effect.
RunPart ==
  /\ Is("execute") \/ Is("retry")
  /\ Top.part < Parts[Running]
  /\ effects' = [effects EXCEPT ![Top.taken] = Append(@, Top.part + 1)]
  /\ TopBecomes([Top EXCEPT !.part = @ + 1])
  /\ UNCHANGED <<queueVars, handlerVars, submitted, escaped>>

\* Execute returns: the callback is next, but not after a repetition.
CommandDone ==
  /\ \/ Is("execute") /\ Top.part = Parts[Running] /\ TopMoves("callback")
     \/ Is("retry") /\ Top.part = Parts[Running] /\ Returns
  /\ UNCHANGED <<queueVars, handlerVars, submitted, effects, escaped>>

CallbackDone ==
  /\ Is("callback")
  /\ Returns
  /\ UNCHANGED <<queueVars, handlerVars, submitted, effects, escaped>>

\* A part that throws has no effect and ends the command; what the callback
\* throws is caught by the same catch.
Throws ==
  /\ \/ Is("execute") /\ Top.part < Parts[Running]
     \/ Is("callback")
  /\ TopMoves("failed")
  /\ UNCHANGED <<queueVars, handlerVars, submitted, effects, escaped>>

\* What the recovery throws leaves this activation, through the callback of
\* the one below, which catches it.  From the outermost it goes to a caller
\* that may catch it (the programs do not, and end).
RetryThrows ==
  /\ Is("retry") /\ Top.part < Parts[Running]
  /\ IF Len(stack) = 1
     THEN stack' = Below /\ escaped' = escaped + 1
     ELSE /\ stack' = [Below EXCEPT ![Len(Below)] = [Outer EXCEPT !.phase = "failed"]]
          /\ UNCHANGED escaped
  /\ UNCHANGED <<queueVars, handlerVars, submitted, effects>>

-----------------------------------------------------------------------------
(* Recovery.                                                               *)

\* Every handler's CanHandle is true, so the first one is asked.
Answers(h, c) ==
  IF h = "retry" \/ (h = "twoTries" /\ retry_count[c] < 2) THEN "retry" ELSE "log"

\* Wrong on purpose: giving up does not erase the count.
CountGoesOn(h, c) ==
  retry_count' = IF h = "twoTries" /\ retry_count[c] < 2
                 THEN [retry_count EXCEPT ![c] = @ + 1] ELSE retry_count

Count(h, c) ==
  retry_count' = IF h # "twoTries" THEN retry_count
                 ELSE [retry_count EXCEPT ![c] = IF @ < 2 THEN @ + 1 ELSE 0]

\* The catch clause: Handle, and the start of the command it answers.  A
\* LogExceptionCommand only prints; a RetryCommand executes from the start.
Recover ==
  /\ Is("failed")
  /\ LET c == Running
         h == handlers[1]
     IN  /\ Count(h, c)
         /\ recoveries' = Append(recoveries, [command |-> c, how |-> Answers(h, c)])
         /\ IF Answers(h, c) = "retry"
            THEN TopBecomes([Top EXCEPT !.phase = "retry", !.part = 0])
            ELSE Returns
  /\ UNCHANGED <<queueVars, earlier, handlers, submitted, effects, escaped>>

Next ==
  \/ \E c \in Commands : EnqueueCommand(c)
  \/ \E h \in HandlerKinds : RegisterHandler(h)
  \/ WorkerLoop \/ Stop \/ Pop
  \/ RunPart \/ CommandDone \/ CallbackDone
  \/ Throws \/ RetryThrows \/ Recover

Spec == Init /\ [][Next]_vars

-----------------------------------------------------------------------------
(* Properties.                                                             *)

\* The game: nothing registers a handler before the executor does.
OnlyOwnHandlers == earlier = <<>>

\* The program's only thread never waits in Pop for a command that nobody
\* is left to push, however activations nest and fail.
NeverWaits == \A i \in DOMAIN stack : stack[i].phase # "waiting"

\* WorkerLoop executes the command its caller has enqueued, not one an
\* outer or a failed activation left in the queue.
RunsOwnCommand ==
  \A i \in DOMAIN stack :
    stack[i].phase \in {"execute", "callback", "failed", "retry"} =>
      stack[i].taken = stack[i].own

\* With the handlers the game registers no exception leaves WorkerLoop, from
\* whatever depth of nested activations it was thrown.
FailuresAreContained == OnlyOwnHandlers => escaped = 0

\* With the handlers the game registers a command's parts take effect in
\* order, each at most once, from the first: an exception of the callback,
\* which comes after all of them, does not apply the command again.
EffectsArePrefix ==
  OnlyOwnHandlers => \A s \in DOMAIN effects : effects[s] = [k \in 1 .. Len(effects[s]) |-> k]

\* The failures of a command object among the first i that were handled.
FailuresUpTo(c, i) == Cardinality({j \in 1 .. i : recoveries[j].command = c})

\* TwoTriesThenLogHandler answers the failures of a command object with two
\* repetitions, then a log, and then starts over, whatever fails in between.
TwoTriesThenLog ==
  earlier # <<>> /\ earlier[1] = "twoTries" =>
    \A i \in DOMAIN recoveries :
      recoveries[i].how = IF FailuresUpTo(recoveries[i].command, i) % 3 = 0
                          THEN "log" ELSE "retry"

\* The executor uses its CommandQueue as one thread would.
Queue == INSTANCE CommandQueue WITH
  Commands <- 1 .. MaxSubmits,
  Threads  <- {"worker"},
  MaxPush  <- MaxSubmits,
  calling  <- IF Is("pop") THEN {"worker"} ELSE {},
  waiting  <- IF Is("waiting") THEN {"worker"} ELSE {},
  pushed   <- [i \in 1 .. Len(submitted) |-> i]

UsesCommandQueue == Queue!Spec
=============================================================================
