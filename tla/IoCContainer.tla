---------------------------- MODULE IoCContainer ----------------------------
(***************************************************************************)
(* IoCContainer: each thread has scopes of its own, but which scope is the *)
(* current one is the same for all.  A service is looked up by its key     *)
(* under the mutex and its resolver called without it: resolvers resolve   *)
(* services.  What a resolver returns is cast to the type that was asked   *)
(* for, and whatever is thrown on the way comes out of Resolve.            *)
(***************************************************************************)
EXTENDS Integers, Sequences

CONSTANTS
  Threads,
  Keys,     (* the names services are registered under                     *)
  Types,    (* the types resolvers return and Resolve<T> asks for          *)
  Services, (* what is registered and asked for: a name with a type        *)
  Absent,   (* no service is registered under a name                       *)
  Scopes,   (* the scope ids                                               *)
  Uses,     (* the services the resolver of a service resolves, in order   *)
  Needs,    (* a service, what it uses, what that uses, and so on          *)
  Free      (* the holder of a mutex nobody holds                          *)

ASSUME ContainerAssumption ==
  /\ "default" \in Scopes
  /\ Services \subseteq [key : Keys, type : Types]
  /\ Absent \notin Services
  /\ Uses \in [Services -> Seq(Services)]
  /\ Needs \in [Services -> SUBSET Services]
  /\ \A s \in Services : s \in Needs[s]
  /\ \A s \in Services : \A i \in DOMAIN Uses[s] : Needs[Uses[s][i]] \subseteq Needs[s]
  /\ Free \notin Threads

VARIABLES
  scopes_,         (* of every thread: its scopes, each a service by name   *)
  currentScopeId_,
  mutex_,          (* its holder                                           *)
  calls,           (* the Resolves a thread is in, the outermost first     *)
  failed,          (* the last Resolve of a thread threw                   *)
  undisturbed      (* history: that Resolve began with all it needs in the *)
                   (* current scope, which stayed the current one, and no  *)
                   (* resolver it called threw an exception of its own     *)

vars == <<scopes_, currentScopeId_, mutex_, calls, failed, undisturbed>>

Init ==
  /\ scopes_ = [t \in Threads |-> <<>>]
  /\ currentScopeId_ = "default"
  /\ mutex_ = Free
  /\ calls = [t \in Threads |-> <<>>]
  /\ failed = [t \in Threads |-> FALSE]
  /\ undisturbed = [t \in Threads |-> FALSE]

Idle(t) == calls[t] = <<>>

Empty == [k \in Keys |-> Absent]

\* What is registered in a scope a thread may have.
Registered(t, s) == IF s \in DOMAIN scopes_[t] THEN scopes_[t][s] ELSE Empty

\* Scope s of thread t holds these services, and exists.
With(t, s, services) ==
  [scopes_ EXCEPT ![t] = [x \in DOMAIN @ \cup {s} |-> IF x = s THEN services ELSE @[x]]]

-----------------------------------------------------------------------------
(* Scopes.  Each of these holds the mutex from its first to its last step. *)
(* No resolver of the programs calls them: they only resolve.              *)

Register(t, service) ==
  /\ mutex_ = Free
  /\ Idle(t)
  /\ scopes_' = With(t, currentScopeId_,
                     [Registered(t, currentScopeId_) EXCEPT ![service.key] = service])
  /\ UNCHANGED <<currentScopeId_, mutex_, calls, failed, undisturbed>>

CreateNewScope(t, s) ==
  /\ mutex_ = Free
  /\ Idle(t)
  /\ scopes_' = With(t, s, Empty)
  /\ currentScopeId_' = s
  /\ undisturbed' = [u \in Threads |-> FALSE]
  /\ UNCHANGED <<mutex_, calls, failed>>

\* It throws when the thread has no such scope.
SetCurrentScope(t, s) ==
  /\ mutex_ = Free
  /\ Idle(t)
  /\ s \in DOMAIN scopes_[t]
  /\ currentScopeId_' = s
  /\ undisturbed' = [u \in Threads |-> FALSE]
  /\ UNCHANGED <<scopes_, mutex_, calls, failed>>

-----------------------------------------------------------------------------
(* Resolve.  A call wants a service; it is at its lookup (next is 0) or in *)
(* the resolver it found, which runs and is about to resolve the next of   *)
(* the services that one uses.                                             *)

Call(service) == [wants |-> service, runs |-> service, next |-> 0]

Innermost(t) == calls[t][Len(calls[t])]

\* The calls of a thread when its innermost one has become call.
Becomes(t, call) == [calls[t] EXCEPT ![Len(calls[t])] = call]

Outer(t) == SubSeq(calls[t], 1, Len(calls[t]) - 1)

\* Under each name the scope has the service of the type that is wanted.
HasAll(services, scope) == \A s \in services : scope[s.key] = s

Resolve(t, service) ==
  /\ Idle(t)
  /\ calls' = [calls EXCEPT ![t] = <<Call(service)>>]
  /\ undisturbed' = [undisturbed EXCEPT
       ![t] = HasAll(Needs[service], Registered(t, currentScopeId_))]
  /\ failed' = [failed EXCEPT ![t] = FALSE]
  /\ UNCHANGED <<scopes_, currentScopeId_, mutex_>>

\* Wrong on purpose: what the current scope lacks is looked for elsewhere.
DefaultScope(t) == Registered(t, "default")

\* Where a service is looked for.
FoundScope(t) == Registered(t, currentScopeId_)

\* Wrong on purpose: the resolver runs under the mutex.
KeepsMutex(t) == t

\* The holder of the mutex while the resolver runs.
MutexAfterLookup(t) == Free

\* A lock ends with the call that took it.
Unlocked(t) == IF mutex_ = t THEN Free ELSE mutex_

\* The innermost call throws; each call around it catches that and throws.
Throw(t) ==
  /\ calls' = [calls EXCEPT ![t] = <<>>]
  /\ failed' = [failed EXCEPT ![t] = TRUE]
  /\ mutex_' = Unlocked(t)

\* Without a scope or the service the call throws; else it copies the resolver.
Lookup(t) ==
  /\ mutex_ = Free
  /\ ~Idle(t)
  /\ Innermost(t).next = 0
  /\ LET wanted == Innermost(t).wants
         found == FoundScope(t)[wanted.key] IN
     IF found = Absent
     THEN Throw(t)
     ELSE /\ calls' = [calls EXCEPT
               ![t] = Becomes(t, [wants |-> wanted, runs |-> found, next |-> 1])]
          /\ mutex_' = MutexAfterLookup(t)
          /\ UNCHANGED failed
  /\ UNCHANGED <<scopes_, currentScopeId_, undisturbed>>

\* The resolver resolves the next service it uses.
Nest(t) ==
  /\ ~Idle(t)
  /\ Innermost(t).next \in DOMAIN Uses[Innermost(t).runs]
  /\ calls' = [calls EXCEPT ![t] =
       Append(Becomes(t, [Innermost(t) EXCEPT !.next = @ + 1]),
              Call(Uses[Innermost(t).runs][Innermost(t).next]))]
  /\ UNCHANGED <<scopes_, currentScopeId_, mutex_, failed, undisturbed>>

\* The resolver returns; the call throws if it is not the type asked for.
Return(t) ==
  /\ ~Idle(t)
  /\ Innermost(t).next = Len(Uses[Innermost(t).runs]) + 1
  /\ IF Innermost(t).runs = Innermost(t).wants
     THEN /\ calls' = [calls EXCEPT ![t] = Outer(t)]
          /\ mutex_' = Unlocked(t)
          /\ UNCHANGED failed
     ELSE Throw(t)
  /\ UNCHANGED <<scopes_, currentScopeId_, undisturbed>>

\* The resolver itself throws, between the services it resolves.
ResolverThrows(t) ==
  /\ ~Idle(t)
  /\ Innermost(t).next > 0
  /\ Throw(t)
  /\ undisturbed' = [undisturbed EXCEPT ![t] = FALSE]
  /\ UNCHANGED <<scopes_, currentScopeId_>>

GoesOn(t) == Lookup(t) \/ Nest(t) \/ Return(t) \/ ResolverThrows(t)

Next == \E t \in Threads :
  \/ \E service \in Services : Register(t, service) \/ Resolve(t, service)
  \/ \E s \in Scopes : CreateNewScope(t, s) \/ SetCurrentScope(t, s)
  \/ GoesOn(t)

\* A call that was begun goes on; nobody waits for the mutex for ever while it
\* is given back.
Fairness == \A t \in Threads : WF_vars(GoesOn(t))

Spec == Init /\ [][Next]_vars /\ Fairness

-----------------------------------------------------------------------------
(* Properties.                                                             *)

Calls == [wants : Services, runs : Services, next : Nat]

Contents == [Keys -> Services \cup {Absent}]

TypeOK ==
  /\ scopes_ \in [Threads -> UNION {[created -> Contents] : created \in SUBSET Scopes}]
  /\ currentScopeId_ \in Scopes
  /\ mutex_ \in Threads \cup {Free}
  /\ calls \in [Threads -> Seq(Calls)]
  /\ failed \in [Threads -> BOOLEAN]
  /\ undisturbed \in [Threads -> BOOLEAN]

\* A Resolve that throws began with something missing from the thread's current
\* scope or there of another type than is asked for, or called a resolver that
\* threw, or had the current scope changed under it by a thread that has nothing
\* to do with it.  Nothing else fails: neither what other threads register nor
\* what they resolve meanwhile.
OwnScopeResolves == \A t \in Threads : failed[t] => ~undisturbed[t]

\* A resolver may resolve services: every Resolve returns or throws.
ResolutionsEnd == \A t \in Threads : ~Idle(t) ~> Idle(t)
=============================================================================
