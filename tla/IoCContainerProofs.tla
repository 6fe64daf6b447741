------------------------- MODULE IoCContainerProofs -------------------------
(***************************************************************************)
(* IoCContainer's types, and that a Resolve only fails when the scope      *)
(* lacked something or was changed or a resolver threw, for any threads,   *)
(* scopes and services.                                                    *)
(***************************************************************************)
EXTENDS IoCContainer, SequenceTheorems, TLAPS

ThreadScopes == UNION {[created -> Contents] : created \in SUBSET Scopes}

\* What is registered in a scope is a service or nothing under every name.
LEMMA RegisteredType ==
  ASSUME TypeOK, NEW t \in Threads, NEW s \in Scopes
  PROVE  Registered(t, s) \in Contents
<1>1. PICK created \in SUBSET Scopes : scopes_[t] \in [created -> Contents]
  BY DEF TypeOK
<1>2. Empty \in Contents
  BY DEF Empty, Contents
<1>. QED
  BY <1>1, <1>2 DEF Registered

\* With keeps the type, and gives the thread that scope and nobody else any.
LEMMA WithType ==
  ASSUME TypeOK, NEW t \in Threads, NEW s \in Scopes, NEW services \in Contents
  PROVE  /\ With(t, s, services) \in [Threads -> ThreadScopes]
         /\ \A u \in Threads \ {t} : With(t, s, services)[u] = scopes_[u]
<1>1. scopes_ \in [Threads -> ThreadScopes]
  BY DEF TypeOK, ThreadScopes
<1>2. PICK created \in SUBSET Scopes : scopes_[t] \in [created -> Contents]
  BY <1>1 DEF ThreadScopes
<1>. DEFINE f == [x \in DOMAIN scopes_[t] \cup {s} |->
                    IF x = s THEN services ELSE scopes_[t][x]]
<1>3. f \in [created \cup {s} -> Contents] /\ created \cup {s} \in SUBSET Scopes
  BY <1>2
<1>4. f \in ThreadScopes
  BY <1>3 DEF ThreadScopes
<1>5. With(t, s, services) = [scopes_ EXCEPT ![t] = f]
  BY DEF With
<1>. HIDE DEF f
<1>. QED
  BY <1>1, <1>4, <1>5

\* Registering a service changes the thread's current scope and nobody else's.
LEMMA RegisterType ==
  ASSUME TypeOK, NEW t \in Threads, NEW service \in Services, Register(t, service)
  PROVE  /\ scopes_' \in [Threads -> ThreadScopes]
         /\ \A u \in Threads \ {t} : scopes_'[u] = scopes_[u]
<1>. DEFINE services == [Registered(t, currentScopeId_) EXCEPT ![service.key] = service]
<1>1. currentScopeId_ \in Scopes /\ Registered(t, currentScopeId_) \in Contents
  BY RegisteredType DEF TypeOK
<1>2. services \in Contents
  BY <1>1 DEF Contents
<1>3. scopes_' = With(t, currentScopeId_, services)
  BY DEF Register
<1>. HIDE DEF services
<1>. QED
  BY <1>1, <1>2, <1>3, WithType

\* Replacing the innermost call leaves the calls around it.
LEMMA BecomesType ==
  ASSUME NEW t \in Threads, calls[t] \in Seq(Calls), calls[t] # <<>>, NEW call \in Calls
  PROVE  /\ Becomes(t, call) \in Seq(Calls)
         /\ Len(Becomes(t, call)) = Len(calls[t])
         /\ \A i \in 1 .. Len(calls[t]) : Becomes(t, call)[i] \in {calls[t][i], call}
<1>1. Len(calls[t]) \in 1 .. Len(calls[t])
  OBVIOUS
<1>. QED
  BY <1>1, ExceptSeq DEF Becomes

\* A call that throws leaves none of its thread's calls, and its lock.
LEMMA ThrowType ==
  ASSUME TypeOK, NEW t \in Threads, Throw(t)
  PROVE  /\ calls' \in [Threads -> Seq(Calls)]
         /\ failed' \in [Threads -> BOOLEAN]
         /\ mutex_' \in Threads \cup {Free}
         /\ calls'[t] = <<>>
         /\ \A u \in Threads \ {t} : calls'[u] = calls[u] /\ failed'[u] = failed[u]
<1>1. calls \in [Threads -> Seq(Calls)] /\ <<>> \in Seq(Calls)
  BY DEF TypeOK
<1>2. calls' = [calls EXCEPT ![t] = <<>>]
  BY DEF Throw
<1>3. calls' \in [Threads -> Seq(Calls)] /\ calls'[t] = <<>>
        /\ \A u \in Threads \ {t} : calls'[u] = calls[u]
  BY <1>1, <1>2
<1>4. failed' \in [Threads -> BOOLEAN]
        /\ \A u \in Threads \ {t} : failed'[u] = failed[u]
  BY Zenon DEF Throw, TypeOK
<1>5. mutex_' \in Threads \cup {Free}
  BY DEF Throw, Unlocked, TypeOK
<1>. QED
  BY <1>3, <1>4, <1>5

\* What a finished lookup makes of the innermost call.
Found(t) == [wants |-> Innermost(t).wants,
             runs |-> FoundScope(t)[Innermost(t).wants.key], next |-> 1]

\* A lookup throws or makes that of the innermost call.
LEMMA LookupCases ==
  ASSUME TypeOK, NEW t \in Threads, Lookup(t)
  PROVE  /\ Innermost(t) \in Calls
         /\ \/ FoundScope(t)[Innermost(t).wants.key] = Absent /\ Throw(t)
            \/ /\ Found(t) \in Calls
               /\ calls' = [calls EXCEPT ![t] = Becomes(t, Found(t))]
               /\ mutex_' = Free
               /\ UNCHANGED failed
<1>1. calls[t] \in Seq(Calls) /\ calls[t] # <<>>
  BY DEF Lookup, Idle, TypeOK
<1>2. Innermost(t) \in Calls
  BY <1>1 DEF Innermost
<1>3. FoundScope(t) \in Contents
  BY RegisteredType DEF FoundScope, TypeOK
<1>4. Innermost(t).wants.key \in Keys
  BY <1>2, ContainerAssumption DEF Calls
<1>5. CASE FoundScope(t)[Innermost(t).wants.key] = Absent
  BY <1>2, <1>5 DEF Lookup
<1>6. CASE FoundScope(t)[Innermost(t).wants.key] # Absent
  <2>1. Found(t) \in Calls
    BY <1>2, <1>3, <1>4, <1>6 DEF Contents, Calls, Found
  <2>2. /\ calls' = [calls EXCEPT ![t] = Becomes(t, Found(t))]
        /\ mutex_' = Free
        /\ UNCHANGED failed
    BY <1>6 DEF Lookup, Found, MutexAfterLookup
  <2>. QED
    BY <1>2, <2>1, <2>2
<1>. QED
  BY <1>5, <1>6

\* What Nest makes of the innermost call, and the call it adds.
Going(t) == [Innermost(t) EXCEPT !.next = @ + 1]
Used(t) == Uses[Innermost(t).runs][Innermost(t).next]

LEMMA NestCases ==
  ASSUME TypeOK, NEW t \in Threads, Nest(t)
  PROVE  /\ calls[t] \in Seq(Calls) /\ calls[t] # <<>>
         /\ Innermost(t) \in Calls
         /\ Going(t) \in Calls
         /\ Going(t).wants = Innermost(t).wants
         /\ Going(t).runs = Innermost(t).runs
         /\ Used(t) \in Services
         /\ Needs[Used(t)] \subseteq Needs[Innermost(t).runs]
         /\ Call(Used(t)) \in Calls
         /\ calls' = [calls EXCEPT ![t] = Append(Becomes(t, Going(t)), Call(Used(t)))]
<1>1. calls[t] \in Seq(Calls) /\ calls[t] # <<>>
  BY DEF Nest, Idle, TypeOK
<1>2. Innermost(t) \in Calls
  BY <1>1 DEF Innermost
<1>3. Going(t) \in Calls /\ Going(t).wants = Innermost(t).wants
        /\ Going(t).runs = Innermost(t).runs
  BY <1>2 DEF Going, Calls
<1>4. Innermost(t).runs \in Services /\ Innermost(t).next \in DOMAIN Uses[Innermost(t).runs]
  BY <1>2 DEF Nest, Calls
<1>5. Used(t) \in Services /\ Needs[Used(t)] \subseteq Needs[Innermost(t).runs]
  BY <1>4, ContainerAssumption DEF Used
<1>6. Call(Used(t)) \in Calls
  BY <1>5 DEF Call, Calls
<1>7. calls' = [calls EXCEPT ![t] = Append(Becomes(t, Going(t)), Call(Used(t)))]
  BY DEF Nest, Going, Used
<1>. QED
  BY <1>1, <1>2, <1>3, <1>5, <1>6, <1>7

\* Every initial state and every step keeps the type.
LEMMA TypeInit == Init => TypeOK
<1>. SUFFICES ASSUME Init PROVE TypeOK
  OBVIOUS
<1>1. scopes_ \in [Threads -> UNION {[created -> Contents] : created \in SUBSET Scopes}]
  <2>1. <<>> \in [{} -> Contents] /\ {} \in SUBSET Scopes
    OBVIOUS
  <2>. QED
    BY <2>1 DEF Init
<1>2. mutex_ \in Threads \cup {Free} /\ currentScopeId_ \in Scopes
  BY ContainerAssumption DEF Init
<1>3. failed \in [Threads -> BOOLEAN] /\ undisturbed \in [Threads -> BOOLEAN]
  BY DEF Init
<1>4. calls \in [Threads -> Seq(Calls)]
  <2>1. <<>> \in Seq(Calls)
    OBVIOUS
  <2>. QED
    BY <2>1, Zenon DEF Init
<1>. QED
  BY <1>1, <1>2, <1>3, <1>4, Zenon DEF TypeOK

LEMMA TypeNext == TypeOK /\ [Next]_vars => TypeOK'
<1>. SUFFICES ASSUME TypeOK, [Next]_vars PROVE TypeOK'
  OBVIOUS
<1>. USE ContainerAssumption
<1>1. ASSUME NEW t \in Threads, NEW service \in Services, Register(t, service)
      PROVE  TypeOK'
  <2>1. scopes_' \in [Threads -> ThreadScopes]
    BY <1>1, RegisterType
  <2>. QED
    BY <1>1, <2>1 DEF Register, TypeOK, ThreadScopes
<1>2. ASSUME NEW t \in Threads, NEW service \in Services, Resolve(t, service)
      PROVE  TypeOK'
  <2>1. <<Call(service)>> \in Seq(Calls)
    BY DEF Call, Calls
  <2>2. calls' \in [Threads -> Seq(Calls)]
    BY <1>2, <2>1 DEF Resolve, TypeOK
  <2>3. HasAll(Needs[service], Registered(t, currentScopeId_)) \in BOOLEAN
    BY DEF HasAll
  <2>4. undisturbed' \in [Threads -> BOOLEAN]
    BY <1>2, <2>3, Zenon DEF Resolve, TypeOK
  <2>5. failed' \in [Threads -> BOOLEAN]
    BY <1>2, Zenon DEF Resolve, TypeOK
  <2>. QED
    BY <1>2, <2>2, <2>4, <2>5 DEF Resolve, TypeOK
<1>3. ASSUME NEW t \in Threads, NEW s \in Scopes, CreateNewScope(t, s) PROVE TypeOK'
  <2>1. Empty \in Contents
    BY DEF Empty, Contents
  <2>2. scopes_' \in [Threads -> ThreadScopes]
    BY <1>3, <2>1, WithType DEF CreateNewScope
  <2>. QED
    BY <1>3, <2>2 DEF CreateNewScope, TypeOK, ThreadScopes
<1>4. ASSUME NEW t \in Threads, NEW s \in Scopes, SetCurrentScope(t, s) PROVE TypeOK'
  BY <1>4 DEF SetCurrentScope, TypeOK
<1>5. ASSUME NEW t \in Threads, Lookup(t) PROVE TypeOK'
  <2>1. calls[t] \in Seq(Calls) /\ calls[t] # <<>>
    BY <1>5 DEF Lookup, Idle, TypeOK
  <2>2. calls' \in [Threads -> Seq(Calls)]
    <3>1. CASE Throw(t)
      BY <3>1, ThrowType
    <3>2. CASE Found(t) \in Calls /\ calls' = [calls EXCEPT ![t] = Becomes(t, Found(t))]
      <4>1. Becomes(t, Found(t)) \in Seq(Calls)
        BY <2>1, <3>2, BecomesType
      <4>. QED
        BY <3>2, <4>1 DEF TypeOK
    <3>. QED
      BY <1>5, <3>1, <3>2, LookupCases
  <2>3. mutex_' \in Threads \cup {Free} /\ failed' \in [Threads -> BOOLEAN]
    BY <1>5, LookupCases, ThrowType DEF TypeOK
  <2>. QED
    BY <1>5, <2>2, <2>3 DEF Lookup, TypeOK
<1>6. ASSUME NEW t \in Threads, Nest(t) PROVE TypeOK'
  <2>1. Becomes(t, Going(t)) \in Seq(Calls) /\ Call(Used(t)) \in Calls
    BY <1>6, NestCases, BecomesType
  <2>2. Append(Becomes(t, Going(t)), Call(Used(t))) \in Seq(Calls)
    BY <2>1
  <2>3. calls' = [calls EXCEPT ![t] = Append(Becomes(t, Going(t)), Call(Used(t)))]
    BY <1>6, NestCases
  <2>4. calls' \in [Threads -> Seq(Calls)]
    BY <2>2, <2>3 DEF TypeOK
  <2>. QED
    BY <1>6, <2>4 DEF Nest, TypeOK
<1>7. ASSUME NEW t \in Threads, Return(t) PROVE TypeOK'
  <2>1. calls[t] \in Seq(Calls) /\ calls[t] # <<>>
    BY <1>7 DEF Return, Idle, TypeOK
  <2>2. CASE Throw(t)
    BY <1>7, <2>2, ThrowType DEF Return, TypeOK
  <2>3. CASE calls' = [calls EXCEPT ![t] = Outer(t)] /\ mutex_' = Unlocked(t) /\ UNCHANGED failed
    <3>1. Outer(t) \in Seq(Calls)
      BY <2>1 DEF Outer
    <3>2. calls' \in [Threads -> Seq(Calls)]
      BY <2>3, <3>1 DEF TypeOK
    <3>3. mutex_' \in Threads \cup {Free}
      BY <2>3 DEF Unlocked, TypeOK
    <3>. QED
      BY <1>7, <2>3, <3>2, <3>3 DEF Return, TypeOK
  <2>. QED
    BY <1>7, <2>2, <2>3 DEF Return
<1>8. ASSUME NEW t \in Threads, ResolverThrows(t) PROVE TypeOK'
  <2>1. Throw(t)
    BY <1>8 DEF ResolverThrows
  <2>2. undisturbed' \in [Threads -> BOOLEAN]
    BY <1>8, Zenon DEF ResolverThrows, TypeOK
  <2>. QED
    BY <1>8, <2>1, <2>2, ThrowType DEF ResolverThrows, TypeOK
<1>9. CASE UNCHANGED vars
  BY <1>9 DEF TypeOK, vars
<1>. QED
  BY <1>1, <1>2, <1>3, <1>4, <1>5, <1>6, <1>7, <1>8, <1>9 DEF Next, GoesOn

\* IoCContainer: every variable keeps its type, for any threads, services and
\* scopes.
THEOREM TypeCorrect == Spec => []TypeOK
<1>. QED
  BY TypeInit, TypeNext, PTL DEF Spec

-----------------------------------------------------------------------------
(* As long as a Resolve is undisturbed, each of its calls runs a resolver  *)
(* of the type that is wanted, and all the call needs is in the current    *)
(* scope.                                                                  *)

Served(call, scope) == call.runs = call.wants /\ HasAll(Needs[call.wants], scope)

CallsAreServed ==
  \A t \in Threads : undisturbed[t] =>
    \A i \in DOMAIN calls[t] : Served(calls[t][i], Registered(t, currentScopeId_))

IInv == TypeOK /\ CallsAreServed /\ OwnScopeResolves

\* What the invariant says of one thread after a step.
Kept(u) ==
  /\ undisturbed'[u] =>
       \A i \in DOMAIN calls'[u] : Served(calls'[u][i], Registered(u, currentScopeId_)')
  /\ failed'[u] => ~undisturbed'[u]

\* No thread other than the one that steps notices anything, unless the current
\* scope moves.
LEMMA OthersKeep ==
  ASSUME CallsAreServed, OwnScopeResolves, NEW u \in Threads,
         calls'[u] = calls[u], scopes_'[u] = scopes_[u], failed'[u] = failed[u],
         undisturbed'[u] = undisturbed[u], currentScopeId_' = currentScopeId_
  PROVE  Kept(u)
<1>1. Registered(u, currentScopeId_)' = Registered(u, currentScopeId_)
  BY DEF Registered
<1>. QED
  BY <1>1 DEF CallsAreServed, OwnScopeResolves, Kept

\* A thread that steps within its Resolve keeps the invariant if every call it
\* then has is an earlier one or is served.
LEMMA StepKeeps ==
  ASSUME CallsAreServed, OwnScopeResolves, NEW t \in Threads,
         UNCHANGED <<scopes_, currentScopeId_, undisturbed>>, failed'[t] = failed[t],
         undisturbed[t] =>
           \A i \in DOMAIN calls'[t] :
             \/ i \in DOMAIN calls[t] /\ calls'[t][i] = calls[t][i]
             \/ Served(calls'[t][i], Registered(t, currentScopeId_))
  PROVE  Kept(t)
<1>1. Registered(t, currentScopeId_)' = Registered(t, currentScopeId_)
  BY DEF Registered
<1>2. undisturbed'[t] = undisturbed[t]
  OBVIOUS
<1>. QED
  BY <1>1, <1>2 DEF CallsAreServed, OwnScopeResolves, Kept

\* A call only throws when the Resolve is disturbed.
LEMMA ThrowKeeps ==
  ASSUME TypeOK, NEW t \in Threads, Throw(t), ~undisturbed'[t]
  PROVE  Kept(t)
BY DEF Kept

LEMMA InnermostServed ==
  ASSUME TypeOK, CallsAreServed, NEW t \in Threads, calls[t] # <<>>, undisturbed[t]
  PROVE  /\ Served(Innermost(t), Registered(t, currentScopeId_))
         /\ Registered(t, currentScopeId_)[Innermost(t).wants.key] = Innermost(t).wants
         /\ Innermost(t).wants \in Services
<1>1. calls[t] \in Seq(Calls)
  BY DEF TypeOK
<1>2. Len(calls[t]) \in DOMAIN calls[t] /\ Innermost(t) \in Calls
  BY <1>1 DEF Innermost
<1>3. Served(Innermost(t), Registered(t, currentScopeId_))
  BY <1>2 DEF CallsAreServed, Innermost
<1>4. Innermost(t).wants \in Services /\ Innermost(t).wants \in Needs[Innermost(t).wants]
  BY <1>2, ContainerAssumption DEF Calls
<1>. QED
  BY <1>3, <1>4 DEF Served, HasAll

\* Every step keeps the invariant.
LEMMA ServedNext == IInv /\ [Next]_vars => CallsAreServed' /\ OwnScopeResolves'
<1>. SUFFICES ASSUME IInv, [Next]_vars PROVE CallsAreServed' /\ OwnScopeResolves'
  OBVIOUS
<1>0. SUFFICES \A u \in Threads : Kept(u)
  BY DEF CallsAreServed, OwnScopeResolves, Kept
<1>. USE ContainerAssumption
<1>1. ASSUME NEW t \in Threads, NEW service \in Services, Register(t, service),
             NEW u \in Threads
      PROVE  Kept(u)
  <2>1. CASE u # t
    <3>1. scopes_'[u] = scopes_[u]
      BY <1>1, <2>1, RegisterType DEF IInv
    <3>. QED
      BY <1>1, <3>1, OthersKeep DEF Register, IInv
  <2>2. CASE u = t
    <3>1. calls'[t] = <<>> /\ failed' = failed /\ undisturbed' = undisturbed
      BY <1>1 DEF Register, Idle
    <3>. QED
      BY <2>2, <3>1 DEF IInv, OwnScopeResolves, Kept
  <2>. QED
    BY <2>1, <2>2
<1>2. ASSUME NEW t \in Threads, NEW service \in Services, Resolve(t, service),
             NEW u \in Threads
      PROVE  Kept(u)
  <2>1. CASE u # t
    <3>1. calls'[u] = calls[u] /\ undisturbed'[u] = undisturbed[u] /\ failed'[u] = failed[u]
      BY <1>2, <2>1, Zenon DEF Resolve, IInv, TypeOK
    <3>. QED
      BY <1>2, <3>1, OthersKeep DEF Resolve, IInv
  <2>2. CASE u = t
    <3>1. calls'[t] = <<Call(service)>>
      BY <1>2 DEF Resolve, IInv, TypeOK
    <3>2. undisturbed'[t] = HasAll(Needs[service], Registered(t, currentScopeId_))
      BY <1>2, Zenon DEF Resolve, IInv, TypeOK
    <3>3. failed'[t] = FALSE
      BY <1>2, Zenon DEF Resolve, IInv, TypeOK
    <3>4. Registered(t, currentScopeId_)' = Registered(t, currentScopeId_)
      BY <1>2 DEF Resolve, Registered
    <3>5. \A i \in DOMAIN calls'[t] : calls'[t][i] = Call(service)
      BY <3>1
    <3>6. Call(service).wants = service /\ Call(service).runs = service
      BY DEF Call
    <3>. QED
      BY <2>2, <3>2, <3>3, <3>4, <3>5, <3>6 DEF Kept, Served
  <2>. QED
    BY <2>1, <2>2
<1>3. ASSUME NEW t \in Threads, NEW s \in Scopes,
             CreateNewScope(t, s) \/ SetCurrentScope(t, s), NEW u \in Threads
      PROVE  Kept(u)
  <2>1. ~undisturbed'[u]
    BY <1>3, Zenon DEF CreateNewScope, SetCurrentScope
  <2>. QED
    BY <2>1 DEF Kept
<1>4. ASSUME NEW t \in Threads, Throw(t), NEW u \in Threads \ {t},
             undisturbed'[u] = undisturbed[u], UNCHANGED <<scopes_, currentScopeId_>>
      PROVE  Kept(u)
  <2>1. calls'[u] = calls[u] /\ failed'[u] = failed[u]
    BY <1>4, ThrowType DEF IInv
  <2>. QED
    BY <1>4, <2>1, OthersKeep DEF IInv
<1>5. ASSUME NEW t \in Threads, Lookup(t), NEW u \in Threads
      PROVE  Kept(u)
  <2>0. UNCHANGED <<scopes_, currentScopeId_, undisturbed>>
    BY <1>5 DEF Lookup
  <2>1. calls[t] \in Seq(Calls) /\ calls[t] # <<>>
    BY <1>5 DEF Lookup, Idle, TypeOK, IInv
  <2>2. CASE FoundScope(t)[Innermost(t).wants.key] = Absent /\ Throw(t)
    <3>1. ~undisturbed[t]
      BY <2>1, <2>2, InnermostServed DEF IInv, FoundScope
    <3>2. Kept(t)
      BY <2>0, <2>2, <3>1, ThrowKeeps DEF IInv
    <3>. QED
      BY <1>4, <2>0, <2>2, <3>2
  <2>3. CASE /\ Found(t) \in Calls
             /\ calls' = [calls EXCEPT ![t] = Becomes(t, Found(t))]
             /\ mutex_' = Free
             /\ UNCHANGED failed
    <3>1. CASE u # t
      <4>1. calls'[u] = calls[u]
        BY <2>3, <3>1 DEF IInv, TypeOK
      <4>. QED
        BY <2>0, <2>3, <4>1, OthersKeep DEF IInv
    <3>2. CASE u = t
      <4>1. calls'[t] = Becomes(t, Found(t))
        BY <2>3 DEF IInv, TypeOK
      <4>2. /\ Becomes(t, Found(t)) \in Seq(Calls)
            /\ Len(Becomes(t, Found(t))) = Len(calls[t])
            /\ \A i \in 1 .. Len(calls[t]) : Becomes(t, Found(t))[i] \in {calls[t][i], Found(t)}
        BY <2>1, <2>3, BecomesType
      <4>3. \A i \in DOMAIN calls'[t] :
              i \in DOMAIN calls[t] /\ calls'[t][i] \in {calls[t][i], Found(t)}
        BY <2>1, <4>1, <4>2
      <4>4. undisturbed[t] => Served(Found(t), Registered(t, currentScopeId_))
        BY <2>1, InnermostServed DEF IInv, Found, FoundScope, Served
      <4>5. undisturbed[t] =>
              \A i \in DOMAIN calls'[t] :
                \/ i \in DOMAIN calls[t] /\ calls'[t][i] = calls[t][i]
                \/ Served(calls'[t][i], Registered(t, currentScopeId_))
        BY <4>3, <4>4
      <4>. QED
        BY <2>0, <2>3, <3>2, <4>5, StepKeeps DEF IInv
    <3>. QED
      BY <3>1, <3>2
  <2>. QED
    BY <1>5, <2>2, <2>3, LookupCases DEF IInv
<1>6. ASSUME NEW t \in Threads, Nest(t), NEW u \in Threads
      PROVE  Kept(u)
  <2>0. UNCHANGED <<scopes_, currentScopeId_, undisturbed, failed>>
    BY <1>6 DEF Nest
  <2>1. /\ calls[t] \in Seq(Calls) /\ calls[t] # <<>>
        /\ Going(t) \in Calls
        /\ Going(t).wants = Innermost(t).wants
        /\ Going(t).runs = Innermost(t).runs
        /\ Used(t) \in Services
        /\ Needs[Used(t)] \subseteq Needs[Innermost(t).runs]
        /\ Call(Used(t)) \in Calls
        /\ calls' = [calls EXCEPT ![t] = Append(Becomes(t, Going(t)), Call(Used(t)))]
    BY <1>6, NestCases DEF IInv
  <2>2. CASE u # t
    <3>1. calls'[u] = calls[u]
      BY <2>1, <2>2 DEF IInv, TypeOK
    <3>. QED
      BY <2>0, <3>1, OthersKeep DEF IInv
  <2>3. CASE u = t
    <3>1. calls'[t] = Append(Becomes(t, Going(t)), Call(Used(t)))
      BY <2>1 DEF IInv, TypeOK
    <3>2. /\ Becomes(t, Going(t)) \in Seq(Calls)
          /\ Len(Becomes(t, Going(t))) = Len(calls[t])
          /\ \A i \in 1 .. Len(calls[t]) : Becomes(t, Going(t))[i] \in {calls[t][i], Going(t)}
      BY <2>1, BecomesType
    <3>3. \A i \in DOMAIN calls'[t] :
            \/ i \in DOMAIN calls[t] /\ calls'[t][i] \in {calls[t][i], Going(t)}
            \/ calls'[t][i] = Call(Used(t))
      BY <2>1, <3>1, <3>2
    <3>4. undisturbed[t] => Served(Going(t), Registered(t, currentScopeId_))
      BY <2>1, InnermostServed DEF IInv, Served
    <3>5. undisturbed[t] => Served(Call(Used(t)), Registered(t, currentScopeId_))
      <4>1. Call(Used(t)).wants = Used(t) /\ Call(Used(t)).runs = Used(t)
        BY DEF Call
      <4>2. undisturbed[t] => HasAll(Needs[Innermost(t).runs], Registered(t, currentScopeId_))
        BY <2>1, InnermostServed DEF IInv, Served
      <4>. QED
        BY <2>1, <4>1, <4>2 DEF Served, HasAll
    <3>6. undisturbed[t] =>
            \A i \in DOMAIN calls'[t] :
              \/ i \in DOMAIN calls[t] /\ calls'[t][i] = calls[t][i]
              \/ Served(calls'[t][i], Registered(t, currentScopeId_))
      BY <3>3, <3>4, <3>5
    <3>. QED
      BY <2>0, <2>3, <3>6, StepKeeps DEF IInv
  <2>. QED
    BY <2>2, <2>3
<1>7. ASSUME NEW t \in Threads, Return(t), NEW u \in Threads
      PROVE  Kept(u)
  <2>0. UNCHANGED <<scopes_, currentScopeId_, undisturbed>>
    BY <1>7 DEF Return
  <2>1. calls[t] \in Seq(Calls) /\ calls[t] # <<>>
    BY <1>7 DEF Return, Idle, TypeOK, IInv
  <2>2. CASE Innermost(t).runs # Innermost(t).wants
    <3>1. Throw(t)
      BY <1>7, <2>2 DEF Return
    <3>2. ~undisturbed[t]
      BY <2>1, <2>2, InnermostServed DEF IInv, Served
    <3>3. Kept(t)
      BY <2>0, <3>1, <3>2, ThrowKeeps DEF IInv
    <3>. QED
      BY <1>4, <2>0, <3>1, <3>3
  <2>3. CASE Innermost(t).runs = Innermost(t).wants
    <3>1. calls' = [calls EXCEPT ![t] = Outer(t)] /\ UNCHANGED failed
      BY <1>7, <2>3 DEF Return
    <3>2. CASE u # t
      <4>1. calls'[u] = calls[u]
        BY <3>1, <3>2 DEF IInv, TypeOK
      <4>. QED
        BY <2>0, <3>1, <4>1, OthersKeep DEF IInv
    <3>3. CASE u = t
      <4>1. calls'[t] = Outer(t)
        BY <3>1 DEF IInv, TypeOK
      <4>2. \A i \in DOMAIN calls'[t] :
              i \in DOMAIN calls[t] /\ calls'[t][i] = calls[t][i]
        BY <2>1, <4>1 DEF Outer
      <4>. QED
        BY <2>0, <3>1, <3>3, <4>2, StepKeeps DEF IInv
    <3>. QED
      BY <3>2, <3>3
  <2>. QED
    BY <2>2, <2>3
<1>8. ASSUME NEW t \in Threads, ResolverThrows(t), NEW u \in Threads
      PROVE  Kept(u)
  <2>1. Throw(t) /\ UNCHANGED <<scopes_, currentScopeId_>>
    BY <1>8 DEF ResolverThrows
  <2>2. ~undisturbed'[t] /\ (u # t => undisturbed'[u] = undisturbed[u])
    BY <1>8, Zenon DEF ResolverThrows, IInv, TypeOK
  <2>3. Kept(t)
    BY <2>1, <2>2, ThrowKeeps DEF IInv
  <2>. QED
    BY <1>4, <2>1, <2>2, <2>3
<1>9. ASSUME UNCHANGED vars, NEW u \in Threads PROVE Kept(u)
  BY <1>9, OthersKeep DEF vars, IInv
<1>. QED
  BY <1>1, <1>2, <1>3, <1>5, <1>6, <1>7, <1>8, <1>9 DEF Next, GoesOn

\* IoCContainer: a Resolve that throws was disturbed: something it needs was
\* missing or of another type, the current scope was changed under it or a
\* resolver threw.
THEOREM ResolvesInItsScope == Spec => []OwnScopeResolves
<1>1. Init => IInv
  <2>1. ASSUME Init PROVE OwnScopeResolves
    BY <2>1, Zenon DEF Init, OwnScopeResolves
  <2>2. ASSUME Init PROVE CallsAreServed
    BY <2>2, Zenon DEF Init, CallsAreServed
  <2>. QED
    BY <2>1, <2>2, TypeInit DEF IInv
<1>2. IInv /\ [Next]_vars => IInv'
  BY ServedNext, TypeNext DEF IInv
<1>3. IInv => OwnScopeResolves
  BY DEF IInv
<1>. QED
  BY <1>1, <1>2, <1>3, PTL DEF Spec
=============================================================================
