------------------------ MODULE CollisionSystemProofs ------------------------
(***************************************************************************)
(* The game server's world, whatever its players send, for any number of   *)
(* entities and of turns in turns: new entities are bare, the world keeps  *)
(* the registry's promise, turns over the first slot come to an end, what  *)
(* is destroyed stood in the vector, and a search that never returns needs *)
(* a tree of more than three nodes.                                        *)
(***************************************************************************)
EXTENDS CollisionSystem, FiniteSetTheorems, SequenceTheorems, TLAPS

\* The tree again, with what is proved about it.
Trees == INSTANCE DynamicBVHProofs WITH
  Rects <- {}, Scenes <- {}, Beyond <- Nothing, MaxFills <- 0, MaxMoves <- 0,
  leaves <- <<>>, single <- FALSE, phase <- "set", updated <- {}, moves <- 0, fills <- 0

LEMMA BoundFacts ==
  MaxObjects \in Nat /\ MaxObjects # 0 /\ MaxObjects = MaxEntities + 1 /\ MaxEntities \in Nat
BY WorldAssumption DEF MaxObjects

LEMMA TreesAssumption == Trees!BVHAssumption
BY BoundFacts, WorldAssumption DEF Trees!BVHAssumption, Entities

-----------------------------------------------------------------------------
(* The run of a command.  Execute is a function defined by recursion: that *)
(* there is such a function, and what it keeps, is shown by induction.     *)

Untouched(object) == [object |-> object, thrown |-> FALSE]

\* f has what the first n parts leave, one after the other.
IsRun(f, command, object, n) ==
  f = [m \in 0 .. n |-> IF m = 0 THEN Untouched(object) ELSE Outcome(command[m], f[m - 1])]

\* There is a run of any length.
LEMMA RunExists ==
  ASSUME NEW command, NEW object, NEW n \in Nat
  PROVE  \E f : IsRun(f, command, object, n)
<1>. DEFINE S == {k \in Nat : \E f : IsRun(f, command, object, k)}
<1>1. 0 \in S
  <2>. DEFINE f == [m \in 0 .. 0 |-> Untouched(object)]
  <2>1. IsRun(f, command, object, 0)
    BY DEF IsRun
  <2>. QED
    BY <2>1
<1>2. ASSUME NEW k \in Nat, k \in S PROVE k + 1 \in S
  <2>1. PICK f : IsRun(f, command, object, k)
    BY <1>2
  <2>. DEFINE g == [m \in 0 .. k + 1 |->
                      IF m = k + 1 THEN Outcome(command[k + 1], f[k]) ELSE f[m]]
  <2>2. \A m \in 0 .. k :
          f[m] = IF m = 0 THEN Untouched(object) ELSE Outcome(command[m], f[m - 1])
    BY <2>1 DEF IsRun
  <2>3. ASSUME NEW m \in 0 .. k + 1
        PROVE  g[m] = IF m = 0 THEN Untouched(object) ELSE Outcome(command[m], g[m - 1])
    <3>1. CASE m = k + 1
      <4>1. m # 0 /\ m - 1 = k /\ k \in 0 .. k + 1 /\ k # k + 1
        BY <3>1
      <4>2. g[m] = Outcome(command[k + 1], f[k]) /\ g[k] = f[k]
        BY <3>1, <4>1
      <4>. QED
        BY <3>1, <4>1, <4>2
    <3>2. CASE m # k + 1
      <4>1. m \in 0 .. k
        BY <3>2
      <4>2. m # 0 => m - 1 \in 0 .. k + 1 /\ m - 1 # k + 1
        BY <4>1
      <4>3. g[m] = f[m] /\ (m # 0 => g[m - 1] = f[m - 1])
        BY <3>2, <4>2
      <4>. QED
        BY <2>2, <4>1, <4>3
    <3>. QED
      BY <3>1, <3>2
  <2>4. DOMAIN g = 0 .. k + 1 /\ g = [m \in 0 .. k + 1 |-> g[m]]
    OBVIOUS
  <2>. HIDE DEF g
  <2>5. IsRun(g, command, object, k + 1)
    BY <2>3, <2>4 DEF IsRun
  <2>. QED
    BY <2>5
<1>. HIDE DEF S
<1>3. Nat \subseteq S
  BY <1>1, <1>2, TreesAssumption, Trees!SetInduction
<1>. QED
  BY <1>3 DEF S

\* Execute returns the end of a run, and a run steps from part to part.
Executes(f, command, object) ==
  /\ Execute(command, object) = f[Len(command)]
  /\ f[0] = Untouched(object)
  /\ \A n \in Nat : n + 1 <= Len(command) => f[n + 1] = Outcome(command[n + 1], f[n])

LEMMA ExecuteRuns ==
  ASSUME NEW command, Len(command) \in Nat, NEW object
  PROVE  \E f : Executes(f, command, object)
<1>. DEFINE N == Len(command)
            F == CHOOSE f : IsRun(f, command, object, N)
<1>1. IsRun(F, command, object, N)
  BY RunExists
<1>2. Execute(command, object) = F[N]
  BY DEF Execute, IsRun, Untouched
<1>. HIDE DEF F
<1>3. F[0] = Untouched(object)
  BY <1>1 DEF IsRun
<1>4. ASSUME NEW n \in Nat, n + 1 <= N PROVE F[n + 1] = Outcome(command[n + 1], F[n])
  <2>1. n + 1 \in 0 .. N /\ n + 1 # 0 /\ (n + 1) - 1 = n
    BY <1>4
  <2>. QED
    BY <1>1, <2>1 DEF IsRun
<1>. QED
  BY <1>2, <1>3, <1>4 DEF Executes

-----------------------------------------------------------------------------
(* What a command does.                                                    *)

\* A part that throws, and one that does not.
LEMMA Stops ==
  ASSUME NEW part, NEW before, before.thrown \/ Throws(part, before.object)
  PROVE  Outcome(part, before) = [object |-> before.object, thrown |-> TRUE]
<1>. DEFINE throws == before.thrown \/ Throws(part, before.object)
<1>1. throws = TRUE
  BY Zenon
<1>2. Outcome(part, before) =
        [object |-> IF throws THEN before.object ELSE Apply(part, before.object),
         thrown |-> throws]
  BY Zenon DEF Outcome
<1>. HIDE DEF throws
<1>. QED
  BY <1>1, <1>2, Zenon

LEMMA Goes ==
  ASSUME NEW part, NEW object, ~Throws(part, object)
  PROVE  Outcome(part, Untouched(object)) = Untouched(Apply(part, object))
<1>. DEFINE before == Untouched(object)
            throws == before.thrown \/ Throws(part, before.object)
<1>1. before.thrown = FALSE /\ before.object = object
  BY DEF Untouched
<1>. HIDE DEF before
<1>2. throws = FALSE
  BY <1>1, Zenon
<1>3. Outcome(part, before) =
        [object |-> IF throws THEN before.object ELSE Apply(part, before.object),
         thrown |-> throws]
  BY Zenon DEF Outcome
<1>. HIDE DEF throws
<1>4. Outcome(part, before) = [object |-> Apply(part, object), thrown |-> FALSE]
  BY <1>1, <1>2, <1>3, Zenon
<1>. QED
  BY <1>4 DEF Untouched, before

\* No command, whatever its parts and however many, gives an object a property
\* it lacked or takes one away, whether it throws or not: IObject has no way to.
THEOREM ExecuteKeepsProperties ==
  ASSUME NEW command, Len(command) \in Nat, NEW object
  PROVE  DOMAIN Execute(command, object).object = DOMAIN object
<1>0. PICK f : Executes(f, command, object)
  BY ExecuteRuns
<1>1. /\ Execute(command, object) = f[Len(command)]
      /\ f[0] = Untouched(object)
      /\ \A n \in Nat : n + 1 <= Len(command) => f[n + 1] = Outcome(command[n + 1], f[n])
  BY <1>0 DEF Executes
<1>. DEFINE S == {n \in Nat : n <= Len(command) => DOMAIN f[n].object = DOMAIN object}
<1>2. 0 \in S
  BY <1>1 DEF Untouched
<1>3. ASSUME NEW n \in Nat, n \in S PROVE n + 1 \in S
  <2>. SUFFICES ASSUME n + 1 <= Len(command)
                PROVE  DOMAIN f[n + 1].object = DOMAIN object
    OBVIOUS
  <2>1. DOMAIN f[n].object = DOMAIN object
    BY <1>3
  <2>2. f[n + 1] = Outcome(command[n + 1], f[n])
    BY <1>1
  <2>3. DOMAIN Outcome(command[n + 1], f[n]).object = DOMAIN f[n].object
    BY DEF Outcome, Apply
  <2>. QED
    BY <2>1, <2>2, <2>3
<1>. HIDE DEF S
<1>4. Len(command) \in S
  BY <1>2, <1>3, TreesAssumption, Trees!SetInduction
<1>. QED
  BY <1>1, <1>4 DEF S

\* MoveWithFuelCommand makes its move for one unit of fuel or throws and leaves
\* the object as it was, whatever else the object has, since the part that can
\* throw comes first.
THEOREM FuelledMove ==
  ASSUME NEW Props, NEW object \in [Props -> Int], NEW delta \in Int,
         "position" \in Props, "fuel" \in Props, object["fuel"] \in Nat
  PROVE  Execute(MoveWithFuelCommand(delta), object) =
           IF object["fuel"] > 1
           THEN [object |-> [object EXCEPT !["position"] = @ + delta, !["fuel"] = @ - 1],
                 thrown |-> FALSE]
           ELSE [object |-> object, thrown |-> TRUE]
<1>. DEFINE command == MoveWithFuelCommand(delta)
<1>1. /\ Len(command) = 3
      /\ command[1] = [type |-> "CheckFuel", by |-> 0]
      /\ command[2] = [type |-> "Move", by |-> delta]
      /\ command[3] = [type |-> "BurnFuel", by |-> 1]
  BY DEF MoveWithFuelCommand
<1>. HIDE DEF command
<1>2. PICK f : Executes(f, command, object)
  <2>1. Len(command) \in Nat
    BY <1>1
  <2>. QED
    BY <2>1, ExecuteRuns
<1>3. /\ f[1] = Outcome(command[1], f[0])
      /\ f[2] = Outcome(command[2], f[1])
      /\ f[3] = Outcome(command[3], f[2])
  <2>1. 0 + 1 = 1 /\ 1 + 1 = 2 /\ 2 + 1 = 3
    OBVIOUS
  <2>. QED
    BY <1>1, <1>2, <2>1 DEF Executes
<1>4. CASE object["fuel"] > 1
  <2>1. f[1] = Untouched(object)
    <3>1. ~Throws(command[1], object)
      BY <1>1, <1>4 DEF Throws, HasProperty
    <3>2. Apply(command[1], object) = object
      BY <1>1 DEF Apply, Changed, PropertyOf
    <3>. QED
      BY <1>2, <1>3, <3>1, <3>2, Goes DEF Executes
  <2>. DEFINE moved == [object EXCEPT !["position"] = object["position"] + delta]
  <2>2. f[2] = Untouched(moved)
    <3>1. ~Throws(command[2], object)
      BY <1>1 DEF Throws
    <3>2. Apply(command[2], object) = [p \in Props |->
            IF p = "position" THEN object[p] + delta ELSE object[p]]
      BY <1>1 DEF Apply, Changed, PropertyOf
    <3>3. Apply(command[2], object) = moved
      BY <3>2
    <3>. QED
      BY <1>3, <2>1, <3>1, <3>3, Goes
  <2>3. f[3] = Untouched([moved EXCEPT !["fuel"] = object["fuel"] - 1])
    <3>1. ~Throws(command[3], moved)
      BY <1>1 DEF Throws
    <3>2. moved \in [Props -> Int] /\ moved["fuel"] = object["fuel"]
      OBVIOUS
    <3>3. Apply(command[3], moved) = [p \in Props |->
            IF p = "fuel" THEN object["fuel"] - 1 ELSE moved[p]]
      BY <1>1, <1>4, <3>2 DEF Apply, Changed, PropertyOf
    <3>4. Apply(command[3], moved) = [moved EXCEPT !["fuel"] = object["fuel"] - 1]
      BY <3>2, <3>3
    <3>. QED
      BY <1>3, <2>2, <3>1, <3>4, Goes
  <2>4. [moved EXCEPT !["fuel"] = object["fuel"] - 1]
          = [object EXCEPT !["position"] = @ + delta, !["fuel"] = @ - 1]
    OBVIOUS
  <2>. QED
    BY <1>1, <1>2, <1>4, <2>3, <2>4 DEF Untouched, Executes, command
<1>5. CASE ~(object["fuel"] > 1)
  <2>1. Throws(command[1], object)
    BY <1>1, <1>5 DEF Throws, HasProperty
  <2>2. f[1] = [object |-> object, thrown |-> TRUE]
    <3>1. f[0].object = object
      BY <1>2 DEF Untouched, Executes
    <3>. QED
      BY <1>3, <2>1, <3>1, Stops
  <2>3. f[2] = f[1] /\ f[3] = f[1]
    <3>1. ASSUME NEW before, before = [object |-> object, thrown |-> TRUE], NEW part
          PROVE  Outcome(part, before) = before
      <4>1. before.thrown = TRUE /\ before.object = object
        BY <3>1
      <4>2. before.thrown
        BY <4>1, Zenon
      <4>. QED
        BY <3>1, <4>1, <4>2, Stops, Zenon
    <3>. QED
      BY <1>3, <2>2, <3>1, Zenon
  <2>. QED
    BY <1>1, <1>2, <1>5, <2>2, <2>3 DEF command, Executes
<1>. QED
  BY <1>4, <1>5

-----------------------------------------------------------------------------
(* The world.                                                              *)

Tables == [Types -> [Entities -> Values \cup {Nothing}]]

Ids == 0 .. MaxEntities + 1

\* What the assumptions say of values.
LEMMA ValueFacts ==
  /\ "Position" \in Types /\ "Rotation" \in Types
  /\ Nothing \notin Values /\ 0 \in Values
  /\ Places \subseteq Values /\ Angles \subseteq Values
BY WorldAssumption DEF Values

LEMMA IdFacts ==
  /\ 1 \in Ids /\ 0 \in Ids
  /\ \A e \in Entities : e \in Nat /\ e \in Ids /\ e + 1 \in Ids
BY WorldAssumption DEF Ids, Entities

-----------------------------------------------------------------------------
(* What the operations do to the tables of components.                     *)

LEMMA CreateEffect ==
  ASSUME WorldType, NEW values, Create(values), \A t \in DOMAIN values : values[t] \in Values
  PROVE  /\ WorldType'
         /\ next_entity_id' = next_entity_id + 1 /\ next_entity_id \in Entities
         /\ \A t \in Types, e \in Entities :
              e # next_entity_id => components'[t][e] = components[t][e]
         /\ "Position" \in DOMAIN values => components'["Position"][next_entity_id] # Nothing
<1>1. next_entity_id \in Entities /\ next_entity_id' = next_entity_id + 1 /\ archive' = archive
  BY DEF Create
<1>2. components' = [t \in Types |->
       IF t \in DOMAIN values THEN [components[t] EXCEPT ![next_entity_id] = values[t]]
                              ELSE components[t]]
  BY DEF Create
<1>3. components \in Tables
  BY DEF WorldType, Tables
<1>4. components' \in Tables
  BY <1>1, <1>2, <1>3 DEF Tables
<1>5. \A t \in Types, e \in Entities :
        e # next_entity_id => components'[t][e] = components[t][e]
  BY <1>2, <1>3 DEF Tables
<1>6. "Position" \in DOMAIN values => components'["Position"][next_entity_id] # Nothing
  BY <1>1, <1>2, <1>3, ValueFacts DEF Tables
<1>7. next_entity_id' \in Ids
  BY <1>1, IdFacts
<1>8. WorldType'
  BY <1>1, <1>4, <1>7 DEF WorldType, Tables, Ids, Values, Entities
<1>. QED
  BY <1>1, <1>5, <1>6, <1>8

LEMMA DestroyEffect ==
  ASSUME WorldType, NEW e \in Entities, DestroyEntity(e)
  PROVE  /\ WorldType' /\ UNCHANGED <<next_entity_id, archive>>
         /\ \A t \in Types, f \in Entities :
              components'[t][f] \in {components[t][f], Nothing}
         /\ components'["Position"][e] = Nothing
<1>1. components \in Tables
  BY DEF WorldType, Tables
<1>2. PICK types \in Erased(e) :
        components' = [t \in Types |->
          IF t \in types THEN [components[t] EXCEPT ![e] = Nothing] ELSE components[t]]
  BY DEF DestroyEntity
<1>3. UNCHANGED <<next_entity_id, archive>>
  BY DEF DestroyEntity
<1>4. components' \in Tables
  BY <1>1, <1>2 DEF Tables
<1>5. \A t \in Types, f \in Entities : components'[t][f] \in {components[t][f], Nothing}
  BY <1>1, <1>2 DEF Tables
<1>6. components'["Position"][e] = Nothing
  <2>1. CASE HasComponent("Position", e)
    <3>1. "Position" \in types
      BY <1>2, <2>1 DEF Erased
    <3>. QED
      BY <1>1, <1>2, <3>1, ValueFacts DEF Tables
  <2>2. CASE ~HasComponent("Position", e)
    BY <1>5, <2>2, ValueFacts DEF HasComponent
  <2>. QED
    BY <2>1, <2>2
<1>7. WorldType'
  BY <1>3, <1>4 DEF WorldType, Tables, Values, Entities
<1>. QED
  BY <1>3, <1>5, <1>6, <1>7

\* A command sets what its player has, and nothing else: not the components of
\* others, and no component that is not there.
LEMMA CommandEffect ==
  ASSUME WorldType, NEW e \in Entities, NEW command \in PlayerCommands,
         PlayerCommand(e, command)
  PROVE  /\ WorldType' /\ UNCHANGED <<next_entity_id, archive>>
         /\ \A t \in Types, f \in Entities :
              (components'[t][f] = Nothing) <=> (components[t][f] = Nothing)
<1>. DEFINE object == Execute(command, PlayerObject(e)).object
<1>1. components \in Tables
  BY DEF WorldType, Tables
<1>2. InBounds(object) /\ components' = SetProperties(e, object)
      /\ UNCHANGED <<next_entity_id, archive>>
  BY DEF PlayerCommand
<1>3. DOMAIN object = DOMAIN PlayerObject(e)
  <2>1. Len(command) \in Nat
    BY CollisionAssumption
  <2>. QED
    BY <2>1, ExecuteKeepsProperties
<1>4. HasProperty(object, "position") <=> HasComponent("Position", e)
  BY <1>3 DEF HasProperty, PlayerObject, TypeOf
<1>. HIDE DEF object
<1>. DEFINE place == IF HasProperty(object, "position") THEN object["position"]
                     ELSE components["Position"][e]
            angle == IF HasProperty(object, "rotation") /\ components["Rotation"][e] # Nothing
                     THEN object["rotation"] ELSE components["Rotation"][e]
<1>5. place \in Values \cup {Nothing} /\ angle \in Values \cup {Nothing}
  BY <1>1, <1>2, ValueFacts DEF InBounds, Tables
<1>6. (place = Nothing) <=> (components["Position"][e] = Nothing)
  BY <1>2, <1>4, ValueFacts DEF InBounds, HasComponent
<1>7. (angle = Nothing) <=> (components["Rotation"][e] = Nothing)
  BY <1>2, ValueFacts DEF InBounds
<1>8. components' = [components EXCEPT !["Position"][e] = place, !["Rotation"][e] = angle]
  BY <1>1, <1>2, ValueFacts DEF SetProperties, Tables
<1>. HIDE DEF place, angle
<1>9. components' \in Tables
  BY <1>1, <1>5, <1>8, ValueFacts DEF Tables
<1>10. \A t \in Types, f \in Entities :
         components'[t][f] = IF t = "Position" /\ f = e THEN place
                             ELSE IF t = "Rotation" /\ f = e THEN angle
                             ELSE components[t][f]
  BY <1>1, <1>8, ValueFacts DEF Tables
<1>11. WorldType'
  BY <1>2, <1>9 DEF WorldType, Tables, Values, Entities
<1>. QED
  BY <1>2, <1>6, <1>7, <1>10, <1>11

-----------------------------------------------------------------------------
(* The turns under way.                                                    *)

Fields == {"phase", "ships", "pending", "slot"}

Phases == {"fill", "search", "hung", "walk"}

IsPair(slots) == \E i \in 1 .. MaxObjects, j \in 1 .. MaxObjects : i # j /\ slots = {i, j}

\* What was found stood in a slot, and in the first slot a ship of the turn's.
Findable(pending, ships) ==
  \A found \in pending :
    /\ IsPair(found.slots) /\ found.entity \in Entities
    /\ ships # {} /\ First(found.slots) = 1 => found.entity \in ships

Sound(t) ==
  /\ DOMAIN t = Fields
  /\ t.phase \in Phases
  /\ t.ships \subseteq Entities
  /\ t.slot \in 0 .. MaxObjects
  /\ Findable(t.pending, t.ships)

Nested ==
  /\ \E S : turns \in Seq(S)
  /\ \A i \in 1 .. Len(turns) : Sound(turns[i]) /\ Ships \subseteq turns[i].ships
  /\ \A i \in 1 .. Len(turns) : i # Len(turns) => turns[i].phase = "walk"
  /\ FirstSlotLosesShip

FillsFresh == InPhase("fill") => Turn.ships = Ships

SearchesFilled ==
  InPhase("search") /\ Turn.ships # {} => 1 \in DOMAIN objects /\ objects[1].entity \in Turn.ships

Slot == [rect : [x : Int, y : Int, h : Nat], entity : Entities]

SlotsType == objects \in Seq(Slot) /\ Len(objects) <= MaxObjects

TurnsInv == Nested /\ FillsFresh /\ SearchesFilled /\ SlotsType

LEMMA PairFacts ==
  ASSUME NEW pair, IsPair(pair)
  PROVE  /\ First(pair) \in pair /\ First(pair) \in 1 .. MaxObjects
         /\ \A k \in pair : First(pair) <= k
         /\ Cardinality(pair) = 2
<1>1. PICK i \in 1 .. MaxObjects, j \in 1 .. MaxObjects : i # j /\ pair = {i, j}
  BY DEF IsPair
<1>2. \E k \in pair : \A l \in pair : k <= l
  <2>1. (\A l \in {i, j} : i <= l) \/ (\A l \in {i, j} : j <= l)
    BY <1>1
  <2>. QED
    BY <1>1, <2>1
<1>3. First(pair) \in pair /\ \A k \in pair : First(pair) <= k
  BY <1>2 DEF First
<1>4. Cardinality(pair) = 2
  <2>1. Cardinality({i}) = 1 /\ IsFiniteSet({i})
    BY FS_Singleton
  <2>2. pair = {i} \cup {j} /\ j \notin {i}
    BY <1>1
  <2>3. Cardinality({i} \cup {j}) = Cardinality({i}) + 1
    BY <2>1, <2>2, FS_AddElement
  <2>. QED
    BY <2>1, <2>2, <2>3
<1>. QED
  BY <1>1, <1>3, <1>4

-----------------------------------------------------------------------------
(* The tree, over whatever objects it was built, and the search of it.     *)

\* An empty vector is only searched over a tree in which nothing is met, and a
\* turn that has nothing to destroy has met nothing.
TreeInv ==
  /\ Trees!IsShape(tree)
  /\ objects = <<>> \/ (InPhase("walk") /\ Turn.pending = {}) => Bvh!Search.met = {}
  /\ TwoShipsNeverHang

LEMMA SameSearch == Bvh!Search = Trees!Search
BY Zenon DEF Bvh!Search, Bvh!Popped, Bvh!Pushed, Bvh!AreLeaves, Bvh!Descend, Bvh!Children,
   Bvh!Intersects, Bvh!Cardinality, Trees!Search, Trees!Popped, Trees!Pushed,
   Trees!AreLeaves, Trees!Descend, Trees!Children, Trees!Intersects, Trees!Cardinality

LEMMA SearchKept == UNCHANGED tree => (Bvh!Search)' = Bvh!Search
BY SMT DEF Bvh!Search, Bvh!Popped, Bvh!Pushed, Bvh!AreLeaves, Bvh!Descend, Bvh!Children,
   Bvh!Intersects

LEMMA SameBuild ==
  ASSUME NEW order
  PROVE  Bvh!Rooted(Bvh!NewTree(order)) = Trees!Rooted(Trees!NewTree(order))
<1>1. Bvh!NewTree(order) = Trees!NewTree(order)
  BY Zenon DEF Bvh!NewTree, Bvh!Spans, Bvh!Boxes, Bvh!Half, Bvh!IsOneObject, Bvh!Box, Bvh!Merge,
     Bvh!Nodes, Trees!NewTree, Trees!Spans, Trees!Boxes, Trees!Half, Trees!IsOneObject,
     Trees!Box, Trees!Merge, Trees!Nodes
<1>2. \A new : Bvh!Rooted(new) = Trees!Rooted(new)
  BY Zenon DEF Bvh!Rooted, Trees!Rooted
<1>. QED
  BY <1>1, <1>2

\* What is met are two slots, the first one of them when the root is a leaf.
MeetsSlots ==
  /\ \A pair \in Bvh!Search.met : IsPair(pair)
  /\ tree[1].isLeaf => \A pair \in Bvh!Search.met : 1 \in pair
  /\ \A n \in Nat :
       ~tree[1].isLeaf /\ (\A k \in DOMAIN tree \ {1} : tree[k].isLeaf => tree[k].index \in 1 .. n)
         => \A pair \in Bvh!Search.met : pair \subseteq 1 .. n
  /\ Bvh!Search.endless => \E node \in DOMAIN tree : node > 3

LEMMA SearchBounds == Trees!IsShape(tree) => MeetsSlots
<1>1. Trees!IsShape(tree) => Trees!SearchBounded
  BY TreesAssumption, BoundFacts, Trees!ShapeBoundsSearch
<1>. QED
  BY <1>1, SameSearch, Zenon DEF Trees!SearchBounded, MeetsSlots, IsPair

\* What a search leaves and meets, over the tree its build made.
LEMMA SearchOutcome ==
  ASSUME TurnsInv, TreeInv, Search
  PROVE  /\ Trees!IsShape(tree)'
         /\ objects = <<>> => (Bvh!Search)'.met = {}
         /\ \A pair \in (Bvh!Search)'.met : IsPair(pair) /\ First(pair) \in DOMAIN objects
         /\ (Bvh!Search)'.endless => \E node \in DOMAIN tree' : node > 3
<1>. DEFINE met == (Bvh!Search)'.met
<1>0. Trees!IsShape(tree)' => MeetsSlots'
  BY SearchBounds, PTL
<1>1. Trees!IsShape(tree)' =>
        /\ \A pair \in met : IsPair(pair)
        /\ tree'[1].isLeaf => \A pair \in met : 1 \in pair
        /\ \A n \in Nat :
             ~tree'[1].isLeaf
             /\ (\A k \in DOMAIN tree' \ {1} : tree'[k].isLeaf => tree'[k].index \in 1 .. n)
               => \A pair \in met : pair \subseteq 1 .. n
        /\ (Bvh!Search)'.endless => \E node \in DOMAIN tree' : node > 3
  BY <1>0, Zenon DEF MeetsSlots
<1>2. CASE objects = <<>>
  <2>1. UNCHANGED tree
    BY <1>2 DEF Search, Build
  <2>2. (Bvh!Search)' = Bvh!Search /\ Bvh!Search.met = {}
    BY <1>2, <2>1, SearchKept DEF TreeInv
  <2>3. Trees!IsShape(tree)'
    BY <2>1 DEF TreeInv, Trees!IsShape
  <2>4. met = {}
    BY <2>2
  <2>. HIDE DEF met
  <2>. QED
    BY <1>1, <2>3, <2>4 DEF met
<1>3. CASE objects # <<>>
  <2>. DEFINE n == Len(objects)
  <2>1. PICK order \in Bvh!Orders : tree' = Bvh!Rooted(Bvh!NewTree(order))
    BY <1>3 DEF Search, Build
  <2>2. n \in Nat /\ 1 <= n /\ n <= MaxObjects /\ DOMAIN objects = 1 .. n
    BY <1>3, EmptySeq DEF TurnsInv, SlotsType
  <2>3. order \in [1 .. n -> 1 .. n]
    BY <2>1, <2>2 DEF Bvh!Orders
  <2>4. tree' = Trees!Rooted(Trees!NewTree(order))
    BY <2>1, SameBuild
  <2>5. /\ Trees!IsShape(tree')
        /\ \/ tree'[1].isLeaf
           \/ \A k \in DOMAIN tree' \ {1} : tree'[k].isLeaf => tree'[k].index \in 1 .. n
    BY <2>2, <2>3, <2>4, TreesAssumption, Trees!BuildKeepsShape DEF TreeInv
  <2>6. Trees!IsShape(tree)'
    BY <2>5 DEF Trees!IsShape
  <2>. HIDE DEF met
  <2>7. ASSUME NEW pair \in met PROVE IsPair(pair) /\ First(pair) \in DOMAIN objects
    <3>1. IsPair(pair)
      BY <1>1, <2>6, <2>7
    <3>2. First(pair) \in pair /\ First(pair) \in 1 .. MaxObjects /\ \A k \in pair : First(pair) <= k
      BY <3>1, PairFacts
    <3>3. CASE tree'[1].isLeaf
      <4>1. 1 \in pair
        BY <1>1, <2>6, <2>7, <3>3
      <4>. QED
        BY <2>2, <3>1, <3>2, <4>1
    <3>4. CASE ~tree'[1].isLeaf
      <4>1. pair \subseteq 1 .. n
        BY <1>1, <2>2, <2>5, <2>6, <2>7, <3>4
      <4>. QED
        BY <2>2, <3>1, <3>2, <4>1
    <3>. QED
      BY <3>3, <3>4
  <2>. QED
    BY <1>1, <1>3, <2>6, <2>7 DEF met
<1>. QED
  BY <1>2, <1>3

-----------------------------------------------------------------------------
(* What the steps do to the turns and to the tree.                         *)

BoundsInv ==
  /\ players \subseteq Entities
  /\ Len(turns) <= MaxDepth
  /\ calls \in 0 .. MaxCalls

UpdateInv == TurnsInv /\ TreeInv /\ BoundsInv

\* A tree that is not touched, while no search is found to hang.
LEMMA TreeKept ==
  ASSUME TreeInv, UNCHANGED tree, ~InPhase("hung")',
         objects' = <<>> \/ (InPhase("walk") /\ Turn.pending = {})'
           => objects = <<>> \/ (InPhase("walk") /\ Turn.pending = {})
  PROVE  TreeInv'
<1>1. Trees!IsShape(tree)'
  BY DEF TreeInv, Trees!IsShape
<1>2. (Bvh!Search)' = Bvh!Search
  BY SearchKept
<1>3. TwoShipsNeverHang'
  BY DEF TwoShipsNeverHang
<1>. QED
  BY <1>1, <1>2, <1>3, Zenon DEF TreeInv

\* The ships before and after a step.
LEMMA ShipsKept ==
  UNCHANGED components => Ships' = Ships
BY DEF Ships, EntitiesWith, HasComponent

LEMMA ShipsLost ==
  ASSUME WorldType, NEW e \in Entities, DestroyEntity(e)
  PROVE  Ships' \subseteq Ships /\ e \notin Ships'
BY DestroyEffect, ValueFacts DEF Ships, EntitiesWith, HasComponent

\* The turn at the top replaced by one among the same ships.
LEMMA TopChange ==
  ASSUME Nested, turns # <<>>, NEW r, turns' = [turns EXCEPT ![Len(turns)] = r],
         Sound(r), r.ships = Turn.ships, Ships' = Ships
  PROVE  Nested' /\ Turn' = r /\ turns' # <<>> /\ Len(turns') = Len(turns)
<1>1. PICK S : turns \in Seq(S)
  BY DEF Nested
<1>2. Len(turns) \in Nat /\ Len(turns) >= 1 /\ Len(turns) \in 1 .. Len(turns)
  BY <1>1, EmptySeq
<1>3. turns' \in Seq(S \cup {r}) /\ Len(turns') = Len(turns)
  BY <1>1, <1>2
<1>4. /\ turns'[Len(turns)] = r
      /\ \A i \in 1 .. Len(turns) : i # Len(turns) => turns'[i] = turns[i]
  BY <1>1, <1>2
<1>5. \A i \in 1 .. Len(turns) : Sound(turns'[i]) /\ turns'[i].ships = turns[i].ships
  BY <1>4 DEF Nested, Turn
<1>6. \A i \in 1 .. Len(turns') : Sound(turns'[i]) /\ Ships' \subseteq turns'[i].ships
  BY <1>3, <1>5 DEF Nested
<1>7. FirstSlotLosesShip'
  <2>. SUFFICES ASSUME NEW i \in 1 .. Len(turns) - 1,
                       turns'[i].slot = 1, turns'[i].ships # {}
                PROVE  /\ turns'[i + 1].ships \subseteq turns'[i].ships
                       /\ turns'[i + 1].ships # turns'[i].ships
    BY <1>3 DEF FirstSlotLosesShip
  <2>1. i \in 1 .. Len(turns) /\ i + 1 \in 1 .. Len(turns) /\ i # Len(turns)
    BY <1>2
  <2>. QED
    BY <1>4, <1>5, <2>1 DEF Nested, FirstSlotLosesShip
<1>8. \A i \in 1 .. Len(turns') : i # Len(turns') => turns'[i].phase = "walk"
  BY <1>3, <1>4 DEF Nested
<1>9. turns' # <<>> /\ Len(turns') = Len(turns)
  BY <1>2, <1>3
<1>10. \E R : turns' \in Seq(R)
  BY <1>3
<1>11. Turn' = r
  BY <1>3, <1>4 DEF Turn
<1>12. Nested'
  BY <1>6, <1>7, <1>8, <1>10 DEF Nested
<1>. QED
  BY <1>9, <1>11, <1>12

\* Every turn starts with nothing to destroy.
LEMMA NewTurnFacts ==
  ASSUME NEW ships \in SUBSET Entities
  PROVE  /\ Sound(NewTurn(ships)) /\ NewTurn(ships).ships = ships
         /\ NewTurn(ships).phase = "fill" /\ NewTurn(ships).slot = 0
<1>1. 0 \in 0 .. MaxObjects
  BY BoundFacts
<1>. QED
  BY <1>1 DEF NewTurn, Sound, Fields, Phases, Findable

\* A call leaves no turn, or one that starts.
LEMMA CallStep ==
  ASSUME UpdateInv, Call, turns' = <<>> \/ turns' = <<NewTurn(Ships')>>,
         players' \subseteq Entities
  PROVE  UpdateInv'
<1>0. UNCHANGED <<objects, tree>> /\ calls' = calls + 1 /\ calls < MaxCalls
  BY DEF Call
<1>1. SlotsType'
  BY <1>0 DEF UpdateInv, TurnsInv, SlotsType
<1>2. TurnsInv' /\ Len(turns') <= 1 /\ ~InPhase("walk")' /\ ~InPhase("hung")'
  <2>1. CASE turns' = <<>>
    <3>1. turns' \in Seq({}) /\ Len(turns') = 0
      BY <2>1
    <3>. QED
      BY <1>1, <2>1, <3>1 DEF TurnsInv, Nested, FillsFresh, SearchesFilled, InPhase,
         FirstSlotLosesShip
  <2>2. CASE turns' = <<NewTurn(Ships')>>
    <3>0. Ships' \in SUBSET Entities
      BY DEF Ships, EntitiesWith
    <3>1. turns' \in Seq({NewTurn(Ships')}) /\ Len(turns') = 1 /\ turns'[1] = NewTurn(Ships')
      BY <2>2
    <3>2. Nested'
      BY <3>0, <3>1, NewTurnFacts DEF Nested, FirstSlotLosesShip
    <3>3. FillsFresh' /\ SearchesFilled' /\ ~InPhase("walk")' /\ ~InPhase("hung")'
      BY <3>0, <3>1, NewTurnFacts DEF FillsFresh, SearchesFilled, InPhase, Turn
    <3>. QED
      BY <1>1, <3>1, <3>2, <3>3 DEF TurnsInv
  <2>. QED
    BY <2>1, <2>2
<1>3. TreeInv'
  BY <1>0, <1>2, TreeKept DEF UpdateInv
<1>4. BoundsInv'
  BY <1>0, <1>2, CollisionAssumption DEF UpdateInv, BoundsInv
<1>. QED
  BY <1>2, <1>3, <1>4 DEF UpdateInv

LEMMA RectOfType ==
  ASSUME WorldType, NEW e \in Ships
  PROVE  RectOf(e) \in [x : Int, y : Int, h : Nat]
<1>1. /\ e \in Entities /\ components["Position"][e] # Nothing
      /\ components["Position"][e] \in Values \cup {Nothing}
  BY ValueFacts DEF WorldType, Ships, EntitiesWith, HasComponent
<1>2. components["Position"][e] \in Int
  BY <1>1, WorldAssumption DEF Values
<1>3. 4 * components["Position"][e] \in Int
  BY <1>2
<1>. QED
  BY <1>3 DEF RectOf

LEMMA FillTurns ==
  ASSUME WorldType, TurnsInv, Fill
  PROVE  /\ TurnsInv' /\ Len(turns') = Len(turns) /\ Turn'.phase = "search"
         /\ objects' = <<>> => objects = <<>>
<1>. DEFINE r == [Turn EXCEPT !.phase = "search"]
<1>1. turns # <<>> /\ Turn.phase = "fill" /\ UNCHANGED components
  BY DEF Fill, InPhase, worldVars
<1>2. Sound(Turn)
  <2>1. PICK S : turns \in Seq(S)
    BY DEF TurnsInv, Nested
  <2>2. Len(turns) \in 1 .. Len(turns)
    BY <1>1, <2>1, EmptySeq
  <2>. QED
    BY <2>2 DEF TurnsInv, Nested, Turn
<1>3. /\ Sound(r) /\ r.ships = Turn.ships /\ r.phase = "search"
  BY <1>2 DEF Sound, Fields, Phases
<1>4. turns' = [turns EXCEPT ![Len(turns)] = r]
  BY DEF Fill, Turn
<1>5. Ships' = Ships
  BY <1>1, ShipsKept
<1>. HIDE DEF r
<1>6. Nested' /\ Turn' = r /\ Len(turns') = Len(turns)
  BY <1>1, <1>3, <1>4, <1>5, TopChange DEF TurnsInv
<1>7. Turn.ships = Ships
  BY <1>1 DEF TurnsInv, FillsFresh, InPhase
<1>8. CASE Ships = {}
  <2>1. objects' = objects
    BY <1>8 DEF Fill
  <2>2. SlotsType'
    BY <2>1 DEF TurnsInv, SlotsType
  <2>. QED
    BY <1>3, <1>6, <1>7, <1>8, <2>1, <2>2 DEF TurnsInv, FillsFresh, SearchesFilled, InPhase
<1>9. CASE Ships # {}
  <2>1. PICK last \in Ships, unwritten \in [Len(objects) + 1 .. Slots -> Junk] :
          objects' = [i \in 1 .. Slots |->
              CASE i = 1 -> [rect |-> RectOf(last), entity |-> last]
                [] i # 1 /\ i <= Len(objects) -> objects[i]
                [] i # 1 /\ i > Len(objects) -> unwritten[i]]
    BY <1>9 DEF Fill
  <2>2. Slots \in Nat /\ Slots >= 1 /\ Slots <= MaxObjects
    <3>1. IsFiniteSet(Entities)
      BY FS_Interval, WorldAssumption DEF Entities
    <3>2. IsFiniteSet(EntitiesWith("Rotation"))
      BY <3>1, FS_Subset DEF EntitiesWith
    <3>3. EntitiesWith("Rotation") # {}
      BY <1>9 DEF Ships
    <3>4. Slots \in Nat /\ Slots # 0
      BY <3>2, <3>3, FS_CardinalityType, FS_EmptySet DEF Slots
    <3>5. Slots <= Cardinality(Entities)
      <4>1. EntitiesWith("Rotation") \subseteq Entities
        BY DEF EntitiesWith
      <4>. QED
        BY <3>1, <4>1, FS_Subset DEF Slots
    <3>6. Cardinality(Entities) = MaxObjects
      BY FS_Interval, BoundFacts DEF Entities
    <3>. QED
      BY <3>4, <3>5, <3>6
  <2>3. ASSUME NEW i \in 1 .. Slots PROVE objects'[i] \in Slot
    <3>1. CASE i = 1
      <4>1. objects'[i] = [rect |-> RectOf(last), entity |-> last]
        BY <2>1, <3>1
      <4>2. last \in Entities
        BY DEF Ships, EntitiesWith
      <4>. QED
        BY <4>1, <4>2, RectOfType DEF Slot
    <3>2. CASE i # 1 /\ i <= Len(objects)
      <4>1. objects'[i] = objects[i]
        BY <2>1, <3>2
      <4>2. objects \in Seq(Slot)
        BY DEF TurnsInv, SlotsType
      <4>. QED
        BY <3>2, <4>1, <4>2
    <3>3. CASE i # 1 /\ ~(i <= Len(objects))
      <4>1. objects \in Seq(Slot)
        BY DEF TurnsInv, SlotsType
      <4>2. i > Len(objects) /\ i \in Len(objects) + 1 .. Slots
        BY <3>3, <4>1
      <4>3. objects'[i] = unwritten[i]
        BY <2>1, <3>3, <4>2
      <4>4. unwritten[i] \in Junk
        BY <4>2
      <4>. QED
        BY <4>3, <4>4, CollisionAssumption DEF Slot
    <3>. QED
      BY <3>1, <3>2, <3>3
  <2>4. DOMAIN objects' = 1 .. Slots /\ objects' = [i \in 1 .. Slots |-> objects'[i]]
    BY <2>1
  <2>5. SlotsType'
    <3>1. objects' \in Seq(Slot) /\ Len(objects') = Slots
      BY <2>2, <2>3, <2>4
    <3>. QED
      BY <2>2, <3>1 DEF SlotsType
  <2>6. 1 \in DOMAIN objects' /\ objects'[1].entity = last
    BY <2>1, <2>2
  <2>. QED
    BY <1>3, <1>6, <1>7, <2>5, <2>6 DEF TurnsInv, FillsFresh, SearchesFilled, InPhase
<1>. QED
  BY <1>8, <1>9

LEMMA SearchTurns ==
  ASSUME WorldType, TurnsInv, TreeInv, Search
  PROVE  TurnsInv' /\ TreeInv' /\ Len(turns') = Len(turns)
<1>1. turns # <<>> /\ Turn.phase = "search" /\ UNCHANGED <<components, objects>>
  BY DEF Search, InPhase, worldVars
<1>2. Sound(Turn)
  <2>1. PICK S : turns \in Seq(S)
    BY DEF TurnsInv, Nested
  <2>2. Len(turns) \in 1 .. Len(turns)
    BY <1>1, <2>1, EmptySeq
  <2>. QED
    BY <2>2 DEF TurnsInv, Nested, Turn
<1>3. Ships' = Ships
  BY <1>1, ShipsKept
<1>4. ASSUME NEW r, turns' = [turns EXCEPT ![Len(turns)] = r], Sound(r), r.ships = Turn.ships,
             r.phase \in {"hung", "walk"}
      PROVE  TurnsInv' /\ Turn' = r /\ turns' # <<>> /\ Len(turns') = Len(turns)
  <2>1. Nested' /\ Turn' = r /\ turns' # <<>> /\ Len(turns') = Len(turns)
    BY <1>1, <1>3, <1>4, TopChange DEF TurnsInv
  <2>2. SlotsType'
    BY <1>1 DEF TurnsInv, SlotsType
  <2>. QED
    BY <1>4, <2>1, <2>2 DEF TurnsInv, FillsFresh, SearchesFilled, InPhase
<1>5. PICK search \in {(Bvh!Search)'} :
        \/ /\ search.endless
           /\ turns' = [turns EXCEPT ![Len(turns)].phase = "hung"]
        \/ /\ ~search.endless
           /\ turns' = [turns EXCEPT ![Len(turns)].phase = "walk",
                          ![Len(turns)].pending =
                            {[slots |-> pair, entity |-> Bvh!EntityAt(Victim(pair))] :
                               pair \in search.met}]
  BY Zenon DEF Search
<1>8. /\ Trees!IsShape(tree)'
      /\ objects' = <<>> => (Bvh!Search)'.met = {}
      /\ (Bvh!Search)'.endless => \E node \in DOMAIN tree' : node > 3
  BY <1>1, SearchOutcome
<1>6. CASE search.endless /\ turns' = [turns EXCEPT ![Len(turns)].phase = "hung"]
  <2>. DEFINE r == [Turn EXCEPT !.phase = "hung"]
  <2>1. turns' = [turns EXCEPT ![Len(turns)] = r]
    BY <1>6 DEF Turn
  <2>2. Sound(r) /\ r.ships = Turn.ships /\ r.phase = "hung"
    BY <1>2 DEF Sound, Fields, Phases
  <2>. HIDE DEF r
  <2>3. TurnsInv' /\ Turn' = r /\ turns' # <<>> /\ Len(turns') = Len(turns)
    BY <1>4, <2>1, <2>2
  <2>4. TwoShipsNeverHang' /\ ~InPhase("walk")'
    BY <1>6, <1>8, <2>2, <2>3 DEF TwoShipsNeverHang, InPhase
  <2>. QED
    BY <1>8, <2>3, <2>4, Zenon DEF TreeInv
<1>7. CASE turns' = [turns EXCEPT ![Len(turns)].phase = "walk",
                          ![Len(turns)].pending =
                            {[slots |-> pair, entity |-> Bvh!EntityAt(Victim(pair))] :
                               pair \in search.met}]
  <2>. DEFINE found == {[slots |-> pair, entity |-> Bvh!EntityAt(Victim(pair))] :
                          pair \in search.met}
              r == [Turn EXCEPT !.phase = "walk", !.pending = found]
  <2>1. Findable(found, Turn.ships)
    <3>. SUFFICES ASSUME NEW pair \in search.met
                  PROVE  /\ IsPair(pair)
                         /\ Bvh!EntityAt(First(pair)) \in Entities
                         /\ Turn.ships # {} /\ First(pair) = 1
                              => Bvh!EntityAt(First(pair)) \in Turn.ships
      BY DEF Victim, Findable
    <3>1. \A i \in DOMAIN objects : objects[i].entity \in Entities
      <4>1. objects \in Seq(Slot)
        BY DEF TurnsInv, SlotsType
      <4>2. \A i \in DOMAIN objects : objects[i] \in Slot
        BY <4>1
      <4>. QED
        BY <4>2 DEF Slot
    <3>2. IsPair(pair) /\ First(pair) \in DOMAIN objects
      BY SearchOutcome
    <3>3. Turn.ships # {} => 1 \in DOMAIN objects /\ objects[1].entity \in Turn.ships
      BY <1>1 DEF TurnsInv, SearchesFilled, InPhase
    <3>. QED
      BY <3>1, <3>2, <3>3 DEF Bvh!EntityAt
  <2>. HIDE DEF found
  <2>2. turns' = [turns EXCEPT ![Len(turns)] = r]
    BY <1>7 DEF Turn, found
  <2>3. Sound(r) /\ r.ships = Turn.ships /\ r.phase = "walk"
    BY <1>2, <2>1 DEF Sound, Fields, Phases
  <2>4. r.pending = found
    BY <1>2 DEF Sound, Fields
  <2>. HIDE DEF r
  <2>5. TurnsInv' /\ Turn' = r /\ turns' # <<>> /\ Len(turns') = Len(turns)
    BY <1>4, <2>2, <2>3
  <2>6. TwoShipsNeverHang'
    BY <2>3, <2>5 DEF TwoShipsNeverHang, InPhase
  <2>7. Turn'.pending = {} => (Bvh!Search)'.met = {}
    BY <2>4, <2>5 DEF found
  <2>. QED
    BY <1>8, <2>5, <2>6, <2>7, Zenon DEF TreeInv
<1>. QED
  BY <1>5, <1>6, <1>7, Zenon

\* The entity destroyed for a pair is one, and a ship of the turn for a pair
\* with the first slot.
LEMMA DestroyedEntity ==
  ASSUME TurnsInv, turns # <<>>, NEW found \in Turn.pending, Destroy(found)
  PROVE  \E e \in Entities :
           /\ DestroyEntity(e)
           /\ Turn.ships # {} /\ First(found.slots) = 1 => e \in Turn.ships
<1>1. PICK e \in IF found.entity = Nothing THEN Entities ELSE {found.entity} : DestroyEntity(e)
  BY DEF Destroy
<1>2. Sound(Turn)
  <2>1. PICK S : turns \in Seq(S)
    BY DEF TurnsInv, Nested
  <2>2. Len(turns) \in 1 .. Len(turns)
    BY <2>1, EmptySeq
  <2>. QED
    BY <2>2 DEF TurnsInv, Nested, Turn
<1>3. /\ found.entity \in Entities
      /\ Turn.ships # {} /\ First(found.slots) = 1 => found.entity \in Turn.ships
  BY <1>2, Zenon DEF Sound, Findable
<1>4. found.entity # Nothing
  BY <1>3, WorldAssumption DEF Entities
<1>. QED
  BY <1>1, <1>3, <1>4

LEMMA DestroyTurns ==
  ASSUME WorldType, TurnsInv, turns # <<>>, NEW found \in Turn.pending, Destroy(found)
  PROVE  TurnsInv' /\ Len(turns') = Len(turns) + 1 /\ Turn'.phase = "fill"
<1>1. PICK e \in Entities :
        /\ DestroyEntity(e)
        /\ Turn.ships # {} /\ First(found.slots) = 1 => e \in Turn.ships
  BY DestroyedEntity
<1>2. Ships' \subseteq Ships /\ e \notin Ships'
  BY <1>1, ShipsLost
<1>3. PICK S : turns \in Seq(S)
  BY DEF TurnsInv, Nested
<1>. DEFINE n == Len(turns)
            r == [Turn EXCEPT !.pending = Turn.pending \ {found}, !.slot = First(found.slots)]
            above == NewTurn(Ships')
            kept == [turns EXCEPT ![n] = r]
<1>4. n \in Nat /\ n >= 1 /\ n \in 1 .. n
  BY <1>3, EmptySeq
<1>5. Sound(Turn) /\ Ships \subseteq Turn.ships
  BY <1>4 DEF TurnsInv, Nested, Turn
<1>6. Sound(r) /\ r.ships = Turn.ships /\ r.slot = First(found.slots)
  <2>1. First(found.slots) \in 0 .. MaxObjects
    <3>1. IsPair(found.slots)
      BY <1>5 DEF Sound, Findable
    <3>2. First(found.slots) \in 1 .. MaxObjects
      BY <3>1, PairFacts
    <3>. QED
      BY <3>2
  <2>2. Findable(Turn.pending \ {found}, Turn.ships)
    BY <1>5 DEF Sound, Findable
  <2>. QED
    BY <1>5, <2>1, <2>2 DEF Sound, Fields
<1>7. Sound(above) /\ above.ships = Ships' /\ above.phase = "fill"
  <2>1. Ships' \in SUBSET Entities
    BY DEF Ships, EntitiesWith
  <2>. QED
    BY <2>1, NewTurnFacts
<1>8. turns' = Append(kept, above)
  BY DEF Destroy, Turn
<1>20. r.phase = "walk"
  BY <1>5 DEF Destroy, InPhase, Sound, Fields
<1>. HIDE DEF r, above
<1>9. /\ kept \in Seq(S \cup {r, above}) /\ Len(kept) = n /\ kept[n] = r
      /\ \A i \in 1 .. n : i # n => kept[i] = turns[i]
  BY <1>3, <1>4
<1>. HIDE DEF kept
<1>10. /\ turns' \in Seq(S \cup {r, above}) /\ Len(turns') = n + 1
       /\ turns'[n + 1] = above
       /\ \A i \in 1 .. n : turns'[i] = kept[i]
  BY <1>8, <1>9, AppendProperties
<1>11. \A i \in 1 .. n : Sound(turns'[i]) /\ turns'[i].ships = turns[i].ships
  BY <1>5, <1>6, <1>9, <1>10 DEF TurnsInv, Nested, Turn
<1>12. \A i \in 1 .. n : Ships \subseteq turns[i].ships
  BY DEF TurnsInv, Nested
<1>13. ASSUME NEW i \in 1 .. n + 1
       PROVE  Sound(turns'[i]) /\ Ships' \subseteq turns'[i].ships
  <2>1. CASE i = n + 1
    BY <1>7, <1>10, <2>1
  <2>2. CASE i # n + 1
    <3>1. i \in 1 .. n
      BY <1>4, <2>2
    <3>. QED
      BY <1>2, <1>11, <1>12, <3>1
  <2>. QED
    BY <2>1, <2>2
<1>14. ASSUME NEW i \in 1 .. n, turns'[i].slot = 1, turns'[i].ships # {}
       PROVE  /\ turns'[i + 1].ships \subseteq turns'[i].ships
              /\ turns'[i + 1].ships # turns'[i].ships
  <2>1. CASE i = n
    <3>1. turns'[i] = r /\ turns'[i + 1] = above
      BY <1>9, <1>10, <2>1
    <3>2. e \in Turn.ships
      BY <1>1, <1>6, <1>14, <3>1
    <3>. QED
      BY <1>2, <1>5, <1>6, <1>7, <3>1, <3>2
  <2>2. CASE i # n
    <3>1. i \in 1 .. n - 1 /\ i + 1 \in 1 .. n
      BY <1>4, <2>2
    <3>2. turns'[i] = turns[i] /\ turns'[i + 1].ships = turns[i + 1].ships
      BY <1>9, <1>10, <1>11, <2>2, <3>1
    <3>. QED
      BY <1>14, <3>1, <3>2 DEF TurnsInv, Nested, FirstSlotLosesShip
  <2>. QED
    BY <2>1, <2>2
<1>15. FirstSlotLosesShip'
  <2>1. 1 .. Len(turns') - 1 = 1 .. n
    BY <1>4, <1>10
  <2>. QED
    BY <1>14, <2>1 DEF FirstSlotLosesShip
<1>19. ASSUME NEW i \in 1 .. n PROVE turns'[i].phase = "walk"
  <2>1. CASE i = n
    BY <1>9, <1>10, <1>20, <2>1
  <2>2. CASE i # n
    BY <1>9, <1>10, <2>2 DEF TurnsInv, Nested
  <2>. QED
    BY <2>1, <2>2
<1>21. \A i \in 1 .. Len(turns') : i # Len(turns') => turns'[i].phase = "walk"
  <2>1. \A i \in 1 .. n + 1 : i # n + 1 => i \in 1 .. n
    BY <1>4
  <2>. QED
    BY <1>10, <1>19, <2>1
<1>16. Nested'
  BY <1>10, <1>13, <1>15, <1>21 DEF Nested
<1>17. Turn' = above
  BY <1>10 DEF Turn
<1>18. SlotsType'
  BY DEF Destroy, TurnsInv, SlotsType
<1>. QED
  BY <1>7, <1>10, <1>16, <1>17, <1>18 DEF TurnsInv, FillsFresh, SearchesFilled, InPhase

LEMMA EndTurns ==
  ASSUME TurnsInv, EndTurn
  PROVE  TurnsInv' /\ Len(turns') = Len(turns) - 1 /\ ~InPhase("hung")'
<1>1. turns # <<>> /\ UNCHANGED components /\ objects' = <<>>
  BY DEF EndTurn, InPhase, worldVars
<1>2. PICK S : turns \in Seq(S)
  BY DEF TurnsInv, Nested
<1>. DEFINE m == Len(turns) - 1
            below == SubSeq(turns, 1, m)
<1>3. m \in Nat /\ Len(turns) = m + 1
  BY <1>1, <1>2, EmptySeq
<1>4. Len(below) = m /\ DOMAIN below = 1 .. m /\ \A i \in 1 .. m : below[i] = turns[i]
  <2>1. below = [i \in 1 .. m |-> turns[i]]
    BY <1>2, <1>3
  <2>. QED
    BY <1>3, <2>1
<1>5. turns' = [i \in DOMAIN below |->
                  IF i = Len(below) THEN [below[i] EXCEPT !.slot = 0] ELSE below[i]]
  BY DEF EndTurn
<1>. HIDE DEF below, m
<1>14. \A i \in 1 .. m : i \in 1 .. Len(turns) /\ i # Len(turns)
  BY <1>3
<1>6. turns' = [i \in 1 .. m |-> IF i = m THEN [turns[i] EXCEPT !.slot = 0] ELSE turns[i]]
  BY <1>4, <1>5
<1>7. /\ turns' \in Seq({turns'[i] : i \in 1 .. m}) /\ Len(turns') = m
      /\ \A i \in 1 .. m :
           turns'[i] = IF i = m THEN [turns[i] EXCEPT !.slot = 0] ELSE turns[i]
  BY <1>3, <1>6
<1>8. Ships' = Ships
  BY <1>1, ShipsKept
<1>9. ASSUME NEW i \in 1 .. m
      PROVE  /\ Sound(turns'[i]) /\ turns'[i].ships = turns[i].ships
             /\ turns'[i].phase = turns[i].phase
             /\ turns'[i].slot \in {0, turns[i].slot}
             /\ Ships \subseteq turns[i].ships
  <2>1. Sound(turns[i]) /\ Ships \subseteq turns[i].ships
    BY <1>14 DEF TurnsInv, Nested
  <2>. QED
    BY <1>7, <2>1, BoundFacts DEF Sound, Fields
<1>10. ASSUME NEW i \in 1 .. m - 1, turns'[i].slot = 1, turns'[i].ships # {}
       PROVE  /\ turns'[i + 1].ships \subseteq turns'[i].ships
              /\ turns'[i + 1].ships # turns'[i].ships
  <2>1. i \in 1 .. m /\ i + 1 \in 1 .. m /\ i \in 1 .. Len(turns) - 1
    BY <1>3
  <2>2. turns[i].slot = 1
    BY <1>9, <1>10, <2>1
  <2>. QED
    BY <1>9, <1>10, <2>1, <2>2 DEF TurnsInv, Nested, FirstSlotLosesShip
<1>11. Nested'
  <2>1. FirstSlotLosesShip'
    BY <1>7, <1>10 DEF FirstSlotLosesShip
  <2>2. \E T : turns' \in Seq(T)
    BY <1>7
  <2>3. \A i \in 1 .. m : i # m => turns'[i].phase = "walk"
    BY <1>9, <1>14 DEF TurnsInv, Nested
  <2>4. \A i \in 1 .. m : Sound(turns'[i]) /\ Ships' \subseteq turns'[i].ships
    BY <1>8, <1>9
  <2>. QED
    BY <1>7, <2>1, <2>2, <2>3, <2>4 DEF Nested
<1>12. ~InPhase("fill")' /\ ~InPhase("search")' /\ ~InPhase("hung")'
  <2>1. CASE m = 0
    <3>1. turns' = <<>>
      BY <1>7, <2>1, EmptySeq
    <3>. QED
      BY <3>1 DEF InPhase
  <2>2. CASE m # 0
    <3>1. m \in 1 .. m
      BY <1>3, <2>2
    <3>3. m \in 1 .. Len(turns) /\ m # Len(turns)
      BY <1>14, <3>1
    <3>2. Turn'.phase = "walk"
      BY <1>7, <1>9, <3>1, <3>3 DEF Turn, TurnsInv, Nested
    <3>. QED
      BY <3>2 DEF InPhase
  <2>. QED
    BY <2>1, <2>2
<1>13. SlotsType'
  BY <1>1, BoundFacts DEF SlotsType
<1>. QED
  BY <1>3, <1>7, <1>11, <1>12, <1>13 DEF TurnsInv, FillsFresh, SearchesFilled

-----------------------------------------------------------------------------
(* What a step does to the world: one of the registry's steps.             *)

\* Every step of the game server is one of these in the world.
WorldStep ==
  \/ \E values : /\ Create(values)
                 /\ \A t \in DOMAIN values : values[t] \in Values
                 /\ "Position" \in DOMAIN values
  \/ \E e \in Entities : DestroyEntity(e)
  \/ \E e \in Entities, command \in PlayerCommands : PlayerCommand(e, command)
  \/ Save
  \/ Load
  \/ Clear
  \/ UNCHANGED worldVars

\* The steps inside a turn.
LEMMA TurnStep ==
  ASSUME WorldType, UpdateInv,
         Fill \/ Search \/ EndTurn \/ (turns # <<>> /\ \E found \in Turn.pending : Destroy(found))
  PROVE  UpdateInv'
<1>0. TurnsInv /\ TreeInv /\ BoundsInv /\ Len(turns) \in Nat
  <2>1. PICK S : turns \in Seq(S)
    BY DEF UpdateInv, TurnsInv, Nested
  <2>. QED
    BY <2>1 DEF UpdateInv
<1>1. CASE Fill
  <2>1. UNCHANGED <<tree, players, calls>>
    BY <1>1 DEF Fill
  <2>2. /\ TurnsInv' /\ Len(turns') = Len(turns) /\ Turn'.phase = "search"
        /\ objects' = <<>> => objects = <<>>
    BY <1>0, <1>1, FillTurns
  <2>3. ~InPhase("hung")' /\ ~InPhase("walk")'
    BY <2>2 DEF InPhase
  <2>4. TreeInv'
    BY <1>0, <2>1, <2>2, <2>3, TreeKept
  <2>. QED
    BY <1>0, <2>1, <2>2, <2>4 DEF UpdateInv, BoundsInv
<1>2. CASE Search
  <2>1. UNCHANGED <<players, calls>>
    BY <1>2 DEF Search
  <2>2. TurnsInv' /\ TreeInv' /\ Len(turns') = Len(turns)
    BY <1>0, <1>2, SearchTurns
  <2>. QED
    BY <1>0, <2>1, <2>2 DEF UpdateInv, BoundsInv
<1>3. CASE EndTurn
  <2>1. UNCHANGED <<tree, players, calls>> /\ InPhase("walk") /\ Turn.pending = {}
    BY <1>3 DEF EndTurn
  <2>2. TurnsInv' /\ Len(turns') = Len(turns) - 1 /\ ~InPhase("hung")'
    BY <1>0, <1>3, EndTurns
  <2>3. TreeInv'
    BY <1>0, <2>1, <2>2, TreeKept
  <2>. QED
    BY <1>0, <2>1, <2>2, <2>3, CollisionAssumption DEF UpdateInv, BoundsInv
<1>4. ASSUME turns # <<>>, NEW found \in Turn.pending, Destroy(found) PROVE UpdateInv'
  <2>1. UNCHANGED <<objects, tree, players, calls>> /\ Len(turns) < MaxDepth
    BY <1>4 DEF Destroy
  <2>2. TurnsInv' /\ Len(turns') = Len(turns) + 1 /\ Turn'.phase = "fill"
    BY <1>0, <1>4, DestroyTurns
  <2>3. ~InPhase("hung")' /\ ~InPhase("walk")'
    BY <2>2 DEF InPhase
  <2>4. TreeInv'
    BY <1>0, <2>1, <2>3, TreeKept
  <2>. QED
    BY <1>0, <2>1, <2>2, <2>4, CollisionAssumption DEF UpdateInv, BoundsInv
<1>. QED
  BY <1>1, <1>2, <1>3, <1>4

\* The invariant of turns, tree and bounds, and what every step does to the world.
LEMMA StepEffect ==
  ASSUME WorldType, UpdateInv, [Next]_vars
  PROVE  UpdateInv' /\ WorldStep
<1>0. players \subseteq Entities /\ (UNCHANGED players => players' \subseteq Entities)
  BY DEF UpdateInv, BoundsInv
<1>1. ASSUME NEW place \in Places, AddPlayer(place) PROVE UpdateInv' /\ WorldStep
  <2>. DEFINE values == [t \in Types |-> IF t = "Position" THEN place ELSE 0]
  <2>1. Create(values)
    BY <1>1 DEF AddPlayer, CreatePlayer
  <2>2. \A t \in DOMAIN values : values[t] \in Values
    BY ValueFacts
  <2>3. "Position" \in DOMAIN values
    BY ValueFacts
  <2>. HIDE DEF values
  <2>4. Call /\ UNCHANGED turns /\ players' \subseteq Entities
    BY <1>0, <1>1, <2>1 DEF AddPlayer, Create
  <2>5. UpdateInv'
    BY <2>4, CallStep DEF Call
  <2>. QED
    BY <2>1, <2>2, <2>3, <2>5 DEF WorldStep
<1>2. ASSUME AddScenery PROVE UpdateInv' /\ WorldStep
  <2>. DEFINE values == [t \in Types \ {"Rotation", "Velocity", "Fuel"} |-> 0]
  <2>1. Create(values)
    BY <1>2 DEF AddScenery, CreateAxis
  <2>2. \A t \in DOMAIN values : values[t] \in Values
    BY ValueFacts
  <2>3. "Position" \in DOMAIN values
    BY ValueFacts
  <2>. HIDE DEF values
  <2>4. Call /\ UNCHANGED <<players, turns>>
    BY <1>2 DEF AddScenery
  <2>5. UpdateInv'
    BY <1>0, <2>4, CallStep DEF Call
  <2>. QED
    BY <2>1, <2>2, <2>3, <2>5 DEF WorldStep
<1>3. ASSUME NEW e \in Entities, NEW command \in PlayerCommands, PlayerCommand(e, command)
      PROVE  UpdateInv' /\ WorldStep
  <2>1. turns' = <<>> \/ turns' = <<NewTurn(Ships')>>
    BY <1>3 DEF PlayerCommand
  <2>2. Call /\ UNCHANGED players
    BY <1>3 DEF PlayerCommand
  <2>3. UpdateInv'
    BY <1>0, <2>1, <2>2, CallStep
  <2>. QED
    BY <1>3, <2>3 DEF WorldStep
<1>4. ASSUME NEW e \in Entities, Disconnect(e) PROVE UpdateInv' /\ WorldStep
  <2>1. Call /\ UNCHANGED <<players, turns>>
    BY <1>4 DEF Disconnect
  <2>2. UpdateInv'
    BY <1>0, <2>1, CallStep DEF Call
  <2>. QED
    BY <1>4, <2>2 DEF WorldStep, Disconnect
<1>5. ASSUME SaveWorld \/ LoadWorld \/ ClearWorld PROVE UpdateInv' /\ WorldStep
  <2>1. Call /\ UNCHANGED <<players, turns>>
    BY <1>5 DEF SaveWorld, LoadWorld, ClearWorld
  <2>2. UpdateInv'
    BY <1>0, <2>1, CallStep DEF Call
  <2>. QED
    BY <1>5, <2>2 DEF WorldStep, SaveWorld, LoadWorld, ClearWorld
<1>6. ASSUME Fill \/ Search \/ EndTurn PROVE UpdateInv' /\ WorldStep
  <2>1. UpdateInv'
    BY <1>6, TurnStep
  <2>2. UNCHANGED worldVars
    BY <1>6 DEF Fill, Search, EndTurn
  <2>. QED
    BY <2>1, <2>2 DEF WorldStep
<1>7. ASSUME turns # <<>>, NEW found \in Turn.pending, Destroy(found)
      PROVE  UpdateInv' /\ WorldStep
  <2>1. UpdateInv'
    BY <1>7, TurnStep
  <2>2. \E e \in Entities : DestroyEntity(e)
    BY <1>7, DestroyedEntity DEF UpdateInv
  <2>. QED
    BY <2>1, <2>2 DEF WorldStep
<1>8. ASSUME UNCHANGED vars PROVE UpdateInv' /\ WorldStep
  <2>1. UNCHANGED <<components, turns, objects, tree, players, calls>> /\ UNCHANGED worldVars
    BY <1>8 DEF vars, worldVars
  <2>2. TurnsInv'
    BY <2>1, ShipsKept DEF UpdateInv, TurnsInv, Nested, FillsFresh, SearchesFilled, InPhase, Turn,
       FirstSlotLosesShip, SlotsType
  <2>3. InPhase("walk")' = InPhase("walk") /\ InPhase("hung")' = InPhase("hung") /\ Turn' = Turn
    BY <2>1 DEF InPhase, Turn
  <2>4. TreeInv'
    BY <2>1, <2>3, SearchKept DEF UpdateInv, TreeInv, TwoShipsNeverHang, Trees!IsShape
  <2>. QED
    BY <2>1, <2>2, <2>4 DEF WorldStep, UpdateInv, BoundsInv
<1>. QED
  BY <1>1, <1>2, <1>3, <1>4, <1>5, <1>6, <1>7, <1>8 DEF Next

-----------------------------------------------------------------------------
(* The theorems.                                                           *)

\* The world after a step: types, bare ids, and a step of the registry.
LEMMA WorldKeeps ==
  ASSUME WorldType, NewEntitiesAreBare, WorldStep
  PROVE  WorldType' /\ NewEntitiesAreBare' /\ [Registry!Next]_Registry!vars
<1>. DEFINE Saved(worlds) ==
              {[next |-> world.next_entity_id, alive |-> Positioned(world.components)] :
                 world \in worlds}
            Kept == UNCHANGED archive
            Goal == WorldType' /\ NewEntitiesAreBare' /\ [Registry!Next]_Registry!vars
<1>0. /\ components \in Tables /\ next_entity_id \in Ids
      /\ Bare(next_entity_id, components)
      /\ \A world \in archive : Bare(world.next_entity_id, world.components)
  BY DEF WorldType, Tables, Ids, NewEntitiesAreBare
<1>1. ASSUME NEW values, Create(values), \A t \in DOMAIN values : values[t] \in Values,
             "Position" \in DOMAIN values
      PROVE  Goal
  <2>1. /\ WorldType' /\ next_entity_id' = next_entity_id + 1 /\ next_entity_id \in Entities
        /\ \A t \in Types, e \in Entities :
             e # next_entity_id => components'[t][e] = components[t][e]
        /\ components'["Position"][next_entity_id] # Nothing
        /\ archive' = archive
    BY <1>1, CreateEffect DEF Create
  <2>2. Bare(next_entity_id', components')
    <3>1. \A e \in Entities : e >= next_entity_id + 1
                                => e # next_entity_id /\ e >= next_entity_id
      BY <2>1, IdFacts
    <3>. QED
      BY <1>0, <2>1, <3>1 DEF Bare
  <2>3. Positioned(components') = Positioned(components) \cup {next_entity_id}
    BY <2>1, ValueFacts DEF Positioned
  <2>4. Registry!Create
    BY <2>1, <2>3 DEF Registry!Create
  <2>. QED
    BY <1>0, <2>1, <2>2, <2>4 DEF NewEntitiesAreBare, Registry!Next
<1>2. ASSUME NEW e \in Entities, DestroyEntity(e) PROVE Goal
  <2>1. /\ WorldType' /\ UNCHANGED <<next_entity_id, archive>>
        /\ \A t \in Types, f \in Entities : components'[t][f] \in {components[t][f], Nothing}
    BY <1>2, DestroyEffect
  <2>2. Bare(next_entity_id', components')
    BY <1>0, <2>1 DEF Bare
  <2>3. Positioned(components') \subseteq Positioned(components)
    BY <2>1, ValueFacts DEF Positioned
  <2>4. \E gone \in SUBSET Positioned(components) :
          Positioned(components') = Positioned(components) \ gone
    <3>1. Positioned(components')
            = Positioned(components) \ (Positioned(components) \ Positioned(components'))
      BY <2>3
    <3>. QED
      BY <3>1
  <2>5. Registry!Destroy
    BY <2>1, <2>4 DEF Registry!Destroy
  <2>. QED
    BY <1>0, <2>1, <2>2, <2>5 DEF NewEntitiesAreBare, Registry!Next
<1>3. ASSUME NEW e \in Entities, NEW command \in PlayerCommands, PlayerCommand(e, command)
      PROVE  Goal
  <2>1. /\ WorldType' /\ UNCHANGED <<next_entity_id, archive>>
        /\ \A t \in Types, f \in Entities :
             (components'[t][f] = Nothing) <=> (components[t][f] = Nothing)
    BY <1>3, CommandEffect
  <2>2. Bare(next_entity_id', components')
    BY <1>0, <2>1 DEF Bare
  <2>3. Positioned(components') = Positioned(components)
    BY <2>1, ValueFacts DEF Positioned
  <2>4. UNCHANGED Registry!vars
    BY <2>1, <2>3 DEF Registry!vars
  <2>. QED
    BY <1>0, <2>1, <2>2, <2>4 DEF NewEntitiesAreBare
<1>. DEFINE here == [next_entity_id |-> next_entity_id, components |-> components]
<1>4. ASSUME Save PROVE Goal
  <2>1. archive' = {here} /\ UNCHANGED <<next_entity_id, components>>
    BY <1>4 DEF Save
  <2>2. WorldType'
    BY <1>0, <2>1 DEF WorldType, Tables, Ids, Values, Entities
  <2>3. NewEntitiesAreBare'
    BY <1>0, <2>1 DEF NewEntitiesAreBare
  <2>4. Saved(archive') = {[next |-> next_entity_id, alive |-> Positioned(components)]}
    BY <2>1
  <2>5. Registry!Save
    BY <2>1, <2>4 DEF Registry!Save
  <2>. QED
    BY <2>2, <2>3, <2>5 DEF Registry!Next
<1>5. ASSUME Load PROVE Goal
  <2>1. PICK world \in archive :
          next_entity_id' = world.next_entity_id /\ components' = world.components
    BY <1>5 DEF Load
  <2>2. UNCHANGED archive
    BY <1>5 DEF Load
  <2>3. WorldType'
    BY <2>1, <2>2 DEF WorldType
  <2>4. NewEntitiesAreBare'
    BY <1>0, <2>1, <2>2 DEF NewEntitiesAreBare
  <2>5. Registry!Load
    <3>1. [next |-> world.next_entity_id, alive |-> Positioned(world.components)]
            \in Saved(archive)
      BY <2>1
    <3>. QED
      BY <2>1, <2>2, <3>1 DEF Registry!Load
  <2>. QED
    BY <2>3, <2>4, <2>5 DEF Registry!Next
<1>6. ASSUME Clear PROVE Goal
  <2>1. next_entity_id' = 0 /\ components' = NoComponents /\ UNCHANGED archive
    BY <1>6 DEF Clear, Cleared
  <2>2. \A t \in Types, e \in Entities : NoComponents[t][e] = Nothing
    BY DEF NoComponents
  <2>3. WorldType'
    BY <2>1, IdFacts DEF WorldType, NoComponents, Ids
  <2>4. NewEntitiesAreBare'
    BY <1>0, <2>1, <2>2 DEF NewEntitiesAreBare, Bare
  <2>5. Positioned(components') = {}
    BY <2>1, <2>2, ValueFacts DEF Positioned
  <2>6. Registry!Clear
    BY <2>1, <2>5 DEF Registry!Clear
  <2>. QED
    BY <2>3, <2>4, <2>6 DEF Registry!Next
<1>7. ASSUME UNCHANGED worldVars PROVE Goal
  <2>1. UNCHANGED <<next_entity_id, components, archive>>
    BY <1>7 DEF worldVars
  <2>2. WorldType'
    BY <2>1 DEF WorldType
  <2>3. NewEntitiesAreBare'
    BY <2>1 DEF NewEntitiesAreBare, Bare
  <2>4. UNCHANGED Registry!vars
    BY <2>1 DEF Registry!vars
  <2>. QED
    BY <2>2, <2>3, <2>4
<1>. QED
  BY <1>1, <1>2, <1>3, <1>4, <1>5, <1>6, <1>7 DEF WorldStep

IInv == WorldType /\ NewEntitiesAreBare /\ UpdateInv

LEMMA IInvInductive ==
  /\ Init => IInv /\ Registry!Init
  /\ IInv /\ [Next]_vars => IInv' /\ [Registry!Next]_Registry!vars
<1>1. ASSUME Init PROVE IInv /\ Registry!Init
  <2>1. /\ next_entity_id = 1 /\ components = NoComponents /\ archive = {}
        /\ objects = <<>> /\ turns = <<>>
    BY <1>1 DEF Init, WorldInit
  <2>2. \A t \in Types, e \in Entities : NoComponents[t][e] = Nothing
    BY DEF NoComponents
  <2>3. WorldType
    BY <2>1, IdFacts DEF WorldType, NoComponents, Ids
  <2>4. NewEntitiesAreBare
    BY <2>1, <2>2 DEF NewEntitiesAreBare, Bare
  <2>5. Positioned(components) = {}
    BY <2>1, <2>2, ValueFacts DEF Positioned
  <2>6. Registry!Init
    BY <2>1, <2>5 DEF Registry!Init
  <2>7. turns \in Seq({}) /\ Len(turns) = 0 /\ SlotsType
    BY <2>1, BoundFacts DEF SlotsType
  <2>8. TurnsInv
    BY <2>1, <2>7 DEF TurnsInv, Nested, FillsFresh, SearchesFilled, InPhase, FirstSlotLosesShip
  <2>9. /\ DOMAIN tree = {1} /\ {"isLeaf", "index"} \subseteq DOMAIN tree[1]
        /\ tree[1].isLeaf = FALSE
    BY <1>1 DEF Init
  <2>10. Trees!IsShape(tree)
    BY <2>9, BoundFacts DEF Trees!IsShape, Trees!Nodes
  <2>11. Bvh!Search.met = {}
    <3>1. \A pair \in Bvh!Search.met : FALSE
      <4>1. \A pair \in Bvh!Search.met : IsPair(pair) /\ pair \subseteq 1 .. 0
        BY <2>9, <2>10, SearchBounds, Zenon DEF MeetsSlots
      <4>. QED
        BY <4>1 DEF IsPair
    <3>. QED
      BY <3>1
  <2>12. TreeInv
    BY <2>1, <2>10, <2>11 DEF TreeInv, TwoShipsNeverHang, InPhase
  <2>13. BoundsInv
    BY <1>1, <2>7, CollisionAssumption DEF Init, BoundsInv
  <2>. QED
    BY <2>3, <2>4, <2>6, <2>8, <2>12, <2>13 DEF IInv, UpdateInv
<1>2. ASSUME IInv, [Next]_vars PROVE IInv' /\ [Registry!Next]_Registry!vars
  BY <1>2, StepEffect, WorldKeeps DEF IInv
<1>. QED
  BY <1>1, <1>2

\* No component is ever kept under an id to come: for any players' commands, any
\* number of entities, worlds saved and loaded, cleared, and any nesting of turns.
THEOREM EntitiesStartBare == Spec => []NewEntitiesAreBare
<1>1. IInv => NewEntitiesAreBare
  BY DEF IInv
<1>. QED
  BY <1>1, IInvInductive, PTL DEF Spec

\* The world of the game server implements the registry.
THEOREM WorldKeepsRegistry == Spec => KeepsRegistry
BY IInvInductive, PTL DEF Spec, KeepsRegistry, Registry!Spec

\* A turn that destroys a ship of the first slot has one ship less inside.
THEOREM NestingLosesShips == Spec => []FirstSlotLosesShip
<1>1. IInv => FirstSlotLosesShip
  BY DEF IInv, UpdateInv, TurnsInv, Nested
<1>. QED
  BY <1>1, IInvInductive, PTL DEF Spec

\* The types of a world under its players' commands, whatever was in the memory
\* of the slots, and how deep its turns nest.
THEOREM TypeCorrect == Spec => []TypeOK
<1>1. IInv => TypeOK
  <2>. SUFFICES ASSUME IInv PROVE TypeOK
    OBVIOUS
  <2>1. WorldType /\ TurnsInv /\ BoundsInv
    BY DEF IInv, UpdateInv
  <2>2. Len(objects) <= MaxObjects /\ \A i \in DOMAIN objects : objects[i].entity \in Entities
    <3>1. objects \in Seq(Slot) /\ Len(objects) <= MaxObjects
      BY <2>1 DEF TurnsInv, SlotsType
    <3>2. \A i \in DOMAIN objects : objects[i] \in Slot
      BY <3>1
    <3>. QED
      BY <3>1, <3>2 DEF Slot
  <2>3. DOMAIN turns = 1 .. Len(turns)
    <3>1. PICK S : turns \in Seq(S)
      BY <2>1 DEF TurnsInv, Nested
    <3>. QED
      BY <3>1
  <2>4. ASSUME NEW i \in DOMAIN turns
        PROVE  /\ turns[i].phase \in {"fill", "search", "hung", "walk"}
               /\ turns[i].ships \subseteq Entities
               /\ \A found \in turns[i].pending :
                    Cardinality(found.slots) = 2 /\ found.entity \in Entities \cup {Nothing}
               /\ turns[i].slot \in 0 .. MaxObjects
    <3>1. Sound(turns[i])
      BY <2>1, <2>3 DEF TurnsInv, Nested
    <3>. QED
      BY <3>1, PairFacts DEF Sound, Findable, Phases
  <2>. QED
    BY <2>1, <2>2, <2>4 DEF TypeOK, BoundsInv
<1>. QED
  BY <1>1, IInvInductive, PTL DEF Spec

\* A search that never returns has a tree of more than three nodes before it, so
\* there were three objects at once: whatever memory the slots were made of.
THEOREM SmallTreesNeverHang == Spec => []TwoShipsNeverHang
<1>1. IInv => TwoShipsNeverHang
  BY DEF IInv, UpdateInv, TreeInv
<1>. QED
  BY <1>1, IInvInductive, PTL DEF Spec

\* What a turn destroys is an entity that stood in the vector, though turns without
\* ships search a tree that others left over a vector they emptied.
THEOREM ReadsWithinTheVector == Spec => []NeverReadsBehind
<1>1. IInv => NeverReadsBehind
  <2>. SUFFICES ASSUME IInv, NEW i \in DOMAIN turns, NEW found \in turns[i].pending
                PROVE  found.entity # Nothing
    BY DEF NeverReadsBehind
  <2>1. TurnsInv
    BY DEF IInv, UpdateInv
  <2>2. PICK S : turns \in Seq(S)
    BY <2>1 DEF TurnsInv, Nested
  <2>3. Sound(turns[i])
    BY <2>1, <2>2 DEF TurnsInv, Nested
  <2>. QED
    BY <2>3, WorldAssumption DEF Sound, Findable, Entities
<1>. QED
  BY <1>1, IInvInductive, PTL DEF Spec
=============================================================================
