--------------------------- MODULE CollisionSystem ---------------------------
(***************************************************************************)
(* The game server's world under its players' commands, and the collision  *)
(* system that runs after every command.  Each pair it finds makes it      *)
(* destroy an entity, by a command after which it runs again: turns nest.  *)
(***************************************************************************)
EXTENDS World, Commands, FiniteSets, TLC

CONSTANTS
  PlayerCommands,  (* the commands players send                            *)
  Junk,            (* what a slot of the vector holds that nobody wrote    *)
  MaxCalls,        (* bound: calls from outside                            *)
  MaxDepth         (* bound: turns inside turns                            *)

ASSUME CollisionAssumption ==
  /\ PlayerCommands \subseteq Seq(Parts)
  /\ Junk \subseteq [rect : [x : Int, y : Int, h : Nat], entity : Entities]
  /\ MaxCalls \in Nat
  /\ MaxDepth \in Nat \ {0}

VARIABLES
  objects,  (* the vector of the tree's objects                            *)
  tree,     (* the tree, as DynamicBVH has it                              *)
  players,  (* the ids in the Player objects that callers hold             *)
  turns,    (* the turns under way, the outermost first                    *)
  calls     (* history: calls made, bounded                                *)

vars == <<worldVars, objects, tree, players, turns, calls>>

\* Every entity with a rotation has one object.
MaxObjects == MaxEntities + 1

Bvh == INSTANCE DynamicBVH WITH
  Rects <- {}, Scenes <- {}, Beyond <- Nothing, MaxFills <- 0, MaxMoves <- 0,
  leaves <- <<>>, single <- FALSE, phase <- "set", updated <- {}, moves <- 0, fills <- 0

\* The entities a collision is looked for with.
Ships == EntitiesWith("Rotation") \cap EntitiesWith("Position")

\* A turn that starts among these ships.
NewTurn(ships) == [phase |-> "fill", ships |-> ships, pending |-> {}, slot |-> 0]

Turn == turns[Len(turns)]

InPhase(phase) == turns # <<>> /\ Turn.phase = phase

-----------------------------------------------------------------------------
(* What comes from outside, one call at a time.                            *)

Call ==
  /\ turns = <<>>
  /\ calls < MaxCalls
  /\ calls' = calls + 1
  /\ UNCHANGED <<objects, tree>>

\* PlayerFactory's CreatePlayer, for a caller that keeps the Player.
AddPlayer(place) ==
  /\ Call
  /\ CreatePlayer(place)
  /\ players' = players \cup {next_entity_id}
  /\ UNCHANGED turns

\* Its CreateAxis and CreateGrid: nobody keeps the Player of either.
AddScenery == Call /\ CreateAxis /\ UNCHANGED <<players, turns>>

TypeOf == [position |-> "Position", rotation |-> "Rotation"]

\* HasProperty and GetProperty of the Player with entity e.
PlayerObject(e) ==
  [p \in {q \in DOMAIN TypeOf : HasComponent(TypeOf[q], e)} |-> components[TypeOf[p]][e]]

\* SetProperty of the properties of this object: a position may be new.
SetProperties(e, object) ==
  [components EXCEPT
    !["Position"][e] = IF HasProperty(object, "position") THEN object["position"] ELSE @,
    !["Rotation"][e] =
      IF HasProperty(object, "rotation") /\ @ # Nothing THEN object["rotation"] ELSE @]

InBounds(object) ==
  /\ HasProperty(object, "position") => object["position"] \in Places
  /\ HasProperty(object, "rotation") => object["rotation"] \in Angles

\* A command that throws is logged, and the world is not updated.
PlayerCommand(e, command) ==
  /\ Call
  /\ e \in players
  /\ LET result == Execute(command, PlayerObject(e)) IN
       /\ InBounds(result.object)
       /\ components' = SetProperties(e, result.object)
       /\ turns' = IF result.thrown THEN <<>> ELSE <<NewTurn(Ships')>>
  /\ UNCHANGED <<next_entity_id, archive, players>>

\* on_disconnect, which runs no turn.
Disconnect(e) ==
  /\ Call
  /\ e \in players
  /\ DestroyEntity(e)
  /\ UNCHANGED <<players, turns>>

SaveWorld == Call /\ Save /\ UNCHANGED <<players, turns>>

LoadWorld == Call /\ Load /\ UNCHANGED <<players, turns>>

ClearWorld == Call /\ Clear /\ UNCHANGED <<players, turns>>

-----------------------------------------------------------------------------
(* onWorldUpdate.                                                          *)

\* The rectangle at an entity: what is one place away touches, or overlaps
\* when either is turned.
RectOf(e) ==
  [x |-> 4 * components["Position"][e], y |-> 0,
   h |-> IF components["Rotation"][e] = 0 THEN 2 ELSE 3]

\* Wrong on purpose: the slots are added to those that are there.
AddedSlots == Len(objects) + Cardinality(EntitiesWith("Rotation"))

\* A slot for every entity with a rotation.
Slots == Cardinality(EntitiesWith("Rotation"))

\* All ships write the first slot, in no particular order; nobody writes the
\* others.  Without a ship nothing is resized.
Fill ==
  /\ InPhase("fill")
  /\ IF Ships = {} THEN UNCHANGED objects
     ELSE \E last \in Ships, unwritten \in [Len(objects) + 1 .. Slots -> Junk] :
            objects' = [i \in 1 .. Slots |->
              CASE i = 1 -> [rect |-> RectOf(last), entity |-> last]
                [] i # 1 /\ i <= Len(objects) -> objects[i]
                [] i # 1 /\ i > Len(objects) -> unwritten[i]]
  /\ turns' = [turns EXCEPT ![Len(turns)].phase = "search"]
  /\ UNCHANGED <<worldVars, tree, players, calls>>

First(pair) == CHOOSE i \in pair : \A j \in pair : i <= j

Second(pair) == CHOOSE i \in pair : i # First(pair)

\* Wrong on purpose: of two that collide the other one goes.
SecondVictim(pair) == Second(pair)

\* The slot of the object of a pair that is destroyed.
Victim(pair) == First(pair)

\* build: over no object the tree stays as it was.
Build ==
  IF objects = <<>> THEN UNCHANGED tree
  ELSE \E order \in Bvh!Orders : tree' = Bvh!Rooted(Bvh!NewTree(order))

\* findCollisions.  Over a tree in which a leaf has children the search may
\* never return.
Search ==
  /\ InPhase("search")
  /\ Build
  /\ \E search \in {(Bvh!Search)'} :
       \/ /\ search.endless
          /\ turns' = [turns EXCEPT ![Len(turns)].phase = "hung"]
       \/ /\ ~search.endless
          /\ turns' = [turns EXCEPT ![Len(turns)].phase = "walk",
                         ![Len(turns)].pending =
                           {[slots |-> pair, entity |-> Bvh!EntityAt(Victim(pair))] :
                              pair \in search.met}]
  /\ UNCHANGED <<worldVars, objects, players, calls>>

\* DestroyEntityCommand through the executor, whose callback is the next
\* update.  The pairs are those found before it; what was read from behind the
\* end of the vector may be any entity.
Destroy(found) ==
  /\ InPhase("walk")
  /\ Len(turns) < MaxDepth
  /\ found \in Turn.pending
  /\ \E e \in IF found.entity = Nothing THEN Entities ELSE {found.entity} : DestroyEntity(e)
  /\ turns' = Append([turns EXCEPT ![Len(turns)].pending = @ \ {found},
                                   ![Len(turns)].slot = First(found.slots)],
                     NewTurn(Ships'))
  /\ UNCHANGED <<objects, tree, players, calls>>

EndTurn ==
  /\ InPhase("walk")
  /\ Turn.pending = {}
  /\ objects' = <<>>
  /\ turns' = LET below == SubSeq(turns, 1, Len(turns) - 1)
              IN  [i \in DOMAIN below |->
                     IF i = Len(below) THEN [below[i] EXCEPT !.slot = 0] ELSE below[i]]
  /\ UNCHANGED <<worldVars, tree, players, calls>>

Init ==
  /\ WorldInit
  /\ objects = <<>>
  /\ tree = [k \in {1} |-> [box |-> [min |-> <<0, 0>>, max |-> <<0, 0>>],
                            isLeaf |-> FALSE, index |-> 0]]
  /\ players = {}
  /\ turns = <<>>
  /\ calls = 0

Next ==
  \/ \E place \in Places : AddPlayer(place)
  \/ AddScenery
  \/ \E e \in Entities, command \in PlayerCommands : PlayerCommand(e, command)
  \/ \E e \in Entities : Disconnect(e)
  \/ SaveWorld
  \/ LoadWorld
  \/ ClearWorld
  \/ Fill
  \/ Search
  \/ turns # <<>> /\ \E found \in Turn.pending : Destroy(found)
  \/ EndTurn

Spec == Init /\ [][Next]_vars

-----------------------------------------------------------------------------
(* Properties.                                                             *)

TypeOK ==
  /\ WorldType
  /\ Len(objects) <= MaxObjects
  /\ \A i \in DOMAIN objects : objects[i].entity \in Entities
  /\ players \subseteq Entities
  /\ Len(turns) <= MaxDepth
  /\ \A i \in DOMAIN turns :
       /\ turns[i].phase \in {"fill", "search", "hung", "walk"}
       /\ turns[i].ships \subseteq Entities
       /\ \A found \in turns[i].pending :
            Cardinality(found.slots) = 2 /\ found.entity \in Entities \cup {Nothing}
       /\ turns[i].slot \in 0 .. MaxObjects
  /\ calls \in 0 .. MaxCalls

\* Turns that nest over the first slot come to an end: the ship in it was there
\* when the turn began and is not when the one inside begins.  (Over the other
\* slots, or without a ship, nothing ends them: what they hold is no ship.)
FirstSlotLosesShip ==
  \A i \in 1 .. Len(turns) - 1 :
    turns[i].slot = 1 /\ turns[i].ships # {} =>
      turns[i + 1].ships \subseteq turns[i].ships /\ turns[i + 1].ships # turns[i].ships

\* Searching for collisions ends, junk in the slots or not, as long as there
\* were never three objects at once: three are enough, once a turn with one ship
\* has left a leaf for a root (or one, after a turn with three).
TwoShipsNeverHang == InPhase("hung") => \E node \in DOMAIN tree : node > 3

\* Though a turn without ships searches the tree of an earlier one over an empty
\* vector, what it destroys is never read from behind the vector's end: a turn
\* only ends over a tree without collisions.
NeverReadsBehind ==
  \A i \in DOMAIN turns : \A found \in turns[i].pending : found.entity # Nothing
=============================================================================
