-------------------------------- MODULE World --------------------------------
(***************************************************************************)
(* World: components by type and entity.  A Player is an entity id and a   *)
(* shared pointer to the world, so ids outlive their entities.             *)
(***************************************************************************)
EXTENDS Integers

CONSTANTS
  Types,       (* the component types: "Position", "Rotation", the others  *)
  Nothing,     (* what an entity has instead of a component                *)
  Places,      (* bound: where an entity can be                            *)
  Angles,      (* bound: how far it can be turned                          *)
  MaxEntities  (* bound: the highest entity id                             *)

Entities == 0 .. MaxEntities

ASSUME WorldAssumption ==
  /\ {"Position", "Rotation"} \subseteq Types
  /\ Places \subseteq Int /\ 0 \in Places
  /\ Angles \subseteq Int /\ 0 \in Angles
  /\ Nothing \notin Int
  /\ MaxEntities \in Nat

VARIABLES
  next_entity_id,  (* next_entity_id_                                      *)
  components,      (* components_, of every type and every entity          *)
  archive          (* what Save wrote: no world, or one                    *)

worldVars == <<next_entity_id, components, archive>>

NoComponents == [t \in Types |-> [e \in Entities |-> Nothing]]

HasComponent(type, e) == components[type][e] # Nothing

\* getAllEntitiesWith.
EntitiesWith(type) == {e \in Entities : HasComponent(type, e)}

Positioned(all) == {e \in Entities : all["Position"][e] # Nothing}

WorldInit ==
  /\ next_entity_id = 1
  /\ components = NoComponents
  /\ archive = {}

-----------------------------------------------------------------------------
(* Entities come and go.                                                   *)

\* CreateEntity, and AddComponent for these values by type.
Create(values) ==
  /\ next_entity_id \in Entities
  /\ components' = [t \in Types |->
       IF t \in DOMAIN values THEN [components[t] EXCEPT ![next_entity_id] = values[t]]
                              ELSE components[t]]
  /\ next_entity_id' = next_entity_id + 1
  /\ UNCHANGED archive

\* Whether its own components are those of a player or of a piece of scenery,
\* an entity has every type or the two an axis and a grid have.
CreatePlayer(place) ==
  Create([t \in Types |-> IF t = "Position" THEN place ELSE 0])

CreateAxis ==
  Create([t \in Types \ {"Rotation", "Velocity", "Fuel"} |-> 0])

\* The types whose maps lose e.  The maps are visited in no particular order,
\* and once Position's was, e counts as gone: the others keep it.
Erased(e) ==
  IF HasComponent("Position", e) THEN {types \in SUBSET Types : "Position" \in types} ELSE {{}}

DestroyEntity(e) ==
  /\ \E types \in Erased(e) :
       components' = [t \in Types |->
         IF t \in types THEN [components[t] EXCEPT ![e] = Nothing] ELSE components[t]]
  /\ UNCHANGED <<next_entity_id, archive>>

-----------------------------------------------------------------------------
(* The whole world.                                                        *)

Save ==
  /\ archive' = {[next_entity_id |-> next_entity_id, components |-> components]}
  /\ UNCHANGED <<next_entity_id, components>>

Load ==
  /\ \E world \in archive :
       next_entity_id' = world.next_entity_id /\ components' = world.components
  /\ UNCHANGED archive

\* Wrong on purpose: the ids start again, the components stay.
ClearedKeeping == components

\* What is left of the components after clear.
Cleared == NoComponents

Clear ==
  /\ next_entity_id' = 0
  /\ components' = Cleared
  /\ UNCHANGED archive

-----------------------------------------------------------------------------
(* Properties.                                                             *)

Values == Places \cup Angles

WorldType ==
  /\ next_entity_id \in 0 .. MaxEntities + 1
  /\ components \in [Types -> [Entities -> Values \cup {Nothing}]]
  /\ archive \in SUBSET [next_entity_id : 0 .. MaxEntities + 1,
                         components : [Types -> [Entities -> Values \cup {Nothing}]]]

\* No component is kept under an id that is still to be handed out.
Bare(next, all) == \A t \in Types : \A e \in Entities : e >= next => all[t][e] = Nothing

\* A new entity starts with nothing, though destroyed entities leave components
\* behind, clear and Load set the next id back, and callers keep old ids: a
\* survivor under an id to come would become part of somebody else's ship.
NewEntitiesAreBare ==
  /\ Bare(next_entity_id, components)
  /\ \A world \in archive : Bare(world.next_entity_id, world.components)

Registry == INSTANCE EntityRegistry WITH
  next <- next_entity_id,
  alive <- Positioned(components),
  saved <- {[next |-> world.next_entity_id, alive |-> Positioned(world.components)] :
              world \in archive}

\* Nothing a caller does with an old id - commands, destruction, a turn of the
\* collision system - puts an entity back that was destroyed.
KeepsRegistry == Registry!Spec
=============================================================================
