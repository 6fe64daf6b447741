--------------------------- MODULE EntityRegistry ---------------------------
(***************************************************************************)
(* What a world of entities promises its callers, who keep entity ids long *)
(* after the entities are gone: the only way for an id to come to life is  *)
(* to be the next new one, or to be alive in the world that is loaded.     *)
(***************************************************************************)
EXTENDS Naturals

VARIABLES
  next,   (* the id of the next new entity                                 *)
  alive,  (* the entities that are somewhere                               *)
  saved   (* the worlds that can be loaded: none, or the one saved last    *)

vars == <<next, alive, saved>>

Init == next = 1 /\ alive = {} /\ saved = {}

Create ==
  /\ alive' = alive \cup {next}
  /\ next' = next + 1
  /\ UNCHANGED saved

Destroy ==
  /\ \E gone \in SUBSET alive : alive' = alive \ gone
  /\ UNCHANGED <<next, saved>>

Save ==
  /\ saved' = {[next |-> next, alive |-> alive]}
  /\ UNCHANGED <<next, alive>>

Load ==
  /\ \E world \in saved : next' = world.next /\ alive' = world.alive
  /\ UNCHANGED saved

Clear ==
  /\ next' = 0 /\ alive' = {}
  /\ UNCHANGED saved

Next == Create \/ Destroy \/ Save \/ Load \/ Clear

Spec == Init /\ [][Next]_vars
=============================================================================
