-------------------------- MODULE MCCollisionSystem --------------------------
(***************************************************************************)
(* Two ships and a third entity on two places.  An unwritten slot is zero, *)
(* as fresh memory, or what an earlier turn left in it.                    *)
(***************************************************************************)
EXTENDS CollisionSystem

MCCommands == {MoveCommand(1), RotateCommand(1), MoveWithFuelCommand(1)}

MCJunk ==
  {[rect |-> [x |-> 0, y |-> 0, h |-> 0], entity |-> 0],
   [rect |-> [x |-> 4, y |-> 0, h |-> 2], entity |-> 1]}

\* MoveWithFuelCommand, against what it is for: an object with a position and
\* fuel makes its move for one unit, or stays as it was.
Fuelled == [position : -1 .. 1, fuel : 0 .. 3]

ASSUME FuelledMoveIsAtomic ==
  \A object \in Fuelled, delta \in {-1, 1} :
    Execute(MoveWithFuelCommand(delta), object) =
      IF object.fuel > 1
      THEN [object |-> [position |-> object.position + delta, fuel |-> object.fuel - 1],
            thrown |-> FALSE]
      ELSE [object |-> object, thrown |-> TRUE]
=============================================================================
