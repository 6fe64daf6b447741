------------------------------ MODULE Commands ------------------------------
(***************************************************************************)
(* What the game's commands do to their context, an IObject.  An object is *)
(* a function from the names of the properties it has to their values, a   *)
(* command the sequence of its parts (a macro's commands, or the command). *)
(***************************************************************************)
EXTENDS Integers, Sequences

PropertyOf == [CheckFuel |-> "fuel", Move |-> "position", BurnFuel |-> "fuel",
               Rotate |-> "rotation", ChangeVelocity |-> "velocity"]

Parts == [type : DOMAIN PropertyOf, by : Int]

HasProperty(object, property) == property \in DOMAIN object

MoveCommand(delta) == <<[type |-> "Move", by |-> delta]>>

RotateCommand(angle) == <<[type |-> "Rotate", by |-> angle]>>

\* CheckFuelCommand has no parameter.
MoveWithFuelCommand(delta) ==
  <<[type |-> "CheckFuel", by |-> 0], [type |-> "Move", by |-> delta],
    [type |-> "BurnFuel", by |-> 1]>>

RotateAndChangeVelocityCommand(angle, delta) ==
  <<[type |-> "Rotate", by |-> angle], [type |-> "ChangeVelocity", by |-> delta]>>

\* Only CheckFuelCommand throws.
Throws(part, object) ==
  part.type = "CheckFuel" /\ (HasProperty(object, "fuel") => object["fuel"] <= 1)

\* Fuel does not go below zero.
Changed(part, value) ==
  CASE part.type = "CheckFuel" -> value
    [] part.type = "BurnFuel" -> IF value >= part.by THEN value - part.by ELSE 0
    [] OTHER -> value + part.by

\* Wrong on purpose: a property the object lacks counts from zero.
ApplyAnyway(part, object) ==
  [p \in DOMAIN object \cup {PropertyOf[part.type]} |->
     IF p = PropertyOf[part.type]
     THEN Changed(part, IF HasProperty(object, p) THEN object[p] ELSE 0) ELSE object[p]]

\* A command does nothing to an object without the property it changes.
Apply(part, object) ==
  [p \in DOMAIN object |->
     IF p = PropertyOf[part.type] THEN Changed(part, object[p]) ELSE object[p]]

\* What a part makes of what the parts before it left: an object, and whether
\* one of them threw.
Outcome(part, before) ==
  LET throws == before.thrown \/ Throws(part, before.object)
  IN  [object |-> IF throws THEN before.object ELSE Apply(part, before.object),
       thrown |-> throws]

\* What the parts of the command leave, up to the first that throws.
Execute(command, object) ==
  LET after[n \in 0 .. Len(command)] ==
        IF n = 0 THEN [object |-> object, thrown |-> FALSE]
                 ELSE Outcome(command[n], after[n - 1])
  IN  after[Len(command)]
=============================================================================
