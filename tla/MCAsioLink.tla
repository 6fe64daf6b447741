----------------------------- MODULE MCAsioLink -----------------------------
(***************************************************************************)
(* AsioLink checked against MessageChannel, once for each direction.       *)
(***************************************************************************)
EXTENDS AsioLink, TLC

Symmetry == Permutations(Msgs)
=============================================================================
