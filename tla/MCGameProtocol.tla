--------------------------- MODULE MCGameProtocol ---------------------------
(* Two clients, one of which the auth server does not know.                *)
EXTENDS GameProtocol

CONSTANTS a, b

MCClients == {a, b}
MCKnown == {a}
MCKeys == {[type |-> "Move", by |-> 1], [type |-> "Rotate", by |-> -1]}
=============================================================================
