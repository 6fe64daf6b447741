--------------------------- MODULE MCIoCContainer ---------------------------
(* Two threads, and the services of the game: the player factory resolves  *)
(* the world, which may be registered or asked for as another type, as the *)
(* container's tests do with a service of theirs.                          *)
EXTENDS IoCContainer

MCKeys == {"World", "PlayerFactory"}
MCTypes == {"shared_ptr", "value"}
MCScopes == {"default", "game"}

World == [key |-> "World", type |-> "shared_ptr"]
PlayerFactory == [key |-> "PlayerFactory", type |-> "shared_ptr"]

WorldItself == [key |-> "World", type |-> "value"]

MCServices == {World, PlayerFactory, WorldItself}
MCUses == [s \in MCServices |-> IF s = PlayerFactory THEN <<World>> ELSE <<>>]
MCNeeds == [s \in MCServices |-> IF s = PlayerFactory THEN {s, World} ELSE {s}]
=============================================================================
