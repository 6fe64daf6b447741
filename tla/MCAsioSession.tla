--------------------------- MODULE MCAsioSession ----------------------------
(***************************************************************************)
(* AsioSession with two messages, three calls of the application and two   *)
(* frames from the peer: enough for a queue of more than one frame, a      *)
(* close() between two sends, and a close() or a read error while a write  *)
(* is under way.                                                           *)
(***************************************************************************)
EXTENDS AsioSession
=============================================================================
