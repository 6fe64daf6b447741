--------------------------- MODULE MCCommandQueue ---------------------------
(***************************************************************************)
(* CommandQueue with three threads in Pop and four pushes: more commands   *)
(* than threads and more threads than commands, with spurious wakeups and  *)
(* a stop at any point.                                                    *)
(***************************************************************************)
EXTENDS CommandQueue
=============================================================================
