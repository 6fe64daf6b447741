------------------------- MODULE MCCommandExecutor --------------------------
(***************************************************************************)
(* CommandExecutor with a command of one part and a macro of two, four     *)
(* submissions (nested to any depth among them), and either no handler or  *)
(* a TwoTriesThenLogHandler registered before the executor's own.          *)
(***************************************************************************)
EXTENDS CommandExecutor, TLC

CONSTANTS move, macro

MCParts   == (move :> 1) @@ (macro :> 2)
AnyBefore == {<<>>, <<"twoTries">>}
=============================================================================
