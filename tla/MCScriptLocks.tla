---------------------------- MODULE MCScriptLocks ----------------------------
(* The instances of ScriptLocks that the configurations give to TLC.         *)
EXTENDS ScriptLocks, TLC

\* Thread objects are alike.
AnyOrder == Permutations(Objects)
=============================================================================
