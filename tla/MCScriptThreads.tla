--------------------------- MODULE MCScriptThreads ---------------------------
(* The instances of ScriptThreads that the configurations give to TLC.        *)
EXTENDS ScriptThreads
=============================================================================
