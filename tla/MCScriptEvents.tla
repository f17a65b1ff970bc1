--------------------------- MODULE MCScriptEvents ---------------------------
(* The instances of ScriptEvents that the configurations give to TLC.        *)
EXTENDS ScriptEvents
=============================================================================
