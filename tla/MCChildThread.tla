--------------------------- MODULE MCChildThread ---------------------------
(* The instances of ChildThread that the configurations give to TLC. *)
EXTENDS ChildThread
=============================================================================
