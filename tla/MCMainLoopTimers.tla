-------------------------- MODULE MCMainLoopTimers --------------------------
(* Instances of MainLoopTimers for TLC. *)
EXTENDS MainLoopTimers

\* absolute, from_now, from_now_if_late, and one interval to skip
MCSkips == {-3, -2, -1, 1}

=============================================================================
