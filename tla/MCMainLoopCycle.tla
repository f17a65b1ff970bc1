-------------------------- MODULE MCMainLoopCycle --------------------------
(* Instances of MainLoopCycle for TLC. *)
EXTENDS MainLoopCycle

NoSleepLimit == Infinite
=============================================================================
