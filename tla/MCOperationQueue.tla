-------------------------- MODULE MCOperationQueue --------------------------
(* The instances of OperationQueue that the configurations give to TLC.      *)
EXTENDS OperationQueue, TLC

\* Operations are alike until they are set up.
AnyOrder == Permutations(Ops)
=============================================================================
