---------------------------- MODULE MCChainSync ----------------------------
(* Instances of ChainSync for TLC.  Callers and assets are interchangeable *)
(* for the safety runs: the scheduler differs from a query only in its     *)
(* fairness.                                                               *)
EXTENDS ChainSync, TLC

CONSTANTS scheduler, query

SafetySymmetry == Permutations(Callers)
=============================================================================
