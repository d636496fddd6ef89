---------------------------- MODULE MCCachedCheck ----------------------------
(* CachedCheck and its history on a few callers. *)
EXTENDS CachedCheckHistory, TLC

(* The callers are interchangeable; only runs without liveness use this. *)
CallerSymmetry == Permutations(Callers)

HFairSpec == HSpec /\ Fairness
=============================================================================
