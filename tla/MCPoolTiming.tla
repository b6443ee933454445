---------------------------- MODULE MCPoolTiming ----------------------------
(***************************************************************************)
(* Instances of PoolTiming for TLC.                                        *)
(***************************************************************************)
EXTENDS PoolTiming, TLC

CONSTANTS w1, w2

WorkerSymmetry == Permutations(Worker)

============================================================================
