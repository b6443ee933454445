---------------------------- MODULE MCPoolMetrics ----------------------------
(***************************************************************************)
(* Instances of PoolMetrics for TLC.                                       *)
(***************************************************************************)
EXTENDS PoolMetrics, TLC

CONSTANTS p1, w1, w2

HostShared == [w \in Worker |-> p1]

============================================================================
