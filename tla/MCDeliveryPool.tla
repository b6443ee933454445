--------------------------- MODULE MCDeliveryPool ---------------------------
(***************************************************************************)
(* Instances of DeliveryPool for TLC.                                      *)
(***************************************************************************)
EXTENDS DeliveryPool, TLC

CONSTANTS p1, p2, w1, w2

\* One process with both workers, and one worker in each of two processes.
HostShared == [w \in Worker |-> p1]
HostApart  == [w \in Worker |-> IF w = w1 THEN p1 ELSE p2]

\* The workers of one process are interchangeable.
SharedSymmetry == Permutations(Worker)

============================================================================
