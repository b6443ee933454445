--------------------------- MODULE MCServerProcess ---------------------------
(***************************************************************************)
(* Instances of ServerProcess for TLC.                                     *)
(***************************************************************************)
EXTENDS ServerProcess, TLC

CONSTANTS w1, w2, r1

WorkerSymmetry == Permutations(Worker)

============================================================================
