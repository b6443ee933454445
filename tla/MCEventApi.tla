----------------------------- MODULE MCEventApi -----------------------------
(***************************************************************************)
(* Instances of EventApi for TLC.                                          *)
(***************************************************************************)
EXTENDS EventApi

CONSTANTS r1, r2, r3, r4, k1, k2

=============================================================================
