-------------------------- MODULE MCDeliveryClock --------------------------
(***************************************************************************)
(* An instance of DeliveryClock for TLC: three clocks, one behind NOW(),   *)
(* one right and one ahead.                                                *)
(***************************************************************************)
EXTENDS DeliveryClock

CONSTANTS slow, right, fast

MCHolder == {slow, right, fast}
MCOffset == [h \in MCHolder |-> CASE h = slow -> -2 [] h = right -> 0 [] h = fast -> 2]
MCLeastOffset == -2
MCCode == {200, 304, 404, 429, 500, 503}

============================================================================
