------------------------------ MODULE EventLog ------------------------------
(***************************************************************************)
(* What the two writing endpoints promise together: an event is accepted   *)
(* once, with its first delivery, and gets another delivery only when it   *)
(* has none under way.  EventApi implements this, and so does DeliveryPool *)
(* with the two requests as single steps.                                  *)
(***************************************************************************)

CONSTANTS Key, Delivery

VARIABLES
    rows,   \* the deliveries of each event
    open    \* the deliveries under way

logVars == <<rows, open>>

LogInit ==
    /\ rows = [k \in Key |-> {}]
    /\ open = {}

New(d) == \A k \in Key : d \notin rows[k]

Add(k, d) ==
    /\ New(d)
    /\ rows' = [rows EXCEPT ![k] = @ \cup {d}]
    /\ open' = open \cup {d}

Accept(k, d)      == rows[k] = {} /\ Add(k, d)
ReplayEvent(k, d) == rows[k] # {} /\ rows[k] \cap open = {} /\ Add(k, d)

Settle(d) ==
    /\ d \in open
    /\ open' = open \ {d}
    /\ UNCHANGED rows

LogNext ==
    \/ \E k \in Key, d \in Delivery : Accept(k, d) \/ ReplayEvent(k, d)
    \/ \E d \in Delivery : Settle(d)

LogSpec == LogInit /\ [][LogNext]_logVars

============================================================================
