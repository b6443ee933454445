------------------------- MODULE DeliveryLifecycle -------------------------
(***************************************************************************)
(* What becomes of a delivery, whoever works on it: the state machine of   *)
(* the README with what its moves depend on.  DeliveryPool implements it.  *)
(*                                                                         *)
(* A delivery goes stale when a lease of it passes under a job.  Until     *)
(* then nothing is heard of it but while it runs, and only a running one   *)
(* is decided; a stale one may be decided again and again.                 *)
(***************************************************************************)
EXTENDS Naturals

CONSTANTS Event, NoEvent, Delivery, MaxAttempts

VARIABLES
    status, eventOf,    \* as in the deliveries table
    tries,              \* how often it was claimed
    heard,              \* <<d, r>>: a POST of d came back with r
    stale               \* deliveries with a lease that passed too early

lifeVars == <<status, eventOf, tries, heard, stale>>

LifeInit ==
    /\ status  = [d \in Delivery |-> "absent"]
    /\ eventOf = [d \in Delivery |-> NoEvent]
    /\ tries   = [d \in Delivery |-> 0]
    /\ heard   = {}
    /\ stale   = {}

UnderWay(d) == status[d] \in {"pending", "running"}

Create(d, e) ==
    /\ status[d] = "absent"
    /\ \A x \in Delivery : eventOf[x] = e => ~UnderWay(x)
    /\ status'  = [status EXCEPT ![d] = "pending"]
    /\ eventOf' = [eventOf EXCEPT ![d] = e]
    /\ UNCHANGED <<tries, heard, stale>>

\* Also again, when the process that had it is gone.
Try(d) ==
    /\ UnderWay(d)
    /\ status' = [status EXCEPT ![d] = "running"]
    /\ tries'  = [tries EXCEPT ![d] = @ + 1]
    /\ UNCHANGED <<eventOf, heard, stale>>

Hear(d, r) ==
    /\ status[d] = "running" \/ d \in stale
    /\ heard' = heard \cup {<<d, r>>}
    /\ UNCHANGED <<status, eventOf, tries, stale>>

\* What an answer, and the tries so far, allow to decide.
Allowed(d) ==
    {s \in {"succeeded"} : <<d, "ok">> \in heard}
      \cup {s \in {"dead"} : <<d, "fatal">> \in heard}
      \cup {s \in {"dead"} : <<d, "retry">> \in heard /\ tries[d] >= MaxAttempts}
      \cup {s \in {"pending"} : /\ <<d, "retry">> \in heard
                                /\ tries[d] < MaxAttempts \/ d \in stale}

Decide(d) ==
    /\ status[d] = "running" \/ d \in stale
    /\ \E s \in Allowed(d) : status' = [status EXCEPT ![d] = s]
    /\ UNCHANGED <<eventOf, tries, heard, stale>>

GoStale(d) ==
    /\ status[d] # "absent"
    /\ stale' = stale \cup {d}
    /\ UNCHANGED <<status, eventOf, tries, heard>>

LifeNext ==
    \E d \in Delivery :
        \/ \E e \in Event : Create(d, e)
        \/ \E r \in {"ok", "retry", "fatal"} : Hear(d, r)
        \/ Try(d) \/ Decide(d) \/ GoStale(d)

LifeSpec == LifeInit /\ [][LifeNext]_lifeVars

============================================================================
