--------------------------- MODULE DeliveryStore ---------------------------
(***************************************************************************)
(* The tables of sql/init.sql, and every statement the repositories run    *)
(* against them.                                                           *)
(*                                                                         *)
(* A delivery is a row of the deliveries table.  Its columns are kept in   *)
(* separate functions, one per column a property can tell apart:           *)
(*                                                                         *)
(*   status        the status column; "absent" is a row not yet inserted   *)
(*   eventOf       event_id                                                *)
(*   attemptCount  attempt_count                                           *)
(*   locked        locked_until IS NOT NULL                                *)
(*                                                                         *)
(* The two timestamps are only ever compared with NOW(), so the clock is   *)
(* represented by what has not elapsed yet:                                *)
(*                                                                         *)
(*   waiting       the rows whose next_retry_at is still in the future     *)
(*   live          the claims <<d, n>> whose locked_until (written by the  *)
(*                 n-th claim of delivery d) is still in the future        *)
(*                                                                         *)
(* attempts is the delivery_attempts table.                                *)
(***************************************************************************)
EXTENDS Naturals

CONSTANTS
    Event,          \* the events clients may submit (their event_key)
    NoEvent,        \* the event_id of a row that is not inserted yet
    MaxDeliveries,  \* bound: rows of the deliveries table
    MaxAttempts     \* the max_attempts column, the same in every row

ASSUME StoreAssumption ==
    /\ NoEvent \notin Event
    /\ MaxDeliveries \in Nat
    /\ MaxAttempts \in Nat \ {0}

VARIABLES status, eventOf, attemptCount, locked, waiting, live, attempts

storeVars == <<status, eventOf, attemptCount, locked, waiting, live, attempts>>

Delivery == 1..MaxDeliveries        \* deliveries.id, AUTO_INCREMENT
Claim    == Delivery \X (Nat \ {0}) \* <<d, n>>: the n-th claim of delivery d
Active   == {"pending", "running"}
Terminal == {"succeeded", "dead"}
Status   == Active \cup Terminal \cup {"absent"}
Outcome  == {"succeeded", "failed"} \* delivery_attempts.status

StoreInit ==
    /\ status       = [d \in Delivery |-> "absent"]
    /\ eventOf      = [d \in Delivery |-> NoEvent]
    /\ attemptCount = [d \in Delivery |-> 0]
    /\ locked       = [d \in Delivery |-> FALSE]
    /\ waiting      = {}
    /\ live         = {}
    /\ attempts     = {}

StoreTypeOK ==
    /\ status       \in [Delivery -> Status]
    /\ eventOf      \in [Delivery -> Event \cup {NoEvent}]
    /\ attemptCount \in [Delivery -> Nat]
    /\ locked       \in [Delivery -> BOOLEAN]
    /\ waiting      \subseteq Delivery
    /\ live         \subseteq Claim
    /\ attempts     \subseteq (Claim \X Outcome)

----------------------------------------------------------------------------
(* Creating rows *)

RowsOf(e) == {d \in Delivery : eventOf[d] = e}

\* AUTO_INCREMENT: a new row has the least id no row has.
NextId(d) ==
    /\ status[d] = "absent"
    /\ \A x \in Delivery : x < d => status[x] # "absent"

\* INSERT INTO deliveries: pending, no attempt made, next_retry_at = NOW().
InsertPending(e) ==
    \E d \in Delivery :
        /\ NextId(d)
        /\ status'  = [status EXCEPT ![d] = "pending"]
        /\ eventOf' = [eventOf EXCEPT ![d] = e]
        /\ UNCHANGED <<attemptCount, locked, waiting, live, attempts>>

\* The committed transaction of POST /events.  uk_event_key refuses a second
\* submission of the same event, which leaves both tables as they were.
CreateEventWithDelivery(e) ==
    /\ RowsOf(e) = {}
    /\ InsertPending(e)

\* Mutant: a pending delivery does not refuse the replay.
ReplayDespitePending(e) ==
    /\ \A d \in RowsOf(e) : status[d] # "running"
    /\ RowsOf(e) # {}
    /\ InsertPending(e)

\* The committed transaction of POST /events/:id/replay.  It is refused when
\* the event has an active delivery, or has no delivery at all.
CreateReplayDelivery(e) ==
    /\ \A d \in RowsOf(e) : status[d] \notin Active
    /\ RowsOf(e) # {}
    /\ InsertPending(e)

----------------------------------------------------------------------------
(* Claiming *)

LeaseExpired(d) == <<d, attemptCount[d]>> \notin live

\* Mutant: a running row is up for grabs whatever its lease.
ClaimableWhileLeased(d) ==
    \/ status[d] = "pending" /\ d \notin waiting
    \/ status[d] = "running" /\ locked[d]

\* Mutant: running rows are never claimed again.
ClaimablePendingOnly(d) == status[d] = "pending" /\ d \notin waiting

\* The WHERE clause of ClaimOneReadyPending.
Claimable(d) ==
    \/ status[d] = "pending" /\ d \notin waiting
    \/ status[d] = "running" /\ locked[d] /\ LeaseExpired(d)

\* The claim its UPDATE would make: attempt_count + 1.
NextClaim(d) == <<d, attemptCount[d] + 1>>

\* Mutant: the UPDATE leaves attempt_count alone.
ClaimRowUncounted(d) ==
    /\ status' = [status EXCEPT ![d] = "running"]
    /\ locked' = [locked EXCEPT ![d] = TRUE]
    /\ live'   = live \cup {NextClaim(d)}
    /\ UNCHANGED <<attemptCount, eventOf, waiting, attempts>>

\* The UPDATE of ClaimOneReadyPending and its COMMIT.
ClaimRow(d) ==
    /\ status'       = [status EXCEPT ![d] = "running"]
    /\ locked'       = [locked EXCEPT ![d] = TRUE]
    /\ attemptCount' = [attemptCount EXCEPT ![d] = @ + 1]
    /\ live'         = live \cup {NextClaim(d)}
    /\ UNCHANGED <<eventOf, waiting, attempts>>

----------------------------------------------------------------------------
(* Recording what a delivery attempt did.  Each of these is one statement, *)
(* selected by "WHERE id = ?" alone.                                       *)

MarkSucceeded(d) ==
    /\ status' = [status EXCEPT ![d] = "succeeded"]
    /\ locked' = [locked EXCEPT ![d] = FALSE]
    /\ UNCHANGED <<eventOf, attemptCount, waiting, live, attempts>>

MarkDead(d) ==
    /\ status' = [status EXCEPT ![d] = "dead"]
    /\ locked' = [locked EXCEPT ![d] = FALSE]
    /\ UNCHANGED <<eventOf, attemptCount, waiting, live, attempts>>

\* next_retry_at = now + backoff(attemptNo), which is never zero.
ScheduleRetry(d) ==
    /\ status'  = [status EXCEPT ![d] = "pending"]
    /\ locked'  = [locked EXCEPT ![d] = FALSE]
    /\ waiting' = waiting \cup {d}
    /\ UNCHANGED <<eventOf, attemptCount, live, attempts>>

RecordAttempt(c, outcome) ==
    /\ attempts' = attempts \cup {<<c, outcome>>}
    /\ UNCHANGED <<status, eventOf, attemptCount, locked, waiting, live>>

----------------------------------------------------------------------------
(* The clock *)

\* next_retry_at passes.
BackoffElapses(d) ==
    /\ d \in waiting
    /\ waiting' = waiting \ {d}
    /\ UNCHANGED <<status, eventOf, attemptCount, locked, live, attempts>>

\* The locked_until written by claim n of d passes.  The lease has one length,
\* so the claims of a delivery expire in the order they were made.
LeaseElapses(d, n) ==
    /\ <<d, n>> \in live
    /\ \A m \in 1..(n - 1) : <<d, m>> \notin live
    /\ live' = live \ {<<d, n>>}
    /\ UNCHANGED <<status, eventOf, attemptCount, locked, waiting, attempts>>

============================================================================
