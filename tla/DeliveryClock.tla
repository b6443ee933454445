---------------------------- MODULE DeliveryClock ----------------------------
(***************************************************************************)
(* One delivery in seconds, and in two clocks.  locked_until and           *)
(* next_retry_at are computed by a process, from its own clock and in the  *)
(* time zone of its DSN, and compared with NOW(), which is the database's. *)
(* Offset is what a process is ahead of the database, zone included.       *)
(*                                                                         *)
(* A holder is a dispatcher and, for the claim it makes, the channel and   *)
(* worker that take it over; it may belong to any process.  The two        *)
(* timestamps are kept as the seconds NOW() still needs to reach them.     *)
(***************************************************************************)
EXTENDS Integers

CONSTANTS
    Holder,
    Offset,         \* seconds the clock of a holder is ahead of NOW()
    LeastOffset,    \* a bound below all of them
    ClaimLease,     \* claimLease
    ClaimTime,      \* how long a claim may take
    JobTime,        \* how old a claim may get, from time.Now() to its verdict
    MaxAttempts,
    Code,           \* status codes targets answer with
    NoAnswer,       \* Do returned an error: network, DNS, timeout
    NoRequest,      \* the URL is no URL
    MaxLosses       \* bound: crashes, dropped claims and failed UPDATEs

ASSUME ClockAssumption ==
    /\ LeastOffset \in Int
    /\ Offset \in [Holder -> Int] /\ \A h \in Holder : LeastOffset <= Offset[h]
    /\ ClaimLease \in Nat /\ JobTime \in Nat /\ ClaimTime \in 0..JobTime
    /\ MaxAttempts \in Nat \ {0} /\ MaxLosses \in Nat
    /\ Code \subseteq Nat /\ NoAnswer \notin Code /\ NoRequest \notin Code
    /\ NoAnswer # NoRequest

VARIABLES
    status, attemptCount,
    lockedFor,      \* locked_until - NOW(), 0 when it has passed
    retryIn,        \* next_retry_at - NOW(), 0 when it has passed
    pc,             \* where a holder is
    attemptNo,      \* the attempt it makes
    until,          \* the timestamp it computed, less NOW()
    age,            \* seconds since it computed the lease
    answer,         \* what Send returned
    since,          \* history: seconds since the first attempt, up to RecoveryTime
    outage,         \* history: the target was never heard to refuse or accept
    losses

rowVars  == <<status, attemptCount, lockedFor, retryIn>>
jobVars  == <<pc, attemptNo, until, age, answer>>
histVars == <<since, outage, losses>>
vars == <<rowVars, jobVars, histVars>>

Terminal == {"succeeded", "dead"}
Answer   == Code \cup {NoAnswer, NoRequest}

AtLeast0(n) == IF n < 0 THEN 0 ELSE n
Smaller(m, n) == IF m < n THEN m ELSE n

----------------------------------------------------------------------------
(* DeliveryResult and backoff *)

Delivered(a) == a \in Code /\ a >= 200 /\ a < 300

\* Mutant: off by one.
RetryableAbove500(a) == a = NoAnswer \/ (a \in Code /\ (a = 429 \/ a > 500))

\* Everything else is final, 3xx that Do did not follow included.
Retryable(a) == a = NoAnswer \/ (a \in Code /\ (a = 429 \/ a >= 500))

\* Mutant: minutes.
BackoffInMinutes(n) == CASE n = 1 -> 300 [] n = 2 -> 900 [] OTHER -> 1800

Backoff(n) == CASE n = 1 -> 5 [] n = 2 -> 15 [] OTHER -> 30

\* What the README calls a failing network, a timeout, 429 and 5xx.
Outage == {NoAnswer} \cup {c \in Code : c = 429 \/ c \in 500..599}

\* Attempts n and n + 1 are this far apart: a retry waits for its backoff, and
\* a lost attempt for its lease, which runs from before the claim.
Gap(n) == AtLeast0(Smaller(Backoff(n), ClaimLease - ClaimTime) + LeastOffset)

\* How long an outage the attempts outlast at least.
RecoveryTime ==
    IF MaxAttempts = 1 THEN 0 ELSE Gap(1) + (MaxAttempts - 2) * Gap(2)

----------------------------------------------------------------------------

Init ==
    /\ status = "pending" /\ attemptCount = 0
    /\ lockedFor = 0 /\ retryIn = 0
    /\ pc        = [h \in Holder |-> "idle"]
    /\ attemptNo = [h \in Holder |-> 0]
    /\ until     = [h \in Holder |-> 0]
    /\ age       = [h \in Holder |-> 0]
    /\ answer    = [h \in Holder |-> NoAnswer]
    /\ since = 0 /\ outage = TRUE /\ losses = 0

Idle(h) ==
    /\ pc'        = [pc EXCEPT ![h] = "idle"]
    /\ attemptNo' = [attemptNo EXCEPT ![h] = 0]
    /\ until'     = [until EXCEPT ![h] = 0]
    /\ age'       = [age EXCEPT ![h] = 0]
    /\ answer'    = [answer EXCEPT ![h] = NoAnswer]

Loss == losses < MaxLosses /\ losses' = losses + 1

\* time.Now().Add(p.claimLease), before the claim.
Begin(h) ==
    /\ pc[h] = "idle"
    /\ pc'    = [pc EXCEPT ![h] = "claiming"]
    /\ until' = [until EXCEPT ![h] = AtLeast0(ClaimLease + Offset[h])]
    /\ UNCHANGED <<rowVars, attemptNo, age, answer, histVars>>

\* Mutant: no look at locked_until.
ClaimableLeased ==
    \/ status = "pending" /\ retryIn = 0
    \/ status = "running"

Claimable ==
    \/ status = "pending" /\ retryIn = 0
    \/ status = "running" /\ lockedFor = 0

ClaimRow(h) ==
    /\ pc[h] = "claiming" /\ Claimable
    /\ status' = "running"
    /\ attemptCount' = attemptCount + 1
    /\ lockedFor' = until[h]
    /\ UNCHANGED <<retryIn, since, outage>>

Claim(h) ==
    /\ ClaimRow(h)
    /\ pc'        = [pc EXCEPT ![h] = "sending"]
    /\ attemptNo' = [attemptNo EXCEPT ![h] = attemptCount + 1]
    /\ UNCHANGED <<until, age, answer, losses>>

\* COMMIT takes effect and reports an error, or the claim is dropped.
ClaimLost(h) == ClaimRow(h) /\ Idle(h) /\ Loss

\* There is no row to claim, or the claim fails.
ClaimNothing(h) ==
    /\ pc[h] = "claiming"
    /\ Idle(h)
    /\ UNCHANGED <<rowVars, histVars>>

\* Send returns a; nextRetryAt is computed, though only a retry writes it.
SendEnds(h) ==
    /\ pc[h] = "sending"
    /\ \E a \in Answer :
        /\ answer' = [answer EXCEPT ![h] = a]
        /\ outage' = (outage /\ a \in Outage)
    /\ pc'    = [pc EXCEPT ![h] = "writing"]
    /\ until' = [until EXCEPT ![h] = AtLeast0(Backoff(attemptNo[h]) + Offset[h])]
    /\ UNCHANGED <<rowVars, attemptNo, age, since, losses>>

\* Mutant: the last attempt is retried.
RetriesLast(h) == Retryable(answer[h]) /\ attemptNo[h] <= MaxAttempts

Retries(h) == Retryable(answer[h]) /\ attemptNo[h] < MaxAttempts

\* MarkSucceeded, MarkDead or ScheduleRetry.
Settle(h) ==
    /\ pc[h] = "writing"
    /\ \/ Delivered(answer[h]) /\ status' = "succeeded" /\ UNCHANGED retryIn
       \/ Retries(h) /\ status' = "pending" /\ retryIn' = until[h]
       \/ ~Delivered(answer[h]) /\ ~Retries(h) /\ status' = "dead" /\ UNCHANGED retryIn
    /\ lockedFor' = 0
    /\ Idle(h)
    /\ UNCHANGED <<attemptCount, histVars>>

\* The process ends, or the UPDATE fails.
Lose(h) ==
    /\ pc[h] \in {"sending", "writing"}
    /\ Idle(h)
    /\ Loss
    /\ UNCHANGED <<rowVars, since, outage>>

\* A second passes, for those whose limit allows it.
Second ==
    /\ \A h \in Holder : /\ pc[h] = "claiming" => age[h] < ClaimTime
                         /\ pc[h] \in {"sending", "writing"} => age[h] < JobTime
    /\ lockedFor' = AtLeast0(lockedFor - 1)
    /\ retryIn'   = AtLeast0(retryIn - 1)
    /\ until'     = [h \in Holder |-> AtLeast0(until[h] - 1)]
    /\ age'       = [h \in Holder |-> IF pc[h] = "idle" THEN 0 ELSE age[h] + 1]
    /\ since' = IF attemptCount = 0 THEN 0 ELSE Smaller(since + 1, RecoveryTime)
    /\ UNCHANGED <<status, attemptCount, pc, attemptNo, answer, outage, losses>>

Next ==
    \/ \E h \in Holder :
          \/ Begin(h) \/ Claim(h) \/ ClaimLost(h) \/ ClaimNothing(h)
          \/ SendEnds(h) \/ Settle(h) \/ Lose(h)
    \/ Second

Spec == Init /\ [][Next]_vars

----------------------------------------------------------------------------
(* Properties *)

\* Every variable has a value the program can store in it, no row is locked
\* for longer than a lease and none backs off for more than 30 seconds, as far
\* as the fastest clock is right.
TypeOK ==
    /\ status \in {"pending", "running"} \cup Terminal
    /\ attemptCount \in Nat /\ lockedFor \in Nat /\ retryIn \in Nat
    /\ lockedFor > 0 => \E h \in Holder : lockedFor <= ClaimLease + Offset[h]
    /\ retryIn > 0 => \E h \in Holder : retryIn <= 30 + Offset[h]
    /\ pc \in [Holder -> {"idle", "claiming", "sending", "writing"}]
    /\ attemptNo \in [Holder -> Nat]
    /\ until \in [Holder -> Nat]
    /\ age \in [Holder -> Nat]
    /\ answer \in [Holder -> Answer]
    /\ since \in 0..RecoveryTime
    /\ outage \in BOOLEAN
    /\ losses \in 0..MaxLosses

\* A lease is longer than a job, seen from the slowest clock.
LeasesCover == JobTime < ClaimLease + LeastOffset

Working(h) == pc[h] \in {"sending", "writing"}

\* Then no delivery is sent or settled by two at a time, although one process
\* computes the end of a lease and another has it compared with a third clock.
OneHolder ==
    LeasesCover => \A g, h \in Holder : Working(g) /\ Working(h) => g = h

\* And the attempts beyond MaxAttempts are as many as were lost.
AttemptsAccounted == LeasesCover => attemptCount <= MaxAttempts + losses

\* And a final status is final.
FinalStays ==
    [][LeasesCover /\ status \in Terminal => status' = status]_vars

\* And a delivery is not given up during an outage shorter than RecoveryTime,
\* although crashes use up attempts, wait for leases instead of the backoff,
\* and every process has another clock: dead means that the target refused, or
\* that it could not be reached for so long.
OutageSurvived ==
    LeasesCover /\ status = "dead" /\ outage => since >= RecoveryTime

============================================================================
