----------------------------- MODULE PoolTiming -----------------------------
(***************************************************************************)
(* How long a job of one process can live, in seconds: the ticker, the     *)
(* claim, the wait in the channel, Send, the two statements after it, and  *)
(* the lease that is meant to cover them (main.go).                        *)
(*                                                                         *)
(* There is always a row to claim, and each step takes any time up to its  *)
(* limit.  Goroutines that can go on go on at once: time only passes while *)
(* everybody waits for the ticker, the database or a target.  Which row a  *)
(* job is for does not matter here; DeliveryPool has the rows, no time.    *)
(***************************************************************************)
EXTENDS Integers, Sequences, FiniteSets

CONSTANTS
    Worker,             \* worker goroutines of the process
    QueueSize,          \* capacity of jobs
    PollInterval,       \* the ticker's period
    DeliveryTimeout,    \* of execCtx
    ClaimTime,          \* the longest a claim takes, its COMMIT included
    UpdateTime          \* the longest RecordAttempt and the verdict take

ClaimTimeout  == 2      \* of claimCtx, for BEGIN, SELECT and UPDATE
UpdateTimeout == 2      \* of updateCtx, which both statements share
ClientTimeout == 5      \* of http.Client

\* config.Load insists on workers and on a queue, NewTicker on a period.
\* ClaimTime is up to the database: COMMIT and ROLLBACK take no context, and the
\* DSN sets no timeout, so claimCtx ends neither.
ASSUME TimingAssumption ==
    /\ IsFiniteSet(Worker) /\ Worker # {}
    /\ QueueSize \in Nat \ {0}
    /\ PollInterval \in Nat \ {0}
    /\ DeliveryTimeout \in Nat \ {0}
    /\ ClaimTime \in Nat
    /\ UpdateTime \in 0..UpdateTimeout

VARIABLES
    sinceTick,      \* time since the ticker fired
    tick,           \* ticker.C, which buffers one tick
    dstate, dage,   \* the dispatcher, and the age of the claim it is making
    jobs,           \* the channel: for each job its age and if it had to wait
    wstate,         \* what a worker does,
    wtime,          \* for how long,
    wjob,           \* and its job
    stopping,       \* poolCancel was called,
    since           \* so long ago

vars == <<sinceTick, tick, dstate, dage, jobs, wstate, wtime, wjob, stopping, since>>

\* The age of a job counts from time.Now() in the dispatcher, when locked_until
\* is computed, before the claim.
NoJob == [age |-> 0, waited |-> FALSE]

SendTime == IF DeliveryTimeout < ClientTimeout THEN DeliveryTimeout
                                               ELSE ClientTimeout

\* Mutant: the lease has no margin.
LeaseWithoutMargin == DeliveryTimeout + PollInterval

LeaseLength == DeliveryTimeout + PollInterval + 2

Init ==
    /\ sinceTick = 0
    /\ tick      = FALSE
    /\ dstate    = "idle"
    /\ dage      = 0
    /\ jobs      = <<>>
    /\ wstate    = [w \in Worker |-> "idle"]
    /\ wtime     = [w \in Worker |-> 0]
    /\ wjob      = [w \in Worker |-> NoJob]
    /\ stopping  = FALSE
    /\ since     = 0

Working(w) == wstate[w] \in {"sending", "writing"}

InTransaction == dstate \in {"claiming", "committing", "rollingBack"}

----------------------------------------------------------------------------
(* The dispatcher *)

\* Mutant: off by one.
HasRoomForOneMore == Len(jobs) <= QueueSize

HasRoom == Len(jobs) < QueueSize

dispatcherVars == <<sinceTick, tick, dstate, dage>>
workerVars     == <<wstate, wtime, wjob>>
stopVars       == <<stopping, since>>

\* A claim under the cancelled context fails at once, as if it were skipped.
SkipTick ==
    /\ dstate = "idle" /\ tick
    /\ ~HasRoom \/ stopping
    /\ tick' = FALSE
    /\ UNCHANGED <<sinceTick, dstate, dage, jobs, workerVars, stopVars>>

BeginClaim ==
    /\ dstate = "idle" /\ tick /\ HasRoom
    /\ ~stopping
    /\ tick'   = FALSE
    /\ dstate' = "claiming"
    /\ dage'   = 0
    /\ UNCHANGED <<sinceTick, jobs, workerVars, stopVars>>

\* tx.Commit looks at the context once, before it sends COMMIT.
Commit ==
    /\ dstate = "claiming" /\ ~stopping
    /\ dstate' = "committing"
    /\ UNCHANGED <<sinceTick, tick, dage, jobs, workerVars, stopVars>>

\* No row, an error, or the cancelled context.
Rollback ==
    /\ dstate = "claiming"
    /\ dstate' = "rollingBack"
    /\ UNCHANGED <<sinceTick, tick, dage, jobs, workerVars, stopVars>>

\* BEGIN or COMMIT failed, or the transaction is rolled back.
ClaimNothing ==
    /\ InTransaction
    /\ dstate' = "idle"
    /\ dage'   = 0
    /\ UNCHANGED <<sinceTick, tick, jobs, workerVars, stopVars>>

\* The send into the channel may win over the cancel.
Enqueue ==
    /\ dstate = "committing"
    /\ jobs'   = Append(jobs, [age |-> dage, waited |-> FALSE])
    /\ dstate' = "idle"
    /\ dage'   = 0
    /\ UNCHANGED <<sinceTick, tick, workerVars, stopVars>>

DispatcherStop ==
    /\ stopping /\ (dstate = "idle" \/ InTransaction)
    /\ dstate' = "stopped"
    /\ dage'   = 0
    /\ UNCHANGED <<sinceTick, tick, jobs, workerVars, stopVars>>

----------------------------------------------------------------------------
(* A worker *)

Enter(w, step) ==
    /\ wstate' = [wstate EXCEPT ![w] = step]
    /\ wtime'  = [wtime EXCEPT ![w] = 0]

Take(w) ==
    /\ wstate[w] = "idle" /\ jobs # <<>>
    /\ wjob' = [wjob EXCEPT ![w] = Head(jobs)]
    /\ jobs' = Tail(jobs)
    /\ Enter(w, "sending")
    /\ UNCHANGED <<dispatcherVars, stopVars>>

SendEnds(w) ==
    /\ wstate[w] = "sending"
    /\ Enter(w, "writing")
    /\ UNCHANGED <<dispatcherVars, jobs, wjob, stopVars>>

UpdateEnds(w) ==
    /\ wstate[w] = "writing"
    /\ Enter(w, "idle")
    /\ wjob' = [wjob EXCEPT ![w] = NoJob]
    /\ UNCHANGED <<dispatcherVars, jobs, stopVars>>

WorkerStop(w) ==
    /\ stopping /\ wstate[w] = "idle"
    /\ Enter(w, "stopped")
    /\ UNCHANGED <<dispatcherVars, jobs, wjob, stopVars>>

----------------------------------------------------------------------------
(* The process *)

Cancel ==
    /\ ~stopping
    /\ stopping' = TRUE
    /\ UNCHANGED <<dispatcherVars, jobs, workerVars, since>>

AllStopped == dstate = "stopped" /\ \A w \in Worker : wstate[w] = "stopped"

\* The process ends, and is started again.  main does not wait for AllStopped
\* for ever, and not at all when the server fails: ServerProcess says when.
Exit ==
    /\ sinceTick' = 0 /\ tick' = FALSE /\ dstate' = "idle" /\ dage' = 0
    /\ jobs' = <<>>
    /\ wstate' = [w \in Worker |-> "idle"]
    /\ wtime' = [w \in Worker |-> 0]
    /\ wjob' = [w \in Worker |-> NoJob]
    /\ stopping' = FALSE /\ since' = 0

----------------------------------------------------------------------------
(* Time *)

\* Mutant: execCtx is not derived from the pool's context.
SendMayLastDetached(w) == wtime[w] < SendTime

\* Mutant: the http.Client has no timeout of its own.
SendMayLastUnlimited(w) == wtime[w] < DeliveryTimeout /\ ~stopping

\* A cancelled Send returns at once.
SendMayLast(w) == wtime[w] < SendTime /\ ~stopping

\* claimCtx and the cancel end a statement of the claim at once, but not the
\* COMMIT or the ROLLBACK.
DispatcherWaits ==
    \/ dstate = "idle" /\ ~tick /\ ~stopping
    \/ InTransaction /\ dage < ClaimTime
       /\ (dstate = "claiming" => dage < ClaimTimeout /\ ~stopping)
    \/ dstate = "stopped"

WorkerWaits(w) ==
    \/ wstate[w] = "idle" /\ jobs = <<>> /\ ~stopping
    \/ wstate[w] = "sending" /\ SendMayLast(w)
    \/ wstate[w] = "writing" /\ wtime[w] < UpdateTime
    \/ wstate[w] = "stopped"

Older(job) == [job EXCEPT !.age = @ + 1]

\* One second passes.  A tick nobody took yet is not buffered twice.
Elapse ==
    /\ DispatcherWaits
    /\ \A w \in Worker : WorkerWaits(w)
    /\ ~AllStopped
    /\ sinceTick' = IF sinceTick + 1 = PollInterval THEN 0 ELSE sinceTick + 1
    /\ tick' = (tick \/ sinceTick + 1 = PollInterval)
    /\ dage' = IF InTransaction THEN dage + 1 ELSE 0
    /\ jobs' = [i \in DOMAIN jobs |-> [age |-> jobs[i].age + 1, waited |-> TRUE]]
    /\ wtime' = [w \in Worker |-> IF Working(w) THEN wtime[w] + 1 ELSE 0]
    /\ wjob' = [w \in Worker |-> IF Working(w) THEN Older(wjob[w]) ELSE wjob[w]]
    /\ since' = IF stopping THEN since + 1 ELSE 0
    /\ UNCHANGED <<dstate, wstate, stopping>>

PoolStep ==
    \/ SkipTick \/ BeginClaim \/ Commit \/ Rollback \/ ClaimNothing \/ Enqueue
    \/ DispatcherStop
    \/ \E w \in Worker : Take(w) \/ SendEnds(w) \/ UpdateEnds(w) \/ WorkerStop(w)

Next == PoolStep \/ Cancel \/ Exit \/ Elapse

Spec == Init /\ [][Next]_vars

----------------------------------------------------------------------------
(* Invariants *)

Job == [age : Nat, waited : BOOLEAN]

\* Every step stays within its limit, and the channel within its capacity.
TypeOK ==
    /\ sinceTick \in 0..(PollInterval - 1)
    /\ tick \in BOOLEAN
    /\ dstate \in {"idle", "claiming", "committing", "rollingBack", "stopped"}
    /\ dage \in 0..ClaimTime
    /\ dstate = "claiming" => dage <= ClaimTimeout
    /\ jobs \in Seq(Job) /\ Len(jobs) <= QueueSize
    /\ wstate \in [Worker -> {"idle", "sending", "writing", "stopped"}]
    /\ wtime \in [Worker -> Nat]
    /\ \A w \in Worker : /\ wstate[w] = "sending" => wtime[w] <= SendTime
                         /\ wstate[w] = "writing" => wtime[w] <= UpdateTime
    /\ wjob \in [Worker -> Job]
    /\ stopping \in BOOLEAN
    /\ since \in Nat

JobTime == SendTime + UpdateTime

\* What the lease needs for that: the configuration's timeouts fit into it.
LeaseHasMargin == ClaimTime + JobTime < LeaseLength

\* A worker that took its job the moment it was enqueued has written its
\* verdict before the lease ends, however slow claim, target and updates are.
LeaseCoversPromptJob ==
    \A w \in Worker :
        Working(w) /\ ~wjob[w].waited => wjob[w].age < LeaseLength

\* A job at the end of a full channel waits while the workers finish this many
\* jobs each.
Rounds == (QueueSize + Cardinality(Worker) - 1) \div Cardinality(Worker)

\* No job gets older than its claim, the wait and its own processing, so what
\* is in the channel bounds the lease that a configuration would need.
AgeBounded ==
    ~stopping => \A w \in Worker :
        Working(w) => wjob[w].age <= ClaimTime + (Rounds + 1) * JobTime

\* The workers may leave all the jobs of the channel to one of them, which
\* writes a failed attempt for each, and a COMMIT may be under way, which the
\* cancel does not end: Start returns after the longer of the two at the latest.
\* A job that such a COMMIT still adds to the channel makes it no longer.
StopsWithin ==
    stopping => since <= ClaimTime \/ since <= (QueueSize + 1) * UpdateTime

\* The dispatcher begins at most one claim per tick.  If claims end before the
\* next tick, and the workers are enough for as many jobs as begin while one of
\* them lasts, then jobs do not wait in the channel.
WorkersKeepUp ==
    /\ ClaimTime < PollInterval
    /\ ClaimTime + JobTime < Cardinality(Worker) * PollInterval

----------------------------------------------------------------------------
(* What the repository's documentation says without the reservations above *)

\* main.go: the lease's margin keeps a delivery that is still running from
\* being claimed again.
LeaseCoversDelivery ==
    \A w \in Worker : Working(w) => wjob[w].age < LeaseLength

============================================================================
