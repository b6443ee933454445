---------------------------- MODULE DeliveryPool ----------------------------
(***************************************************************************)
(* The worker pools of the server processes that share one database: in    *)
(* each process a dispatcher (the loop of DeliveryPool.Start) claims rows  *)
(* and sends them down the buffered channel jobs to worker goroutines,     *)
(* which run DeliveryWorker.Process.                                       *)
(*                                                                         *)
(* One step of a process is one database statement, one channel operation, *)
(* one HTTP exchange or the end of a goroutine.  Only a claim is a         *)
(* transaction of two statements: between its SELECT ... FOR UPDATE and    *)
(* its COMMIT the selected row is locked.                                  *)
(*                                                                         *)
(* A failing process, a statement that returns an error and a lease that   *)
(* passes while its job is still queued or being sent are mishaps.  Their  *)
(* number is bounded by MaxMishaps, and nothing else is: the claims of a   *)
(* delivery then are finite in number of themselves.                       *)
(***************************************************************************)
EXTENDS DeliveryStore, Sequences, FiniteSets

CONSTANTS
    Proc,           \* server processes
    Worker,         \* worker goroutines
    Host,           \* the process a worker runs in
    QueueSize,      \* capacity of jobs
    MaxMishaps      \* bound: crashes, shutdowns, errors, overrun leases

ASSUME PoolAssumption ==
    /\ Host \in [Worker -> Proc]
    /\ QueueSize \in Nat
    /\ MaxMishaps \in Nat

VARIABLES
    phase,          \* "up", "stopping" (poolCancel was called) or "down"
    dpc, dclaim,    \* where the dispatcher is, and the claim it is making
    jobs,           \* the channel
    wpc, wjob, wres,\* where a worker is, its job, and what Send returned
    answers,        \* history: <<d, r>>, a Send for d returned r
    overrun,        \* history: deliveries with a lease that passed too early
    lostAudit,      \* history: deliveries with a RecordAttempt that failed
    mishaps         \* mishaps so far

procVars    == <<phase, dpc, dclaim, jobs>>
workerVars  == <<wpc, wjob, wres>>
historyVars == <<answers, overrun, lostAudit>>
vars == <<storeVars, procVars, workerVars, historyVars, mishaps>>

NoClaim == <<0, 0>>
Result  == {"ok", "retry", "fatal"} \* SendResult: Err = nil, Retryable, neither

PoolInit ==
    /\ StoreInit
    /\ phase     = [p \in Proc |-> "up"]
    /\ dpc       = [p \in Proc |-> "idle"]
    /\ dclaim    = [p \in Proc |-> NoClaim]
    /\ jobs      = [p \in Proc |-> <<>>]
    /\ wpc       = [w \in Worker |-> "idle"]
    /\ wjob      = [w \in Worker |-> NoClaim]
    /\ wres      = [w \in Worker |-> "none"]
    /\ answers   = {}
    /\ overrun   = {}
    /\ lostAudit = {}
    /\ mishaps   = 0

Mishap ==
    /\ mishaps < MaxMishaps
    /\ mishaps' = mishaps + 1

----------------------------------------------------------------------------
(* Where claims are *)

RowLocked(d) == \E p \in Proc : dpc[p] = "selected" /\ dclaim[p][1] = d

Busy(w)   == wpc[w] \in {"sending", "sent", "recorded"}
Queued(p) == {jobs[p][i] : i \in DOMAIN jobs[p]}

\* The claims a dispatcher holds, a channel buffers or a worker processes.
Held ==
    (UNION {Queued(p) : p \in Proc})
        \cup {dclaim[p] : p \in {q \in Proc : dpc[q] = "holding"}}
        \cup {wjob[w] : w \in {v \in Worker : Busy(v)}}

----------------------------------------------------------------------------
(* The dispatcher *)

\* Mutant: off by one.
HasRoomButOne(p) == Len(jobs[p]) <= QueueSize

HasRoom(p) == Len(jobs[p]) < QueueSize

\* Mutant: no FOR UPDATE.
SelectableUnlocked(d) ==
    /\ Claimable(d)
    /\ \A x \in Delivery : x < d => ~Claimable(x)

\* What ORDER BY d.id LIMIT 1 ... SKIP LOCKED may return: the least row that
\* qualifies.  A scan also locks the rows it passes over, so while another
\* claim is open any smaller row may be skipped.
Selectable(d) ==
    /\ Claimable(d)
    /\ ~RowLocked(d)
    /\ \/ \A x \in Delivery : x < d => ~Claimable(x)
       \/ \E p \in Proc : dpc[p] = "selected"

PollNothing(p) ==
    /\ phase[p] = "up" /\ dpc[p] = "idle"
    /\ HasRoom(p) => \A d \in Delivery : ~Selectable(d)
    /\ UNCHANGED vars

ClaimSelect(p) ==
    /\ phase[p] = "up" /\ dpc[p] = "idle"
    /\ HasRoom(p)
    /\ \E d \in Delivery :
        /\ Selectable(d)
        /\ dclaim' = [dclaim EXCEPT ![p] = NextClaim(d)]
    /\ dpc' = [dpc EXCEPT ![p] = "selected"]
    /\ UNCHANGED <<storeVars, phase, jobs, workerVars, historyVars, mishaps>>

\* A commit already on its way when the pool is cancelled still takes effect.
ClaimCommit(p) ==
    /\ dpc[p] = "selected"
    /\ ClaimRow(dclaim[p][1])
    /\ dpc' = [dpc EXCEPT ![p] = "holding"]
    /\ UNCHANGED <<phase, dclaim, jobs, workerVars, historyVars, mishaps>>

\* The row is claimed but Commit returns an error: nobody has the job.
ClaimCommitLost(p) ==
    /\ dpc[p] = "selected"
    /\ ClaimRow(dclaim[p][1])
    /\ dpc'    = [dpc EXCEPT ![p] = "idle"]
    /\ dclaim' = [dclaim EXCEPT ![p] = NoClaim]
    /\ Mishap
    /\ UNCHANGED <<phase, jobs, workerVars, historyVars>>

\* The deferred Rollback: claimCtx ends with the pool, or the database fails.
ClaimAbort(p) ==
    /\ dpc[p] = "selected"
    /\ dpc'    = [dpc EXCEPT ![p] = "idle"]
    /\ dclaim' = [dclaim EXCEPT ![p] = NoClaim]
    /\ \/ phase[p] = "stopping" /\ UNCHANGED mishaps
       \/ phase[p] = "up" /\ Mishap
    /\ UNCHANGED <<storeVars, phase, jobs, workerVars, historyVars>>

\* The send side of the select, ready when the channel has room.
Enqueue(p) ==
    /\ dpc[p] = "holding"
    /\ HasRoom(p)
    /\ jobs'   = [jobs EXCEPT ![p] = Append(@, dclaim[p])]
    /\ dpc'    = [dpc EXCEPT ![p] = "idle"]
    /\ dclaim' = [dclaim EXCEPT ![p] = NoClaim]
    /\ UNCHANGED <<storeVars, phase, workerVars, historyVars, mishaps>>

\* Mutant: the polling select has no ctx.Done case.
DispatcherStopHolding(p) ==
    /\ phase[p] = "stopping" /\ dpc[p] = "holding"
    /\ dpc'    = [dpc EXCEPT ![p] = "stopped"]
    /\ dclaim' = [dclaim EXCEPT ![p] = NoClaim]
    /\ UNCHANGED <<storeVars, phase, jobs, workerVars, historyVars, mishaps>>

\* The ctx.Done side, in either select; a claim in hand is dropped.
DispatcherStop(p) ==
    /\ phase[p] = "stopping" /\ dpc[p] \in {"idle", "holding"}
    /\ dpc'    = [dpc EXCEPT ![p] = "stopped"]
    /\ dclaim' = [dclaim EXCEPT ![p] = NoClaim]
    /\ UNCHANGED <<storeVars, phase, jobs, workerVars, historyVars, mishaps>>

----------------------------------------------------------------------------
(* A worker *)

Receive(w) ==
    /\ wpc[w] = "idle"
    /\ jobs[Host[w]] # <<>>
    /\ wjob' = [wjob EXCEPT ![w] = Head(jobs[Host[w]])]
    /\ jobs' = [jobs EXCEPT ![Host[w]] = Tail(@)]

Take(w) ==
    /\ phase[Host[w]] = "up"
    /\ Receive(w)
    /\ wpc' = [wpc EXCEPT ![w] = "sending"]
    /\ UNCHANGED <<storeVars, phase, dpc, dclaim, wres, historyVars, mishaps>>

SendReturned(w, c, r) ==
    /\ wpc'     = [wpc EXCEPT ![w] = "sent"]
    /\ wres'    = [wres EXCEPT ![w] = r]
    /\ answers' = answers \cup {<<c[1], r>>}

SendReturns(w) ==
    /\ wpc[w] = "sending"
    /\ \E r \in Result : SendReturned(w, wjob[w], r)
    /\ UNCHANGED <<storeVars, procVars, wjob, overrun, lostAudit, mishaps>>

\* select may prefer the channel to ctx.Done.  execCtx is then cancelled from
\* the start and no request leaves: a bad URL is fatal, else a retry.
TakeCancelled(w) ==
    /\ phase[Host[w]] = "stopping"
    /\ Receive(w)
    /\ \E r \in {"retry", "fatal"} : SendReturned(w, Head(jobs[Host[w]]), r)
    /\ UNCHANGED <<storeVars, phase, dpc, dclaim, overrun, lostAudit, mishaps>>

OutcomeOf(r) == IF r = "ok" THEN "succeeded" ELSE "failed"

Record(w) ==
    /\ wpc[w] = "sent"
    /\ RecordAttempt(wjob[w], OutcomeOf(wres[w]))
    /\ wpc' = [wpc EXCEPT ![w] = "recorded"]
    /\ UNCHANGED <<procVars, wjob, wres, historyVars, mishaps>>

\* The INSERT fails; Process ignores the error.
RecordFails(w) ==
    /\ wpc[w] = "sent"
    /\ wpc'       = [wpc EXCEPT ![w] = "recorded"]
    /\ lostAudit' = lostAudit \cup {wjob[w][1]}
    /\ Mishap
    /\ UNCHANGED <<storeVars, procVars, wjob, wres, answers, overrun>>

\* Mutants: the comparison is off by one, either way.
LastAttemptEarly(c) == c[2] + 1 >= MaxAttempts
LastAttemptLate(c)  == c[2] > MaxAttempts

\* Process chooses by the attempt number the claim returned, not by the row.
LastAttempt(c) == c[2] >= MaxAttempts

Verdict(c, r) ==
    \/ r = "ok" /\ MarkSucceeded(c[1])
    \/ r = "fatal" /\ MarkDead(c[1])
    \/ r = "retry" /\ LastAttempt(c) /\ MarkDead(c[1])
    \/ r = "retry" /\ ~LastAttempt(c) /\ ScheduleRetry(c[1])

WorkerIdle(w) ==
    /\ wpc'  = [wpc EXCEPT ![w] = "idle"]
    /\ wjob' = [wjob EXCEPT ![w] = NoClaim]
    /\ wres' = [wres EXCEPT ![w] = "none"]

\* Mutant: the verdict is written before the audit row.
SettleUnrecorded(w) ==
    /\ wpc[w] = "sent"
    /\ ~RowLocked(wjob[w][1])
    /\ Verdict(wjob[w], wres[w])
    /\ WorkerIdle(w)
    /\ UNCHANGED <<procVars, historyVars, mishaps>>

Settle(w) ==
    /\ wpc[w] = "recorded"
    /\ ~RowLocked(wjob[w][1])
    /\ Verdict(wjob[w], wres[w])
    /\ WorkerIdle(w)
    /\ UNCHANGED <<procVars, historyVars, mishaps>>

\* The UPDATE fails: the row stays as it is and the job is given up.
SettleFails(w) ==
    /\ wpc[w] = "recorded"
    /\ WorkerIdle(w)
    /\ Mishap
    /\ UNCHANGED <<storeVars, procVars, historyVars>>

WorkerStop(w) ==
    /\ phase[Host[w]] = "stopping" /\ wpc[w] = "idle"
    /\ wpc' = [wpc EXCEPT ![w] = "stopped"]
    /\ UNCHANGED <<storeVars, procVars, wjob, wres, historyVars, mishaps>>

----------------------------------------------------------------------------
(* The process *)

\* SIGTERM: HTTP is shut down, then poolCancel.
Shutdown(p) ==
    /\ phase[p] = "up"
    /\ phase' = [phase EXCEPT ![p] = "stopping"]
    /\ Mishap
    /\ UNCHANGED <<storeVars, dpc, dclaim, jobs, workerVars, historyVars>>

\* The process ends and everything in its memory with it.
End(p) ==
    /\ phase'  = [phase EXCEPT ![p] = "down"]
    /\ dpc'    = [dpc EXCEPT ![p] = "stopped"]
    /\ dclaim' = [dclaim EXCEPT ![p] = NoClaim]
    /\ jobs'   = [jobs EXCEPT ![p] = <<>>]
    /\ wpc'    = [w \in Worker |-> IF Host[w] = p THEN "stopped" ELSE wpc[w]]
    /\ wjob'   = [w \in Worker |-> IF Host[w] = p THEN NoClaim ELSE wjob[w]]
    /\ wres'   = [w \in Worker |-> IF Host[w] = p THEN "none" ELSE wres[w]]
    /\ UNCHANGED <<storeVars, historyVars>>

PoolStopped(p) ==
    /\ phase[p] = "stopping" /\ dpc[p] = "stopped"
    /\ \A w \in Worker : Host[w] = p => wpc[w] = "stopped"

\* wg.Wait returns, poolDone is closed, main returns.
Exit(p) ==
    /\ PoolStopped(p)
    /\ End(p)
    /\ UNCHANGED mishaps

\* main gives up waiting for poolDone after ShutdownTimeout.
ExitUnfinished(p) ==
    /\ phase[p] = "stopping" /\ ~PoolStopped(p)
    /\ End(p)
    /\ UNCHANGED mishaps

\* Also main's return when ListenAndServe fails, which waits for nobody.
Crash(p) ==
    /\ phase[p] = "up"
    /\ End(p)
    /\ Mishap

Restart(p) ==
    /\ phase[p] = "down"
    /\ phase' = [phase EXCEPT ![p] = "up"]
    /\ dpc'   = [dpc EXCEPT ![p] = "idle"]
    /\ wpc'   = [w \in Worker |-> IF Host[w] = p THEN "idle" ELSE wpc[w]]
    /\ UNCHANGED <<storeVars, dclaim, jobs, wjob, wres, historyVars, mishaps>>

----------------------------------------------------------------------------
(* Clients and the clock *)

poolVars == <<procVars, workerVars>>

Submit(e) ==
    /\ \E p \in Proc : phase[p] # "down"
    /\ CreateEventWithDelivery(e)
    /\ UNCHANGED <<poolVars, historyVars, mishaps>>

\* Its FOR UPDATE waits for the rows of e that a claim has locked.
Replay(e) ==
    /\ \E p \in Proc : phase[p] # "down"
    /\ \A d \in RowsOf(e) : ~RowLocked(d)
    /\ CreateReplayDelivery(e)
    /\ UNCHANGED <<poolVars, historyVars, mishaps>>

RetryDue(d) ==
    /\ BackoffElapses(d)
    /\ UNCHANGED <<poolVars, historyVars, mishaps>>

LeasePasses(d) ==
    \E c \in live :
        /\ c[1] = d
        /\ LeaseElapses(d, c[2])
        /\ IF c \in Held
           THEN Mishap /\ overrun' = overrun \cup {d}
           ELSE UNCHANGED <<mishaps, overrun>>
        /\ UNCHANGED <<poolVars, answers, lostAudit>>

----------------------------------------------------------------------------

DispatcherStep(p) ==
    \/ PollNothing(p) \/ ClaimSelect(p) \/ ClaimCommit(p) \/ ClaimCommitLost(p)
    \/ ClaimAbort(p) \/ Enqueue(p) \/ DispatcherStop(p)

WorkerStep(w) ==
    \/ Take(w) \/ TakeCancelled(w) \/ SendReturns(w) \/ Record(w)
    \/ RecordFails(w) \/ Settle(w) \/ SettleFails(w) \/ WorkerStop(w)

ProcessStep(p) ==
    \/ Shutdown(p) \/ Exit(p) \/ ExitUnfinished(p) \/ Crash(p) \/ Restart(p)

Next ==
    \/ \E p \in Proc : DispatcherStep(p) \/ ProcessStep(p)
    \/ \E w \in Worker : WorkerStep(w)
    \/ \E e \in Event : Submit(e) \/ Replay(e)
    \/ \E d \in Delivery : RetryDue(d) \/ LeasePasses(d)

Spec == PoolInit /\ [][Next]_vars

\* Goroutines that can take a step take one, HTTP exchanges end (execCtx and
\* the client have timeouts), time passes and an ended process is started
\* again.  Nothing obliges clients to call, or mishaps to happen.
Fairness ==
    /\ \A p \in Proc : WF_vars(DispatcherStep(p)) /\ WF_vars(Exit(p) \/ Restart(p))
    /\ \A w \in Worker : WF_vars(WorkerStep(w))
    /\ \A d \in Delivery : WF_vars(RetryDue(d)) /\ WF_vars(LeasePasses(d))

FairSpec == Spec /\ Fairness

----------------------------------------------------------------------------
(* Invariants *)

\* Every variable has a value the program can store in it, and no channel
\* buffers more jobs than make(chan ClaimedDelivery, p.queueSize) allows.
TypeOK ==
    /\ StoreTypeOK
    /\ phase  \in [Proc -> {"up", "stopping", "down"}]
    /\ dpc    \in [Proc -> {"idle", "selected", "holding", "stopped"}]
    /\ dclaim \in [Proc -> Claim \cup {NoClaim}]
    /\ jobs   \in [Proc -> Seq(Claim)]
    /\ \A p \in Proc : Len(jobs[p]) <= QueueSize
    /\ wpc    \in [Worker -> {"idle", "sending", "sent", "recorded", "stopped"}]
    /\ wjob   \in [Worker -> Claim \cup {NoClaim}]
    /\ wres   \in [Worker -> Result \cup {"none"}]
    /\ answers   \subseteq Delivery \X Result
    /\ overrun   \subseteq Delivery
    /\ lostAudit \subseteq Delivery
    /\ mishaps   \in 0..MaxMishaps

\* The dispatcher looks at len(jobs) first, then spends up to two seconds in
\* the database, then sends.  The room it saw is still there: its send never
\* blocks on a full channel while the lease of its claim runs out.
QueueHasRoom == \A p \in Proc : dpc[p] = "holding" => Len(jobs[p]) < QueueSize

\* No two jobs carry the same delivery_id and attempt_no, wherever they are
\* and in whichever process; so delivery_attempts, which has no unique key on
\* the pair, never gets a second row for it from RecordAttempt.
AttemptNumbersUnique ==
    /\ \A p, q \in Proc : dpc[p] = "holding" /\ dpc[q] = "holding" =>
            (dclaim[p] = dclaim[q] => p = q)
    /\ \A p, q \in Proc : dpc[p] = "holding" => dclaim[p] \notin Queued(q)
    /\ \A p \in Proc, w \in Worker :
            dpc[p] = "holding" /\ Busy(w) => dclaim[p] # wjob[w]
    /\ \A p, q \in Proc : \A i \in DOMAIN jobs[p], j \in DOMAIN jobs[q] :
            jobs[p][i] = jobs[q][j] => p = q /\ i = j
    /\ \A p \in Proc, w \in Worker : Busy(w) => wjob[w] \notin Queued(p)
    /\ \A w, v \in Worker : Busy(w) /\ Busy(v) => (wjob[w] = wjob[v] => w = v)
    /\ \A w \in Worker : wpc[w] = "sent" =>
            \A a \in attempts : a[1] # wjob[w]

\* While no lease of a delivery has passed under a job (overrun), whoever has
\* a job of it has the only one: it is the row's latest claim, the row is
\* running and its lease holds.  In particular nobody works on a row that is
\* pending, finished or reclaimed after a crash.
SoleHolder ==
    \A c \in Held : c[1] \notin overrun =>
        /\ status[c[1]] = "running"
        /\ locked[c[1]]
        /\ attemptCount[c[1]] = c[2]
        /\ c \in live

\* A final status is earned: succeeded by a 2xx answer to a POST of this
\* delivery, dead by a non-retryable answer, or by a retryable one once the
\* attempts are used up.  Also when stale workers overwrite each other.
VerdictJustified ==
    \A d \in Delivery :
        /\ status[d] = "succeeded" => <<d, "ok">> \in answers
        /\ status[d] = "dead" =>
              \/ <<d, "fatal">> \in answers
              \/ <<d, "retry">> \in answers /\ attemptCount[d] >= MaxAttempts

\* The audit row is written before the verdict, in a statement of its own:
\* whatever crashes in between, a finished delivery has a row that says why,
\* unless the INSERT itself failed.
VerdictAudited ==
    \A d \in Delivery \ lostAudit : status[d] \in Terminal =>
        \E a \in attempts :
            /\ a[1][1] = d
            /\ a[2] = IF status[d] = "succeeded" THEN "succeeded" ELSE "failed"

\* Replays are refused while a delivery of the event is pending or running,
\* so among the deliveries no lease of which was overrun an event has at most
\* one that is active.
OneActiveDelivery ==
    \A x, y \in Delivery \ overrun :
        /\ status[x] \in Active /\ status[y] \in Active
        /\ eventOf[x] = eventOf[y]
        => x = y

\* attempt_count passes max_attempts only by as many as there were mishaps:
\* each crash, error or overrun lease costs a delivery at most one attempt.
AttemptsPaidFor ==
    \A d \in Delivery : attemptCount[d] <= MaxAttempts + mishaps

\* The attempts of d with no row in delivery_attempts.
Unaudited(d) == {n \in 1..attemptCount[d] : \A a \in attempts : a[1] # <<d, n>>}

\* A finished delivery lacks only as many audit rows as there were mishaps, also
\* when jobs of it are still queued, or workers overwrite each other's verdicts:
\* neither costs a record by itself.
AuditGapsPaidFor ==
    \A d \in Delivery :
        status[d] \in Terminal => Cardinality(Unaudited(d)) <= mishaps

\* The attempts of d that the target accepted, as far as they are recorded.
Accepted(d) == {n \in 1..attemptCount[d] : <<<<d, n>>, "succeeded">> \in attempts}

\* A delivery that was accepted is sent again only for a cause: it is accepted
\* once, and once more for each mishap at most.  A stale worker's ScheduleRetry over
\* a success, or a verdict that fails, starts no more than one further attempt.
DuplicatesPaidFor ==
    \A d \in Delivery : Cardinality(Accepted(d)) <= 1 + mishaps

----------------------------------------------------------------------------
(* Action properties *)

\* The state machine of the README, for every delivery no lease of which was
\* overrun: a final status stays, and only running rows change by a verdict.
StatusFollowsReadme ==
    [][\A d \in Delivery : d \notin overrun' /\ status'[d] # status[d] =>
          <<status[d], status'[d]>> \in
              {<<"absent", "pending">>, <<"pending", "running">>,
               <<"running", "succeeded">>, <<"running", "dead">>,
               <<"running", "pending">>}]_vars

\* Seen row by row, all processes together are the life of a delivery: it is
\* decided by an answer of its own, within its attempts, and goes on alone, as
\* long as no lease of it was overrun.
Life == INSTANCE DeliveryLifecycle WITH
            tries <- attemptCount, heard <- answers, stale <- overrun
ImplementsLifecycle == Life!LifeSpec

\* To its clients the pool is what EventApi takes it for: a delivery is finished
\* once, and is no reason to refuse a replay after that.  A delivery with a lease
\* that was overrun counts as finished, as it may be so more than once.
Log == INSTANCE EventLog WITH
          Key  <- Event,
          rows <- [e \in Event |-> RowsOf(e)],
          open <- {d \in Delivery \ overrun : status[d] \in Active}
ImplementsLog == Log!LogSpec

----------------------------------------------------------------------------
(* Liveness *)

\* Every delivery created is settled for good, through crashes, lost commits,
\* failed statements and overrun leases, as long as they are finite in number.
EventuallySettled ==
    \A d \in Delivery : status[d] = "pending" ~> [](status[d] \in Terminal)

\* Once poolCancel is called Start returns: neither the dispatcher nor a
\* worker waits for the other through the channel.
ShutdownCompletes == \A p \in Proc : phase[p] = "stopping" ~> phase[p] = "down"

----------------------------------------------------------------------------
(* What the repository's documentation says without the reservations above *)

\* README.md and model/event.go: succeeded and dead are the end of the state
\* machine; only a replay goes on, in a new row.
TerminalIsFinal ==
    [][\A d \in Delivery : status[d] \in Terminal => status'[d] = status[d]]_vars

\* max_attempts is the upper bound of attempt_count.
AttemptsWithinMax == \A d \in Delivery : attemptCount[d] <= MaxAttempts

\* DeliveryWorker.Process: a delivery that ran out of attempts, and had no answer
\* that forbids a retry, is dead with a complete record of its attempts.
DeadIsFullyAudited ==
    \A d \in Delivery :
        status[d] = "dead" /\ attemptCount[d] >= MaxAttempts /\ <<d, "fatal">> \notin answers
            => Unaudited(d) = {}

\* DeliveryPool.Start: after the dispatcher is gone the workers drain the
\* channel before they exit.
DrainedWhenStopped == \A p \in Proc : PoolStopped(p) => jobs[p] = <<>>

============================================================================
