----------------------------- MODULE PoolMetrics -----------------------------
(***************************************************************************)
(* The metrics that the goroutines of DeliveryPool keep: two gauges and    *)
(* the counter of final states.                                            *)
(*                                                                         *)
(* Each update is one atomic operation, but none is atomic with what it    *)
(* counts: the dispatcher sends, then increments; a worker receives, then  *)
(* decrements; a verdict is written, then counted.  due has the updates a  *)
(* goroutine still has to make before it goes on; two that follow each     *)
(* other are one step here, as they are of different metrics.              *)
(***************************************************************************)
EXTENDS DeliveryPool, Integers, FiniteSets

ASSUME MetricsAssumption == IsFiniteSet(Worker) /\ Proc \cap Worker = {}

VARIABLES
    queueDepth,     \* DeliveryQueueDepth of each process
    inFlight,       \* DeliveriesInFlight of each process
    finals,         \* DeliveryFinalStateTotal, summed over all processes
    due             \* the updates each goroutine has to make next

metricVars == <<queueDepth, inFlight, finals, due>>

Label == {"succeeded", "dead", "retry_scheduled"}

MetricsInit ==
    /\ PoolInit
    /\ queueDepth = [p \in Proc |-> 0]
    /\ inFlight   = [p \in Proc |-> 0]
    /\ finals     = [s \in Label |-> 0]
    /\ due        = [x \in Proc \cup Worker |-> {}]

----------------------------------------------------------------------------
(* The updates that follow a step *)

AfterSend == {"enqueued"}

\* Mutant: the branch of a job has no Dec.
AfterReceiveNoDec == {"begun"}

AfterReceive == {"taken", "begun"}

LabelOf(c, r) ==
    CASE r = "ok" -> "succeeded"
      [] r = "fatal" \/ (r = "retry" /\ LastAttempt(c)) -> "dead"
      [] OTHER -> "retry_scheduled"

AfterVerdict(c, r) == {LabelOf(c, r), "left"}

\* Mutants: Dec is not deferred, and a verdict is counted before its UPDATE.
AfterFailureNoDefer(c, r) == {}
AfterFailureCounted(c, r) == {LabelOf(c, r), "left"}

\* Process returns early when the UPDATE fails; Dec is deferred.
AfterFailure(c, r) == {"left"}

Then(x, updates) ==
    /\ due' = [due EXCEPT ![x] = updates]
    /\ UNCHANGED <<queueDepth, inFlight, finals>>

Dispatches(p) ==
    /\ due[p] = {}
    /\ \/ Enqueue(p) /\ Then(p, AfterSend)
       \/ /\ \/ PollNothing(p) \/ ClaimSelect(p) \/ ClaimCommit(p)
             \/ ClaimCommitLost(p) \/ ClaimAbort(p) \/ DispatcherStop(p)
          /\ UNCHANGED metricVars

Works(w) ==
    /\ due[w] = {}
    /\ \/ (Take(w) \/ TakeCancelled(w)) /\ Then(w, AfterReceive)
       \/ Settle(w) /\ Then(w, AfterVerdict(wjob[w], wres[w]))
       \/ SettleFails(w) /\ Then(w, AfterFailure(wjob[w], wres[w]))
       \/ /\ SendReturns(w) \/ Record(w) \/ RecordFails(w) \/ WorkerStop(w)
          /\ UNCHANGED metricVars

----------------------------------------------------------------------------
(* The updates themselves *)

ProcOf(x) == IF x \in Proc THEN x ELSE Host[x]

Delta(x, inc, dec) ==
    (IF inc \in due[x] THEN 1 ELSE 0) - (IF dec \in due[x] THEN 1 ELSE 0)

Update(x) ==
    /\ due[x] # {}
    /\ queueDepth' = [queueDepth EXCEPT ![ProcOf(x)] = @ + Delta(x, "enqueued", "taken")]
    /\ inFlight'   = [inFlight EXCEPT ![ProcOf(x)] = @ + Delta(x, "begun", "left")]
    /\ finals' = [s \in Label |-> IF s \in due[x] THEN finals[s] + 1 ELSE finals[s]]
    /\ due'    = [due EXCEPT ![x] = {}]
    /\ UNCHANGED vars

\* A new process has new metrics; what the old one did not count is lost.
Forget(p) ==
    /\ queueDepth' = [queueDepth EXCEPT ![p] = 0]
    /\ inFlight'   = [inFlight EXCEPT ![p] = 0]
    /\ due' = [x \in Proc \cup Worker |-> IF ProcOf(x) = p THEN {} ELSE due[x]]
    /\ UNCHANGED finals

Ends(p) ==
    /\ Exit(p) \/ ExitUnfinished(p) \/ Crash(p)
    /\ Forget(p)

MetricsNext ==
    \/ \E p \in Proc :
          \/ Dispatches(p) \/ Ends(p)
          \/ (Shutdown(p) \/ Restart(p)) /\ UNCHANGED metricVars
    \/ \E w \in Worker : Works(w)
    \/ \E x \in Proc \cup Worker : Update(x)
    \/ \E e \in Event : (Submit(e) \/ Replay(e)) /\ UNCHANGED metricVars
    \/ \E d \in Delivery : (RetryDue(d) \/ LeasePasses(d)) /\ UNCHANGED metricVars

MetricsSpec == MetricsInit /\ [][MetricsNext]_<<vars, metricVars>>

\* A goroutine that goes on, as Fairness obliges it to, makes its updates first.
FairMetricsSpec == MetricsSpec /\ Fairness

----------------------------------------------------------------------------
(* Invariants *)

Owing(p, u) == {w \in Worker : Host[w] = p /\ u \in due[w]}

\* DeliveryQueueDepth is the length of the channel but for the updates under
\* way: it is one too low (-1 for an empty channel) after a send not yet
\* counted, and too high by the workers that have received and not counted.
\* Nothing is ever lost or counted twice, in whichever order they update.
QueueDepthCounts ==
    \A p \in Proc :
        queueDepth[p] = Len(jobs[p]) + Cardinality(Owing(p, "taken"))
                            - IF "enqueued" \in due[p] THEN 1 ELSE 0

\* DeliveriesInFlight is the number of workers inside Process, again but for
\* the updates under way, also when Process returns early.
InFlightCounts ==
    \A p \in Proc :
        inFlight[p] = Cardinality({w \in Worker : Host[w] = p /\ Busy(w)})
                          + Cardinality(Owing(p, "left"))
                          - Cardinality(Owing(p, "begun"))

\* As long as no lease is overrun, a final state is counted for a delivery that
\* is in it, and once: the counter never exceeds the rows, replays included.
FinalsAreRows ==
    overrun = {} => \A s \in Terminal :
        finals[s] + Cardinality({w \in Worker : s \in due[w]})
            <= Cardinality({d \in Delivery : status[d] = s})

============================================================================
