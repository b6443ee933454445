------------------------- MODULE PoolVerdictProofs -------------------------
(***************************************************************************)
(* Proofs about DeliveryPool, 3: what becomes of a row.                    *)
(*                                                                         *)
(* The state machine and the single active delivery follow from Sole.  The *)
(* verdicts need no lease: VerdictInv follows a job from its answer to its *)
(* audit row to its verdict, whoever else works on the row.  SpentInv      *)
(* accounts for the attempts: each was the first, followed a retry or cost *)
(* a mishap.  OwedInv does so for the audit rows: each attempt has one, is *)
(* still to get one or cost a mishap.                                      *)
(***************************************************************************)
EXTENDS PoolClaimProofs, FiniteSetTheorems

----------------------------------------------------------------------------
(* The state machine *)

ReadmeMoves == {<<"pending", "running">>, <<"running", "succeeded">>,
                <<"running", "dead">>, <<"running", "pending">>}

\* What a step other than an INSERT does to the row d.
PoolMove(d) ==
    /\ eventOf'[d] = eventOf[d]
    /\ overrun \subseteq overrun'
    /\ d \notin overrun' /\ status'[d] # status[d] =>
           <<status[d], status'[d]>> \in ReadmeMoves

\* No step but an INSERT changes an event_id, or a status against the README.
LEMMA PoolStep ==
    ASSUME UniqueInv, Sole, NEW d \in Delivery,
           \/ UNCHANGED vars
           \/ \E p \in Proc : DispatcherStep(p) \/ ProcessStep(p)
           \/ \E w \in Worker : WorkerStep(w)
           \/ \E x \in Delivery : RetryDue(x) \/ LeasePasses(x)
    PROVE  PoolMove(d)
<1>1. TypeInv
    BY DEF UniqueInv
<1>2. CASE UNCHANGED <<status, eventOf>> /\ overrun \subseteq overrun'
    BY <1>2 DEF PoolMove
<1>3. ASSUME NEW p \in Proc, DispatcherStep(p)
      PROVE  PoolMove(d)
  <2>1. ASSUME dpc[p] = "selected", ClaimRow(dclaim[p][1]), UNCHANGED overrun
        PROVE  PoolMove(d)
    <3>1. Claimable(dclaim[p][1]) /\ dclaim[p][1] \in Delivery
        BY <2>1, SelectedIsNew DEF UniqueInv, RowsKept
    <3> QED
        BY <1>1, <2>1, <3>1
        DEF ClaimRow, Claimable, PoolMove, ReadmeMoves, TypeInv, StoreTypeOK
  <2> QED
    BY <1>2, <1>3, <2>1 DEF DispatcherStep, PollNothing, ClaimSelect, ClaimCommit,
        ClaimCommitLost, ClaimAbort, Enqueue, DispatcherStop, vars, storeVars,
        historyVars
<1>4. ASSUME NEW w \in Worker, WorkerStep(w)
      PROVE  PoolMove(d)
  <2>1. CASE Settle(w)
    <3>1. wjob[w] \in Claim /\ Current(wjob[w])
        BY <1>1, <2>1, HeldAreClaims DEF Settle, Busy, Sole
    <3>2. wjob[w][1] \in Delivery /\ UNCHANGED overrun
        BY <2>1, <3>1 DEF Claim, Settle, historyVars
    <3>3. Verdict(wjob[w], wres[w])
        BY <2>1 DEF Settle
    <3> QED
        BY <1>1, <3>1, <3>2, <3>3 DEF Verdict, MarkSucceeded, MarkDead,
            ScheduleRetry, Current, PoolMove, ReadmeMoves, TypeInv, StoreTypeOK
  <2> QED
    BY <1>2, <1>4, <2>1 DEF WorkerStep, Take, TakeCancelled, SendReturns, Record,
        RecordAttempt, RecordFails, SettleFails, WorkerStop, storeVars, historyVars
<1>5. ASSUME NEW p \in Proc, ProcessStep(p)
      PROVE  PoolMove(d)
    BY <1>2, <1>5 DEF ProcessStep, Shutdown, Exit, ExitUnfinished, Crash, Restart,
        End, storeVars, historyVars
<1>6. ASSUME NEW x \in Delivery, RetryDue(x) \/ LeasePasses(x)
      PROVE  PoolMove(d)
    BY <1>2, <1>6 DEF RetryDue, BackoffElapses, LeasePasses, LeaseElapses, historyVars
<1>7. CASE UNCHANGED vars
    BY <1>2, <1>7 DEF vars, storeVars, historyVars
<1> QED
    BY <1>3, <1>4, <1>5, <1>6, <1>7

\* What an INSERT does.
LEMMA InsertStep ==
    ASSUME TypeInv, NEW e \in Event, Submit(e) \/ Replay(e)
    PROVE  /\ UNCHANGED overrun
           /\ \A x \in RowsOf(e) : status[x] \notin Active
           /\ \E d \in Delivery :
                 /\ status[d] = "absent" /\ status'[d] = "pending"
                 /\ eventOf'[d] = e
                 /\ \A x \in Delivery \ {d} :
                        status'[x] = status[x] /\ eventOf'[x] = eventOf[x]
<1>1. InsertPending(e) /\ UNCHANGED overrun /\ \A x \in RowsOf(e) : status[x] \notin Active
    BY DEF Submit, Replay, CreateEventWithDelivery, CreateReplayDelivery, historyVars
<1> QED
    BY <1>1 DEF InsertPending, NextId, TypeInv, StoreTypeOK

\* A delivery no lease of which was overrun moves along the state machine of
\* the README only; in particular succeeded and dead are final for it.
THEOREM StatusIsReadme == Spec => StatusFollowsReadme
<1> DEFINE Follows ==
        \A d \in Delivery : d \notin overrun' /\ status'[d] # status[d] =>
          <<status[d], status'[d]>> \in
              {<<"absent", "pending">>, <<"pending", "running">>,
               <<"running", "succeeded">>, <<"running", "dead">>,
               <<"running", "pending">>}
<1>1. ASSUME UniqueInv, Sole, Next
      PROVE  Follows
  <2>1. CASE \E e \in Event : Submit(e) \/ Replay(e)
    BY <1>1, <2>1, InsertStep DEF UniqueInv
  <2>2. CASE ~\E e \in Event : Submit(e) \/ Replay(e)
    BY <1>1, <2>2, PoolStep DEF Next, PoolMove, ReadmeMoves
  <2> QED
    BY <2>1, <2>2
<1>2. UniqueInv /\ Sole /\ [Next]_vars => [Follows]_vars
    BY <1>1
<1> QED
    BY <1>2, SoleInvariant, PTL DEF Spec, StatusFollowsReadme

----------------------------------------------------------------------------
(* One active delivery per event *)

\* OneActiveDelivery is inductive, given UniqueInv and Sole.
LEMMA OneActiveNext ==
    UniqueInv /\ Sole /\ OneActiveDelivery /\ [Next]_vars => OneActiveDelivery'
<1> SUFFICES ASSUME UniqueInv, Sole, OneActiveDelivery, [Next]_vars
             PROVE  OneActiveDelivery'
    OBVIOUS
<1>1. CASE \E e \in Event : Submit(e) \/ Replay(e)
  <2>1. PICK e \in Event : Submit(e) \/ Replay(e)
    BY <1>1
  <2>2. UNCHANGED overrun /\ \A x \in RowsOf(e) : status[x] \notin Active
    BY <2>1, InsertStep DEF UniqueInv
  <2>3. PICK d \in Delivery :
            /\ eventOf'[d] = e
            /\ \A x \in Delivery \ {d} :
                   status'[x] = status[x] /\ eventOf'[x] = eventOf[x]
    BY <2>1, InsertStep DEF UniqueInv
  <2>4. \A x \in Delivery \ {d} : eventOf'[x] = e => status'[x] \notin Active
    BY <2>2, <2>3 DEF RowsOf
  <2> QED
    BY <2>2, <2>3, <2>4 DEF OneActiveDelivery
<1>2. CASE ~\E e \in Event : Submit(e) \/ Replay(e)
  <2>1. \A d \in Delivery : PoolMove(d)
    BY <1>2, PoolStep DEF Next
  <2>2. \A d \in Delivery \ overrun' :
            /\ status'[d] \in Active => status[d] \in Active
            /\ d \notin overrun /\ eventOf'[d] = eventOf[d]
    BY <2>1 DEF PoolMove, ReadmeMoves, Active
  <2> QED
    BY <2>2 DEF OneActiveDelivery
<1> QED
    BY <1>1, <1>2

\* Of the deliveries no lease of which was overrun, an event never has two
\* pending or running.
THEOREM OneActive == Spec => []OneActiveDelivery
<1>1. PoolInit => OneActiveDelivery
    BY DEF PoolInit, StoreInit, OneActiveDelivery, Active
<1> QED
    BY <1>1, OneActiveNext, SoleInvariant, PTL DEF Spec

----------------------------------------------------------------------------
(* Verdicts *)

\* Between Send and the verdict a worker has an answer to show, and once past
\* RecordAttempt an audit row, unless that INSERT failed.
Answered(w) ==
    wpc[w] \in {"sent", "recorded"} => <<wjob[w][1], wres[w]>> \in answers

Audited(w) ==
    wpc[w] = "recorded" =>
        wjob[w][1] \in lostAudit \/ <<wjob[w], OutcomeOf(wres[w])>> \in attempts

VerdictInv ==
    /\ \A w \in Worker : Answered(w) /\ Audited(w)
    /\ VerdictJustified
    /\ VerdictAudited

\* The histories, the audit and attempt_count only grow.
Grows ==
    /\ answers \subseteq answers'
    /\ lostAudit \subseteq lostAudit'
    /\ attempts \subseteq attempts'
    /\ \A d \in Delivery : attemptCount[d] <= attemptCount'[d]

\* A step that decides no row and brings no worker to an answer or a record.
LEMMA NoVerdict ==
    ASSUME TypeInv, TypeInv', VerdictInv, Grows,
           \A d \in Delivery : status'[d] \in Terminal => status'[d] = status[d],
           \A w \in Worker : wpc'[w] \in {"sent", "recorded"} =>
               (wpc'[w] = wpc[w] /\ wjob'[w] = wjob[w] /\ wres'[w] = wres[w])
    PROVE  VerdictInv'
<1>1. \A w \in Worker : Answered(w)' /\ Audited(w)'
    BY DEF VerdictInv, Answered, Audited, Grows
<1>2. \A d \in Delivery : status'[d] = "succeeded" \/ status'[d] = "dead" =>
          status'[d] = status[d]
    BY DEF Terminal
<1>3. attemptCount \in [Delivery -> Nat] /\ attemptCount' \in [Delivery -> Nat]
    BY DEF TypeInv, StoreTypeOK
<1>4. \A d \in Delivery :
          attemptCount[d] >= MaxAttempts => attemptCount'[d] >= MaxAttempts
    BY <1>3, StoreAssumption DEF Grows
<1>5. VerdictJustified'
    BY <1>2, <1>4 DEF VerdictInv, VerdictJustified, Grows
<1>6. VerdictAudited'
    BY DEF VerdictInv, VerdictAudited, Grows
<1> QED
    BY <1>1, <1>5, <1>6 DEF VerdictInv

\* The verdict a worker writes is the one its answer and audit row justify.
LEMMA VerdictSettle ==
    ASSUME UniqueInv, TypeInv', VerdictInv, NEW w \in Worker, Settle(w)
    PROVE  VerdictInv'
<1> DEFINE c == wjob[w]
           r == wres[w]
           d == c[1]
<1>1. /\ c \in Claim /\ d \in Delivery /\ c[2] \in Nat /\ r \in Result
      /\ <<d, r>> \in answers
      /\ d \in lostAudit \/ <<c, OutcomeOf(r)>> \in attempts
      /\ c[2] <= attemptCount[d] /\ attemptCount[d] \in Nat
    BY DEF Settle, UniqueInv, TypeInv, AtClaim, Busy, Claim, VerdictInv, Answered,
        Audited, AllCounted, Counted, StoreTypeOK
<1>2. UNCHANGED <<answers, lostAudit, attempts, attemptCount>>
    BY DEF Settle, Verdict, MarkSucceeded, MarkDead, ScheduleRetry, historyVars
<1>3. \A v \in Worker : Answered(v)' /\ Audited(v)'
    BY <1>2 DEF Settle, WorkerIdle, VerdictInv, Answered, Audited, UniqueInv,
        TypeInv, PoolTypeOK
<1>4. Verdict(c, r)
    BY DEF Settle
<1>5. \A x \in Delivery \ {d} : status'[x] = status[x]
    BY <1>1, <1>4, VerdictEffect DEF UniqueInv
<1>6. \/ status'[d] = "pending"
      \/ status'[d] = "succeeded" /\ r = "ok"
      \/ status'[d] = "dead" /\ (r = "fatal" \/ (r = "retry" /\ c[2] >= MaxAttempts))
    BY <1>1, <1>4 DEF Verdict, MarkSucceeded, MarkDead, ScheduleRetry, LastAttempt,
        UniqueInv, TypeInv, StoreTypeOK
<1>7. VerdictJustified'
  <2>1. c[2] >= MaxAttempts => attemptCount[d] >= MaxAttempts
    BY <1>1, StoreAssumption
  <2> QED
    BY <1>1, <1>2, <1>5, <1>6, <2>1 DEF VerdictInv, VerdictJustified
<1>8. VerdictAudited'
  <2>1. <<c, OutcomeOf(r)>>[1][1] = d /\ <<c, OutcomeOf(r)>>[2] = OutcomeOf(r)
    OBVIOUS
  <2>2. status'[d] \in Terminal =>
            OutcomeOf(r) = IF status'[d] = "succeeded" THEN "succeeded" ELSE "failed"
    BY <1>6 DEF Terminal, OutcomeOf
  <2>3. d \notin lostAudit' /\ status'[d] \in Terminal =>
            \E a \in attempts' :
                /\ a[1][1] = d
                /\ a[2] = IF status'[d] = "succeeded" THEN "succeeded" ELSE "failed"
    BY <1>1, <1>2, <2>1, <2>2
  <2>4. \A x \in Delivery \ {d} : x \notin lostAudit' /\ status'[x] \in Terminal =>
            \E a \in attempts' :
                /\ a[1][1] = x
                /\ a[2] = IF status'[x] = "succeeded" THEN "succeeded" ELSE "failed"
    BY <1>2, <1>5 DEF VerdictInv, VerdictAudited
  <2> QED
    BY <2>3, <2>4 DEF VerdictAudited
<1> QED
    BY <1>3, <1>7, <1>8 DEF VerdictInv

\* Process keeps VerdictInv.
LEMMA VerdictWorker ==
    ASSUME UniqueInv, TypeInv', VerdictInv, NEW w \in Worker, WorkerStep(w)
    PROVE  VerdictInv'
<1>1. TypeInv /\ wpc \in [Worker -> {"idle", "sending", "sent", "recorded", "stopped"}]
      /\ wjob \in [Worker -> Claim \cup {NoClaim}] /\ wres \in [Worker -> Result \cup {"none"}]
      /\ attemptCount \in [Delivery -> Nat]
    BY DEF UniqueInv, TypeInv, PoolTypeOK, StoreTypeOK
<1>2. CASE Take(w) \/ WorkerStop(w)
    BY <1>1, <1>2, NoVerdict DEF Take, WorkerStop, Receive, Grows, storeVars, historyVars
<1>3. CASE SettleFails(w)
    BY <1>1, <1>3, NoVerdict DEF SettleFails, WorkerIdle, Grows, storeVars, historyVars
<1>4. CASE Settle(w)
    BY <1>4, VerdictSettle
<1>5. ASSUME Grows, UNCHANGED status, \A v \in Worker : Answered(v)' /\ Audited(v)'
      PROVE  VerdictInv'
    BY <1>1, <1>5, StoreAssumption
    DEF VerdictInv, VerdictJustified, VerdictAudited, Grows, TypeInv, StoreTypeOK
<1>6. CASE TakeCancelled(w) \/ SendReturns(w)
  <2>1. PICK c, r : SendReturned(w, c, r) /\ c = wjob'[w]
    BY <1>1, <1>6 DEF TakeCancelled, Receive, SendReturns
  <2>2. UNCHANGED <<storeVars, lostAudit>> /\ \A v \in Worker \ {w} : wjob'[v] = wjob[v]
    BY <1>1, <1>6 DEF TakeCancelled, Receive, SendReturns
  <2>3. \A v \in Worker : Answered(v)' /\ Audited(v)'
    BY <1>1, <2>1, <2>2 DEF SendReturned, VerdictInv, Answered, Audited, storeVars
  <2>4. Grows
    BY <1>1, <2>1, <2>2 DEF SendReturned, Grows, storeVars
  <2> QED
    BY <1>5, <2>2, <2>3, <2>4 DEF storeVars
<1>7. CASE Record(w)
  <2>1. Grows /\ UNCHANGED status
    BY <1>1, <1>7 DEF Record, RecordAttempt, Grows, historyVars
  <2>2. \A v \in Worker : Answered(v)' /\ Audited(v)'
    BY <1>1, <1>7 DEF Record, RecordAttempt, VerdictInv, Answered, Audited, historyVars
  <2> QED
    BY <1>5, <2>1, <2>2
<1>8. CASE RecordFails(w)
  <2>1. Grows /\ UNCHANGED status
    BY <1>1, <1>8 DEF RecordFails, Grows, storeVars
  <2>2. \A v \in Worker : Answered(v)' /\ Audited(v)'
    BY <1>1, <1>8 DEF RecordFails, VerdictInv, Answered, Audited, storeVars
  <2> QED
    BY <1>5, <2>1, <2>2
<1> QED
    BY <1>2, <1>3, <1>4, <1>6, <1>7, <1>8 DEF WorkerStep

\* VerdictInv is inductive, given UniqueInv.
LEMMA VerdictNext == UniqueInv /\ TypeInv' /\ VerdictInv /\ [Next]_vars => VerdictInv'
<1> SUFFICES ASSUME UniqueInv, TypeInv', VerdictInv, [Next]_vars PROVE VerdictInv'
    OBVIOUS
<1>1. TypeInv /\ attemptCount \in [Delivery -> Nat]
    BY DEF UniqueInv, TypeInv, StoreTypeOK
<1>2. ASSUME NEW p \in Proc, DispatcherStep(p)
      PROVE  VerdictInv'
  <2>1. UNCHANGED <<workerVars, historyVars>>
    BY <1>2 DEF DispatcherStep, PollNothing, ClaimSelect, ClaimCommit,
        ClaimCommitLost, ClaimAbort, Enqueue, DispatcherStop, vars
  <2>2. ASSUME dpc[p] = "selected", ClaimRow(dclaim[p][1])
        PROVE  VerdictInv'
    <3>1. dclaim[p][1] \in Delivery
        BY <2>2, SelectedIsNew
    <3>2. Grows
        BY <1>1, <2>1, <2>2, <3>1, ClaimRowEffect DEF Grows, historyVars
    <3>3. \A d \in Delivery : status'[d] \in Terminal => status'[d] = status[d]
        BY <1>1, <2>2, <3>1 DEF ClaimRow, Terminal, TypeInv, StoreTypeOK
    <3> QED
        BY <1>1, <2>1, <3>2, <3>3, NoVerdict DEF workerVars
  <2>3. CASE UNCHANGED storeVars
    <3>1. Grows
        BY <1>1, <2>1, <2>3 DEF Grows, storeVars, historyVars
    <3> QED
        BY <1>1, <2>1, <2>3, <3>1, NoVerdict DEF storeVars, workerVars
  <2> QED
    BY <1>2, <2>2, <2>3 DEF DispatcherStep, PollNothing, ClaimSelect, ClaimCommit,
        ClaimCommitLost, ClaimAbort, Enqueue, DispatcherStop, vars
<1>3. ASSUME NEW w \in Worker, WorkerStep(w)
      PROVE  VerdictInv'
    BY <1>3, VerdictWorker
<1>4. ASSUME NEW p \in Proc, ProcessStep(p)
      PROVE  VerdictInv'
  <2>1. UNCHANGED <<storeVars, historyVars>>
    BY <1>4 DEF ProcessStep, Shutdown, Exit, ExitUnfinished, Crash, Restart, End
  <2>2. \A w \in Worker : wpc'[w] \in {"sent", "recorded"} =>
            (wpc'[w] = wpc[w] /\ wjob'[w] = wjob[w] /\ wres'[w] = wres[w])
    BY <1>1, <1>4 DEF ProcessStep, Shutdown, Exit, ExitUnfinished, Crash, Restart,
        End, workerVars, TypeInv, PoolTypeOK
  <2> QED
    BY <1>1, <2>1, <2>2, NoVerdict DEF Grows, storeVars, historyVars
<1>5. ASSUME NEW e \in Event, Submit(e) \/ Replay(e)
      PROVE  VerdictInv'
  <2>1. \A d \in Delivery : status'[d] \in Terminal => status'[d] = status[d]
    BY <1>1, <1>5, InsertStep DEF Terminal
  <2>2. UNCHANGED <<attemptCount, attempts, poolVars, historyVars>>
    BY <1>5 DEF Submit, Replay, CreateEventWithDelivery, CreateReplayDelivery, InsertPending
  <2> QED
    BY <1>1, <2>1, <2>2, NoVerdict DEF Grows, poolVars, workerVars, historyVars
<1>6. ASSUME NEW d \in Delivery, RetryDue(d) \/ LeasePasses(d)
      PROVE  VerdictInv'
  <2>1. UNCHANGED <<status, attemptCount, attempts, poolVars, answers, lostAudit>>
    BY <1>6 DEF RetryDue, BackoffElapses, LeasePasses, LeaseElapses, historyVars
  <2>2. Grows
    BY <1>1, <2>1 DEF Grows
  <2> QED
    BY <1>1, <2>1, <2>2, NoVerdict DEF poolVars, workerVars
<1>7. CASE UNCHANGED vars
  <2>1. Grows
    BY <1>1, <1>7 DEF Grows, vars, storeVars, historyVars
  <2> QED
    BY <1>1, <1>7, <2>1, NoVerdict DEF vars, storeVars, workerVars
<1>8. CASE Next
    BY <1>2, <1>3, <1>4, <1>5, <1>6, <1>8 DEF Next
<1> QED
    BY <1>7, <1>8

\* VerdictInv holds in every reachable state.
THEOREM VerdictInvariant == Spec => []VerdictInv
<1>1. PoolInit => VerdictInv
    BY DEF PoolInit, StoreInit, VerdictInv, Answered, Audited, VerdictJustified,
        VerdictAudited, Terminal
<1> QED
    BY <1>1, UniqueInvariant, VerdictNext, TypeInvNext, PTL DEF Spec, UniqueInv

\* A final status is earned by an answer to a POST of that delivery, and a
\* delivery is dead by retryable answers only after MaxAttempts claims.
THEOREM VerdictsAreJustified == Spec => []VerdictJustified
<1>1. VerdictInv => VerdictJustified
    BY DEF VerdictInv
<1> QED
    BY <1>1, VerdictInvariant, PTL

\* A finished delivery has an audit row of the matching outcome, unless one of
\* its RecordAttempt statements failed.
THEOREM VerdictsAreAudited == Spec => []VerdictAudited
<1>1. VerdictInv => VerdictAudited
    BY DEF VerdictInv
<1> QED
    BY <1>1, VerdictInvariant, PTL

----------------------------------------------------------------------------
(* The life of a delivery *)

\* A row that is not inserted yet has no event, no claim and no lease.
FreshInv ==
    \A d \in Delivery : status[d] = "absent" =>
        eventOf[d] = NoEvent /\ attemptCount[d] = 0 /\ d \notin overrun

\* What a step means to DeliveryLifecycle.
LEMMA LifeStep ==
    ASSUME UniqueInv, UniqueInv', Sole, VerdictInv, FreshInv, [Next]_vars
    PROVE  [Life!LifeNext]_(Life!lifeVars)
<1> USE PoolAssumption
<1>1. TypeInv /\ attemptCount \in [Delivery -> Nat] /\ status \in [Delivery -> Status]
    BY DEF UniqueInv, TypeInv, StoreTypeOK
<1>2. CASE UNCHANGED <<status, eventOf, attemptCount, historyVars>>
    BY <1>2 DEF Life!lifeVars, historyVars
<1>3. ASSUME NEW p \in Proc, dpc[p] = "selected", ClaimRow(dclaim[p][1]),
             UNCHANGED historyVars
      PROVE  Life!LifeNext
  <2>1. dclaim[p][1] \in Delivery /\ Claimable(dclaim[p][1])
    BY <1>3, SelectedIsNew DEF UniqueInv, RowsKept
  <2>2. Life!Try(dclaim[p][1])
    BY <1>3, <2>1 DEF ClaimRow, Claimable, Life!Try, Life!UnderWay, historyVars
  <2> QED
    BY <2>1, <2>2 DEF Life!LifeNext
<1>4. ASSUME NEW w \in Worker, NEW c \in Claim, NEW r \in Result, Current(c),
             SendReturned(w, c, r), UNCHANGED <<storeVars, overrun>>
      PROVE  Life!LifeNext
  <2>1. c[1] \in Delivery
    BY DEF Claim
  <2>2. Life!Hear(c[1], r)
    BY <1>4 DEF Current, SendReturned, Life!Hear, storeVars
  <2> QED
    BY <2>1, <2>2 DEF Life!LifeNext, Result
<1>5. ASSUME NEW w \in Worker, SendReturns(w)
      PROVE  Life!LifeNext
  <2>1. wjob[w] \in Claim /\ Current(wjob[w])
    BY <1>1, <1>5, HeldAreClaims DEF SendReturns, Busy, Sole
  <2> QED
    BY <1>4, <1>5, <2>1 DEF SendReturns
<1>6. ASSUME NEW w \in Worker, TakeCancelled(w)
      PROVE  Life!LifeNext
  <2> DEFINE s == jobs[Host[w]]
  <2>1. s \in Seq(Claim) /\ s # <<>> /\ Host[w] \in Proc
    BY <1>1, <1>6 DEF TakeCancelled, Receive, TypeInv, PoolTypeOK
  <2>2. Head(s) = s[1] /\ 1 \in 1..Len(s)
    BY <2>1, TailAt
  <2>3. Head(s) \in Claim /\ Current(Head(s))
    BY <1>1, <2>1, <2>2, HeldAreClaims DEF Sole
  <2>4. PICK r \in {"retry", "fatal"} : SendReturned(w, Head(s), r)
    BY <1>6 DEF TakeCancelled
  <2> QED
    BY <1>4, <1>6, <2>3, <2>4 DEF TakeCancelled, Result
<1>7. ASSUME NEW w \in Worker, Settle(w)
      PROVE  Life!LifeNext
  <2> DEFINE c == wjob[w]
             d == wjob[w][1]
             r == wres[w]
  <2>1. c \in Claim /\ Current(c) /\ d \in Delivery /\ c[2] \in Nat
    BY <1>1, <1>7, HeldAreClaims DEF Settle, Busy, Sole, Claim
  <2>2. <<d, r>> \in answers /\ c[2] <= attemptCount[d]
    BY <1>7 DEF Settle, Busy, VerdictInv, Answered, UniqueInv, AllCounted, Counted
  <2>3. Verdict(c, r) /\ UNCHANGED historyVars
    BY <1>7 DEF Settle
  <2>4. UNCHANGED <<attemptCount, eventOf>>
    BY <1>1, <2>1, <2>3, VerdictEffect
  <2>5. PICK s : status' = [status EXCEPT ![d] = s] /\ s \in Life!Allowed(d)
    <3>1. CASE r = "ok" /\ MarkSucceeded(d)
      BY <2>2, <3>1 DEF MarkSucceeded, Life!Allowed
    <3>2. CASE r = "fatal" /\ MarkDead(d)
      BY <2>2, <3>2 DEF MarkDead, Life!Allowed
    <3>3. CASE r = "retry" /\ LastAttempt(c) /\ MarkDead(d)
      <4>1. attemptCount[d] >= MaxAttempts
        BY <1>1, <2>1, <2>2, <3>3, StoreAssumption DEF LastAttempt
      <4> QED
        BY <2>2, <3>3, <4>1 DEF MarkDead, Life!Allowed
    <3>4. CASE r = "retry" /\ ~LastAttempt(c) /\ ScheduleRetry(d)
      <4>1. attemptCount[d] < MaxAttempts \/ d \in overrun
        BY <1>1, <2>1, <3>4, StoreAssumption DEF LastAttempt, Current
      <4> QED
        BY <2>2, <3>4, <4>1 DEF ScheduleRetry, Life!Allowed
    <3> QED
      BY <2>3, <3>1, <3>2, <3>3, <3>4 DEF Verdict
  <2>6. Life!Decide(d)
    BY <2>1, <2>3, <2>4, <2>5 DEF Current, Life!Decide, historyVars
  <2> QED
    BY <2>1, <2>6 DEF Life!LifeNext
<1>8. ASSUME NEW e \in Event, Submit(e) \/ Replay(e)
      PROVE  Life!LifeNext
  <2>1. PICK d \in Delivery :
            /\ NextId(d)
            /\ status'  = [status EXCEPT ![d] = "pending"]
            /\ eventOf' = [eventOf EXCEPT ![d] = e]
    BY <1>8 DEF Submit, Replay, CreateEventWithDelivery, CreateReplayDelivery, InsertPending
  <2>2. \A x \in Delivery : eventOf[x] = e => status[x] \notin Active
    BY <1>8, InsertStep DEF RowsOf, UniqueInv
  <2>3. UNCHANGED <<attemptCount, historyVars>>
    BY <1>8 DEF Submit, Replay, CreateEventWithDelivery, CreateReplayDelivery, InsertPending
  <2>4. Life!Create(d, e)
    BY <2>1, <2>2, <2>3 DEF NextId, Active, Life!Create, Life!UnderWay, historyVars
  <2> QED
    BY <2>4 DEF Life!LifeNext
<1>9. ASSUME NEW d \in Delivery, LeasePasses(d)
      PROVE  [Life!LifeNext]_(Life!lifeVars)
  <2>1. UNCHANGED <<status, eventOf, attemptCount, answers, lostAudit>>
    BY <1>9 DEF LeasePasses, LeaseElapses
  <2>2. CASE UNCHANGED overrun
    BY <1>2, <2>1, <2>2 DEF historyVars
  <2>3. CASE overrun' = overrun \cup {d}
    <3>0. status[d] # "absent"
      <4>1. CASE UNCHANGED overrun
        BY <2>3, <4>1 DEF FreshInv
      <4>2. CASE \E c \in Held : c[1] = d
        <5>1. PICK c \in Held : c[1] = d
          BY <4>2
        <5>2. c \in Claim /\ c[2] <= attemptCount[d]
          BY <1>1, <5>1, HeldClaims DEF UniqueInv, AllCounted, Counted
        <5> QED
          BY <1>1, <5>2 DEF FreshInv, Claim
      <4> QED
        BY <1>9, <4>1, <4>2 DEF LeasePasses
    <3>1. Life!GoStale(d)
      BY <2>1, <2>3, <3>0 DEF Life!GoStale
    <3> QED
      BY <3>1 DEF Life!LifeNext
  <2> QED
    BY <1>9, <2>2, <2>3 DEF LeasePasses
<1>10. ASSUME NEW p \in Proc, DispatcherStep(p)
       PROVE  [Life!LifeNext]_(Life!lifeVars)
    BY <1>2, <1>3, <1>10 DEF DispatcherStep, PollNothing, ClaimSelect, ClaimCommit,
        ClaimCommitLost, ClaimAbort, Enqueue, DispatcherStop, vars, storeVars
<1>11. ASSUME NEW w \in Worker, WorkerStep(w)
       PROVE  [Life!LifeNext]_(Life!lifeVars)
  <2>1. CASE SendReturns(w) \/ TakeCancelled(w) \/ Settle(w)
    BY <1>5, <1>6, <1>7, <2>1
  <2>2. CASE RecordFails(w)
    BY <2>2 DEF RecordFails, storeVars, Life!lifeVars
  <2>3. CASE Take(w) \/ Record(w) \/ SettleFails(w) \/ WorkerStop(w)
    BY <1>2, <2>3 DEF Take, Record, RecordAttempt, SettleFails, WorkerStop, storeVars
  <2> QED
    BY <1>11, <2>1, <2>2, <2>3 DEF WorkerStep
<1>12. ASSUME NEW p \in Proc, ProcessStep(p)
       PROVE  [Life!LifeNext]_(Life!lifeVars)
    BY <1>2, <1>12 DEF ProcessStep, Shutdown, Exit, ExitUnfinished, Crash, Restart,
        End, storeVars
<1>13. ASSUME NEW d \in Delivery, RetryDue(d)
       PROVE  [Life!LifeNext]_(Life!lifeVars)
    BY <1>2, <1>13 DEF RetryDue, BackoffElapses
<1>14. CASE UNCHANGED vars
    BY <1>2, <1>14 DEF vars, storeVars
<1> QED
    BY <1>8, <1>9, <1>10, <1>11, <1>12, <1>13, <1>14 DEF Next

\* Only an INSERT makes an absent row another, and gives it its event.
LEMMA FreshNext ==
    ASSUME TypeInv, FreshInv, [Life!LifeNext]_(Life!lifeVars)
    PROVE  FreshInv'
<1>1. status \in [Delivery -> Status] /\ eventOf \in [Delivery -> Event \cup {NoEvent}]
      /\ attemptCount \in [Delivery -> Nat]
    BY DEF TypeInv, StoreTypeOK
<1>2. CASE UNCHANGED Life!lifeVars
    BY <1>2 DEF Life!lifeVars, FreshInv
<1>3. ASSUME NEW d \in Delivery,
             (\E e \in Event : Life!Create(d, e)) \/ Life!Try(d) \/ Life!GoStale(d)
             \/ \E r \in {"ok", "retry", "fatal"} : Life!Hear(d, r)
      PROVE  FreshInv'
    BY <1>1, <1>3 DEF Life!Create, Life!Try, Life!GoStale, Life!Hear, Life!UnderWay, FreshInv
<1>4. ASSUME NEW d \in Delivery, Life!Decide(d)
      PROVE  FreshInv'
  <2>1. PICK s \in Life!Allowed(d) : status' = [status EXCEPT ![d] = s]
    BY <1>4 DEF Life!Decide
  <2>2. s # "absent"
    BY <2>1 DEF Life!Allowed
  <2>3. UNCHANGED <<eventOf, attemptCount, overrun>>
    BY <1>4 DEF Life!Decide
  <2> QED
    BY <1>1, <2>1, <2>2, <2>3 DEF FreshInv
<1> QED
    BY <1>2, <1>3, <1>4 DEF Life!LifeNext

\* FreshInv is kept, and with it every step is one of DeliveryLifecycle.
LEMMA LifeInvariant == Spec => /\ []FreshInv
                               /\ [][Life!LifeNext]_(Life!lifeVars)
<1>1. PoolInit => FreshInv
    BY DEF PoolInit, StoreInit, FreshInv
<1>2. UniqueInv /\ UniqueInv' /\ Sole /\ VerdictInv /\ FreshInv /\ [Next]_vars
          => [Life!LifeNext]_(Life!lifeVars)
    BY LifeStep
<1>3. UniqueInv /\ FreshInv /\ [Life!LifeNext]_(Life!lifeVars) => FreshInv'
    BY FreshNext DEF UniqueInv
<1> QED
    BY <1>1, <1>2, <1>3, SoleInvariant, VerdictInvariant, PTL DEF Spec

\* All processes together, in any number, take every delivery through the life
\* that DeliveryLifecycle allows it.
THEOREM PoolImplementsLifecycle == Spec => ImplementsLifecycle
<1>1. PoolInit => Life!LifeInit
    BY DEF PoolInit, StoreInit, Life!LifeInit
<1> QED
    BY <1>1, LifeInvariant, PTL DEF Spec, ImplementsLifecycle, Life!LifeSpec

----------------------------------------------------------------------------
(* What clients see *)

rowsOf == [e \in Event |-> RowsOf(e)]
openRows == {d \in Delivery \ overrun : status[d] \in Active}

\* What a step of a delivery's life means to EventLog.
LEMMA LogStep ==
    ASSUME TypeInv, FreshInv, [Life!LifeNext]_(Life!lifeVars)
    PROVE  [Log!LogNext]_(Log!logVars)
<1> USE DEF Log!logVars, RowsOf
<1>1. /\ status \in [Delivery -> Status] /\ eventOf \in [Delivery -> Event \cup {NoEvent}]
      /\ NoEvent \notin Event
    BY StoreAssumption DEF TypeInv, StoreTypeOK
<1>2. CASE UNCHANGED <<status, eventOf, overrun>>
    BY <1>2
<1>3. ASSUME NEW d \in Delivery, NEW e \in Event, Life!Create(d, e)
      PROVE  Log!LogNext
  <2>1. /\ status[d] = "absent" /\ eventOf[d] = NoEvent /\ d \notin overrun
        /\ status' = [status EXCEPT ![d] = "pending"]
        /\ eventOf' = [eventOf EXCEPT ![d] = e]
        /\ overrun' = overrun
        /\ \A x \in Delivery : eventOf[x] = e => status[x] \notin Active
    BY <1>3 DEF Life!Create, Life!UnderWay, FreshInv, Active
  <2>2. rowsOf' = [rowsOf EXCEPT ![e] = @ \cup {d}]
    <3>1. ASSUME NEW f \in Event
          PROVE  RowsOf(f)' = IF f = e THEN RowsOf(e) \cup {d} ELSE RowsOf(f)
      BY <1>1, <2>1
    <3> QED
      BY <3>1 DEF rowsOf
  <2>3. openRows' = openRows \cup {d}
    BY <1>1, <2>1 DEF openRows, Active
  <2>4. Log!New(d)
    BY <1>1, <2>1 DEF Log!New
  <2>5. Log!Add(e, d)
    BY <2>2, <2>3, <2>4 DEF Log!Add, rowsOf, openRows
  <2>6. RowsOf(e) \cap openRows = {}
    BY <2>1 DEF openRows
  <2>7. Log!Accept(e, d) \/ Log!ReplayEvent(e, d)
    BY <2>5, <2>6 DEF Log!Accept, Log!ReplayEvent, rowsOf, openRows
  <2> QED
    BY <2>7 DEF Log!LogNext
<1>4. ASSUME NEW d \in Delivery, Life!Decide(d) \/ Life!GoStale(d) \/ Life!Try(d)
      PROVE  [Log!LogNext]_(Log!logVars)
  <2>1. /\ UNCHANGED eventOf
        /\ openRows' = openRows \/ (d \in openRows /\ openRows' = openRows \ {d})
    BY <1>1, <1>4 DEF Life!Decide, Life!GoStale, Life!Try, Life!UnderWay, Life!Allowed,
        openRows, Active
  <2>2. rowsOf' = rowsOf
    BY <2>1 DEF rowsOf
  <2>3. CASE openRows' = openRows
    BY <2>2, <2>3 DEF rowsOf, openRows
  <2>4. CASE d \in openRows /\ openRows' = openRows \ {d}
    <3>1. Log!Settle(d)
      BY <2>2, <2>4 DEF Log!Settle, rowsOf, openRows
    <3> QED
      BY <3>1 DEF Log!LogNext
  <2> QED
    BY <2>1, <2>3, <2>4
<1>5. ASSUME NEW d \in Delivery, NEW r, Life!Hear(d, r)
      PROVE  UNCHANGED <<status, eventOf, overrun>>
    BY <1>5 DEF Life!Hear
<1> QED
    BY <1>2, <1>3, <1>4, <1>5 DEF Life!LifeNext, Life!lifeVars

\* To its clients the pool is what EventApi takes it for: it finishes a delivery
\* once, and adds none to an event but an accepted first one or a replay while
\* no other is under way.
THEOREM PoolImplementsLog == Spec => ImplementsLog
<1>1. PoolInit => Log!LogInit
    BY StoreAssumption DEF PoolInit, StoreInit, Log!LogInit, RowsOf, Active
<1>2. UniqueInv /\ FreshInv /\ [Life!LifeNext]_(Life!lifeVars)
          => [Log!LogNext]_(Log!logVars)
    BY LogStep DEF UniqueInv
<1> QED
    BY <1>1, <1>2, LifeInvariant, UniqueInvariant, PTL DEF Spec, ImplementsLog, Log!LogSpec

----------------------------------------------------------------------------
(* Attempts are paid for *)

\* The process p has a job of claim c.
Carries(p, c) ==
    \/ dpc[p] = "holding" /\ c = dclaim[p]
    \/ \E i \in 1..Len(jobs[p]) : c = jobs[p][i]
    \/ \E w \in Worker : Host[w] = p /\ Busy(w) /\ c = wjob[w]

Latest(d) == <<d, attemptCount[d]>>

\* The attempts that may still end in ScheduleRetry.
ToRetry(d) ==
    {n \in 1..(MaxAttempts - 1) :
        n > attemptCount[d] \/ \E p \in Proc : Carries(p, <<d, n>>)}

\* The latest claim is in good hands.
Guarded(d) ==
    /\ status[d] = "running" /\ Latest(d) \in live
    /\ \E p \in Proc : phase[p] = "up" /\ Carries(p, Latest(d))

\* The row may be claimed without a further mishap or verdict ...
Due(d) == status[d] \notin Terminal /\ ~Guarded(d)

\* ... and once more, as a process that was shut down may commit its claim.
DueTwice(d) ==
    \E p \in Proc : phase[p] # "up" /\ dpc[p] = "selected" /\ dclaim[p][1] = d

\* The attempts made, the claims that are due and the retries to come.
Spent(d) ==
    attemptCount[d] + (IF Due(d) THEN 1 ELSE 0) + (IF DueTwice(d) THEN 1 ELSE 0)
        + Cardinality(ToRetry(d))

SpentInv == \A d \in Delivery : Spent(d) <= MaxAttempts + mishaps

\* The retries to come are finite in number.
LEMMA ToRetryFinite ==
    ASSUME NEW d
    PROVE  IsFiniteSet(ToRetry(d)) /\ Cardinality(ToRetry(d)) \in Nat
<1>1. IsFiniteSet(1..(MaxAttempts - 1))
  BY StoreAssumption, FS_Interval
<1>2. ToRetry(d) \in SUBSET (1..(MaxAttempts - 1))
  BY DEF ToRetry
<1>3. IsFiniteSet(ToRetry(d))
  BY <1>1, <1>2, FS_Subset
<1> QED BY <1>3, FS_CardinalityType

\* In the next state, too.
LEMMA ToRetryFiniteNext ==
    ASSUME NEW d
    PROVE  IsFiniteSet(ToRetry(d)') /\ Cardinality(ToRetry(d)') \in Nat
<1>1. IsFiniteSet(1..(MaxAttempts - 1))
  BY StoreAssumption, FS_Interval
<1>2. ToRetry(d)' \in SUBSET (1..(MaxAttempts - 1))
  BY DEF ToRetry
<1>3. IsFiniteSet(ToRetry(d)')
  BY <1>1, <1>2, FS_Subset
<1> QED BY <1>3, FS_CardinalityType

\* Spent is a number.
LEMMA SpentBound ==
    ASSUME TypeInv, SpentInv, NEW d \in Delivery
    PROVE  /\ attemptCount[d] \in Nat /\ mishaps \in Nat
           /\ attemptCount[d] + (IF Due(d) THEN 1 ELSE 0)
                  + (IF DueTwice(d) THEN 1 ELSE 0) + Cardinality(ToRetry(d))
                     <= MaxAttempts + mishaps
BY PoolAssumption DEF SpentInv, Spent, TypeInv, StoreTypeOK, HistoryTypeOK

\* A row that was not claimed: a mishap makes at most one claim due.
LEMMA SpentStays ==
    ASSUME TypeInv, TypeInv', SpentInv, NEW d \in Delivery,
           attemptCount'[d] = attemptCount[d],
           ToRetry(d)' \subseteq ToRetry(d),
           \/ /\ mishaps' = mishaps \/ mishaps' = mishaps + 1
              /\ Due(d)' => Due(d)
              /\ DueTwice(d)' => DueTwice(d)
           \/ /\ mishaps' = mishaps + 1
              /\ (Due(d)' => Due(d)) \/ (DueTwice(d)' => DueTwice(d))
    PROVE  (Spent(d) <= MaxAttempts + mishaps)'
<1>1. /\ attemptCount[d] \in Nat /\ mishaps \in Nat
      /\ attemptCount[d] + (IF Due(d) THEN 1 ELSE 0)
             + (IF DueTwice(d) THEN 1 ELSE 0) + Cardinality(ToRetry(d))
                <= MaxAttempts + mishaps
  BY SpentBound
<1>2. Cardinality(ToRetry(d)') <= Cardinality(ToRetry(d))
  BY ToRetryFinite, FS_Subset
<1>3. Cardinality(ToRetry(d)') \in Nat /\ Cardinality(ToRetry(d)) \in Nat
  BY ToRetryFinite, ToRetryFiniteNext
<1>4. attemptCount'[d] + (IF Due(d)' THEN 1 ELSE 0)
          + (IF DueTwice(d)' THEN 1 ELSE 0) + Cardinality(ToRetry(d)')
             <= MaxAttempts + mishaps'
  <2>1. CASE /\ mishaps' = mishaps \/ mishaps' = mishaps + 1
             /\ Due(d)' => Due(d)
             /\ DueTwice(d)' => DueTwice(d)
    BY <1>1, <1>2, <1>3, <2>1, StoreAssumption
  <2>2. CASE /\ mishaps' = mishaps + 1
             /\ (Due(d)' => Due(d)) \/ (DueTwice(d)' => DueTwice(d))
    BY <1>1, <1>2, <1>3, <2>2, StoreAssumption
  <2> QED BY <2>1, <2>2
<1> QED BY <1>4 DEF Spent

\* No process has a job it did not have, and nothing is claimed.
LEMMA FewerToRetry ==
    ASSUME UNCHANGED attemptCount, \A q \in Proc : \A c : Carries(q, c)' => Carries(q, c)
    PROVE  \A d : ToRetry(d)' \subseteq ToRetry(d)
BY DEF ToRetry

\* What guards a row depends on these alone.
LEMMA GuardedStays ==
    ASSUME NEW d, NEW c, c = Latest(d), Guarded(d),
           attemptCount'[d] = attemptCount[d], status'[d] = status[d], c \in live',
           \A q \in Proc : phase[q] = "up" /\ Carries(q, c) =>
               phase'[q] = "up" /\ Carries(q, c)'
    PROVE  Guarded(d)'
BY DEF Guarded, Latest

\* A step that leaves the rows alone, but for one that is not guarded, hands no
\* process a job, takes none from a process that is up and shuts none down.
Calm ==
    /\ UNCHANGED <<attemptCount, live>>
    /\ mishaps' = mishaps \/ mishaps' = mishaps + 1
    /\ \A d \in Delivery : status'[d] = status[d] \/ Due(d)
    /\ \A q \in Proc : \A c : Carries(q, c)' => Carries(q, c)
    /\ \A q \in Proc : phase[q] = "up" =>
           phase'[q] = "up" /\ \A c : Carries(q, c) => Carries(q, c)'
    /\ \A q \in Proc : phase'[q] # "up" /\ dpc'[q] = "selected" =>
           phase[q] # "up" /\ dpc[q] = "selected" /\ dclaim'[q] = dclaim[q]

\* It makes no claim due.
LEMMA CalmDue ==
    ASSUME Calm, NEW d \in Delivery
    PROVE  /\ Guarded(d) => Guarded(d)'
           /\ Due(d)' => Due(d)
           /\ DueTwice(d)' => DueTwice(d)
<1>1. ASSUME Guarded(d) PROVE Guarded(d)'
  <2>1. PICK c : c = Latest(d)
    OBVIOUS
  <2>2. c \in live' /\ status'[d] = status[d]
    BY <1>1, <2>1 DEF Guarded, Due, Calm
  <2> QED BY <1>1, <2>1, <2>2, GuardedStays DEF Calm
<1>2. Due(d)' => Due(d)
  BY <1>1 DEF Due, Calm
<1>3. DueTwice(d)' => DueTwice(d)
  BY DEF DueTwice, Calm
<1> QED BY <1>1, <1>2, <1>3

\* It costs nothing.
LEMMA SpentCalm ==
    ASSUME TypeInv, TypeInv', SpentInv, Calm
    PROVE  SpentInv'
<1> SUFFICES ASSUME NEW d \in Delivery PROVE (Spent(d) <= MaxAttempts + mishaps)'
  BY DEF SpentInv
<1>1. ToRetry(d)' \subseteq ToRetry(d)
  BY FewerToRetry DEF Calm
<1> QED BY <1>1, CalmDue, SpentStays DEF Calm

\* A step that leaves the rows alone, hands no process a job and is a mishap:
\* it may take a job or two, or shut a process down.
LEMMA SpentMishap ==
    ASSUME TypeInv, TypeInv', SpentInv, UNCHANGED attemptCount, mishaps' = mishaps + 1,
           \A q \in Proc : \A c : Carries(q, c)' => Carries(q, c),
           \A d \in Delivery : (Due(d)' => Due(d)) \/ (DueTwice(d)' => DueTwice(d))
    PROVE  SpentInv'
BY FewerToRetry, SpentStays DEF SpentInv

\* Where a job is matters, not in whose hands.
LEMMA CarriesStays ==
    ASSUME UNCHANGED <<dpc, dclaim, jobs, wjob>>, \A v \in Worker : Busy(v)' = Busy(v)
    PROVE  \A q, c : Carries(q, c)' <=> Carries(q, c)
BY DEF Carries

\* A worker receives the head of its channel.
LEMMA CarriesReceive ==
    ASSUME TypeInv, NEW w \in Worker, Receive(w), wpc'[w] \in {"sending", "sent"},
           \A v \in Worker \ {w} : wpc'[v] = wpc[v], UNCHANGED <<dpc, dclaim>>
    PROVE  \A q \in Proc : \A c : Carries(q, c)' <=> Carries(q, c)
<1> DEFINE h == Host[w]
           s == jobs[h]
           t == Tail(s)
<1>1. h \in Proc /\ s \in Seq(Claim) /\ s # <<>>
  BY PoolAssumption DEF TypeInv, PoolTypeOK, Receive
<1>2. /\ Head(s) = s[1] /\ 1 \in 1..Len(s)
      /\ Len(t) = Len(s) - 1 /\ Len(s) \in Nat
      /\ \A i \in 1..Len(t) : i + 1 \in 1..Len(s) /\ t[i] = s[i + 1]
  BY <1>1, TailAt
<1>3. /\ jobs' = [jobs EXCEPT ![h] = t] /\ wjob' = [wjob EXCEPT ![w] = s[1]]
      /\ jobs \in [Proc -> Seq(Claim)] /\ wjob \in [Worker -> Claim \cup {NoClaim}]
  BY <1>2 DEF Receive, TypeInv, PoolTypeOK
<1>4. ~Busy(w) /\ Busy(w)' /\ \A v \in Worker \ {w} : Busy(v)' = Busy(v)
  BY DEF Receive, Busy
<1>5. \A c : (\E i \in 1..Len(s) : c = s[i]) <=> c = s[1] \/ \E i \in 1..Len(t) : c = t[i]
  <2> SUFFICES ASSUME NEW c, NEW i \in 1..Len(s), c = s[i], c # s[1]
               PROVE  \E j \in 1..Len(t) : c = t[j]
    BY <1>2
  <2>1. i - 1 \in 1..Len(t) /\ t[i - 1] = s[i]
    BY <1>2
  <2> QED BY <2>1
<1> HIDE DEF h, s, t
<1>6. ASSUME NEW q \in Proc, NEW c, q # h PROVE Carries(q, c)' <=> Carries(q, c)
  <2>1. jobs'[q] = jobs[q]
    BY <1>3, <1>6
  <2>2. \A v \in Worker : Host[v] = q => v # w
    BY <1>6 DEF h
  <2> QED BY <1>3, <1>4, <2>1, <2>2 DEF Carries
<1>7. ASSUME NEW c PROVE Carries(h, c)' <=> Carries(h, c)
  <2>1. jobs'[h] = t /\ jobs[h] = s
    BY <1>1, <1>3 DEF s
  <2>2. /\ wjob'[w] = s[1] /\ Host[w] = h
        /\ \A v \in Worker \ {w} : wjob'[v] = wjob[v]
    BY <1>3 DEF h
  <2>3. (\E v \in Worker : Host[v] = h /\ Busy(v)' /\ c = wjob'[v])
            <=> c = s[1] \/ \E v \in Worker : Host[v] = h /\ Busy(v) /\ c = wjob[v]
    BY <1>4, <2>2
  <2> QED BY <1>5, <2>1, <2>3 DEF Carries
<1> QED BY <1>6, <1>7

\* A dispatcher sends the claim it holds.
LEMMA CarriesEnqueue ==
    ASSUME TypeInv, NEW p \in Proc, Enqueue(p)
    PROVE  \A q \in Proc : \A c : Carries(q, c)' <=> Carries(q, c)
<1> DEFINE s == jobs[p]
           t == Append(s, dclaim[p])
<1>1. s \in Seq(Claim) /\ dclaim[p] \in Claim
  BY DEF Enqueue, TypeInv, PoolTypeOK, AtClaim
<1>2. /\ Len(t) = Len(s) + 1 /\ Len(s) \in Nat
      /\ \A i \in 1..Len(t) : t[i] = IF i = Len(s) + 1 THEN dclaim[p] ELSE s[i]
  BY <1>1, AppendAt
<1>3. /\ jobs' = [jobs EXCEPT ![p] = t] /\ dpc' = [dpc EXCEPT ![p] = "idle"]
      /\ dpc[p] = "holding" /\ jobs \in [Proc -> Seq(Claim)]
      /\ dpc \in [Proc -> {"idle", "selected", "holding", "stopped"}]
      /\ \A q \in Proc \ {p} : dclaim'[q] = dclaim[q]
      /\ UNCHANGED <<wpc, wjob>>
  BY DEF Enqueue, TypeInv, PoolTypeOK, workerVars
<1>4. \A c : (\E i \in 1..Len(t) : c = t[i]) <=> c = dclaim[p] \/ \E i \in 1..Len(s) : c = s[i]
  BY <1>2
<1> HIDE DEF s, t
<1>5. ASSUME NEW q \in Proc, NEW c, q # p PROVE Carries(q, c)' <=> Carries(q, c)
  BY <1>3, <1>5 DEF Carries, Busy
<1>6. ASSUME NEW c PROVE Carries(p, c)' <=> Carries(p, c)
  <2>1. jobs'[p] = t /\ jobs[p] = s /\ dpc'[p] = "idle" /\ dpc[p] = "holding"
    BY <1>3 DEF s
  <2> QED BY <1>3, <1>4, <2>1 DEF Carries, Busy
<1> QED BY <1>5, <1>6

\* The step makes a claim of d.  It was due, and the next one is not, unless the
\* process was shut down or the claim is lost.  The other rows are not touched.
MakesClaim(d) ==
    /\ UNCHANGED <<attempts, wpc, wjob>>
    /\ attemptCount'[d] = attemptCount[d] + 1
    /\ Due(d) /\ ~DueTwice(d)'
    /\ \/ mishaps' = mishaps /\ (Guarded(d)' \/ DueTwice(d))
       \/ mishaps' = mishaps + 1
    /\ \A x \in Delivery \ {d} :
           /\ attemptCount'[x] = attemptCount[x]
           /\ Guarded(x) => Guarded(x)'
           /\ Due(x)' => Due(x)
           /\ DueTwice(x)' => DueTwice(x)
    /\ \A q \in Proc : \A e :
           Carries(q, e)' => Carries(q, e) \/ e = <<d, attemptCount[d] + 1>>

\* So does a claim, committed or lost.
LEMMA ClaimDue ==
    ASSUME UniqueInv, TypeInv', NEW p \in Proc, ClaimCommit(p) \/ ClaimCommitLost(p)
    PROVE  \E d \in Delivery : MakesClaim(d)
<1>0. TypeInv
  BY DEF UniqueInv
<1>c. PICK c, d : c = dclaim[p] /\ d = dclaim[p][1]
  OBVIOUS
<1>s. /\ dpc[p] = "selected" /\ ClaimRow(d) /\ UNCHANGED <<phase, jobs, wpc, wjob>>
      /\ \A q \in Proc \ {p} : dpc'[q] = dpc[q] /\ dclaim'[q] = dclaim[q]
      /\ \/ dpc'[p] = "holding" /\ dclaim'[p] = dclaim[p] /\ mishaps' = mishaps
         \/ dpc'[p] = "idle" /\ mishaps' = mishaps + 1
  <2>1. CASE ClaimCommit(p)
    BY <1>0, <1>c, <2>1 DEF ClaimCommit, workerVars, TypeInv, PoolTypeOK
  <2>2. CASE ClaimCommitLost(p)
    BY <1>0, <1>c, <2>2 DEF ClaimCommitLost, Mishap, workerVars, TypeInv, PoolTypeOK
  <2> QED BY <2>1, <2>2
<1>1. d \in Delivery /\ c = <<d, attemptCount[d] + 1>> /\ attemptCount[d] \in Nat
  BY SelectedIsNew, <1>0, <1>c, <1>s DEF UniqueInv, RowsKept, NextClaim, TypeInv, StoreTypeOK
<1>2. /\ attemptCount'[d] = attemptCount[d] + 1
      /\ \A x \in Delivery \ {d} : attemptCount'[x] = attemptCount[x] /\ status'[x] = status[x]
      /\ status'[d] = "running" /\ live' = live \cup {c} /\ attempts' = attempts
  BY <1>0, <1>1, <1>s DEF ClaimRow, NextClaim, TypeInv, StoreTypeOK
<1>3. \A q \in Proc : \A e : Carries(q, e)' <=>
          Carries(q, e) \/ (q = p /\ e = c /\ dpc'[p] = "holding")
  BY <1>c, <1>s DEF Carries, Busy
<1>4. \A x : DueTwice(x)' => DueTwice(x) /\ x # d
  BY <1>c, <1>s DEF DueTwice, UniqueInv, RowsKept
<1>5. Due(d)
  BY <1>c, <1>s DEF UniqueInv, RowsKept, Claimable, LeaseExpired, Due, Guarded, Latest, Terminal
<1>6. ASSUME NEW x \in Delivery \ {d}
      PROVE  (Guarded(x) => Guarded(x)') /\ (Due(x)' => Due(x))
  <2>1. ASSUME Guarded(x) PROVE Guarded(x)'
    <3>1. PICK e : e = Latest(x)
      OBVIOUS
    <3>2. e \in live'
      BY <1>2, <2>1, <3>1 DEF Guarded
    <3> QED BY <1>2, <1>3, <1>s, <2>1, <3>1, <3>2, GuardedStays
  <2> QED BY <1>2, <2>1 DEF Due
<1>7. \/ mishaps' = mishaps /\ (Guarded(d)' \/ DueTwice(d))
      \/ mishaps' = mishaps + 1
  <2>1. CASE dpc'[p] = "holding" /\ phase[p] = "up"
    <3>1. Latest(d)' = c
      BY <1>1, <1>2 DEF Latest
    <3>2. Carries(p, c)'
      BY <1>3, <2>1
    <3> QED BY <1>2, <1>s, <2>1, <3>1, <3>2 DEF Guarded
  <2>2. CASE dpc'[p] = "holding" /\ phase[p] # "up"
    BY <1>c, <1>s, <2>2 DEF DueTwice
  <2> QED BY <1>s, <2>1, <2>2
<1> QED BY <1>1, <1>2, <1>3, <1>4, <1>5, <1>6, <1>7, <1>s DEF MakesClaim

\* A claim uses up what was due.
LEMMA SpentClaim ==
    ASSUME UniqueInv, TypeInv', SpentInv, NEW d \in Delivery, MakesClaim(d)
    PROVE  SpentInv'
<1>0. TypeInv /\ attemptCount[d] \in Nat
  BY DEF UniqueInv, TypeInv, StoreTypeOK
<1>1. \A x \in Delivery : ToRetry(x)' \subseteq ToRetry(x)
  BY <1>0 DEF ToRetry, MakesClaim
<1> SUFFICES ASSUME NEW x \in Delivery PROVE (Spent(x) <= MaxAttempts + mishaps)'
  BY DEF SpentInv
<1>2. CASE x # d
  <2>1. x \in Delivery \ {d} /\ (mishaps' = mishaps \/ mishaps' = mishaps + 1)
    BY <1>2 DEF MakesClaim
  <2> QED BY <1>0, <1>1, <2>1, SpentStays DEF MakesClaim
<1>3. CASE x = d
  <2>1. Cardinality(ToRetry(d)') <= Cardinality(ToRetry(d))
    BY <1>1, ToRetryFinite, FS_Subset
  <2>2. Cardinality(ToRetry(d)') \in Nat /\ Cardinality(ToRetry(d)) \in Nat
    BY ToRetryFinite, ToRetryFiniteNext
  <2>3. /\ mishaps \in Nat
        /\ attemptCount[d] + 1 + (IF DueTwice(d) THEN 1 ELSE 0) + Cardinality(ToRetry(d))
              <= MaxAttempts + mishaps
    BY <1>0, SpentBound DEF MakesClaim
  <2>4. /\ \/ mishaps' = mishaps /\ (~Due(d)' \/ DueTwice(d))
           \/ mishaps' = mishaps + 1
        /\ attemptCount'[d] = attemptCount[d] + 1 /\ ~DueTwice(d)'
    BY DEF MakesClaim, Due
  <2>5. attemptCount'[d] + (IF Due(d)' THEN 1 ELSE 0)
            + (IF DueTwice(d)' THEN 1 ELSE 0) + Cardinality(ToRetry(d)')
               <= MaxAttempts + mishaps'
    BY <1>0, <2>1, <2>2, <2>3, <2>4, StoreAssumption
  <2> QED BY <1>3, <2>5 DEF Spent
<1> QED BY <1>2, <1>3

\* A verdict takes the worker's job, the only one of its claim, and is a retry of
\* that claim where it does not finish the row.
LEMMA SettleDue ==
    ASSUME UniqueInv, TypeInv', NEW w \in Worker, NEW c, c = wjob[w], Settle(w)
    PROVE  /\ UNCHANGED <<attemptCount, attempts, mishaps>>
           /\ c \in Claim /\ c[2] \in 1..attemptCount[c[1]]
           /\ wpc[w] = "recorded" /\ wpc'[w] = "idle"
           /\ \A v \in Worker \ {w} :
                 wpc'[v] = wpc[v] /\ wjob'[v] = wjob[v] /\ (wpc[v] = "recorded" => wjob[v] # c)
           /\ Carries(Host[w], c)
           /\ \A q \in Proc : \A e : Carries(q, e)' <=> Carries(q, e) /\ e # c
           /\ \A x \in Delivery \ {c[1]} : (Guarded(x) => Guarded(x)') /\ (Due(x)' => Due(x))
           /\ \A x : DueTwice(x)' => DueTwice(x)
           /\ Due(c[1])' => wres[w] = "retry" /\ ~LastAttempt(c)
<1>0. TypeInv
  BY DEF UniqueInv
<1>d. PICK d : d = c[1]
  OBVIOUS
<1>1. /\ c \in Claim /\ d \in Delivery /\ c = <<d, c[2]>> /\ c[2] \in Nat \ {0}
      /\ Verdict(c, wres[w]) /\ wpc[w] = "recorded" /\ Busy(w) /\ Host[w] \in Proc
  BY <1>0, <1>d, PoolAssumption DEF Settle, TypeInv, AtClaim, Busy, Claim
<1>2. /\ \A x \in Delivery \ {d} : status'[x] = status[x]
      /\ UNCHANGED <<attemptCount, live, attempts, phase, dpc, dclaim, jobs, mishaps>>
  BY <1>0, <1>1, <1>d, VerdictEffect DEF Settle, procVars
<1>3. /\ wpc'[w] = "idle" /\ ~Busy(w)'
      /\ \A v \in Worker \ {w} :
            wpc'[v] = wpc[v] /\ (Busy(v)' <=> Busy(v)) /\ wjob'[v] = wjob[v]
  BY <1>0 DEF Settle, WorkerIdle, Busy, TypeInv, PoolTypeOK
<1>4. \A v \in Worker \ {w} : Busy(v) => wjob[v] # c
  BY <1>1 DEF UniqueInv, Unique
<1>5. \A q \in Proc : \A e : Carries(q, e)' <=> Carries(q, e) /\ e # c
  <2>1. \A q \in Proc : dpc[q] = "holding" => dclaim[q] # c
    BY <1>1 DEF UniqueInv, Unique
  <2>2. \A q \in Proc : \A i \in 1..Len(jobs[q]) : jobs[q][i] # c
    BY <1>1 DEF UniqueInv, Unique
  <2> QED BY <1>1, <1>2, <1>3, <1>4, <2>1, <2>2 DEF Carries
<1>6. \A x : DueTwice(x)' => DueTwice(x)
  BY <1>2 DEF DueTwice
<1>7. c[2] \in 1..attemptCount[d]
  BY <1>0, <1>1, <1>d DEF UniqueInv, AllCounted, Counted, TypeInv, StoreTypeOK
<1>8. Carries(Host[w], c)
  BY <1>1 DEF Carries
<1>9. ASSUME NEW x \in Delivery \ {d}
      PROVE  (Guarded(x) => Guarded(x)') /\ (Due(x)' => Due(x))
  <2>1. ASSUME Guarded(x) PROVE Guarded(x)'
    <3>1. PICK e : e = Latest(x)
      OBVIOUS
    <3>2. e # c
      BY <1>1, <3>1 DEF Latest
    <3>3. e \in live'
      BY <1>2, <2>1, <3>1 DEF Guarded
    <3> QED BY <1>2, <1>5, <1>9, <2>1, <3>1, <3>2, <3>3, GuardedStays
  <2> QED BY <1>2, <2>1 DEF Due
<1>10. Due(d)' => wres[w] = "retry" /\ ~LastAttempt(c)
  BY <1>0, <1>1, <1>d
     DEF Due, Verdict, MarkSucceeded, MarkDead, Terminal, TypeInv, StoreTypeOK
<1>11. \A v \in Worker \ {w} :
          wpc'[v] = wpc[v] /\ wjob'[v] = wjob[v] /\ (wpc[v] = "recorded" => wjob[v] # c)
  BY <1>3, <1>4 DEF Busy
<1> QED BY <1>1, <1>2, <1>3, <1>5, <1>6, <1>7, <1>8, <1>9, <1>10, <1>11, <1>d

\* A retry makes a claim due, and is one of those to come no more.
LEMMA SpentSettle ==
    ASSUME UniqueInv, TypeInv', SpentInv, NEW w \in Worker, Settle(w)
    PROVE  SpentInv'
<1>0. TypeInv
  BY DEF UniqueInv
<1>c. PICK c, d : c = wjob[w] /\ d = c[1]
  OBVIOUS
<1>1. /\ UNCHANGED <<attemptCount, mishaps>> /\ c \in Claim /\ d \in Delivery /\ c = <<d, c[2]>>
      /\ c[2] \in 1..attemptCount[d] /\ Host[w] \in Proc /\ Carries(Host[w], c)
      /\ \A q \in Proc : \A e : Carries(q, e)' <=> Carries(q, e) /\ e # c
      /\ \A x \in Delivery \ {d} : Due(x)' => Due(x)
      /\ \A x : DueTwice(x)' => DueTwice(x)
      /\ Due(d)' => ~LastAttempt(c)
  BY <1>c, SettleDue, PoolAssumption DEF Claim
<1>2. \A x : ToRetry(x)' \subseteq ToRetry(x)
  BY <1>1, FewerToRetry
<1> SUFFICES ASSUME NEW x \in Delivery PROVE (Spent(x) <= MaxAttempts + mishaps)'
  BY DEF SpentInv
<1>3. CASE x # d \/ ~Due(d)'
  <2>1. Due(x)' => Due(x)
    BY <1>1, <1>3
  <2> QED BY <1>0, <1>1, <1>2, <2>1, SpentStays
<1>4. CASE x = d /\ Due(d)'
  <2>1. attemptCount[d] \in Nat
    BY <1>0, <1>1 DEF TypeInv, StoreTypeOK
  <2>2. c[2] \in ToRetry(d)
    BY <1>1, <1>4, <2>1, StoreAssumption DEF ToRetry, LastAttempt
  <2>3. c[2] \notin ToRetry(d)'
    BY <1>1, <2>1 DEF ToRetry
  <2>4. ToRetry(d)' \subseteq ToRetry(d) \ {c[2]}
    BY <1>2, <2>3
  <2>5. /\ Cardinality(ToRetry(d) \ {c[2]}) = Cardinality(ToRetry(d)) - 1
        /\ IsFiniteSet(ToRetry(d) \ {c[2]})
    BY <2>2, ToRetryFinite, FS_RemoveElement
  <2>6. Cardinality(ToRetry(d)') <= Cardinality(ToRetry(d)) - 1
    BY <2>4, <2>5, FS_Subset
  <2>7. Cardinality(ToRetry(d)') \in Nat /\ Cardinality(ToRetry(d)) \in Nat
    BY ToRetryFinite, ToRetryFiniteNext
  <2>8. /\ mishaps \in Nat
        /\ attemptCount[d] + (IF Due(d) THEN 1 ELSE 0)
               + (IF DueTwice(d) THEN 1 ELSE 0) + Cardinality(ToRetry(d))
                  <= MaxAttempts + mishaps
    BY <1>0, <1>1, SpentBound
  <2>9. attemptCount'[d] + (IF Due(d)' THEN 1 ELSE 0)
            + (IF DueTwice(d)' THEN 1 ELSE 0) + Cardinality(ToRetry(d)')
               <= MaxAttempts + mishaps'
    BY <1>1, <2>1, <2>6, <2>7, <2>8, StoreAssumption
  <2> QED BY <1>4, <2>9 DEF Spent
<1> QED BY <1>3, <1>4

\* All that a dispatcher does but a claim is calm.
LEMMA CalmDispatcher ==
    ASSUME TypeInv, TypeInv', NEW p \in Proc, DispatcherStep(p),
           ~ClaimCommit(p), ~ClaimCommitLost(p)
    PROVE  Calm /\ UNCHANGED <<storeVars, workerVars>>
<1>0. dpc \in [Proc -> {"idle", "selected", "holding", "stopped"}]
  BY DEF TypeInv, PoolTypeOK
<1> USE DEF storeVars, procVars, workerVars
<1>1. CASE PollNothing(p)
  <2>1. UNCHANGED <<storeVars, procVars, workerVars, mishaps>>
    BY <1>1 DEF PollNothing, vars
  <2> QED BY <2>1, CarriesStays DEF Calm, Busy
<1>2. CASE ClaimSelect(p)
  <2>1. \A q \in Proc : \A c : Carries(q, c)' <=> Carries(q, c)
    BY <1>0, <1>2 DEF ClaimSelect, Carries, Busy
  <2>2. \A q \in Proc : phase'[q] # "up" =>
            phase[q] # "up" /\ dpc'[q] = dpc[q] /\ dclaim'[q] = dclaim[q]
    BY <1>0, <1>2 DEF ClaimSelect
  <2> QED BY <1>2, <2>1, <2>2 DEF ClaimSelect, Calm
<1>3. CASE ClaimAbort(p) \/ Enqueue(p)
  <2>1. \A q \in Proc : \A c : Carries(q, c)' <=> Carries(q, c)
    <3>1. CASE ClaimAbort(p)
      BY <1>0, <3>1 DEF ClaimAbort, Carries, Busy
    <3> QED BY <1>3, <3>1, CarriesEnqueue
  <2>2. /\ UNCHANGED <<storeVars, phase, workerVars>> /\ dpc' = [dpc EXCEPT ![p] = "idle"]
        /\ \A q \in Proc \ {p} : dclaim'[q] = dclaim[q]
        /\ mishaps' = mishaps \/ mishaps' = mishaps + 1
    <3>1. CASE ClaimAbort(p)
      BY <3>1 DEF ClaimAbort, Mishap, TypeInv, PoolTypeOK
    <3>2. CASE Enqueue(p)
      BY <3>2 DEF Enqueue, TypeInv, PoolTypeOK
    <3> QED BY <1>3, <3>1, <3>2
  <2>3. \A q \in Proc : phase'[q] # "up" /\ dpc'[q] = "selected" =>
            phase[q] # "up" /\ dpc[q] = "selected" /\ dclaim'[q] = dclaim[q]
    BY <1>0, <2>2
  <2> QED BY <2>1, <2>2, <2>3 DEF Calm
<1>4. CASE DispatcherStop(p)
  <2>1. /\ UNCHANGED <<storeVars, phase, jobs, workerVars, mishaps>> /\ phase[p] = "stopping"
        /\ dpc' = [dpc EXCEPT ![p] = "stopped"]
        /\ \A q \in Proc \ {p} : dclaim'[q] = dclaim[q]
    BY <1>4 DEF DispatcherStop
  <2>2. \A q \in Proc : \A c : Carries(q, c)' => Carries(q, c)
    BY <1>0, <2>1 DEF Carries, Busy
  <2>3. \A q \in Proc : phase[q] = "up" =>
            phase'[q] = "up" /\ \A c : Carries(q, c) => Carries(q, c)'
    BY <1>0, <2>1 DEF Carries, Busy
  <2>4. \A q \in Proc : phase'[q] # "up" /\ dpc'[q] = "selected" =>
            phase[q] # "up" /\ dpc[q] = "selected" /\ dclaim'[q] = dclaim[q]
    BY <1>0, <2>1
  <2> QED BY <2>1, <2>2, <2>3, <2>4 DEF Calm
<1> QED BY <1>1, <1>2, <1>3, <1>4 DEF DispatcherStep

\* The dispatcher pays for every claim.
LEMMA SpentDispatcher ==
    ASSUME UniqueInv, TypeInv', SpentInv, NEW p \in Proc, DispatcherStep(p)
    PROVE  SpentInv'
<1>0. TypeInv
  BY DEF UniqueInv
<1>1. CASE ClaimCommit(p) \/ ClaimCommitLost(p)
  BY <1>1, ClaimDue, SpentClaim
<1> QED BY <1>0, <1>1, CalmDispatcher, SpentCalm

\* What a worker does up to its verdict is calm.
LEMMA CalmWorker ==
    ASSUME TypeInv, NEW w \in Worker, WorkerStep(w), ~Settle(w), ~SettleFails(w)
    PROVE  Calm
<1> USE DEF storeVars, procVars, workerVars
\* Steps after which every job is where it was.
<1>a. ASSUME UNCHANGED <<status, attemptCount, live, phase, dpc, dclaim>>,
             mishaps' = mishaps \/ mishaps' = mishaps + 1,
             \A q \in Proc : \A c : Carries(q, c)' <=> Carries(q, c)
      PROVE  Calm
  BY <1>a DEF Calm
<1>1. CASE Take(w) \/ TakeCancelled(w)
  <2>1. /\ Receive(w) /\ wpc'[w] \in {"sending", "sent"}
        /\ \A v \in Worker \ {w} : wpc'[v] = wpc[v]
        /\ UNCHANGED <<storeVars, phase, dpc, dclaim, mishaps>>
    BY <1>1 DEF Take, TakeCancelled, SendReturned, TypeInv, PoolTypeOK
  <2> QED BY <1>a, <2>1, CarriesReceive
<1>2. CASE SendReturns(w) \/ Record(w) \/ RecordFails(w) \/ WorkerStop(w)
  <2>1. /\ UNCHANGED <<status, attemptCount, live, procVars, wjob>>
        /\ mishaps' = mishaps \/ mishaps' = mishaps + 1
    BY <1>2 DEF SendReturns, Record, RecordAttempt, RecordFails, WorkerStop, Mishap
  <2>2. \A v \in Worker : Busy(v)' = Busy(v)
    BY <1>2 DEF SendReturns, SendReturned, Record, RecordFails, WorkerStop, Busy,
                TypeInv, PoolTypeOK
  <2> QED BY <1>a, <2>1, <2>2, CarriesStays
<1> QED BY <1>1, <1>2 DEF WorkerStep

\* A verdict that fails gives the job up, and that is all.
LEMMA GivesUp ==
    ASSUME TypeInv, NEW w \in Worker, SettleFails(w)
    PROVE  /\ UNCHANGED <<storeVars, procVars>> /\ mishaps' = mishaps + 1
           /\ \A q \in Proc : \A c : Carries(q, c)' => Carries(q, c)
           /\ \A d : DueTwice(d)' => DueTwice(d)
<1>1. /\ UNCHANGED <<storeVars, procVars>> /\ mishaps' = mishaps + 1
      /\ \A v \in Worker : Busy(v)' => Busy(v) /\ wjob'[v] = wjob[v]
  BY DEF SettleFails, WorkerIdle, Mishap, Busy, TypeInv, PoolTypeOK
<1>2. \A q \in Proc : \A c : Carries(q, c)' => Carries(q, c)
  BY <1>1 DEF Carries, procVars
<1>3. \A d : DueTwice(d)' => DueTwice(d)
  BY <1>1 DEF DueTwice, procVars
<1> QED BY <1>1, <1>2, <1>3

\* A worker hands its job on, or pays for it.
LEMMA SpentWorker ==
    ASSUME UniqueInv, TypeInv', SpentInv, NEW w \in Worker, WorkerStep(w)
    PROVE  SpentInv'
<1>0. TypeInv
  BY DEF UniqueInv
<1>1. CASE Settle(w)
  BY <1>1, SpentSettle
<1>2. CASE SettleFails(w)
  BY <1>0, <1>2, GivesUp, SpentMishap DEF storeVars
<1> QED BY <1>0, <1>1, <1>2, CalmWorker, SpentCalm

\* A process that ends takes all that it has with it.
LEMMA EndTakes ==
    ASSUME TypeInv, NEW p \in Proc, End(p)
    PROVE  /\ UNCHANGED storeVars
           /\ \A q \in Proc : \A c : Carries(q, c)' => Carries(q, c)
           /\ \A q \in Proc \ {p} :
                 phase'[q] = phase[q] /\ \A c : Carries(q, c) => Carries(q, c)'
           /\ \A q \in Proc : dpc'[q] = "selected" =>
                 phase'[q] = phase[q] /\ dpc[q] = "selected" /\ dclaim'[q] = dclaim[q]
<1>1. /\ \A q \in Proc \ {p} : /\ phase'[q] = phase[q] /\ dpc'[q] = dpc[q]
                               /\ dclaim'[q] = dclaim[q] /\ jobs'[q] = jobs[q]
      /\ dpc'[p] = "stopped" /\ 1..Len(jobs'[p]) = {} /\ UNCHANGED storeVars
  BY DEF End, TypeInv, PoolTypeOK
<1>2. /\ \A v \in Worker : Host[v] = p => ~Busy(v)'
      /\ \A v \in Worker : Host[v] # p => wpc'[v] = wpc[v] /\ wjob'[v] = wjob[v]
  BY DEF End, Busy, TypeInv, PoolTypeOK
<1>3. \A c : ~Carries(p, c)'
  BY <1>1, <1>2 DEF Carries
<1>4. \A q \in Proc \ {p} : \A c : Carries(q, c)' <=> Carries(q, c)
  BY <1>1, <1>2 DEF Carries, Busy
<1> QED BY <1>1, <1>3, <1>4

\* Only a shutdown or a crash is not calm.
LEMMA CalmProcess ==
    ASSUME TypeInv, NEW p \in Proc, ProcessStep(p), ~Shutdown(p), ~Crash(p)
    PROVE  Calm /\ UNCHANGED storeVars
<1>0. /\ phase \in [Proc -> {"up", "stopping", "down"}]
      /\ dpc \in [Proc -> {"idle", "selected", "holding", "stopped"}]
  BY DEF TypeInv, PoolTypeOK
<1>1. CASE Exit(p) \/ ExitUnfinished(p)
  <2>1. End(p) /\ phase[p] # "up" /\ mishaps' = mishaps
    BY <1>1 DEF Exit, PoolStopped, ExitUnfinished
  <2> QED BY <2>1, EndTakes DEF Calm, storeVars
<1>2. CASE Restart(p)
  <2>1. /\ UNCHANGED <<storeVars, dclaim, jobs, wjob, mishaps>> /\ phase[p] = "down"
        /\ phase' = [phase EXCEPT ![p] = "up"] /\ dpc' = [dpc EXCEPT ![p] = "idle"]
    BY <1>2 DEF Restart
  <2>2. /\ \A v \in Worker : Busy(v)' => Busy(v)
        /\ \A v \in Worker : Host[v] # p => (Busy(v)' <=> Busy(v))
    BY <1>2 DEF Restart, Busy, TypeInv, PoolTypeOK
  <2>3. \A q \in Proc : \A c : Carries(q, c)' => Carries(q, c)
    BY <1>0, <2>1, <2>2 DEF Carries
  <2>4. \A q \in Proc : phase[q] = "up" =>
            phase'[q] = "up" /\ \A c : Carries(q, c) => Carries(q, c)'
    BY <1>0, <2>1, <2>2 DEF Carries
  <2>5. \A q \in Proc : phase'[q] # "up" /\ dpc'[q] = "selected" =>
            phase[q] # "up" /\ dpc[q] = "selected" /\ dclaim'[q] = dclaim[q]
    BY <1>0, <2>1
  <2> QED BY <2>1, <2>3, <2>4, <2>5 DEF Calm, storeVars
<1> QED BY <1>1, <1>2 DEF ProcessStep

\* A process that is shut down leaves its claim due, not the job of another.
LEMMA ShutdownDue ==
    ASSUME UniqueInv, NEW p \in Proc, Shutdown(p)
    PROVE  /\ UNCHANGED <<storeVars, dpc, dclaim, jobs, wpc, wjob>> /\ mishaps' = mishaps + 1
           /\ \A d \in Delivery : (DueTwice(d)' => DueTwice(d)) \/ Due(d)
<1>1. /\ UNCHANGED <<storeVars, dpc, dclaim, jobs, wpc, wjob>> /\ mishaps' = mishaps + 1
      /\ phase' = [phase EXCEPT ![p] = "stopping"]
  BY DEF Shutdown, Mishap, workerVars
<1>2. ASSUME NEW d \in Delivery PROVE (DueTwice(d)' => DueTwice(d)) \/ Due(d)
  <2> SUFFICES ASSUME dpc[p] = "selected", dclaim[p][1] = d PROVE Due(d)
    BY <1>1 DEF DueTwice, UniqueInv, TypeInv, PoolTypeOK
  <2> QED BY DEF UniqueInv, RowsKept, Claimable, LeaseExpired, Due, Guarded, Latest, Terminal
<1> QED BY <1>1, <1>2

\* A shutdown or a crash pays for all that the process has.
LEMMA SpentProcess ==
    ASSUME UniqueInv, TypeInv', SpentInv, NEW p \in Proc, ProcessStep(p)
    PROVE  SpentInv'
<1>0. TypeInv
  BY DEF UniqueInv
<1>1. CASE Shutdown(p)
  <2>1. \A q \in Proc : \A c : Carries(q, c)' => Carries(q, c)
    BY <1>1, ShutdownDue DEF Carries, Busy
  <2> QED BY <1>0, <1>1, <2>1, ShutdownDue, SpentMishap DEF storeVars
<1>2. CASE Crash(p)
  <2>1. End(p) /\ mishaps' = mishaps + 1
    BY <1>2 DEF Crash, Mishap
  <2>2. \A d : DueTwice(d)' => DueTwice(d)
    BY <1>0, <2>1, EndTakes DEF DueTwice
  <2> QED BY <1>0, <2>1, <2>2, EndTakes, SpentMishap DEF storeVars
<1> QED BY <1>0, <1>1, <1>2, CalmProcess, SpentCalm

\* Requests and backoffs are calm.
LEMMA CalmOutside ==
    ASSUME TypeInv, \/ \E e \in Event : Submit(e) \/ Replay(e)
                    \/ \E d \in Delivery : RetryDue(d)
    PROVE  Calm /\ UNCHANGED <<procVars, workerVars, attempts>>
<1>1. UNCHANGED <<procVars, workerVars>>
  BY DEF Submit, Replay, RetryDue, poolVars
<1>2. \A q, c : Carries(q, c)' <=> Carries(q, c)
  BY <1>1, CarriesStays DEF Busy, procVars, workerVars
<1>3. /\ UNCHANGED <<attemptCount, live, attempts, mishaps>>
      /\ \A d \in Delivery : status'[d] = status[d] \/ Due(d)
  <2>1. ASSUME NEW e \in Event, Submit(e) \/ Replay(e)
        PROVE  InsertPending(e) /\ UNCHANGED mishaps
    BY <2>1 DEF Submit, Replay, CreateEventWithDelivery, CreateReplayDelivery
  <2>2. ASSUME NEW e \in Event, InsertPending(e)
        PROVE  /\ UNCHANGED <<attemptCount, live, attempts>>
               /\ \A d \in Delivery : status'[d] = status[d] \/ Due(d)
    BY <2>2 DEF InsertPending, NextId, Due, Guarded, Terminal, TypeInv, StoreTypeOK
  <2> QED BY <2>1, <2>2 DEF RetryDue, BackoffElapses
<1> QED BY <1>1, <1>2, <1>3 DEF Calm, procVars

\* A lease passes unnoticed, or it is a mishap.
LEMMA LeaseGuards ==
    ASSUME TypeInv, NEW d \in Delivery, LeasePasses(d)
    PROVE  /\ UNCHANGED <<status, attemptCount, attempts, procVars, workerVars>>
           /\ \/ mishaps' = mishaps /\ \A x : Guarded(x) => Guarded(x)'
              \/ mishaps' = mishaps + 1
<1>1. PICK c : /\ c \in live /\ LeaseElapses(d, c[2]) /\ c[1] = d
               /\ IF c \in Held THEN Mishap ELSE UNCHANGED mishaps
  BY DEF LeasePasses
<1>2. /\ live' = live \ {c}
      /\ UNCHANGED <<status, attemptCount, attempts, procVars, workerVars>>
  <2>1. c = <<d, c[2]>>
    BY <1>1 DEF TypeInv, StoreTypeOK, Claim
  <2> QED BY <1>1, <2>1 DEF LeasePasses, LeaseElapses, poolVars
<1>3. CASE c \in Held
  BY <1>1, <1>2, <1>3 DEF Mishap
<1>4. CASE c \notin Held
  <2>1. \A q \in Proc : ~Carries(q, c)
    BY <1>4, HeldClaims DEF Carries
  <2>2. \A q, e : Carries(q, e)' <=> Carries(q, e)
    BY <1>2, CarriesStays DEF Busy, procVars, workerVars
  <2>3. ASSUME NEW x, Guarded(x) PROVE Guarded(x)'
    <3>1. PICK l : l = Latest(x)
      OBVIOUS
    <3>2. l \in live /\ l # c
      BY <2>1, <2>3, <3>1 DEF Guarded
    <3> QED BY <1>2, <2>2, <2>3, <3>1, <3>2, GuardedStays DEF procVars
  <2> QED BY <1>1, <1>2, <1>4, <2>3
<1> QED BY <1>3, <1>4

\* Requests and backoffs cost nothing, a lease that passes under a job one mishap.
LEMMA SpentOutside ==
    ASSUME UniqueInv, TypeInv', SpentInv,
           \/ \E e \in Event : Submit(e) \/ Replay(e)
           \/ \E d \in Delivery : RetryDue(d) \/ LeasePasses(d)
    PROVE  SpentInv'
<1>0. TypeInv
  BY DEF UniqueInv
<1>1. ASSUME NEW d \in Delivery, LeasePasses(d) PROVE SpentInv'
  <2>1. /\ UNCHANGED <<status, attemptCount, procVars, workerVars>>
        /\ \/ mishaps' = mishaps /\ \A x : Guarded(x) => Guarded(x)'
           \/ mishaps' = mishaps + 1
    BY <1>0, <1>1, LeaseGuards
  <2>2. \A q, c : Carries(q, c)' <=> Carries(q, c)
    BY <2>1, CarriesStays DEF Busy, procVars, workerVars
  <2>3. \A x : ToRetry(x)' \subseteq ToRetry(x)
    BY <2>1, <2>2, FewerToRetry
  <2>4. \A x : DueTwice(x)' => DueTwice(x)
    BY <2>1 DEF DueTwice, procVars
  <2>5. ASSUME \A x : Guarded(x) => Guarded(x)' PROVE \A x : Due(x)' => Due(x)
    BY <2>1, <2>5 DEF Due
  <2> QED BY <1>0, <2>1, <2>3, <2>4, <2>5, SpentStays DEF SpentInv
<1> QED BY <1>0, <1>1, CalmOutside, SpentCalm

\* So is no step at all.
LEMMA CalmStutter == UNCHANGED vars => Calm
<1> SUFFICES ASSUME UNCHANGED vars PROVE Calm
  OBVIOUS
<1>1. UNCHANGED <<storeVars, procVars, workerVars, mishaps>>
  BY DEF vars
<1> QED BY <1>1, CarriesStays DEF Calm, storeVars, procVars, workerVars, Busy

\* SpentInv is inductive, given unique claims.
LEMMA SpentNext == UniqueInv /\ SpentInv /\ [Next]_vars => SpentInv'
<1> SUFFICES ASSUME UniqueInv, SpentInv, [Next]_vars PROVE SpentInv'
  OBVIOUS
<1>1. TypeInv /\ TypeInv'
  BY TypeInvNext DEF UniqueInv
<1>2. CASE UNCHANGED vars
  BY <1>1, <1>2, CalmStutter, SpentCalm
<1>3. CASE Next
  BY <1>1, <1>3, SpentDispatcher, SpentWorker, SpentProcess, SpentOutside DEF Next
<1> QED BY <1>2, <1>3

\* At first a delivery has all its attempts before it, and its first claim is due.
LEMMA SpentInit == PoolInit => SpentInv
<1> SUFFICES ASSUME PoolInit, NEW d \in Delivery PROVE Spent(d) <= MaxAttempts + mishaps
  BY DEF SpentInv
<1>1. attemptCount[d] = 0 /\ mishaps = 0 /\ ~DueTwice(d)
  BY DEF PoolInit, StoreInit, DueTwice
<1>2. ToRetry(d) = 1..(MaxAttempts - 1)
  BY <1>1 DEF ToRetry
<1>3. Cardinality(ToRetry(d)) = MaxAttempts - 1
  BY <1>2, StoreAssumption, FS_Interval
<1> QED BY <1>1, <1>3, StoreAssumption DEF Spent

\* However many processes claim, crash, are shut down or overrun leases,
\* attempt_count exceeds max_attempts by no more than there were mishaps.
THEOREM AttemptsArePaidFor == Spec => []AttemptsPaidFor
<1>1. TypeInv /\ SpentInv => AttemptsPaidFor
  <2> SUFFICES ASSUME TypeInv, SpentInv, NEW d \in Delivery
               PROVE  attemptCount[d] <= MaxAttempts + mishaps
    BY DEF AttemptsPaidFor
  <2> QED BY SpentBound, ToRetryFinite, StoreAssumption
<1> QED BY <1>1, SpentInit, UniqueInit, UniqueInvNext, SpentNext, PTL DEF Spec, UniqueInv

----------------------------------------------------------------------------
(* Gaps in the audit are paid for *)

\* What attempts of d still need: each its audit row, and those at their verdict
\* the UPDATE, which may make the row ready for another claim.
Lacks(d) ==
    {t \in (1..attemptCount[d]) \X {"audit", "verdict"} :
        IF t[2] = "audit" THEN Unrecorded(<<d, t[1]>>)
        ELSE \E w \in Worker : wpc[w] = "recorded" /\ wjob[w] = <<d, t[1]>>}

\* With the claims to come that no verdict allows, these are the mishaps and one:
\* the claim a delivery starts with, or the verdict that finishes it.
Outstanding(d) ==
    Cardinality(Lacks(d)) + (IF Guarded(d) THEN 0 ELSE 1)
        + (IF DueTwice(d) THEN 1 ELSE 0)

OwedInv == \A d \in Delivery : Outstanding(d) <= mishaps + 1

\* What n attempts need is finite.
LEMMA NeedsFinite ==
    ASSUME NEW n \in Nat, NEW S \in SUBSET ((1..n) \X {"audit", "verdict"})
    PROVE  IsFiniteSet(S) /\ Cardinality(S) \in Nat
<1>0. IsFiniteSet(1..n)
  BY FS_Interval
<1>1. IsFiniteSet({"audit", "verdict"})
  <2>1. IsFiniteSet({"audit"} \cup {"verdict"})
    BY FS_Singleton, FS_AddElement
  <2>2. {"audit"} \cup {"verdict"} = {"audit", "verdict"}
    OBVIOUS
  <2> QED BY <2>1, <2>2
<1>2. IsFiniteSet((1..n) \X {"audit", "verdict"})
  BY <1>0, <1>1, FS_Product
<1>3. IsFiniteSet(S)
  BY <1>2, FS_Subset
<1> QED BY <1>3, FS_CardinalityType

\* So is what a delivery lacks, now and next.
LEMMA LacksFinite ==
    ASSUME TypeInv, TypeInv', NEW d \in Delivery
    PROVE  /\ IsFiniteSet(Lacks(d)) /\ Cardinality(Lacks(d)) \in Nat
           /\ IsFiniteSet(Lacks(d)') /\ Cardinality(Lacks(d)') \in Nat
<1>1. attemptCount[d] \in Nat /\ attemptCount'[d] \in Nat
  BY DEF TypeInv, StoreTypeOK
<1>2. /\ Lacks(d) \in SUBSET ((1..attemptCount[d]) \X {"audit", "verdict"})
      /\ Lacks(d)' \in SUBSET ((1..attemptCount'[d]) \X {"audit", "verdict"})
  BY DEF Lacks
<1> QED BY <1>1, <1>2, NeedsFinite

\* A row that needs no more: a mishap makes at most one claim due.
LEMMA OwedStays ==
    ASSUME TypeInv, TypeInv', OwedInv, NEW d \in Delivery,
           Lacks(d)' \subseteq Lacks(d),
           \/ /\ mishaps' = mishaps \/ mishaps' = mishaps + 1
              /\ Guarded(d) => Guarded(d)'
              /\ DueTwice(d)' => DueTwice(d)
           \/ /\ mishaps' = mishaps + 1
              /\ (Guarded(d) => Guarded(d)') \/ (DueTwice(d)' => DueTwice(d))
    PROVE  (Outstanding(d) <= mishaps + 1)'
<1>1. Cardinality(Lacks(d)) \in Nat /\ Cardinality(Lacks(d)') \in Nat /\ mishaps \in Nat
  BY LacksFinite, PoolAssumption DEF TypeInv, HistoryTypeOK
<1>2. Cardinality(Lacks(d)') <= Cardinality(Lacks(d))
  BY LacksFinite, FS_Subset
<1>3. Cardinality(Lacks(d)) + (IF Guarded(d) THEN 0 ELSE 1)
          + (IF DueTwice(d) THEN 1 ELSE 0) <= mishaps + 1
  BY DEF OwedInv, Outstanding
<1>4. Cardinality(Lacks(d)') + (IF Guarded(d)' THEN 0 ELSE 1)
          + (IF DueTwice(d)' THEN 1 ELSE 0) <= mishaps' + 1
  <2>1. CASE /\ mishaps' = mishaps \/ mishaps' = mishaps + 1
             /\ Guarded(d) => Guarded(d)'
             /\ DueTwice(d)' => DueTwice(d)
    BY <1>1, <1>2, <1>3, <2>1
  <2>2. CASE /\ mishaps' = mishaps + 1
             /\ (Guarded(d) => Guarded(d)') \/ (DueTwice(d)' => DueTwice(d))
    BY <1>1, <1>2, <1>3, <2>2
  <2> QED BY <2>1, <2>2
<1> QED BY <1>4 DEF Outstanding

\* A step with which no attempt comes to its verdict, or is made, needs no more.
LEMMA LacksNoMore ==
    ASSUME UNCHANGED attemptCount, attempts \subseteq attempts',
           \A w \in Worker : wpc'[w] = "recorded" =>
               wpc[w] = "recorded" /\ wjob'[w] = wjob[w]
    PROVE  \A d : Lacks(d)' \subseteq Lacks(d)
<1> SUFFICES ASSUME NEW d, NEW t \in Lacks(d)' PROVE t \in Lacks(d)
  OBVIOUS
<1>1. t \in (1..attemptCount[d]) \X {"audit", "verdict"}
  BY DEF Lacks
<1>2. CASE t[2] = "audit"
  BY <1>1, <1>2 DEF Lacks, Unrecorded
<1>3. CASE t[2] # "audit"
  <2>1. PICK w \in Worker : wpc'[w] = "recorded" /\ wjob'[w] = <<d, t[1]>>
    BY <1>3 DEF Lacks
  <2> QED BY <1>1, <1>3, <2>1 DEF Lacks
<1> QED BY <1>2, <1>3

\* A calm step of this kind costs nothing.
LEMMA OwedCalm ==
    ASSUME TypeInv, TypeInv', OwedInv, Calm, attempts \subseteq attempts',
           \A w \in Worker : wpc'[w] = "recorded" =>
               wpc[w] = "recorded" /\ wjob'[w] = wjob[w]
    PROVE  OwedInv'
<1> SUFFICES ASSUME NEW d \in Delivery PROVE (Outstanding(d) <= mishaps + 1)'
  BY DEF OwedInv
<1>1. Lacks(d)' \subseteq Lacks(d)
  BY LacksNoMore DEF Calm
<1> QED BY <1>1, CalmDue, OwedStays DEF Calm

\* One that is a mishap may take jobs, or shut a process down.
LEMMA OwedMishap ==
    ASSUME TypeInv, TypeInv', OwedInv, UNCHANGED <<attemptCount, attempts>>,
           mishaps' = mishaps + 1,
           \A w \in Worker : wpc'[w] = "recorded" =>
               wpc[w] = "recorded" /\ wjob'[w] = wjob[w],
           \A d \in Delivery : (Guarded(d) => Guarded(d)') \/ (DueTwice(d)' => DueTwice(d))
    PROVE  OwedInv'
BY LacksNoMore, OwedStays DEF OwedInv

\* One need more is at most one more in number.
LEMMA LacksOneMore ==
    ASSUME TypeInv, TypeInv', NEW d \in Delivery, NEW t, Lacks(d)' \subseteq Lacks(d) \cup {t}
    PROVE  Cardinality(Lacks(d)') <= Cardinality(Lacks(d)) + 1
<1>1. /\ IsFiniteSet(Lacks(d) \cup {t})
      /\ \/ Cardinality(Lacks(d) \cup {t}) = Cardinality(Lacks(d))
         \/ Cardinality(Lacks(d) \cup {t}) = Cardinality(Lacks(d)) + 1
  <2>1. IsFiniteSet(Lacks(d))
    BY LacksFinite
  <2> QED BY <2>1, FS_AddElement
<1>2. Cardinality(Lacks(d)') <= Cardinality(Lacks(d) \cup {t})
  BY <1>1, FS_Subset
<1>3. Cardinality(Lacks(d)) \in Nat /\ Cardinality(Lacks(d)') \in Nat
  BY LacksFinite
<1> QED BY <1>1, <1>2, <1>3

\* The attempt a claim makes needs a record.  The claim was due, and the next one
\* is not, or costs a mishap: it is lost, or its process was shut down.
LEMMA OwedClaim ==
    ASSUME UniqueInv, TypeInv', OwedInv, NEW d \in Delivery, MakesClaim(d)
    PROVE  OwedInv'
<1>0. TypeInv /\ attemptCount[d] \in Nat
  BY DEF UniqueInv, TypeInv, StoreTypeOK
<1> SUFFICES ASSUME NEW x \in Delivery PROVE (Outstanding(x) <= mishaps + 1)'
  BY DEF OwedInv
<1>1. CASE x # d
  <2>1. /\ x \in Delivery \ {d} /\ UNCHANGED <<attempts, wpc, wjob>>
        /\ attemptCount'[x] = attemptCount[x]
        /\ mishaps' = mishaps \/ mishaps' = mishaps + 1
        /\ Guarded(x) => Guarded(x)'
        /\ DueTwice(x)' => DueTwice(x)
    BY <1>1 DEF MakesClaim
  <2>2. Lacks(x)' \subseteq Lacks(x)
    BY <2>1 DEF Lacks, Unrecorded
  <2> QED BY <1>0, <2>1, <2>2, OwedStays
<1>2. CASE x = d
  <2>0. /\ \/ mishaps' = mishaps /\ (Guarded(d)' \/ DueTwice(d))
           \/ mishaps' = mishaps + 1
        /\ attemptCount'[d] = attemptCount[d] + 1 /\ ~DueTwice(d)' /\ ~Guarded(d)
        /\ UNCHANGED <<attempts, wpc, wjob>>
    BY DEF MakesClaim, Due
  <2>1. Lacks(d)' \subseteq Lacks(d) \cup {<<attemptCount[d] + 1, "audit">>}
    <3> SUFFICES ASSUME NEW t \in Lacks(d)', t # <<attemptCount[d] + 1, "audit">>
                 PROVE  t \in Lacks(d)
      OBVIOUS
    <3>1. /\ t \in (1..(attemptCount[d] + 1)) \X {"audit", "verdict"} /\ t = <<t[1], t[2]>>
          /\ IF t[2] = "audit" THEN Unrecorded(<<d, t[1]>>)
             ELSE \E v \in Worker : wpc[v] = "recorded" /\ wjob[v] = <<d, t[1]>>
      BY <2>0 DEF Lacks, Unrecorded
    <3>2. t[1] <= attemptCount[d]
      <4>1. CASE t[2] = "audit"
        BY <1>0, <3>1, <4>1
      <4>2. CASE t[2] # "audit"
        BY <1>0, <3>1, <4>2 DEF UniqueInv, AllCounted, Counted, Busy
      <4> QED BY <4>1, <4>2
    <3> QED BY <1>0, <3>1, <3>2 DEF Lacks
  <2>2. Cardinality(Lacks(d)') <= Cardinality(Lacks(d)) + 1
    BY <1>0, <2>1, LacksOneMore
  <2>3. /\ Cardinality(Lacks(d)') \in Nat /\ Cardinality(Lacks(d)) \in Nat /\ mishaps \in Nat
        /\ Cardinality(Lacks(d)) + 1 + (IF DueTwice(d) THEN 1 ELSE 0) <= mishaps + 1
    BY <1>0, <2>0, LacksFinite, PoolAssumption
       DEF OwedInv, Outstanding, TypeInv, HistoryTypeOK
  <2>4. Cardinality(Lacks(d)') + (IF Guarded(d)' THEN 0 ELSE 1)
            + (IF DueTwice(d)' THEN 1 ELSE 0) <= mishaps' + 1
    BY <2>0, <2>2, <2>3
  <2> QED BY <1>2, <2>4 DEF Outstanding
<1> QED BY <1>1, <1>2

\* A verdict is what its attempt still needed, and leaves at most one claim due.
LEMMA OwedSettle ==
    ASSUME UniqueInv, TypeInv', OwedInv, NEW w \in Worker, Settle(w)
    PROVE  OwedInv'
<1>0. TypeInv
  BY DEF UniqueInv
<1>c. PICK c, d : c = wjob[w] /\ d = c[1]
  OBVIOUS
<1>1. /\ UNCHANGED <<attemptCount, attempts, mishaps>>
      /\ d \in Delivery /\ c = <<d, c[2]>> /\ c[2] \in 1..attemptCount[d]
      /\ wpc[w] = "recorded" /\ wpc'[w] = "idle"
      /\ \A v \in Worker \ {w} :
            wpc'[v] = wpc[v] /\ wjob'[v] = wjob[v] /\ (wpc[v] = "recorded" => wjob[v] # c)
      /\ \A x \in Delivery \ {d} : Guarded(x) => Guarded(x)'
      /\ \A x : DueTwice(x)' => DueTwice(x)
  BY <1>c, SettleDue DEF Claim
<1>2. \A x : Lacks(x)' \subseteq Lacks(x)
  BY <1>1, LacksNoMore
<1> SUFFICES ASSUME NEW x \in Delivery PROVE (Outstanding(x) <= mishaps + 1)'
  BY DEF OwedInv
<1>3. CASE x # d
  BY <1>0, <1>1, <1>2, <1>3, OwedStays
<1>4. CASE x = d
  <2> DEFINE t == <<c[2], "verdict">>
  <2>2. t \in Lacks(d)
    <3>1. wpc[w] = "recorded" /\ wjob[w] = <<d, t[1]>> /\ t[2] # "audit"
      BY <1>1, <1>c
    <3> QED BY <1>1, <3>1 DEF Lacks
  <2>3. t \notin Lacks(d)'
    BY <1>1 DEF Lacks
  <2> HIDE DEF t
  <2>4. Lacks(d)' \subseteq Lacks(d) \ {t}
    BY <1>2, <2>3
  <2>5. /\ Cardinality(Lacks(d) \ {t}) = Cardinality(Lacks(d)) - 1
        /\ IsFiniteSet(Lacks(d) \ {t})
    BY <1>0, <1>1, <2>2, LacksFinite, FS_RemoveElement
  <2>6. Cardinality(Lacks(d)') <= Cardinality(Lacks(d)) - 1
    BY <2>4, <2>5, FS_Subset
  <2>7. /\ Cardinality(Lacks(d)') \in Nat /\ Cardinality(Lacks(d)) \in Nat /\ mishaps \in Nat
        /\ Cardinality(Lacks(d)) + (IF Guarded(d) THEN 0 ELSE 1)
               + (IF DueTwice(d) THEN 1 ELSE 0) <= mishaps + 1
    BY <1>0, <1>1, LacksFinite, PoolAssumption DEF OwedInv, Outstanding, TypeInv, HistoryTypeOK
  <2>8. Cardinality(Lacks(d)') + (IF Guarded(d)' THEN 0 ELSE 1)
            + (IF DueTwice(d)' THEN 1 ELSE 0) <= mishaps' + 1
    BY <1>1, <2>6, <2>7
  <2> QED BY <1>4, <2>8 DEF Outstanding
<1> QED BY <1>3, <1>4

\* A record is made: the attempt needs its verdict instead.  One that fails is
\* needed for good, and is a mishap.
LEMMA OwedRecord ==
    ASSUME UniqueInv, TypeInv', OwedInv, NEW w \in Worker, Record(w) \/ RecordFails(w)
    PROVE  OwedInv'
<1>0. TypeInv /\ Calm
  BY CalmWorker DEF UniqueInv, WorkerStep, Record, RecordFails, Settle, SettleFails
<1>c. PICK c, d : c = wjob[w] /\ d = wjob[w][1]
  OBVIOUS
<1>1. /\ c \in Claim /\ d \in Delivery /\ c = <<d, c[2]>> /\ c[2] \in Nat \ {0}
      /\ wpc[w] = "sent" /\ Busy(w)
  BY <1>0, <1>c DEF Record, RecordFails, TypeInv, AtClaim, Busy, Claim
<1>2. /\ UNCHANGED <<attemptCount, wjob>> /\ attempts \subseteq attempts'
      /\ \A v \in Worker \ {w} : wpc'[v] = wpc[v]
      /\ \/ mishaps' = mishaps /\ <<c, OutcomeOf(wres[w])>> \in attempts'
         \/ mishaps' = mishaps + 1
  BY <1>0, <1>c DEF Record, RecordAttempt, RecordFails, Mishap, TypeInv, PoolTypeOK, storeVars
<1> SUFFICES ASSUME NEW x \in Delivery PROVE (Outstanding(x) <= mishaps + 1)'
  BY DEF OwedInv
<1>3. (Guarded(x) => Guarded(x)') /\ (DueTwice(x)' => DueTwice(x))
  BY <1>0, CalmDue
<1>4. CASE x # d
  <2>1. Lacks(x)' \subseteq Lacks(x)
    <3> SUFFICES ASSUME NEW s \in Lacks(x)' PROVE s \in Lacks(x)
      OBVIOUS
    <3>1. s \in (1..attemptCount[x]) \X {"audit", "verdict"}
      BY <1>2 DEF Lacks
    <3>2. CASE s[2] = "audit"
      BY <1>2, <3>1, <3>2 DEF Lacks, Unrecorded
    <3>3. CASE s[2] # "audit"
      <4>1. PICK v \in Worker : wpc'[v] = "recorded" /\ wjob[v] = <<x, s[1]>>
        BY <1>2, <3>3 DEF Lacks
      <4>2. v # w
        BY <1>4, <1>c, <4>1
      <4> QED BY <1>2, <3>1, <3>3, <4>1, <4>2 DEF Lacks
    <3> QED BY <3>2, <3>3
  <2> QED BY <1>0, <1>2, <1>3, <2>1, OwedStays
<1>5. CASE x = d
  <2> DEFINE a == <<c[2], "audit">>
             t == <<c[2], "verdict">>
  <2>1. Lacks(d)' \subseteq Lacks(d) \cup {t}
    <3> SUFFICES ASSUME NEW s \in Lacks(d)', s \notin Lacks(d) PROVE s = t
      OBVIOUS
    <3>1. /\ s \in (1..attemptCount[d]) \X {"audit", "verdict"}
          /\ s[2] = "audit" => Unrecorded(<<d, s[1]>>)
      BY <1>2 DEF Lacks, Unrecorded
    <3>2. s[2] # "audit" /\ s = <<s[1], "verdict">>
      BY <3>1 DEF Lacks
    <3>3. PICK v \in Worker : wpc'[v] = "recorded" /\ wjob'[v] = <<d, s[1]>>
      BY <3>2 DEF Lacks
    <3>4. v = w
      BY <1>2, <3>1, <3>2, <3>3 DEF Lacks
    <3>5. s[1] = c[2]
      BY <1>2, <1>c, <3>3, <3>4
    <3> QED BY <3>2, <3>5
  <2>2. /\ Cardinality(Lacks(d)) \in Nat /\ IsFiniteSet(Lacks(d))
        /\ Cardinality(Lacks(d)') \in Nat /\ mishaps \in Nat
        /\ Cardinality(Lacks(d)) + (IF Guarded(d) THEN 0 ELSE 1)
               + (IF DueTwice(d) THEN 1 ELSE 0) <= mishaps + 1
    BY <1>0, <1>1, LacksFinite, PoolAssumption DEF OwedInv, Outstanding, TypeInv, HistoryTypeOK
  <2>3. CASE mishaps' = mishaps /\ <<c, OutcomeOf(wres[w])>> \in attempts'
    <3>1. a \in Lacks(d)
      <4>1. Unrecorded(<<d, c[2]>>)
        BY <1>1, <1>c DEF UniqueInv, NotYetAudited
      <4>2. c[2] \in 1..attemptCount[d]
        BY <1>0, <1>1, <1>c DEF UniqueInv, AllCounted, Counted, TypeInv, StoreTypeOK
      <4> QED BY <4>1, <4>2 DEF Lacks
    <3>2. a \notin Lacks(d)'
      <4>1. ~Unrecorded(<<d, c[2]>>)'
        BY <1>1, <2>3 DEF Unrecorded
      <4> QED BY <4>1 DEF Lacks, Unrecorded
    <3> HIDE DEF a, t
    <3>3. Lacks(d)' \subseteq (Lacks(d) \ {a}) \cup {t}
      BY <2>1, <3>2
    <3>4. /\ Cardinality(Lacks(d) \ {a}) = Cardinality(Lacks(d)) - 1
          /\ IsFiniteSet(Lacks(d) \ {a})
      BY <2>2, <3>1, FS_RemoveElement
    <3>5. /\ IsFiniteSet((Lacks(d) \ {a}) \cup {t})
          /\ \/ Cardinality((Lacks(d) \ {a}) \cup {t}) = Cardinality(Lacks(d)) - 1
             \/ Cardinality((Lacks(d) \ {a}) \cup {t}) = Cardinality(Lacks(d)) - 1 + 1
      BY <3>4, FS_AddElement
    <3>6. Cardinality(Lacks(d)') <= Cardinality((Lacks(d) \ {a}) \cup {t})
      BY <3>3, <3>5, FS_Subset
    <3>7. Cardinality(Lacks(d)') <= Cardinality(Lacks(d))
      BY <2>2, <3>5, <3>6
    <3>8. Cardinality(Lacks(d)') + (IF Guarded(d)' THEN 0 ELSE 1)
              + (IF DueTwice(d)' THEN 1 ELSE 0) <= mishaps' + 1
      BY <1>3, <1>5, <2>2, <2>3, <3>7
    <3> QED BY <1>5, <3>8 DEF Outstanding
  <2>4. CASE mishaps' = mishaps + 1
    <3>1. Cardinality(Lacks(d)') <= Cardinality(Lacks(d)) + 1
      BY <1>0, <1>1, <2>1, LacksOneMore
    <3>2. Cardinality(Lacks(d)') + (IF Guarded(d)' THEN 0 ELSE 1)
              + (IF DueTwice(d)' THEN 1 ELSE 0) <= mishaps' + 1
      BY <1>3, <1>5, <2>2, <2>4, <3>1
    <3> QED BY <1>5, <3>2 DEF Outstanding
  <2> QED BY <1>2, <2>3, <2>4
<1> QED BY <1>4, <1>5

\* The dispatcher: a claim is the only step that needs a record.
LEMMA OwedDispatcher ==
    ASSUME UniqueInv, TypeInv', OwedInv, NEW p \in Proc, DispatcherStep(p)
    PROVE  OwedInv'
<1>0. TypeInv
  BY DEF UniqueInv
<1>1. CASE ClaimCommit(p) \/ ClaimCommitLost(p)
  BY <1>1, ClaimDue, OwedClaim
<1> QED BY <1>0, <1>1, CalmDispatcher, OwedCalm DEF storeVars, workerVars

\* A worker records, decides, or pays for what it leaves undone.
LEMMA OwedWorker ==
    ASSUME UniqueInv, TypeInv', OwedInv, NEW w \in Worker, WorkerStep(w)
    PROVE  OwedInv'
<1>0. TypeInv
  BY DEF UniqueInv
<1>1. CASE Settle(w)
  BY <1>1, OwedSettle
<1>2. CASE SettleFails(w)
  <2>1. \A v \in Worker : wpc'[v] = "recorded" => wpc[v] = "recorded" /\ wjob'[v] = wjob[v]
    BY <1>0, <1>2 DEF SettleFails, WorkerIdle, TypeInv, PoolTypeOK
  <2> QED BY <1>0, <1>2, <2>1, GivesUp, OwedMishap DEF storeVars
<1>3. CASE Record(w) \/ RecordFails(w)
  BY <1>3, OwedRecord
<1>4. CASE Take(w) \/ TakeCancelled(w) \/ SendReturns(w) \/ WorkerStop(w)
  <2>1. /\ wpc'[w] # "recorded" /\ UNCHANGED attempts
        /\ \A v \in Worker \ {w} : wpc'[v] = wpc[v] /\ wjob'[v] = wjob[v]
    BY <1>0, <1>4 DEF Take, TakeCancelled, Receive, SendReturns, SendReturned, WorkerStop,
                      TypeInv, PoolTypeOK, storeVars
  <2>2. ~Settle(w) /\ ~SettleFails(w)
    BY <1>4 DEF Take, TakeCancelled, Receive, SendReturns, WorkerStop, Settle, SettleFails
  <2> QED BY <1>0, <2>1, <2>2, CalmWorker, OwedCalm
<1> QED BY <1>1, <1>2, <1>3, <1>4 DEF WorkerStep

\* No process that stops or starts has a worker come to a verdict.
LEMMA OwedProcess ==
    ASSUME UniqueInv, TypeInv', OwedInv, NEW p \in Proc, ProcessStep(p)
    PROVE  OwedInv'
<1>0. TypeInv
  BY DEF UniqueInv
<1>1. \A w \in Worker : wpc'[w] = "recorded" => wpc[w] = "recorded" /\ wjob'[w] = wjob[w]
  BY <1>0 DEF ProcessStep, Shutdown, Exit, ExitUnfinished, Crash, Restart, End, workerVars,
              TypeInv, PoolTypeOK
<1>2. CASE Shutdown(p)
  BY <1>0, <1>1, <1>2, ShutdownDue, OwedMishap DEF storeVars, Due
<1>3. CASE Crash(p)
  <2>1. End(p) /\ mishaps' = mishaps + 1
    BY <1>3 DEF Crash, Mishap
  <2>2. \A d : DueTwice(d)' => DueTwice(d)
    BY <1>0, <2>1, EndTakes DEF DueTwice
  <2> QED BY <1>0, <1>1, <2>1, <2>2, EndTakes, OwedMishap DEF storeVars
<1> QED BY <1>0, <1>1, <1>2, <1>3, CalmProcess, OwedCalm DEF storeVars

\* Nothing outside the processes needs a record.
LEMMA OwedOutside ==
    ASSUME UniqueInv, TypeInv', OwedInv,
           \/ \E e \in Event : Submit(e) \/ Replay(e)
           \/ \E d \in Delivery : RetryDue(d) \/ LeasePasses(d)
    PROVE  OwedInv'
<1>0. TypeInv
  BY DEF UniqueInv
<1>1. ASSUME NEW d \in Delivery, LeasePasses(d) PROVE OwedInv'
  <2>1. /\ UNCHANGED <<attemptCount, attempts, procVars, workerVars>>
        /\ \/ mishaps' = mishaps /\ \A x : Guarded(x) => Guarded(x)'
           \/ mishaps' = mishaps + 1
    BY <1>0, <1>1, LeaseGuards
  <2>2. \A x : Lacks(x)' \subseteq Lacks(x)
    BY <2>1, LacksNoMore DEF workerVars
  <2>3. \A x : DueTwice(x)' => DueTwice(x)
    BY <2>1 DEF DueTwice, procVars
  <2> QED BY <1>0, <2>1, <2>2, <2>3, OwedStays DEF OwedInv
<1> QED BY <1>0, <1>1, CalmOutside, OwedCalm DEF workerVars

\* OwedInv is inductive, given unique claims.
LEMMA OwedNext == UniqueInv /\ OwedInv /\ [Next]_vars => OwedInv'
<1> SUFFICES ASSUME UniqueInv, OwedInv, [Next]_vars PROVE OwedInv'
  OBVIOUS
<1>1. TypeInv /\ TypeInv'
  BY TypeInvNext DEF UniqueInv
<1>2. CASE UNCHANGED vars
  BY <1>1, <1>2, CalmStutter, OwedCalm DEF vars, storeVars, workerVars
<1>3. CASE Next
  BY <1>1, <1>3, OwedDispatcher, OwedWorker, OwedProcess, OwedOutside DEF Next
<1> QED BY <1>2, <1>3

\* At first a delivery needs nothing, and its first claim is due.
LEMMA OwedInit == PoolInit => OwedInv
<1> SUFFICES ASSUME PoolInit, NEW d \in Delivery PROVE Outstanding(d) <= mishaps + 1
  BY DEF OwedInv
<1>1. attemptCount[d] = 0 /\ mishaps = 0 /\ ~DueTwice(d)
  BY DEF PoolInit, StoreInit, DueTwice
<1>2. Lacks(d) = {}
  BY <1>1 DEF Lacks
<1>3. Cardinality(Lacks(d)) = 0
  BY <1>2, FS_EmptySet
<1> QED BY <1>1, <1>3 DEF Outstanding

\* A delivery that is finished lacks no more audit rows than there were mishaps,
\* whoever claimed it, crashed, was shut down or overran its lease: only the INSERT
\* that fails and the job that is given up cost one, each with a mishap of its own.
THEOREM AuditGapsArePaidFor == Spec => []AuditGapsPaidFor
<1>1. TypeInv /\ OwedInv => AuditGapsPaidFor
  <2> SUFFICES ASSUME TypeInv, OwedInv, NEW d \in Delivery, status[d] \in Terminal
               PROVE  Cardinality(Unaudited(d)) <= mishaps
    BY DEF AuditGapsPaidFor
  <2>1. attemptCount[d] \in Nat /\ mishaps \in Nat
    BY PoolAssumption DEF TypeInv, StoreTypeOK, HistoryTypeOK
  <2>2. Lacks(d) \in SUBSET ((1..attemptCount[d]) \X {"audit", "verdict"})
    BY DEF Lacks
  <2>3. IsFiniteSet(Lacks(d)) /\ Cardinality(Lacks(d)) \in Nat
    BY <2>1, <2>2, NeedsFinite
  <2>4. Cardinality(Lacks(d)) <= mishaps
    <3>1. ~Guarded(d)
      BY DEF Guarded, Terminal
    <3> QED BY <2>1, <2>3, <3>1 DEF OwedInv, Outstanding
  <2>5. /\ IsFiniteSet(Unaudited(d))
        /\ Cardinality(Unaudited(d)) <= Cardinality(Lacks(d))
    <3> DEFINE f == [n \in Unaudited(d) |-> <<n, "audit">>]
    <3>1. f \in Injection(Unaudited(d), Lacks(d))
      <4>1. \A n \in Unaudited(d) : <<n, "audit">> \in Lacks(d)
        BY DEF Unaudited, Lacks, Unrecorded
      <4>2. f \in [Unaudited(d) -> Lacks(d)]
        BY <4>1
      <4>3. \A m, n \in Unaudited(d) : f[m] = f[n] => m = n
        OBVIOUS
      <4> QED BY <4>2, <4>3 DEF Injection, IsInjective
    <3> QED BY <2>3, <3>1, FS_Injection
  <2>6. Cardinality(Unaudited(d)) \in Nat
    BY <2>5, FS_CardinalityType
  <2> QED BY <2>1, <2>3, <2>4, <2>5, <2>6
<1> QED BY <1>1, OwedInit, UniqueInit, UniqueInvNext, OwedNext, PTL DEF Spec, UniqueInv

----------------------------------------------------------------------------
(* Deliveries accepted twice are paid for *)

\* The attempts of d that were accepted, or may be yet.
Hopeful(d) ==
    {n \in 1..attemptCount[d] :
        \/ <<<<d, n>>, "succeeded">> \in attempts
        \/ \E p \in Proc : Carries(p, <<d, n>>)}

\* With the claims that are due, these are one and the mishaps.
Chances(d) ==
    Cardinality(Hopeful(d)) + (IF Due(d) THEN 1 ELSE 0) + (IF DueTwice(d) THEN 1 ELSE 0)

HopeInv == \A d \in Delivery : Chances(d) <= 1 + mishaps

\* A worker whose attempt is recorded as accepted writes no other verdict.
RecordedAs ==
    \A w \in Worker :
        wpc[w] = "recorded" /\ <<wjob[w], "succeeded">> \in attempts => wres[w] = "ok"

\* Only RecordAttempt makes an audit row, and only of its worker's job.
Vouched ==
    \A c : <<c, "succeeded">> \in attempts' =>
        <<c, "succeeded">> \in attempts \/ \E q \in Proc : Carries(q, c)

\* No worker comes to its verdict.
NoneRecorded ==
    /\ UNCHANGED attempts
    /\ \A w \in Worker : wpc'[w] = "recorded" =>
           wpc[w] = "recorded" /\ wjob'[w] = wjob[w] /\ wres'[w] = wres[w]

\* The worker that records has the only job of its claim, and no row of it is there
\* before: what the row says is what Send returned.
LEMMA RecordedNext == UniqueInv /\ RecordedAs /\ [Next]_vars => RecordedAs'
<1> SUFFICES ASSUME UniqueInv, RecordedAs, [Next]_vars PROVE RecordedAs'
  OBVIOUS
<1>0. TypeInv
  BY DEF UniqueInv
<1>1. NoneRecorded => RecordedAs'
  BY DEF NoneRecorded, RecordedAs
<1>2. ASSUME NEW p \in Proc, DispatcherStep(p) PROVE NoneRecorded
  BY <1>2 DEF DispatcherStep, PollNothing, ClaimSelect, ClaimCommit, ClaimCommitLost,
              ClaimAbort, Enqueue, DispatcherStop, ClaimRow, NoneRecorded, vars,
              storeVars, workerVars
<1>3. ASSUME NEW w \in Worker, WorkerStep(w) PROVE RecordedAs'
  <2>1. CASE Record(w) \/ RecordFails(w)
    <3>1. /\ wpc[w] = "sent" /\ UNCHANGED <<wjob, wres>>
          /\ \A v \in Worker \ {w} : wpc'[v] = wpc[v]
          /\ \A a : a \in attempts' => a \in attempts \/ a = <<wjob[w], OutcomeOf(wres[w])>>
      BY <1>0, <2>1 DEF Record, RecordAttempt, RecordFails, storeVars, TypeInv, PoolTypeOK
    <3>2. <<wjob[w], "succeeded">> \notin attempts
      BY <3>1 DEF UniqueInv, NotYetAudited, Unrecorded
    <3>3. \A v \in Worker \ {w} : wpc[v] = "recorded" => wjob[v] # wjob[w]
      BY <3>1 DEF UniqueInv, Unique, Busy
    <3>4. OutcomeOf(wres[w]) = "succeeded" => wres[w] = "ok"
      BY DEF OutcomeOf
    <3> QED BY <3>1, <3>2, <3>3, <3>4 DEF RecordedAs
  <2>2. CASE Settle(w) \/ SettleFails(w)
    BY <1>0, <1>1, <2>2 DEF Settle, Verdict, MarkSucceeded, MarkDead, ScheduleRetry, SettleFails,
        WorkerIdle, NoneRecorded, storeVars, TypeInv, PoolTypeOK
  <2>3. CASE Take(w) \/ TakeCancelled(w) \/ SendReturns(w) \/ WorkerStop(w)
    BY <1>0, <1>1, <2>3 DEF Take, TakeCancelled, Receive, SendReturns, SendReturned, WorkerStop,
        NoneRecorded, storeVars, TypeInv, PoolTypeOK
  <2> QED BY <1>3, <2>1, <2>2, <2>3 DEF WorkerStep
<1>4. ASSUME NEW p \in Proc, ProcessStep(p) PROVE NoneRecorded
  BY <1>0, <1>4 DEF ProcessStep, Shutdown, Exit, ExitUnfinished, Crash, Restart, End,
      NoneRecorded, storeVars, workerVars, TypeInv, PoolTypeOK
<1>5. ASSUME \/ \E e \in Event : Submit(e) \/ Replay(e)
             \/ \E d \in Delivery : RetryDue(d) \/ LeasePasses(d)
      PROVE  NoneRecorded
  BY <1>5 DEF Submit, CreateEventWithDelivery, Replay, CreateReplayDelivery, InsertPending,
      RetryDue, BackoffElapses, LeasePasses, LeaseElapses, NoneRecorded, poolVars, workerVars
<1>6. CASE UNCHANGED vars
  BY <1>1, <1>6 DEF NoneRecorded, vars, storeVars, workerVars
<1> QED BY <1>1, <1>2, <1>3, <1>4, <1>5, <1>6 DEF Next

\* Some of the first n attempts are finite in number.
LEMMA SomeAreFinite ==
    ASSUME NEW n \in Nat, NEW S \in SUBSET (1..n)
    PROVE  IsFiniteSet(S) /\ Cardinality(S) \in Nat
<1>1. IsFiniteSet(1..n)
  BY FS_Interval
<1>2. IsFiniteSet(S)
  BY <1>1, FS_Subset
<1> QED BY <1>2, FS_CardinalityType

\* So are the hopes, now and next.
LEMMA HopefulFinite ==
    ASSUME TypeInv, TypeInv', NEW d \in Delivery
    PROVE  /\ IsFiniteSet(Hopeful(d)) /\ Cardinality(Hopeful(d)) \in Nat
           /\ IsFiniteSet(Hopeful(d)') /\ Cardinality(Hopeful(d)') \in Nat
<1>1. attemptCount[d] \in Nat /\ attemptCount'[d] \in Nat
  BY DEF TypeInv, StoreTypeOK
<1>2. Hopeful(d) \in SUBSET (1..attemptCount[d]) /\ Hopeful(d)' \in SUBSET (1..attemptCount'[d])
  BY DEF Hopeful
<1> QED BY <1>1, <1>2, SomeAreFinite

\* Where no attempt is made, there is no more hope.
LEMMA HopefulNoMore ==
    ASSUME UNCHANGED attemptCount, Vouched, \A q \in Proc : \A c : Carries(q, c)' => Carries(q, c)
    PROVE  \A d : Hopeful(d)' \subseteq Hopeful(d)
BY DEF Hopeful, Vouched

\* A row with no more hope: a mishap makes at most one claim due.
LEMMA HopeStays ==
    ASSUME TypeInv, TypeInv', HopeInv, NEW d \in Delivery,
           Hopeful(d)' \subseteq Hopeful(d),
           \/ /\ mishaps' = mishaps \/ mishaps' = mishaps + 1
              /\ Due(d)' => Due(d)
              /\ DueTwice(d)' => DueTwice(d)
           \/ /\ mishaps' = mishaps + 1
              /\ (Due(d)' => Due(d)) \/ (DueTwice(d)' => DueTwice(d))
    PROVE  (Chances(d) <= 1 + mishaps)'
<1>1. Cardinality(Hopeful(d)) \in Nat /\ Cardinality(Hopeful(d)') \in Nat /\ mishaps \in Nat
  BY HopefulFinite, PoolAssumption DEF TypeInv, HistoryTypeOK
<1>2. Cardinality(Hopeful(d)') <= Cardinality(Hopeful(d))
  BY HopefulFinite, FS_Subset
<1>3. Cardinality(Hopeful(d)) + (IF Due(d) THEN 1 ELSE 0)
          + (IF DueTwice(d) THEN 1 ELSE 0) <= 1 + mishaps
  BY DEF HopeInv, Chances
<1>4. Cardinality(Hopeful(d)') + (IF Due(d)' THEN 1 ELSE 0)
          + (IF DueTwice(d)' THEN 1 ELSE 0) <= 1 + mishaps'
  <2>1. CASE /\ mishaps' = mishaps \/ mishaps' = mishaps + 1
             /\ Due(d)' => Due(d)
             /\ DueTwice(d)' => DueTwice(d)
    BY <1>1, <1>2, <1>3, <2>1
  <2>2. CASE /\ mishaps' = mishaps + 1
             /\ (Due(d)' => Due(d)) \/ (DueTwice(d)' => DueTwice(d))
    BY <1>1, <1>2, <1>3, <2>2
  <2> QED BY <2>1, <2>2
<1> QED BY <1>4 DEF Chances

\* A calm step costs nothing, ...
LEMMA HopeCalm ==
    ASSUME TypeInv, TypeInv', HopeInv, Calm, Vouched
    PROVE  HopeInv'
<1> SUFFICES ASSUME NEW d \in Delivery PROVE (Chances(d) <= 1 + mishaps)'
  BY DEF HopeInv
<1>1. Hopeful(d)' \subseteq Hopeful(d)
  BY HopefulNoMore DEF Calm
<1> QED BY <1>1, CalmDue, HopeStays DEF Calm

\* ... and a mishap may take jobs, or shut a process down.
LEMMA HopeMishap ==
    ASSUME TypeInv, TypeInv', HopeInv, UNCHANGED <<attemptCount, attempts>>,
           mishaps' = mishaps + 1,
           \A q \in Proc : \A c : Carries(q, c)' => Carries(q, c),
           \A d \in Delivery : (Due(d)' => Due(d)) \/ (DueTwice(d)' => DueTwice(d))
    PROVE  HopeInv'
BY HopefulNoMore, HopeStays DEF HopeInv, Vouched

\* A claim is the hope that was due.
LEMMA HopeClaim ==
    ASSUME UniqueInv, TypeInv', HopeInv, NEW d \in Delivery, MakesClaim(d)
    PROVE  HopeInv'
<1>0. TypeInv /\ attemptCount[d] \in Nat
  BY DEF UniqueInv, TypeInv, StoreTypeOK
<1> SUFFICES ASSUME NEW x \in Delivery PROVE (Chances(x) <= 1 + mishaps)'
  BY DEF HopeInv
<1>1. CASE x # d
  <2>1. /\ x \in Delivery \ {d}
        /\ mishaps' = mishaps \/ mishaps' = mishaps + 1
        /\ Due(x)' => Due(x)
        /\ DueTwice(x)' => DueTwice(x)
    BY <1>1 DEF MakesClaim
  <2>2. Hopeful(x)' \subseteq Hopeful(x)
    BY <1>1 DEF Hopeful, MakesClaim
  <2> QED BY <1>0, <2>1, <2>2, HopeStays
<1>2. CASE x = d
  <2> DEFINE n == attemptCount[d] + 1
  <2>1. /\ \/ mishaps' = mishaps /\ (~Due(d)' \/ DueTwice(d))
           \/ mishaps' = mishaps + 1
        /\ attemptCount'[d] = n /\ ~DueTwice(d)' /\ Due(d) /\ UNCHANGED attempts
        /\ \A q \in Proc : \A e : Carries(q, e)' => Carries(q, e) \/ e = <<d, n>>
    BY DEF MakesClaim, Due
  <2>2. Hopeful(d)' \subseteq Hopeful(d) \cup {n}
    <3> SUFFICES ASSUME NEW m \in Hopeful(d)', m # n PROVE m \in Hopeful(d)
      OBVIOUS
    <3>1. m \in 1..attemptCount[d]
      BY <1>0, <2>1 DEF Hopeful
    <3>2. <<d, m>> # <<d, n>>
      OBVIOUS
    <3> QED BY <2>1, <3>1, <3>2 DEF Hopeful
  <2> HIDE DEF n
  <2>3. /\ IsFiniteSet(Hopeful(d)) /\ Cardinality(Hopeful(d)) \in Nat
        /\ Cardinality(Hopeful(d)') \in Nat /\ mishaps \in Nat
        /\ Cardinality(Hopeful(d)) + 1 + (IF DueTwice(d) THEN 1 ELSE 0) <= 1 + mishaps
    BY <1>0, <2>1, HopefulFinite, PoolAssumption DEF HopeInv, Chances, TypeInv, HistoryTypeOK
  <2>4. /\ IsFiniteSet(Hopeful(d) \cup {n})
        /\ \/ Cardinality(Hopeful(d) \cup {n}) = Cardinality(Hopeful(d))
           \/ Cardinality(Hopeful(d) \cup {n}) = Cardinality(Hopeful(d)) + 1
    BY <2>3, FS_AddElement
  <2>5. Cardinality(Hopeful(d)') <= Cardinality(Hopeful(d) \cup {n})
    BY <2>2, <2>4, FS_Subset
  <2>6. Cardinality(Hopeful(d)') <= Cardinality(Hopeful(d)) + 1
    BY <2>3, <2>4, <2>5
  <2>7. Cardinality(Hopeful(d)') + (IF Due(d)' THEN 1 ELSE 0)
            + (IF DueTwice(d)' THEN 1 ELSE 0) <= 1 + mishaps'
    BY <2>1, <2>3, <2>6
  <2> QED BY <1>2, <2>7 DEF Chances
<1> QED BY <1>1, <1>2

\* A retry gives up the hope of its attempt, which was not accepted, for a claim.
LEMMA HopeSettle ==
    ASSUME UniqueInv, TypeInv', HopeInv, RecordedAs, NEW w \in Worker, Settle(w)
    PROVE  HopeInv'
<1>0. TypeInv
  BY DEF UniqueInv
<1>c. PICK c, d : c = wjob[w] /\ d = c[1]
  OBVIOUS
<1>1. /\ UNCHANGED <<attemptCount, attempts, mishaps>>
      /\ d \in Delivery /\ c = <<d, c[2]>> /\ c[2] \in 1..attemptCount[d]
      /\ Host[w] \in Proc /\ Carries(Host[w], c) /\ wpc[w] = "recorded"
      /\ \A q \in Proc : \A e : Carries(q, e)' <=> Carries(q, e) /\ e # c
      /\ \A x \in Delivery \ {d} : Due(x)' => Due(x)
      /\ \A x : DueTwice(x)' => DueTwice(x)
      /\ Due(d)' => wres[w] = "retry"
  BY <1>c, SettleDue, PoolAssumption DEF Claim
<1>2. \A x : Hopeful(x)' \subseteq Hopeful(x)
  BY <1>1, HopefulNoMore DEF Vouched
<1> SUFFICES ASSUME NEW x \in Delivery PROVE (Chances(x) <= 1 + mishaps)'
  BY DEF HopeInv
<1>3. CASE x # d \/ ~Due(d)'
  <2>1. Due(x)' => Due(x)
    BY <1>1, <1>3
  <2> QED BY <1>0, <1>1, <1>2, <2>1, HopeStays
<1>4. CASE x = d /\ Due(d)'
  <2>1. c[2] \in Hopeful(d)
    BY <1>1 DEF Hopeful
  <2>2. c[2] \notin Hopeful(d)'
    <3>1. <<c, "succeeded">> \notin attempts
      BY <1>1, <1>4, <1>c DEF RecordedAs
    <3> QED BY <1>1, <3>1 DEF Hopeful
  <2>3. Hopeful(d)' \subseteq Hopeful(d) \ {c[2]}
    BY <1>2, <2>2
  <2>4. /\ IsFiniteSet(Hopeful(d)) /\ Cardinality(Hopeful(d)) \in Nat
        /\ Cardinality(Hopeful(d)') \in Nat /\ mishaps \in Nat
        /\ Cardinality(Hopeful(d)) + (IF Due(d) THEN 1 ELSE 0)
               + (IF DueTwice(d) THEN 1 ELSE 0) <= 1 + mishaps
    BY <1>0, <1>1, HopefulFinite, PoolAssumption DEF HopeInv, Chances, TypeInv, HistoryTypeOK
  <2>5. /\ Cardinality(Hopeful(d) \ {c[2]}) = Cardinality(Hopeful(d)) - 1
        /\ IsFiniteSet(Hopeful(d) \ {c[2]})
    BY <2>1, <2>4, FS_RemoveElement
  <2>6. Cardinality(Hopeful(d)') <= Cardinality(Hopeful(d)) - 1
    BY <2>3, <2>5, FS_Subset
  <2>7. Cardinality(Hopeful(d)') + (IF Due(d)' THEN 1 ELSE 0)
            + (IF DueTwice(d)' THEN 1 ELSE 0) <= 1 + mishaps'
    BY <1>1, <2>4, <2>6
  <2> QED BY <1>4, <2>7 DEF Chances
<1> QED BY <1>3, <1>4

\* HopeInv is inductive, given unique claims and true records.
LEMMA HopeNext == UniqueInv /\ HopeInv /\ RecordedAs /\ [Next]_vars => HopeInv'
<1> SUFFICES ASSUME UniqueInv, HopeInv, RecordedAs, [Next]_vars PROVE HopeInv'
  OBVIOUS
<1>0. TypeInv /\ TypeInv'
  BY TypeInvNext DEF UniqueInv
<1>v. UNCHANGED attempts => Vouched
  BY DEF Vouched
<1>1. ASSUME NEW p \in Proc, DispatcherStep(p) PROVE HopeInv'
  <2>1. CASE ClaimCommit(p) \/ ClaimCommitLost(p)
    BY <1>0, <2>1, ClaimDue, HopeClaim
  <2> QED BY <1>0, <1>1, <1>v, <2>1, CalmDispatcher, HopeCalm DEF storeVars
<1>2. ASSUME NEW w \in Worker, WorkerStep(w) PROVE HopeInv'
  <2>1. CASE Settle(w)
    BY <1>0, <2>1, HopeSettle
  <2>2. CASE SettleFails(w)
    BY <1>0, <2>2, GivesUp, HopeMishap DEF storeVars
  <2>3. CASE Record(w)
    <3>1. Carries(Host[w], wjob[w]) /\ Host[w] \in Proc
      BY <2>3, PoolAssumption DEF Record, Busy, Carries
    <3>2. Vouched
      BY <2>3, <3>1 DEF Record, RecordAttempt, Vouched
    <3> QED BY <1>0, <1>2, <2>1, <2>2, <3>2, CalmWorker, HopeCalm
  <2>4. CASE Take(w) \/ TakeCancelled(w) \/ SendReturns(w) \/ RecordFails(w) \/ WorkerStop(w)
    <3>1. UNCHANGED attempts
      BY <2>4 DEF Take, TakeCancelled, SendReturns, RecordFails, WorkerStop, storeVars
    <3> QED BY <1>0, <1>2, <1>v, <2>1, <2>2, <3>1, CalmWorker, HopeCalm
  <2> QED BY <1>2, <2>1, <2>2, <2>3, <2>4 DEF WorkerStep
<1>3. ASSUME NEW p \in Proc, ProcessStep(p) PROVE HopeInv'
  <2>1. CASE Shutdown(p)
    <3>1. \A q \in Proc : \A c : Carries(q, c)' => Carries(q, c)
      BY <2>1, ShutdownDue DEF Carries, Busy
    <3> QED BY <1>0, <2>1, <3>1, ShutdownDue, HopeMishap DEF storeVars
  <2>2. CASE Crash(p)
    <3>1. End(p) /\ mishaps' = mishaps + 1
      BY <2>2 DEF Crash, Mishap
    <3>2. \A d : DueTwice(d)' => DueTwice(d)
      BY <1>0, <3>1, EndTakes DEF DueTwice
    <3> QED BY <1>0, <3>1, <3>2, EndTakes, HopeMishap DEF storeVars
  <2> QED BY <1>0, <1>3, <1>v, <2>1, <2>2, CalmProcess, HopeCalm DEF storeVars
<1>4. ASSUME NEW d \in Delivery, LeasePasses(d) PROVE HopeInv'
  <2>1. /\ UNCHANGED <<status, attemptCount, attempts, procVars, workerVars>>
        /\ \/ mishaps' = mishaps /\ \A x : Guarded(x) => Guarded(x)'
           \/ mishaps' = mishaps + 1
    BY <1>0, <1>4, LeaseGuards
  <2>2. \A q, c : Carries(q, c)' <=> Carries(q, c)
    BY <2>1, CarriesStays DEF Busy, procVars, workerVars
  <2>3. \A x : Hopeful(x)' \subseteq Hopeful(x)
    BY <1>v, <2>1, <2>2, HopefulNoMore
  <2>4. \A x : DueTwice(x)' => DueTwice(x)
    BY <2>1 DEF DueTwice, procVars
  <2>5. ASSUME \A x : Guarded(x) => Guarded(x)' PROVE \A x : Due(x)' => Due(x)
    BY <2>1, <2>5 DEF Due
  <2> QED BY <1>0, <2>1, <2>3, <2>4, <2>5, HopeStays DEF HopeInv
<1>5. ASSUME \/ \E e \in Event : Submit(e) \/ Replay(e)
             \/ \E d \in Delivery : RetryDue(d)
      PROVE  HopeInv'
  BY <1>0, <1>5, <1>v, CalmOutside, HopeCalm
<1>6. CASE UNCHANGED vars
  BY <1>0, <1>6, <1>v, CalmStutter, HopeCalm DEF vars, storeVars
<1> QED BY <1>1, <1>2, <1>3, <1>4, <1>5, <1>6 DEF Next

\* At first there is one chance: the first claim.
LEMMA HopeInit == PoolInit => HopeInv /\ RecordedAs
<1> SUFFICES ASSUME PoolInit PROVE HopeInv /\ RecordedAs
  OBVIOUS
<1>1. RecordedAs
  BY DEF PoolInit, RecordedAs
<1>2. ASSUME NEW d \in Delivery PROVE Chances(d) <= 1 + mishaps
  <2>1. attemptCount[d] = 0 /\ mishaps = 0 /\ ~DueTwice(d)
    BY DEF PoolInit, StoreInit, DueTwice
  <2>2. Hopeful(d) = {}
    BY <2>1 DEF Hopeful
  <2>3. Cardinality(Hopeful(d)) = 0
    BY <2>2, FS_EmptySet
  <2> QED BY <2>1, <2>3 DEF Chances
<1> QED BY <1>1, <1>2 DEF HopeInv

\* Whatever crashes, fails or overruns its lease, and whichever verdict of whichever
\* worker is the last, a delivery is recorded as accepted once, and once more for
\* each mishap at most.
THEOREM DuplicatesArePaidFor == Spec => []DuplicatesPaidFor
<1>1. TypeInv /\ HopeInv => DuplicatesPaidFor
  <2> SUFFICES ASSUME TypeInv, HopeInv, NEW d \in Delivery
               PROVE  Cardinality(Accepted(d)) <= 1 + mishaps
    BY DEF DuplicatesPaidFor
  <2>1. attemptCount[d] \in Nat /\ mishaps \in Nat
    BY PoolAssumption DEF TypeInv, StoreTypeOK, HistoryTypeOK
  <2>2. IsFiniteSet(Hopeful(d)) /\ Cardinality(Hopeful(d)) \in Nat
    <3>1. Hopeful(d) \in SUBSET (1..attemptCount[d])
      BY DEF Hopeful
    <3> QED BY <2>1, <3>1, SomeAreFinite
  <2>3. Accepted(d) \in SUBSET Hopeful(d)
    BY DEF Accepted, Hopeful
  <2>4. IsFiniteSet(Accepted(d)) /\ Cardinality(Accepted(d)) <= Cardinality(Hopeful(d))
    BY <2>2, <2>3, FS_Subset
  <2>5. Cardinality(Accepted(d)) \in Nat
    BY <2>4, FS_CardinalityType
  <2> QED BY <2>1, <2>2, <2>4, <2>5 DEF HopeInv, Chances
<1> QED
  BY <1>1, HopeInit, UniqueInit, UniqueInvNext, RecordedNext, HopeNext, PTL DEF Spec, UniqueInv

----------------------------------------------------------------------------
(* The documentation, where leases hold and nothing goes wrong *)

\* No lease has passed under a job.
NoOverrun == overrun = {}

\* As long as leases outlast their jobs, which JobsCovered of TimingProofs says when
\* they do, a final status stays, whatever crashes, stops or fails.
THEOREM FinalWhileLeasesHold == Spec /\ []NoOverrun => TerminalIsFinal
<1>1. ASSUME NoOverrun',
             [\A d \in Delivery : d \notin overrun' /\ status'[d] # status[d] =>
                 <<status[d], status'[d]>> \in
                     {<<"absent", "pending">>, <<"pending", "running">>,
                      <<"running", "succeeded">>, <<"running", "dead">>,
                      <<"running", "pending">>}]_vars
      PROVE  [\A d \in Delivery : status[d] \in Terminal => status'[d] = status[d]]_vars
  BY <1>1 DEF NoOverrun, Terminal
<1> QED BY <1>1, StatusIsReadme, PTL DEF StatusFollowsReadme, TerminalIsFinal

LEMMA NoOverrunNext == MaxMishaps = 0 /\ TypeInv /\ NoOverrun /\ [Next]_vars => NoOverrun'
<1> SUFFICES ASSUME MaxMishaps = 0, TypeInv, NoOverrun, [Next]_vars PROVE NoOverrun'
  OBVIOUS
<1>1. ~Mishap
  BY DEF Mishap, TypeInv, HistoryTypeOK
<1>2. CASE UNCHANGED vars
  BY <1>2 DEF vars, historyVars, NoOverrun
<1>3. ASSUME NEW p \in Proc, DispatcherStep(p) PROVE NoOverrun'
  BY <1>3 DEF DispatcherStep, PollNothing, ClaimSelect, ClaimCommit, ClaimCommitLost, ClaimAbort,
              Enqueue, DispatcherStop, vars, historyVars, NoOverrun
<1>4. ASSUME NEW p \in Proc, ProcessStep(p) PROVE NoOverrun'
  BY <1>4 DEF ProcessStep, Shutdown, Exit, ExitUnfinished, Crash, Restart, End, historyVars,
              NoOverrun
<1>5. ASSUME NEW w \in Worker, WorkerStep(w) PROVE NoOverrun'
  BY <1>5 DEF WorkerStep, Take, TakeCancelled, SendReturns, SendReturned, Record, RecordFails,
              Settle, SettleFails, WorkerStop, historyVars, NoOverrun
<1>6. ASSUME NEW e \in Event, Submit(e) \/ Replay(e) PROVE NoOverrun'
  BY <1>6 DEF Submit, Replay, historyVars, NoOverrun
<1>7. ASSUME NEW d \in Delivery, RetryDue(d) \/ LeasePasses(d) PROVE NoOverrun'
  BY <1>1, <1>7 DEF RetryDue, LeasePasses, historyVars, NoOverrun
<1> QED BY <1>2, <1>3, <1>4, <1>5, <1>6, <1>7 DEF Next

\* No row is final with an attempt missing from its audit, whatever it died of.
FinalIsFullyAudited == \A d \in Delivery : status[d] \in Terminal => Unaudited(d) = {}

\* As long as no process ends, no statement fails and no lease passes under a job,
\* what the README and the comments say without reservation is so: attempt_count
\* keeps to max_attempts, a final delivery has all its audit rows, one that ran out
\* of attempts among them, and a final status stays.
THEOREM DocumentedWithoutMishaps ==
    MaxMishaps = 0 => (Spec => /\ []AttemptsWithinMax /\ []FinalIsFullyAudited
                               /\ []DeadIsFullyAudited /\ TerminalIsFinal)
<1> SUFFICES ASSUME MaxMishaps = 0
             PROVE  Spec => /\ []AttemptsWithinMax /\ []FinalIsFullyAudited
                            /\ []DeadIsFullyAudited /\ TerminalIsFinal
  OBVIOUS
<1>1. TypeInv /\ AttemptsPaidFor => AttemptsWithinMax
  BY StoreAssumption DEF TypeInv, HistoryTypeOK, AttemptsPaidFor, AttemptsWithinMax
<1>2. TypeInv /\ AuditGapsPaidFor => FinalIsFullyAudited
  <2> SUFFICES ASSUME TypeInv, AuditGapsPaidFor, NEW d \in Delivery, status[d] \in Terminal
               PROVE  Unaudited(d) = {}
    BY DEF FinalIsFullyAudited
  <2>1. Cardinality(Unaudited(d)) <= 0
    BY DEF AuditGapsPaidFor, TypeInv, HistoryTypeOK
  <2>2. attemptCount[d] \in Nat
    BY DEF TypeInv, StoreTypeOK
  <2>3. IsFiniteSet(1..attemptCount[d]) /\ Unaudited(d) \in SUBSET (1..attemptCount[d])
    BY <2>2, FS_Interval DEF Unaudited
  <2>4. IsFiniteSet(Unaudited(d))
    BY <2>3, FS_Subset
  <2>5. Cardinality(Unaudited(d)) = 0
    BY <2>1, <2>4, FS_CardinalityType
  <2> QED BY <2>4, <2>5, FS_EmptySet
<1>3. FinalIsFullyAudited => DeadIsFullyAudited
  BY DEF FinalIsFullyAudited, DeadIsFullyAudited, Terminal
<1>4. PoolInit => NoOverrun
  BY DEF PoolInit, NoOverrun
<1>5. Spec => []TypeInv
  BY UniqueInvariant, PTL DEF UniqueInv
<1>6. Spec => []NoOverrun
  BY <1>4, <1>5, NoOverrunNext, PTL DEF Spec
<1>7. Spec => []AttemptsWithinMax /\ []FinalIsFullyAudited /\ []DeadIsFullyAudited
  BY <1>1, <1>2, <1>3, <1>5, AttemptsArePaidFor, AuditGapsArePaidFor, PTL
<1>8. Spec => TerminalIsFinal
  BY <1>6, FinalWhileLeasesHold, PTL
<1> QED BY <1>7, <1>8

============================================================================
