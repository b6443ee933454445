--------------------------- MODULE PoolTypeProofs ---------------------------
(***************************************************************************)
(* Proofs about DeliveryPool, 1: types, and the room in the channel.       *)
(*                                                                         *)
(* TypeInv strengthens TypeOK with what a dispatcher or a worker that is   *)
(* at a claim has in its variables.  RoomInv extends QueueHasRoom to the   *)
(* time between the look at the channel and the commit of the claim.       *)
(***************************************************************************)
EXTENDS DeliveryPool, SequenceTheorems, TLAPS

----------------------------------------------------------------------------
(* Type correctness *)

\* The empty value of dclaim and wjob is not a claim.
LEMMA NoClaimType == NoClaim \notin Claim
BY DEF NoClaim, Claim, Delivery

\* An INSERT keeps the columns well typed.
LEMMA InsertType ==
    ASSUME StoreTypeOK, NEW e \in Event, InsertPending(e)
    PROVE  StoreTypeOK'
BY DEF StoreTypeOK, InsertPending, NextId, Status, Active, Terminal

\* The UPDATE of ClaimOneReadyPending keeps the columns well typed.
LEMMA ClaimRowType ==
    ASSUME StoreTypeOK, NEW d \in Delivery, ClaimRow(d)
    PROVE  StoreTypeOK'
<1>1. NextClaim(d) \in Claim
    BY DEF StoreTypeOK, NextClaim, Claim
<1> QED
    BY <1>1 DEF StoreTypeOK, ClaimRow, Status, Active

\* MarkSucceeded, MarkDead and ScheduleRetry keep the columns well typed.
LEMMA VerdictType ==
    ASSUME StoreTypeOK, NEW c \in Claim, NEW r, Verdict(c, r)
    PROVE  StoreTypeOK'
<1>1. c[1] \in Delivery
    BY DEF Claim
<1> QED
    BY <1>1 DEF StoreTypeOK, Verdict, MarkSucceeded, MarkDead, ScheduleRetry,
                Status, Active, Terminal

\* RecordAttempt keeps the audit table well typed.
LEMMA RecordType ==
    ASSUME StoreTypeOK, NEW c \in Claim, NEW r \in Result,
           RecordAttempt(c, OutcomeOf(r))
    PROVE  StoreTypeOK'
BY DEF StoreTypeOK, RecordAttempt, OutcomeOf, Outcome

\* The process variables, kept apart from the store.
PoolTypeOK ==
    /\ phase  \in [Proc -> {"up", "stopping", "down"}]
    /\ dpc    \in [Proc -> {"idle", "selected", "holding", "stopped"}]
    /\ dclaim \in [Proc -> Claim \cup {NoClaim}]
    /\ jobs   \in [Proc -> Seq(Claim)]
    /\ wpc    \in [Worker -> {"idle", "sending", "sent", "recorded", "stopped"}]
    /\ wjob   \in [Worker -> Claim \cup {NoClaim}]
    /\ wres   \in [Worker -> Result \cup {"none"}]

HistoryTypeOK ==
    /\ answers   \subseteq Delivery \X Result
    /\ overrun   \subseteq Delivery
    /\ lostAudit \subseteq Delivery
    /\ mishaps   \in 0..MaxMishaps

JobsFit == \A p \in Proc : Len(jobs[p]) <= QueueSize

\* A dispatcher or worker that is at a claim has one.
AtClaim ==
    /\ \A p \in Proc : dpc[p] \in {"selected", "holding"} => dclaim[p] \in Claim
    /\ \A w \in Worker : Busy(w) => wjob[w] \in Claim
    /\ \A w \in Worker : wpc[w] \in {"sent", "recorded"} => wres[w] \in Result

TypeInv == StoreTypeOK /\ PoolTypeOK /\ HistoryTypeOK /\ JobsFit /\ AtClaim

\* A fresh database and fresh processes are well typed.
LEMMA TypeInvInit == PoolInit => TypeInv
<1> SUFFICES ASSUME PoolInit PROVE TypeInv
    OBVIOUS
<1> USE StoreAssumption, PoolAssumption
<1>1. StoreTypeOK
    BY DEF PoolInit, StoreInit, StoreTypeOK, Status, Active, Terminal
<1>2. PoolTypeOK
    BY DEF PoolInit, PoolTypeOK
<1>3. HistoryTypeOK /\ JobsFit /\ AtClaim
    BY DEF PoolInit, HistoryTypeOK, JobsFit, AtClaim, Busy
<1> QED
    BY <1>1, <1>2, <1>3 DEF TypeInv

\* The sequence operations of the channel.
LEMMA SendFits ==
    ASSUME NEW s \in Seq(Claim), NEW c \in Claim, Len(s) < QueueSize
    PROVE  Append(s, c) \in Seq(Claim) /\ Len(Append(s, c)) <= QueueSize
BY PoolAssumption, AppendProperties

\* What a worker receives is a claim, and what remains fits.
LEMMA ReceiveFits ==
    ASSUME NEW s \in Seq(Claim), s # <<>>, Len(s) <= QueueSize
    PROVE  /\ Head(s) \in Claim
           /\ Tail(s) \in Seq(Claim)
           /\ Len(Tail(s)) <= QueueSize
BY PoolAssumption, HeadTailProperties

\* The dispatcher loop keeps every variable well typed.
LEMMA TypeInvDispatcher ==
    ASSUME TypeInv, NEW p \in Proc, DispatcherStep(p)
    PROVE  TypeInv'
<1> USE StoreAssumption, PoolAssumption, NoClaimType
<1> USE DEF TypeInv, PoolTypeOK, HistoryTypeOK, JobsFit, AtClaim, Busy
<1>1. CASE PollNothing(p)
    BY <1>1 DEF PollNothing, vars, storeVars, procVars, workerVars, historyVars,
                StoreTypeOK
<1>2. CASE ClaimSelect(p)
  <2>1. PICK d \in Delivery : dclaim' = [dclaim EXCEPT ![p] = NextClaim(d)]
    BY <1>2 DEF ClaimSelect
  <2>2. NextClaim(d) \in Claim
    BY DEF NextClaim, Claim, StoreTypeOK
  <2> QED
    BY <1>2, <2>1, <2>2 DEF ClaimSelect, storeVars, workerVars, historyVars,
                            StoreTypeOK
<1>3. CASE ClaimCommit(p)
  <2>1. dclaim[p] \in Claim /\ dclaim[p][1] \in Delivery
    BY <1>3 DEF ClaimCommit, Claim
  <2>2. StoreTypeOK'
    BY <1>3, <2>1, ClaimRowType DEF ClaimCommit
  <2> QED
    BY <1>3, <2>1, <2>2 DEF ClaimCommit, workerVars, historyVars
<1>4. CASE ClaimCommitLost(p)
  <2>1. dclaim[p] \in Claim /\ dclaim[p][1] \in Delivery
    BY <1>4 DEF ClaimCommitLost, Claim
  <2>2. StoreTypeOK'
    BY <1>4, <2>1, ClaimRowType DEF ClaimCommitLost
  <2> QED
    BY <1>4, <2>2 DEF ClaimCommitLost, Mishap, workerVars, historyVars
<1>5. CASE ClaimAbort(p)
    BY <1>5 DEF ClaimAbort, Mishap, storeVars, workerVars, historyVars, StoreTypeOK
<1>6. CASE Enqueue(p)
  <2>1. /\ Append(jobs[p], dclaim[p]) \in Seq(Claim)
        /\ Len(Append(jobs[p], dclaim[p])) <= QueueSize
    BY <1>6, SendFits DEF Enqueue, HasRoom
  <2> QED
    BY <1>6, <2>1 DEF Enqueue, storeVars, workerVars, historyVars, StoreTypeOK
<1>7. CASE DispatcherStop(p)
    BY <1>7 DEF DispatcherStop, storeVars, workerVars, historyVars, StoreTypeOK
<1> QED
    BY <1>1, <1>2, <1>3, <1>4, <1>5, <1>6, <1>7 DEF DispatcherStep

\* Process keeps every variable well typed.
LEMMA TypeInvWorker ==
    ASSUME TypeInv, NEW w \in Worker, WorkerStep(w)
    PROVE  TypeInv'
<1> USE StoreAssumption, PoolAssumption, NoClaimType
<1> USE DEF TypeInv, PoolTypeOK, HistoryTypeOK, JobsFit, AtClaim, Busy
<1>1. Host[w] \in Proc
    OBVIOUS
<1>2. ASSUME Receive(w)
      PROVE  /\ Head(jobs[Host[w]]) \in Claim
             /\ Tail(jobs[Host[w]]) \in Seq(Claim)
             /\ Len(Tail(jobs[Host[w]])) <= QueueSize
    BY <1>1, <1>2, ReceiveFits DEF Receive
<1>3. CASE Take(w)
    BY <1>1, <1>2, <1>3 DEF Take, Receive, storeVars, historyVars, StoreTypeOK
<1>4. CASE TakeCancelled(w)
  <2>1. PICK r \in {"retry", "fatal"} : SendReturned(w, Head(jobs[Host[w]]), r)
    BY <1>4 DEF TakeCancelled
  <2>2. r \in Result /\ Head(jobs[Host[w]])[1] \in Delivery
    BY <1>2, <1>4 DEF TakeCancelled, Result, Claim
  <2> QED
    BY <1>1, <1>2, <1>4, <2>1, <2>2
    DEF TakeCancelled, Receive, SendReturned, storeVars, StoreTypeOK
<1>5. CASE SendReturns(w)
  <2>1. PICK r \in Result : SendReturned(w, wjob[w], r)
    BY <1>5 DEF SendReturns
  <2>2. wjob[w] \in Claim /\ wjob[w][1] \in Delivery
    BY <1>5 DEF SendReturns, Claim
  <2> QED
    BY <1>5, <2>1, <2>2
    DEF SendReturns, SendReturned, storeVars, procVars, StoreTypeOK
<1>6. CASE Record(w)
  <2>1. StoreTypeOK'
    BY <1>6, RecordType DEF Record
  <2> QED
    BY <1>6, <2>1 DEF Record, procVars, historyVars
<1>7. CASE RecordFails(w)
  <2>1. wjob[w][1] \in Delivery
    BY <1>7 DEF RecordFails, Claim
  <2> QED
    BY <1>7, <2>1 DEF RecordFails, Mishap, storeVars, procVars, StoreTypeOK
<1>8. CASE Settle(w)
  <2>1. StoreTypeOK'
    BY <1>8, VerdictType DEF Settle
  <2> QED
    BY <1>8, <2>1 DEF Settle, WorkerIdle, procVars, historyVars
<1>9. CASE SettleFails(w)
    BY <1>9 DEF SettleFails, WorkerIdle, Mishap, storeVars, procVars,
                historyVars, StoreTypeOK
<1>10. CASE WorkerStop(w)
    BY <1>10 DEF WorkerStop, storeVars, procVars, historyVars, StoreTypeOK
<1> QED
    BY <1>3, <1>4, <1>5, <1>6, <1>7, <1>8, <1>9, <1>10 DEF WorkerStep

\* Shutdown, crash and restart keep every variable well typed.
LEMMA TypeInvProcess ==
    ASSUME TypeInv, NEW p \in Proc, ProcessStep(p)
    PROVE  TypeInv'
<1> USE StoreAssumption, PoolAssumption, NoClaimType
<1> USE DEF TypeInv, PoolTypeOK, HistoryTypeOK, JobsFit, AtClaim, Busy
<1>1. CASE Shutdown(p)
    BY <1>1 DEF Shutdown, Mishap, storeVars, workerVars, historyVars, StoreTypeOK
<1>2. ASSUME End(p), mishaps' \in 0..MaxMishaps
      PROVE  TypeInv'
    BY <1>2 DEF End, storeVars, historyVars, StoreTypeOK
<1>3. CASE Exit(p)
    BY <1>2, <1>3 DEF Exit
<1>4. CASE ExitUnfinished(p)
    BY <1>2, <1>4 DEF ExitUnfinished
<1>5. CASE Crash(p)
    BY <1>2, <1>5 DEF Crash, Mishap
<1>6. CASE Restart(p)
    BY <1>6 DEF Restart, storeVars, historyVars, StoreTypeOK
<1> QED
    BY <1>1, <1>3, <1>4, <1>5, <1>6 DEF ProcessStep

\* Requests and the clock keep every variable well typed.
LEMMA TypeInvOutside ==
    ASSUME TypeInv,
           \/ \E e \in Event : Submit(e) \/ Replay(e)
           \/ \E d \in Delivery : RetryDue(d) \/ LeasePasses(d)
    PROVE  TypeInv'
<1> USE StoreAssumption, PoolAssumption
<1> USE DEF TypeInv, PoolTypeOK, HistoryTypeOK, JobsFit, AtClaim, Busy
<1>1. ASSUME NEW e \in Event, Submit(e) \/ Replay(e)
      PROVE  TypeInv'
  <2>1. StoreTypeOK'
    BY <1>1, InsertType
    DEF Submit, Replay, CreateEventWithDelivery, CreateReplayDelivery
  <2> QED
    BY <1>1, <2>1 DEF Submit, Replay, poolVars, procVars, workerVars, historyVars
<1>2. ASSUME NEW d \in Delivery, RetryDue(d)
      PROVE  TypeInv'
    BY <1>2 DEF RetryDue, BackoffElapses, poolVars, procVars, workerVars,
                historyVars, StoreTypeOK
<1>3. ASSUME NEW d \in Delivery, LeasePasses(d)
      PROVE  TypeInv'
  <2>1. StoreTypeOK'
    BY <1>3 DEF LeasePasses, LeaseElapses, StoreTypeOK
  <2>2. HistoryTypeOK'
    BY <1>3 DEF LeasePasses, Mishap
  <2> QED
    BY <1>3, <2>1, <2>2 DEF LeasePasses, poolVars, procVars, workerVars
<1> QED
    BY <1>1, <1>2, <1>3

\* TypeInv is inductive.
LEMMA TypeInvNext == TypeInv /\ [Next]_vars => TypeInv'
<1> SUFFICES ASSUME TypeInv, [Next]_vars PROVE TypeInv'
    OBVIOUS
<1>1. CASE UNCHANGED vars
    BY <1>1 DEF vars, storeVars, procVars, workerVars, historyVars, TypeInv,
                StoreTypeOK, PoolTypeOK, HistoryTypeOK, JobsFit, AtClaim, Busy
<1>2. CASE Next
    BY <1>2, TypeInvDispatcher, TypeInvWorker, TypeInvProcess, TypeInvOutside
    DEF Next
<1> QED
    BY <1>1, <1>2

\* Every reachable state is well typed, for any processes, workers, queue
\* size, max_attempts and number of mishaps.
THEOREM TypeCorrect == Spec => []TypeOK
<1>1. Spec => []TypeInv
    BY TypeInvInit, TypeInvNext, PTL DEF Spec
<1>2. TypeInv => TypeOK
    BY DEF TypeInv, PoolTypeOK, HistoryTypeOK, JobsFit, TypeOK
<1> QED
    BY <1>1, <1>2, PTL

\* Head and tail of a channel, by position.
LEMMA TailAt ==
    ASSUME NEW s \in Seq(Claim), s # <<>>
    PROVE  /\ Head(s) = s[1] /\ 1 \in 1..Len(s)
           /\ Len(Tail(s)) = Len(s) - 1 /\ Len(s) \in Nat
           /\ \A i \in 1..Len(Tail(s)) : i + 1 \in 1..Len(s) /\ Tail(s)[i] = s[i + 1]
BY HeadTailProperties

\* A send, by position.
LEMMA AppendAt ==
    ASSUME NEW s \in Seq(Claim), NEW c \in Claim
    PROVE  /\ Len(Append(s, c)) = Len(s) + 1 /\ Len(s) \in Nat
           /\ \A i \in 1..Len(Append(s, c)) :
                 Append(s, c)[i] = IF i = Len(s) + 1 THEN c ELSE s[i]
BY AppendProperties

----------------------------------------------------------------------------
(* The room the dispatcher saw *)

RoomInv == \A p \in Proc : dpc[p] \in {"selected", "holding"} => Len(jobs[p]) < QueueSize

\* RoomInv is inductive: between the look at len(jobs) and the send only
\* workers touch the channel, and they make room.
LEMMA RoomNext == TypeInv /\ RoomInv /\ [Next]_vars => RoomInv'
<1> SUFFICES ASSUME TypeInv, RoomInv, [Next]_vars PROVE RoomInv'
    OBVIOUS
<1> USE DEF TypeInv, PoolTypeOK, RoomInv
<1>1. CASE UNCHANGED <<dpc, jobs>>
    BY <1>1
<1>2. ASSUME NEW p \in Proc, DispatcherStep(p)
      PROVE  RoomInv'
    BY <1>1, <1>2 DEF DispatcherStep, PollNothing, ClaimSelect, ClaimCommit,
        ClaimCommitLost, ClaimAbort, Enqueue, DispatcherStop, HasRoom, vars, procVars
<1>3. ASSUME NEW w \in Worker, WorkerStep(w)
      PROVE  RoomInv'
  <2>1. CASE Receive(w) /\ UNCHANGED dpc
    <3> DEFINE h == Host[w]
    <3>1. h \in Proc /\ jobs[h] \in Seq(Claim) /\ jobs[h] # <<>>
        BY <2>1, PoolAssumption DEF Receive
    <3>2. Len(Tail(jobs[h])) < Len(jobs[h])
        BY <3>1, TailAt
    <3>3. Len(jobs[h]) \in Nat /\ Len(Tail(jobs[h])) \in Nat
        BY <3>1, TailAt
    <3>4. jobs' = [jobs EXCEPT ![h] = Tail(jobs[h])]
        BY <2>1 DEF Receive
    <3> HIDE DEF h
    <3> QED
        BY <2>1, <3>1, <3>2, <3>3, <3>4, PoolAssumption
  <2> QED
    BY <1>1, <1>3, <2>1 DEF WorkerStep, Take, TakeCancelled, SendReturns, Record,
        RecordFails, Settle, SettleFails, WorkerStop, procVars
<1>4. ASSUME NEW p \in Proc, ProcessStep(p)
      PROVE  RoomInv'
    BY <1>4 DEF ProcessStep, Shutdown, Exit, ExitUnfinished, Crash, Restart, End
<1>5. CASE UNCHANGED procVars
    BY <1>1, <1>5 DEF procVars
<1> QED
    BY <1>2, <1>3, <1>4, <1>5 DEF Next, Submit, Replay, RetryDue, LeasePasses,
        poolVars, vars

\* When a dispatcher sends a claim its channel has room, so it never waits.
THEOREM SendNeverWaits == Spec => []QueueHasRoom
<1>1. PoolInit => RoomInv
    BY DEF PoolInit, RoomInv
<1>2. RoomInv => QueueHasRoom
    BY DEF RoomInv, QueueHasRoom
<1> QED
    BY <1>1, <1>2, TypeInvInit, TypeInvNext, RoomNext, PTL DEF Spec

=============================================================================
