---------------------------- MODULE TimingProofs ----------------------------
(***************************************************************************)
(* PoolTiming, for every number of workers, every queue and every timeout: *)
(* the types, the lease of a job that did not wait, the age of one that    *)
(* did, and the end of a shutdown.                                         *)
(***************************************************************************)
EXTENDS PoolTiming, FiniteSetTheorems, SequenceTheorems, TLAPS

\* TypeOK, by who can change what.
DispatcherOK ==
    /\ sinceTick \in 0..(PollInterval - 1)
    /\ tick \in BOOLEAN
    /\ dstate \in {"idle", "claiming", "committing", "rollingBack", "stopped"}
    /\ dage \in 0..ClaimTime
    /\ dstate = "claiming" => dage <= ClaimTimeout

\* A claim under way still has the room it saw, as only its own end fills it.
ChannelOK ==
    /\ jobs \in Seq(Job) /\ Len(jobs) <= QueueSize
    /\ InTransaction => Len(jobs) < QueueSize

WorkersOK ==
    /\ wstate \in [Worker -> {"idle", "sending", "writing", "stopped"}]
    /\ wtime \in [Worker -> Nat]
    /\ \A w \in Worker : /\ wstate[w] = "sending" => wtime[w] <= SendTime
                         /\ wstate[w] = "writing" => wtime[w] <= UpdateTime
    /\ wjob \in [Worker -> Job]

StopOK == stopping \in BOOLEAN /\ since \in Nat

TimingInv == DispatcherOK /\ ChannelOK /\ WorkersOK /\ StopOK

----------------------------------------------------------------------------
\* The limits are naturals.
LEMMA Limits == /\ ClaimTime \in Nat /\ UpdateTime \in Nat /\ SendTime \in Nat
                /\ QueueSize \in Nat /\ QueueSize > 0
                /\ PollInterval \in Nat /\ PollInterval > 0
BY TimingAssumption
   DEF SendTime, ClaimTimeout, UpdateTimeout, ClientTimeout

\* Appending and taking keep a sequence of jobs one, and change its length by 1.
LEMMA JobsAppend ==
    ASSUME NEW s \in Seq(Job), NEW j \in Job
    PROVE  Append(s, j) \in Seq(Job) /\ Len(Append(s, j)) = Len(s) + 1
BY AppendProperties

\* What receiving from the channel does to the jobs in it.
LEMMA JobsTail ==
    ASSUME NEW s \in Seq(Job), s # <<>>
    PROVE  /\ Tail(s) \in Seq(Job) /\ Len(Tail(s)) = Len(s) - 1
           /\ Head(s) \in Job
           /\ Head(s) = s[1] /\ 1 \in DOMAIN s
           /\ \A i \in DOMAIN Tail(s) : i + 1 \in DOMAIN s /\ Tail(s)[i] = s[i + 1]
<1>1. Tail(s) \in Seq(Job) /\ Len(Tail(s)) = Len(s) - 1 /\ Head(s) \in Job
  BY HeadTailProperties
<1>2. Len(s) \in Nat /\ Len(s) > 0 /\ DOMAIN s = 1..Len(s)
  BY EmptySeq, LenProperties
<1>3. Head(s) = s[1] /\ 1 \in DOMAIN s
  BY <1>2
<1>4. \A i \in DOMAIN Tail(s) : i + 1 \in DOMAIN s /\ Tail(s)[i] = s[i + 1]
  BY <1>1, <1>2, HeadTailProperties, LenProperties
<1> QED BY <1>1, <1>3, <1>4

----------------------------------------------------------------------------
\* The first state is well typed.
LEMMA TimingInit == Init => TimingInv
<1> SUFFICES ASSUME Init PROVE TimingInv
  OBVIOUS
<1>1. NoJob \in Job
  BY DEF NoJob, Job
<1>2. jobs \in Seq(Job) /\ Len(jobs) = 0
  BY EmptySeq DEF Init
<1>3. DispatcherOK
  <2>1. sinceTick = 0 /\ tick = FALSE /\ dstate = "idle" /\ dage = 0
    BY DEF Init
  <2>2. tick \in BOOLEAN
    BY <2>1, Zenon
  <2> QED BY <2>1, <2>2, Limits DEF DispatcherOK
<1>4. ChannelOK
  BY <1>2, Limits DEF ChannelOK
<1>5. WorkersOK
  BY <1>1 DEF Init, WorkersOK
<1>6. StopOK
  BY DEF Init, StopOK
<1> QED BY <1>3, <1>4, <1>5, <1>6 DEF TimingInv

\* Every step keeps the dispatcher within its limits.
LEMMA DispatcherNext == TimingInv /\ Next => DispatcherOK'
<1> SUFFICES ASSUME DispatcherOK, Next PROVE DispatcherOK'
  BY DEF TimingInv
<1>1. CASE SkipTick \/ BeginClaim \/ Commit \/ Rollback \/ ClaimNothing \/ Enqueue
           \/ DispatcherStop
  <2>1. tick' \in BOOLEAN
    <3>1. tick' = FALSE \/ tick' = tick
      BY <1>1 DEF SkipTick, BeginClaim, Commit, Rollback, ClaimNothing, Enqueue,
                  DispatcherStop
    <3> QED BY <3>1, Zenon DEF DispatcherOK
  <2>2. /\ sinceTick' = sinceTick
        /\ \/ dage' = 0
           \/ dage' = dage /\ dstate' \in {dstate, "committing", "rollingBack"}
        /\ dstate' \in {"idle", "claiming", "committing", "rollingBack", "stopped"}
    BY <1>1 DEF SkipTick, BeginClaim, Commit, Rollback, ClaimNothing, Enqueue,
                DispatcherStop, DispatcherOK
  <2> QED BY <2>1, <2>2, Limits DEF DispatcherOK, ClaimTimeout
<1>2. CASE Cancel \/ \E w \in Worker : Take(w) \/ SendEnds(w) \/ UpdateEnds(w) \/ WorkerStop(w)
  BY <1>2 DEF Cancel, Take, SendEnds, UpdateEnds, WorkerStop, dispatcherVars, DispatcherOK
<1>3. CASE Exit
  <2>1. sinceTick' = 0 /\ tick' = FALSE /\ dstate' = "idle" /\ dage' = 0
    BY <1>3 DEF Exit
  <2>2. tick' \in BOOLEAN
    BY <2>1, Zenon
  <2> QED BY <2>1, <2>2, Limits DEF DispatcherOK
<1>4. CASE Elapse
  <2>1. /\ sinceTick' = IF sinceTick + 1 = PollInterval THEN 0 ELSE sinceTick + 1
        /\ dage' = IF InTransaction THEN dage + 1 ELSE 0
        /\ dstate' = dstate
        /\ InTransaction => dage < ClaimTime
        /\ dstate = "claiming" => dage < ClaimTimeout
    BY <1>4 DEF Elapse, DispatcherWaits, InTransaction
  <2>2. tick' = (tick \/ sinceTick + 1 = PollInterval)
    BY <1>4 DEF Elapse
  <2>3. tick' \in BOOLEAN
    BY <2>2, Zenon
  <2> QED BY <2>1, <2>3, Limits DEF DispatcherOK, ClaimTimeout
<1> QED BY <1>1, <1>2, <1>3, <1>4 DEF Next, PoolStep

\* Every step keeps the channel one of jobs, and within its capacity.
LEMMA ChannelNext == TimingInv /\ Next => ChannelOK'
<1> SUFFICES ASSUME TimingInv, Next PROVE ChannelOK'
  OBVIOUS
<1>0. Len(jobs) \in Nat
  BY LenProperties DEF TimingInv, ChannelOK
<1> USE DEF InTransaction
<1>1. CASE SkipTick \/ BeginClaim \/ Commit \/ Rollback \/ ClaimNothing \/ DispatcherStop
  BY <1>1 DEF SkipTick, BeginClaim, Commit, Rollback, ClaimNothing, DispatcherStop,
              HasRoom, TimingInv, ChannelOK
<1>2. CASE Enqueue
  <2>1. [age |-> dage, waited |-> FALSE] \in Job
    BY Limits DEF Job, TimingInv, DispatcherOK
  <2>2. jobs' \in Seq(Job) /\ Len(jobs') = Len(jobs) + 1
    BY <1>2, <2>1, JobsAppend DEF Enqueue, TimingInv, ChannelOK
  <2> QED BY <1>0, <1>2, <2>2, Limits DEF Enqueue, TimingInv, ChannelOK
<1>3. ASSUME NEW w \in Worker, Take(w) PROVE ChannelOK'
  <2>1. jobs' \in Seq(Job) /\ Len(jobs') = Len(jobs) - 1
    BY <1>3, JobsTail DEF Take, TimingInv, ChannelOK
  <2> QED BY <1>0, <1>3, <2>1, Limits DEF Take, dispatcherVars, TimingInv, ChannelOK
<1>4. CASE Cancel \/ \E w \in Worker : SendEnds(w) \/ UpdateEnds(w) \/ WorkerStop(w)
  BY <1>4 DEF Cancel, SendEnds, UpdateEnds, WorkerStop, dispatcherVars,
              TimingInv, ChannelOK
<1>5. CASE Exit
  <2>1. jobs' \in Seq(Job) /\ Len(jobs') = 0 /\ dstate' = "idle"
    BY <1>5, EmptySeq DEF Exit
  <2> QED BY <2>1, Limits DEF ChannelOK
<1>6. CASE Elapse
  <2>1. DOMAIN jobs = 1..Len(jobs) /\ \A i \in 1..Len(jobs) : jobs[i] \in Job
    BY LenProperties, ElementOfSeq DEF TimingInv, ChannelOK
  <2>2. jobs' = [i \in 1..Len(jobs) |-> [age |-> jobs[i].age + 1, waited |-> TRUE]]
    BY <1>6, <2>1 DEF Elapse
  <2>3. jobs' \in [1..Len(jobs) -> Job]
    BY <2>1, <2>2 DEF Job
  <2>4. jobs' \in Seq(Job)
    BY <1>0, <2>3, SeqDef
  <2>5. Len(jobs') = Len(jobs)
    <3>1. DOMAIN jobs' = 1..Len(jobs)
      BY <2>2
    <3> QED BY <1>0, <2>4, <3>1, LenProperties
  <2> QED BY <1>6, <2>4, <2>5 DEF Elapse, TimingInv, ChannelOK
<1> QED BY <1>1, <1>2, <1>3, <1>4, <1>5, <1>6 DEF Next, PoolStep

\* Every step keeps the workers within their limits.
LEMMA WorkersNext == TimingInv /\ Next => WorkersOK'
<1> SUFFICES ASSUME TimingInv, Next PROVE WorkersOK'
  OBVIOUS
<1>0. NoJob \in Job
  BY DEF NoJob, Job
<1>1. CASE SkipTick \/ BeginClaim \/ Commit \/ Rollback \/ ClaimNothing \/ Enqueue
           \/ DispatcherStop \/ Cancel
  BY <1>1 DEF SkipTick, BeginClaim, Commit, Rollback, ClaimNothing, Enqueue,
              DispatcherStop, Cancel, workerVars, TimingInv, WorkersOK
<1>2. ASSUME NEW w \in Worker, Take(w) PROVE WorkersOK'
  <2>1. Head(jobs) \in Job
    BY <1>2, JobsTail DEF Take, TimingInv, ChannelOK
  <2> QED BY <1>2, <2>1, Limits DEF Take, Enter, TimingInv, WorkersOK
<1>3. ASSUME NEW w \in Worker, SendEnds(w) \/ WorkerStop(w) PROVE WorkersOK'
  BY <1>3, Limits DEF SendEnds, WorkerStop, Enter, TimingInv, WorkersOK
<1>4. ASSUME NEW w \in Worker, UpdateEnds(w) PROVE WorkersOK'
  BY <1>0, <1>4, Limits DEF UpdateEnds, Enter, TimingInv, WorkersOK
<1>5. CASE Exit
  BY <1>0, <1>5, Limits DEF Exit, WorkersOK
<1>6. CASE Elapse
  <2>1. \A w \in Worker : wtime[w] \in Nat /\ wjob[w] \in Job
    BY DEF TimingInv, WorkersOK
  <2>2. wtime' \in [Worker -> Nat] /\ wstate' = wstate
    BY <1>6, <2>1 DEF Elapse
  <2>3. ASSUME NEW w \in Worker
        PROVE  /\ wstate'[w] = "sending" => wtime'[w] <= SendTime
               /\ wstate'[w] = "writing" => wtime'[w] <= UpdateTime
    <3>1. /\ WorkerWaits(w) /\ wstate'[w] = wstate[w]
          /\ wtime'[w] = IF Working(w) THEN wtime[w] + 1 ELSE 0
      BY <1>6 DEF Elapse
    <3> QED BY <2>1, <3>1, Limits DEF WorkerWaits, SendMayLast, Working
  <2>4. \A w \in Worker : Older(wjob[w]) \in Job
    BY <2>1 DEF Older, Job
  <2>5. wjob' \in [Worker -> Job]
    BY <1>6, <2>1, <2>4 DEF Elapse
  <2> QED BY <2>2, <2>3, <2>5 DEF TimingInv, WorkersOK
<1> QED BY <1>1, <1>2, <1>3, <1>4, <1>5, <1>6 DEF Next, PoolStep

\* Every step keeps the types and the limits.
LEMMA TimingNext == TimingInv /\ [Next]_vars => TimingInv'
<1>1. TimingInv /\ Next => StopOK'
  <2> SUFFICES ASSUME StopOK, Next PROVE StopOK'
    BY DEF TimingInv
  <2>1. CASE UNCHANGED stopVars
    BY <2>1 DEF StopOK, stopVars
  <2>2. CASE Cancel
    BY <2>2 DEF Cancel, StopOK
  <2>3. CASE Exit
    <3>1. stopping' = FALSE /\ since' = 0
      BY <2>3 DEF Exit
    <3> QED BY <3>1 DEF StopOK
  <2>4. CASE Elapse
    <3>1. stopping' = stopping /\ since' = IF stopping THEN since + 1 ELSE 0
      BY <2>4 DEF Elapse
    <3> QED BY <3>1 DEF StopOK
  <2> QED BY <2>1, <2>2, <2>3, <2>4
        DEF Next, PoolStep, SkipTick, BeginClaim, Commit, Rollback, ClaimNothing,
            Enqueue, DispatcherStop, Take, SendEnds, UpdateEnds, WorkerStop
<1>2. TimingInv /\ UNCHANGED vars => TimingInv'
  BY DEF TimingInv, DispatcherOK, ChannelOK, WorkersOK, StopOK, vars, InTransaction
<1> QED BY <1>1, <1>2, DispatcherNext, ChannelNext, WorkersNext DEF TimingInv

\* Every step of a job stays within its timeout and the channel within its
\* capacity, whatever the sizes and durations are.
THEOREM TimingTypes == Spec => []TypeOK
<1>1. TimingInv => TypeOK
  BY DEF TimingInv, DispatcherOK, ChannelOK, WorkersOK, StopOK, TypeOK
<1> QED BY <1>1, TimingInit, TimingNext, PTL DEF Spec

----------------------------------------------------------------------------
(* A job that did not wait in the channel *)

\* The steps such a job has gone through, and no others, made it as old as it is.
PromptInv ==
    /\ \A i \in DOMAIN jobs : ~jobs[i].waited => jobs[i].age <= ClaimTime
    /\ \A w \in Worker : ~wjob[w].waited =>
          /\ wstate[w] = "sending" => wjob[w].age <= ClaimTime + wtime[w]
          /\ wstate[w] = "writing" => wjob[w].age <= ClaimTime + SendTime + wtime[w]

\* Every step keeps the ages of jobs that did not wait within their steps.
LEMMA PromptNext == TimingInv /\ PromptInv /\ [Next]_vars => PromptInv'
<1> SUFFICES ASSUME TimingInv, PromptInv, [Next]_vars PROVE PromptInv'
  OBVIOUS
<1>0. /\ \A w \in Worker : wtime[w] \in Nat /\ wjob[w] \in Job
      /\ \A i \in DOMAIN jobs : jobs[i] \in Job
      /\ jobs \in Seq(Job) /\ Len(jobs) \in Nat
  BY LenProperties, ElementOfSeq DEF TimingInv, WorkersOK, ChannelOK
<1>1. CASE UNCHANGED <<jobs, workerVars>>
  BY <1>1 DEF PromptInv, workerVars
<1>2. CASE Enqueue
  <2> DEFINE job == [age |-> dage, waited |-> FALSE]
  <2>1. job \in Job /\ job.age <= ClaimTime
    BY Limits DEF TimingInv, DispatcherOK, Job
  <2>2. \A i \in DOMAIN jobs' : (i \in DOMAIN jobs /\ jobs'[i] = jobs[i]) \/ jobs'[i] = job
    <3>1. jobs' = Append(jobs, job)
      BY <1>2 DEF Enqueue
    <3>2. Append(jobs, job) \in Seq(Job) /\ Len(Append(jobs, job)) = Len(jobs) + 1
          /\ \A i \in 1..Len(jobs) : Append(jobs, job)[i] = jobs[i]
          /\ Append(jobs, job)[Len(jobs) + 1] = job
      BY <1>0, <2>1, AppendProperties
    <3>3. DOMAIN Append(jobs, job) = 1..(Len(jobs) + 1) /\ DOMAIN jobs = 1..Len(jobs)
      BY <1>0, <3>2, LenProperties
    <3> QED BY <1>0, <3>1, <3>2, <3>3
  <2> QED BY <1>2, <2>1, <2>2 DEF Enqueue, PromptInv, workerVars
<1>3. ASSUME NEW w \in Worker, Take(w) PROVE PromptInv'
  <2>1. /\ jobs' = Tail(jobs) /\ jobs # <<>>
        /\ wjob' = [wjob EXCEPT ![w] = Head(jobs)]
        /\ wstate' = [wstate EXCEPT ![w] = "sending"]
        /\ wtime' = [wtime EXCEPT ![w] = 0]
    BY <1>3 DEF Take, Enter
  <2>2. \A i \in DOMAIN jobs' : i + 1 \in DOMAIN jobs /\ jobs'[i] = jobs[i + 1]
    BY <1>0, <2>1, JobsTail
  <2>3. Head(jobs) = jobs[1] /\ 1 \in DOMAIN jobs /\ Head(jobs) \in Job
    BY <1>0, <2>1, JobsTail
  <2>4. ~Head(jobs).waited => Head(jobs).age <= ClaimTime
    BY <2>3 DEF PromptInv
  <2>5. \A i \in DOMAIN jobs' : ~jobs'[i].waited => jobs'[i].age <= ClaimTime
    BY <2>2 DEF PromptInv
  <2>6. ASSUME NEW v \in Worker, ~wjob'[v].waited
        PROVE  /\ wstate'[v] = "sending" => wjob'[v].age <= ClaimTime + wtime'[v]
               /\ wstate'[v] = "writing" =>
                     wjob'[v].age <= ClaimTime + SendTime + wtime'[v]
    <3>1. CASE v = w
      <4>1. wstate'[w] = "sending" /\ wtime'[w] = 0 /\ wjob'[w] = Head(jobs)
        BY <2>1 DEF TimingInv, WorkersOK
      <4> QED BY <2>4, <2>6, <3>1, <4>1, Limits
    <3>2. CASE v # w
      <4>1. wstate'[v] = wstate[v] /\ wtime'[v] = wtime[v] /\ wjob'[v] = wjob[v]
        BY <2>1, <3>2 DEF TimingInv, WorkersOK
      <4> QED BY <2>6, <4>1 DEF PromptInv
    <3> QED BY <3>1, <3>2
  <2> QED BY <2>5, <2>6 DEF PromptInv
<1>4. ASSUME NEW w \in Worker, SendEnds(w) PROVE PromptInv'
  <2>1. /\ jobs' = jobs /\ wjob' = wjob
        /\ wstate[w] = "sending"
        /\ wstate' = [wstate EXCEPT ![w] = "writing"]
        /\ wtime' = [wtime EXCEPT ![w] = 0]
    BY <1>4 DEF SendEnds, Enter
  <2>2. wtime[w] <= SendTime
    BY <2>1 DEF TimingInv, WorkersOK
  <2>3. ASSUME NEW v \in Worker, ~wjob'[v].waited
        PROVE  /\ wstate'[v] = "sending" => wjob'[v].age <= ClaimTime + wtime'[v]
               /\ wstate'[v] = "writing" =>
                     wjob'[v].age <= ClaimTime + SendTime + wtime'[v]
    <3>1. CASE v = w
      <4>1. wstate'[w] = "writing" /\ wtime'[w] = 0 /\ wjob'[w] = wjob[w]
        BY <2>1 DEF TimingInv, WorkersOK
      <4>2. wjob[w].age <= ClaimTime + wtime[w] /\ wjob[w].age \in Nat
        BY <1>0, <2>1, <2>3, <3>1 DEF PromptInv, Job
      <4> QED BY <1>0, <2>2, <3>1, <4>1, <4>2, Limits
    <3>2. CASE v # w
      <4>1. wstate'[v] = wstate[v] /\ wtime'[v] = wtime[v] /\ wjob'[v] = wjob[v]
        BY <2>1, <3>2 DEF TimingInv, WorkersOK
      <4> QED BY <2>3, <4>1 DEF PromptInv
    <3> QED BY <3>1, <3>2
  <2> QED BY <2>1, <2>3 DEF PromptInv
<1>5. ASSUME NEW w \in Worker, UpdateEnds(w) \/ WorkerStop(w) PROVE PromptInv'
  <2>1. /\ jobs' = jobs
        /\ wstate' = [wstate EXCEPT ![w] = "idle"] \/ wstate' = [wstate EXCEPT ![w] = "stopped"]
        /\ \A v \in Worker \ {w} : wtime'[v] = wtime[v] /\ wjob'[v] = wjob[v]
    BY <1>5 DEF UpdateEnds, WorkerStop, Enter, TimingInv, WorkersOK
  <2>2. wstate'[w] \in {"idle", "stopped"} /\ \A v \in Worker \ {w} : wstate'[v] = wstate[v]
    BY <2>1 DEF TimingInv, WorkersOK
  <2> QED BY <2>1, <2>2 DEF PromptInv
<1>6. CASE Exit
  <2>1. jobs' = <<>> /\ \A w \in Worker : wstate'[w] = "idle"
    BY <1>6 DEF Exit
  <2>2. DOMAIN jobs' = {}
    BY <2>1
  <2> QED BY <2>1, <2>2 DEF PromptInv
<1>7. CASE Elapse
  <2>1. \A i \in DOMAIN jobs' : jobs'[i].waited
    BY <1>7 DEF Elapse
  <2>2. ASSUME NEW w \in Worker, ~wjob'[w].waited
        PROVE  /\ wstate'[w] = "sending" => wjob'[w].age <= ClaimTime + wtime'[w]
               /\ wstate'[w] = "writing" =>
                     wjob'[w].age <= ClaimTime + SendTime + wtime'[w]
    <3>1. CASE Working(w)
      <4>1. wstate'[w] = wstate[w] /\ wtime'[w] = wtime[w] + 1 /\ wjob'[w] = Older(wjob[w])
        BY <1>7, <3>1 DEF Elapse
      <4>2. Older(wjob[w]).age = wjob[w].age + 1 /\ Older(wjob[w]).waited = wjob[w].waited
            /\ wjob[w].age \in Nat
        BY <1>0 DEF Older, Job
      <4>3. ~wjob[w].waited
        BY <2>2, <4>1, <4>2
      <4> QED BY <1>0, <4>1, <4>2, <4>3, Limits DEF PromptInv
    <3>2. CASE ~Working(w)
      BY <1>7, <3>2 DEF Elapse, Working
    <3> QED BY <3>1, <3>2
  <2> QED BY <2>1, <2>2 DEF PromptInv
<1> QED BY <1>1, <1>2, <1>3, <1>4, <1>5, <1>6, <1>7
      DEF Next, PoolStep, vars, SkipTick, BeginClaim, Commit, Rollback, ClaimNothing,
          DispatcherStop, Cancel, workerVars

\* At the start there are no jobs.
LEMMA PromptInit == Init => PromptInv
<1> SUFFICES ASSUME Init PROVE PromptInv
  OBVIOUS
<1>1. DOMAIN jobs = {} /\ \A w \in Worker : wstate[w] = "idle"
  BY DEF Init
<1> QED BY <1>1 DEF PromptInv

\* Within its steps such a job is within its lease.
LEMMA PromptCovered ==
    LeaseHasMargin /\ TimingInv /\ PromptInv => LeaseCoversPromptJob
<1> SUFFICES ASSUME LeaseHasMargin, TimingInv, PromptInv,
                    NEW w \in Worker, Working(w), ~wjob[w].waited
             PROVE  wjob[w].age < LeaseLength
  BY DEF LeaseCoversPromptJob
<1>1. LeaseLength \in Nat /\ ClaimTime + SendTime + UpdateTime < LeaseLength
  BY Limits, TimingAssumption DEF LeaseHasMargin, JobTime, LeaseLength
<1>2. wtime[w] \in Nat /\ wjob[w].age \in Nat
  BY DEF TimingInv, WorkersOK, Job
<1>3. CASE wstate[w] = "sending"
  <2>1. wtime[w] <= SendTime /\ wjob[w].age <= ClaimTime + wtime[w]
    BY <1>3 DEF TimingInv, WorkersOK, PromptInv
  <2> QED BY <1>1, <1>2, <2>1, Limits
<1>4. CASE wstate[w] = "writing"
  <2>1. wtime[w] <= UpdateTime /\ wjob[w].age <= ClaimTime + SendTime + wtime[w]
    BY <1>4 DEF TimingInv, WorkersOK, PromptInv
  <2> QED BY <1>1, <1>2, <2>1, Limits
<1> QED BY <1>3, <1>4 DEF Working

\* A job that found an idle worker is settled before its lease ends, in every
\* configuration whose timeouts fit into the lease.
THEOREM PromptJobsCovered == LeaseHasMargin => (Spec => []LeaseCoversPromptJob)
<1> SUFFICES ASSUME LeaseHasMargin PROVE Spec => []LeaseCoversPromptJob
  OBVIOUS
<1> QED BY PromptInit, PromptCovered, TimingInit, TimingNext, PromptNext, PTL DEF Spec

----------------------------------------------------------------------------
(* A job that waits in the channel *)

\* How far each worker is with its job, had the step before taken its full time.
progress ==
    [w \in Worker |-> CASE wstate[w] = "sending" -> wtime[w]
                        [] wstate[w] = "writing" -> SendTime + wtime[w]
                        [] OTHER -> JobTime]

\* What n jobs cost at most.
Span(n) == JobTime * n

\* While a job waits no worker does, so each accounts for its whole age a: by
\* the n[w] jobs it has received since, kept in T, and its progress.  A job at
\* place i has seen at most QueueSize - i jobs leave.
Accounted(p, a, n, T) ==
    \A w \in Worker :
        /\ \A m \in 1..n[w] : <<w, m>> \in T
        /\ a <= ClaimTime + Span(n[w]) + p[w]

Waited(p, a, i) ==
    \E n \in [Worker -> Nat] : \E T \in SUBSET (Worker \X Nat) :
        /\ IsFiniteSet(T) /\ Cardinality(T) + i <= QueueSize
        /\ Accounted(p, a, n, T)

AgeInv ==
    ~stopping =>
        /\ \A i \in DOMAIN jobs : Waited(progress, jobs[i].age, i)
        /\ \A w \in Worker :
              /\ wstate[w] # "stopped"
              /\ Working(w) => wjob[w].age <= ClaimTime + Span(Rounds) + progress[w]

\* Each further job costs JobTime.
LEMMA SpanGrows ==
    /\ JobTime \in Nat
    /\ \A n \in Nat : Span(n) \in Nat /\ Span(n + 1) = Span(n) + JobTime
    /\ \A m, n \in Nat : m <= n => Span(m) <= Span(n)
<1>1. JobTime \in 0..7
  BY TimingAssumption DEF JobTime, SendTime, ClientTimeout, UpdateTimeout
<1>2. \/ JobTime = 0 \/ JobTime = 1 \/ JobTime = 2 \/ JobTime = 3
      \/ JobTime = 4 \/ JobTime = 5 \/ JobTime = 6 \/ JobTime = 7
  BY <1>1
<1>3. CASE JobTime = 0
  BY <1>3 DEF Span
<1>4. CASE JobTime = 1
  BY <1>4 DEF Span
<1>5. CASE JobTime = 2
  BY <1>5 DEF Span
<1>6. CASE JobTime = 3
  BY <1>6 DEF Span
<1>7. CASE JobTime = 4
  BY <1>7 DEF Span
<1>8. CASE JobTime = 5
  BY <1>8 DEF Span
<1>9. CASE JobTime = 6
  BY <1>9 DEF Span
<1>10. CASE JobTime = 7
  BY <1>10 DEF Span
<1> QED BY <1>2, <1>3, <1>4, <1>5, <1>6, <1>7, <1>8, <1>9, <1>10

\* In Rounds rounds the workers take what the channel can hold.
LEMMA RoundsSuffice ==
    /\ Cardinality(Worker) \in Nat /\ Rounds \in Nat
    /\ Cardinality(Worker) * Rounds >= QueueSize
<1>1. Cardinality(Worker) \in Nat /\ Cardinality(Worker) > 0
  BY TimingAssumption, FS_CardinalityType, FS_EmptySet
<1>2. ASSUME NEW q \in Nat, NEW c \in Nat, c > 0
      PROVE  (q + c - 1) \div c \in Nat /\ c * ((q + c - 1) \div c) >= q
  BY <1>2, SMTT(30)
<1> QED BY <1>1, <1>2, Limits DEF Rounds

\* Progress is a whole job at most.
LEMMA ProgressWithin == TimingInv => progress \in [Worker -> 0..JobTime]
BY Limits, SpanGrows DEF TimingInv, WorkersOK, progress, JobTime

\* The job at the head of the channel has waited for Rounds jobs at most: had
\* every worker received so many since, the channel would have held too many.
LEMMA HeadIsYoung ==
    ASSUME NEW p \in [Worker -> 0..JobTime], NEW a \in Nat, Waited(p, a, 1)
    PROVE  a <= ClaimTime + Span(Rounds)
<1>1. PICK n \in [Worker -> Nat], T \in SUBSET (Worker \X Nat) :
           /\ IsFiniteSet(T) /\ Cardinality(T) + 1 <= QueueSize
           /\ Accounted(p, a, n, T)
  BY DEF Waited
<1>2. \E w \in Worker : n[w] + 1 <= Rounds
  <2> SUFFICES ASSUME \A w \in Worker : ~(n[w] + 1 <= Rounds) PROVE FALSE
    OBVIOUS
  <2>1. \A w \in Worker : n[w] \in Nat /\ Rounds \in Nat /\ Rounds <= n[w]
    BY RoundsSuffice
  <2>2. Worker \X (1..Rounds) \subseteq T
    <3> SUFFICES ASSUME NEW w \in Worker, NEW m \in 1..Rounds PROVE <<w, m>> \in T
      OBVIOUS
    <3>1. m \in 1..n[w]
      BY <2>1
    <3> QED BY <1>1, <3>1 DEF Accounted
  <2>3. IsFiniteSet(1..Rounds) /\ Cardinality(1..Rounds) = Rounds
    BY RoundsSuffice, FS_Interval
  <2>4. Cardinality(Worker \X (1..Rounds)) = Cardinality(Worker) * Rounds
    BY <2>3, TimingAssumption, FS_Product
  <2>5. Cardinality(Worker \X (1..Rounds)) <= Cardinality(T) /\ Cardinality(T) \in Nat
    BY <1>1, <2>2, FS_Subset, FS_CardinalityType
  <2> QED BY <1>1, <2>4, <2>5, RoundsSuffice, Limits
<1>3. PICK w \in Worker : n[w] + 1 <= Rounds
  BY <1>2
<1>4. /\ Span(n[w]) \in Nat /\ Span(n[w] + 1) = Span(n[w]) + JobTime
      /\ Span(n[w] + 1) <= Span(Rounds) /\ Span(Rounds) \in Nat
  <2>1. n[w] \in Nat /\ n[w] + 1 \in Nat /\ Rounds \in Nat
    BY RoundsSuffice
  <2> QED BY <1>3, <2>1, SpanGrows
<1>5. p[w] \in Nat /\ p[w] <= JobTime /\ JobTime \in Nat
  BY SpanGrows
<1>6. a <= ClaimTime + Span(n[w]) + p[w]
  BY <1>1 DEF Accounted
<1> QED BY <1>4, <1>5, <1>6, Limits

\* Workers that go on with their jobs, or finish them, account for their time.
LEMMA WaitedLonger ==
    ASSUME NEW p \in [Worker -> 0..JobTime], NEW q \in [Worker -> 0..JobTime],
           NEW a \in Nat, NEW b \in Nat, NEW i \in Nat, Waited(p, a, i),
           \A w \in Worker : b + p[w] <= a + q[w]
    PROVE  Waited(q, b, i)
<1>1. PICK n \in [Worker -> Nat], T \in SUBSET (Worker \X Nat) :
           /\ IsFiniteSet(T) /\ Cardinality(T) + i <= QueueSize
           /\ Accounted(p, a, n, T)
  BY DEF Waited
<1>2. ASSUME NEW w \in Worker
      PROVE  b <= ClaimTime + Span(n[w]) + q[w]
  <2>1. a <= ClaimTime + Span(n[w]) + p[w] /\ b + p[w] <= a + q[w]
    BY <1>1 DEF Accounted
  <2>2. p[w] \in Nat /\ q[w] \in Nat /\ Span(n[w]) \in Nat
    BY SpanGrows
  <2> QED BY <2>1, <2>2, Limits
<1>3. Accounted(q, b, n, T)
  BY <1>1, <1>2 DEF Accounted
<1> QED BY <1>1, <1>3 DEF Waited

\* A job that is put into the channel has no age but its claim's.
LEMMA WaitedNew ==
    ASSUME NEW p \in [Worker -> 0..JobTime], NEW a \in 0..ClaimTime, NEW i \in 0..QueueSize
    PROVE  Waited(p, a, i)
<1> DEFINE n == [w \in Worker |-> 0]
<1>1. n \in [Worker -> Nat] /\ IsFiniteSet({}) /\ Cardinality({}) = 0
  BY FS_EmptySet
<1>2. ASSUME NEW w \in Worker PROVE a <= ClaimTime + Span(n[w]) + p[w]
  <2>1. n[w] = 0 /\ Span(0) \in Nat /\ p[w] \in Nat
    BY SpanGrows
  <2> QED BY <2>1, Limits
<1>3. Accounted(p, a, n, {})
  BY <1>2 DEF Accounted
<1> QED BY <1>1, <1>3, Limits DEF Waited

\* A worker that receives starts again, with one job more; the channel moves up.
LEMMA WaitedTaken ==
    ASSUME NEW p \in [Worker -> 0..JobTime], NEW v \in Worker, p[v] = JobTime,
           NEW a \in Nat, NEW i \in Nat, Waited(p, a, i + 1)
    PROVE  Waited([p EXCEPT ![v] = 0], a, i)
<1>1. PICK n \in [Worker -> Nat], T \in SUBSET (Worker \X Nat) :
           /\ IsFiniteSet(T) /\ Cardinality(T) + (i + 1) <= QueueSize
           /\ Accounted(p, a, n, T)
  BY DEF Waited
<1> DEFINE q == [p EXCEPT ![v] = 0]
           k == [n EXCEPT ![v] = n[v] + 1]
           U == T \cup {<<v, n[v] + 1>>}
<1>2. k \in [Worker -> Nat] /\ U \in SUBSET (Worker \X Nat)
  BY <1>1
<1>3. IsFiniteSet(U) /\ Cardinality(U) + i <= QueueSize
  <2>1. IsFiniteSet(U) /\ Cardinality(U) \in {Cardinality(T), Cardinality(T) + 1}
    BY <1>1, FS_AddElement, Zenon
  <2>2. Cardinality(T) \in Nat
    BY <1>1, FS_CardinalityType
  <2> QED BY <1>1, <2>1, <2>2, Limits
<1>4. ASSUME NEW w \in Worker
      PROVE  (\A m \in 1..k[w] : <<w, m>> \in U)
             /\ a <= ClaimTime + Span(k[w]) + q[w]
  <2>1. /\ \A m \in 1..n[w] : <<w, m>> \in T
        /\ a <= ClaimTime + Span(n[w]) + p[w]
    BY <1>1 DEF Accounted
  <2>2. CASE w = v
    <3>1. k[v] = n[v] + 1 /\ q[v] = 0 /\ Span(n[v] + 1) = Span(n[v]) + JobTime
          /\ Span(n[v]) \in Nat /\ JobTime \in Nat
      BY SpanGrows
    <3>2. \A m \in 1..k[v] : m \in 1..n[v] \/ m = n[v] + 1
      BY <3>1
    <3> QED BY <2>1, <2>2, <3>1, <3>2, Limits
  <2>3. CASE w # v
    BY <2>1, <2>3
  <2> QED BY <2>2, <2>3
<1>5. Accounted(q, a, k, U)
  BY <1>4 DEF Accounted
<1> HIDE DEF k, U
<1> QED BY <1>2, <1>3, <1>5 DEF Waited

\* Every step keeps the ages of jobs within what was done since.
LEMMA AgeNext == TimingInv /\ AgeInv /\ [Next]_vars => AgeInv'
<1> SUFFICES ASSUME TimingInv, AgeInv, [Next]_vars, ~stopping' PROVE AgeInv'
  BY DEF AgeInv
<1>0. /\ jobs \in Seq(Job) /\ Len(jobs) \in Nat /\ Len(jobs) <= QueueSize
      /\ DOMAIN jobs = 1..Len(jobs)
      /\ \A i \in DOMAIN jobs : jobs[i] \in Job /\ jobs[i].age \in Nat
      /\ \A w \in Worker : wjob[w] \in Job /\ wjob[w].age \in Nat
  <2>1. jobs \in Seq(Job) /\ Len(jobs) <= QueueSize /\ wjob \in [Worker -> Job]
    BY DEF TimingInv, ChannelOK, WorkersOK
  <2>2. DOMAIN jobs = 1..Len(jobs) /\ Len(jobs) \in Nat
    BY <2>1, LenProperties
  <2>3. \A i \in DOMAIN jobs : jobs[i] \in Job
    BY <2>1, <2>2, ElementOfSeq
  <2>4. \A j \in Job : j.age \in Nat
    BY DEF Job
  <2> QED BY <2>1, <2>2, <2>3, <2>4
<1>1. /\ progress \in [Worker -> 0..JobTime]
      /\ progress' \in [Worker -> 0..JobTime]
      /\ JobTime \in Nat /\ Span(Rounds) \in Nat
  <2>1. progress' \in [Worker -> 0..JobTime]
    <3>1. TimingInv'
      BY TimingNext
    <3> QED BY <3>1, Limits, SpanGrows DEF TimingInv, WorkersOK, progress, JobTime
  <2> QED BY <2>1, ProgressWithin, RoundsSuffice, SpanGrows
<1>2. CASE UNCHANGED <<jobs, workerVars, stopping>>
  <2>1. progress' = progress
    BY <1>2 DEF progress, workerVars
  <2> QED BY <1>2, <2>1 DEF AgeInv, Working, workerVars
<1>3. CASE Enqueue
  <2> DEFINE job == [age |-> dage, waited |-> FALSE]
  <2>1. /\ dage \in 0..ClaimTime /\ job \in Job /\ job.age = dage
        /\ Len(jobs) + 1 <= QueueSize
    BY <1>0, <1>3, Limits
    DEF Enqueue, TimingInv, DispatcherOK, ChannelOK, Job, InTransaction
  <2>2. jobs' = Append(jobs, job) /\ UNCHANGED <<wstate, wtime, wjob, stopping>>
    BY <1>3 DEF Enqueue, workerVars, stopVars
  <2>3. /\ DOMAIN jobs' = 1..(Len(jobs) + 1)
        /\ jobs'[Len(jobs) + 1].age = dage
        /\ \A i \in 1..Len(jobs) : jobs'[i] = jobs[i]
    BY <1>0, <2>1, <2>2, AppendProperties, LenProperties
  <2>4. progress' = progress
    BY <2>2 DEF progress
  <2>5. ASSUME NEW i \in DOMAIN jobs' PROVE Waited(progress, jobs'[i].age, i)
    <3>1. CASE i \in DOMAIN jobs
      BY <1>0, <2>2, <2>3, <3>1 DEF AgeInv
    <3>2. CASE i = Len(jobs) + 1
      <4>1. Len(jobs) + 1 \in 0..QueueSize
        BY <1>0, <2>1, Limits
      <4> QED BY <1>1, <2>1, <2>3, <3>2, <4>1, WaitedNew
    <3> QED BY <1>0, <2>3, <3>1, <3>2
  <2> QED BY <2>2, <2>4, <2>5 DEF AgeInv, Working
<1>4. ASSUME NEW v \in Worker, Take(v) PROVE AgeInv'
  <2>1. /\ jobs' = Tail(jobs) /\ jobs # <<>> /\ wstate[v] = "idle"
        /\ wjob' = [wjob EXCEPT ![v] = Head(jobs)]
        /\ wstate' = [wstate EXCEPT ![v] = "sending"]
        /\ wtime' = [wtime EXCEPT ![v] = 0]
        /\ ~stopping
    BY <1>4 DEF Take, Enter, stopVars
  <2>2. progress' = [progress EXCEPT ![v] = 0] /\ progress[v] = JobTime
    BY <2>1 DEF progress, TimingInv, WorkersOK
  <2>3. /\ Head(jobs) = jobs[1] /\ 1 \in DOMAIN jobs
        /\ \A i \in DOMAIN jobs' : i + 1 \in DOMAIN jobs /\ jobs'[i] = jobs[i + 1]
        /\ DOMAIN jobs' \subseteq Nat
    <3>1. Tail(jobs) \in Seq(Job)
      BY <1>0, <2>1, JobsTail
    <3>2. DOMAIN jobs' \subseteq Nat
      BY <2>1, <3>1, LenProperties
    <3> QED BY <1>0, <2>1, <3>2, JobsTail
  <2>4. ASSUME NEW i \in DOMAIN jobs' PROVE Waited(progress', jobs'[i].age, i)
    <3>1. Waited(progress, jobs[i + 1].age, i + 1) /\ jobs[i + 1].age \in Nat /\ i \in Nat
      BY <1>0, <2>1, <2>3 DEF AgeInv
    <3>2. Waited([progress EXCEPT ![v] = 0], jobs[i + 1].age, i)
      BY <1>1, <2>2, <3>1, WaitedTaken
    <3> QED BY <2>2, <2>3, <3>2
  <2>5. Head(jobs).age <= ClaimTime + Span(Rounds)
    <3>1. Waited(progress, jobs[1].age, 1) /\ jobs[1].age \in Nat
      BY <1>0, <2>1, <2>3 DEF AgeInv
    <3> QED BY <1>1, <2>3, <3>1, HeadIsYoung
  <2>6. ASSUME NEW w \in Worker
        PROVE  /\ wstate'[w] # "stopped"
               /\ Working(w)' =>
                     wjob'[w].age <= ClaimTime + Span(Rounds) + progress'[w]
    <3>1. CASE w = v
      <4>1. wstate'[w] = "sending" /\ wjob'[w] = Head(jobs) /\ progress'[w] = 0
        BY <1>1, <2>1, <2>2, <3>1 DEF TimingInv, WorkersOK
      <4> QED BY <1>1, <2>5, <4>1, Limits
    <3>2. CASE w # v
      <4>1. wstate'[w] = wstate[w] /\ wjob'[w] = wjob[w] /\ progress'[w] = progress[w]
        BY <1>1, <2>1, <2>2, <3>2 DEF TimingInv, WorkersOK
      <4> QED BY <2>1, <4>1 DEF AgeInv, Working
    <3> QED BY <3>1, <3>2
  <2> QED BY <2>4, <2>6 DEF AgeInv
<1>5. ASSUME NEW v \in Worker, SendEnds(v) \/ UpdateEnds(v) PROVE AgeInv'
  <2>1. /\ jobs' = jobs /\ ~stopping
        /\ wstate' = [wstate EXCEPT ![v] = "writing"] \/ wstate' = [wstate EXCEPT ![v] = "idle"]
        /\ \A w \in Worker \ {v} : wtime'[w] = wtime[w] /\ wjob'[w] = wjob[w]
        /\ wstate'[v] = "writing" => wjob'[v] = wjob[v] /\ wstate[v] = "sending"
    BY <1>5 DEF SendEnds, UpdateEnds, Enter, stopVars, TimingInv, WorkersOK
  <2>2. \A w \in Worker : progress[w] <= progress'[w]
    <3>1. \A w \in Worker \ {v} : progress'[w] = progress[w]
      BY <2>1 DEF progress, TimingInv, WorkersOK
    <3>2. progress[v] <= progress'[v]
      BY <1>5, Limits DEF SendEnds, UpdateEnds, Enter, progress, JobTime,
                          TimingInv, WorkersOK
    <3> QED BY <1>1, <3>1, <3>2
  <2>3. ASSUME NEW i \in DOMAIN jobs PROVE Waited(progress', jobs[i].age, i)
    <3>1. Waited(progress, jobs[i].age, i) /\ jobs[i].age \in Nat /\ i \in Nat
      BY <1>0, <2>1 DEF AgeInv
    <3>2. \A w \in Worker : jobs[i].age + progress[w] <= jobs[i].age + progress'[w]
      BY <1>1, <2>2, <3>1
    <3> QED BY <1>1, <3>1, <3>2, WaitedLonger
  <2>4. ASSUME NEW w \in Worker
        PROVE  /\ wstate'[w] # "stopped"
               /\ Working(w)' =>
                     wjob'[w].age <= ClaimTime + Span(Rounds) + progress'[w]
    <3>1. wstate[w] # "stopped"
          /\ (Working(w) => wjob[w].age <= ClaimTime + Span(Rounds) + progress[w])
      BY <2>1 DEF AgeInv
    <3>2. wstate'[w] # "stopped"
          /\ (Working(w)' => Working(w) /\ wjob'[w] = wjob[w])
      BY <2>1, <3>1 DEF Working, TimingInv, WorkersOK
    <3> QED BY <1>0, <1>1, <2>2, <3>1, <3>2, Limits
  <2> QED BY <2>1, <2>3, <2>4 DEF AgeInv
<1>6. CASE Exit
  <2>1. jobs' = <<>> /\ \A w \in Worker : wstate'[w] = "idle"
    BY <1>6 DEF Exit
  <2> QED BY <2>1 DEF AgeInv, Working
<1>7. CASE Elapse
  <2>1. /\ jobs' = [i \in DOMAIN jobs |-> [age |-> jobs[i].age + 1, waited |-> TRUE]]
        /\ wtime' = [w \in Worker |-> IF Working(w) THEN wtime[w] + 1 ELSE 0]
        /\ wjob' = [w \in Worker |-> IF Working(w) THEN Older(wjob[w]) ELSE wjob[w]]
        /\ wstate' = wstate /\ ~stopping
        /\ \A w \in Worker : WorkerWaits(w)
    BY <1>7 DEF Elapse
  <2>2. \A w \in Worker : Working(w) => progress'[w] = progress[w] + 1
    BY <2>1, Limits DEF progress, Working, TimingInv, WorkersOK
  <2>3. ASSUME NEW i \in DOMAIN jobs PROVE Waited(progress', jobs[i].age + 1, i)
    <3>1. Waited(progress, jobs[i].age, i) /\ jobs[i].age \in Nat /\ i \in Nat
          /\ jobs[i].age + 1 \in Nat
      BY <1>0, <2>1 DEF AgeInv
    <3>2. jobs # <<>>
      OBVIOUS
    <3>3. ASSUME NEW w \in Worker
          PROVE  jobs[i].age + 1 + progress[w] <= jobs[i].age + progress'[w]
      <4>1. Working(w)
        BY <2>1, <3>2 DEF AgeInv, WorkerWaits, Working
      <4> QED BY <1>1, <2>2, <3>1, <4>1
    <3> QED BY <1>1, <3>1, <3>3, WaitedLonger
  <2>4. ASSUME NEW w \in Worker
        PROVE  /\ wstate'[w] # "stopped"
               /\ Working(w)' =>
                     wjob'[w].age <= ClaimTime + Span(Rounds) + progress'[w]
    <3>1. wstate[w] # "stopped"
          /\ (Working(w) => wjob[w].age <= ClaimTime + Span(Rounds) + progress[w])
      BY <2>1 DEF AgeInv
    <3>2. wstate'[w] = wstate[w] /\ (Working(w)' => Working(w))
          /\ (Working(w) => wjob'[w].age = wjob[w].age + 1)
      BY <1>0, <2>1 DEF Working, Older, Job
    <3> QED BY <1>0, <1>1, <2>2, <3>1, <3>2, Limits
  <2>5. DOMAIN jobs' = DOMAIN jobs /\ \A i \in DOMAIN jobs : jobs'[i].age = jobs[i].age + 1
    BY <2>1
  <2> QED BY <2>3, <2>4, <2>5 DEF AgeInv
<1>8. ASSUME NEW v \in Worker, WorkerStop(v) PROVE AgeInv'
  BY <1>8 DEF WorkerStop, stopVars
<1>9. CASE Cancel
  BY <1>9 DEF Cancel
<1> QED BY <1>2, <1>3, <1>4, <1>5, <1>6, <1>7, <1>8, <1>9
      DEF Next, PoolStep, vars, SkipTick, BeginClaim, Commit, Rollback, ClaimNothing,
          DispatcherStop, workerVars, stopVars

\* No job gets older than its claim, Rounds jobs of a worker and its own: the
\* lease that would cover every job grows with the channel and not without limit.
THEOREM AgesBounded == Spec => []AgeBounded
<1>1. Init => AgeInv
  <2> SUFFICES ASSUME Init PROVE AgeInv
    OBVIOUS
  <2>1. jobs = <<>> /\ \A w \in Worker : wstate[w] = "idle"
    BY DEF Init
  <2> QED BY <2>1 DEF AgeInv, Working
<1>2. TimingInv /\ AgeInv => AgeBounded
  <2> SUFFICES ASSUME TimingInv, AgeInv, ~stopping, NEW w \in Worker, Working(w)
               PROVE  wjob[w].age <= ClaimTime + (Rounds + 1) * JobTime
    BY DEF AgeBounded
  <2>1. wjob[w].age <= ClaimTime + Span(Rounds) + progress[w]
    BY DEF AgeInv
  <2>2. progress[w] \in 0..JobTime /\ wjob[w].age \in Nat
    BY ProgressWithin DEF TimingInv, WorkersOK, Job
  <2>3. Span(Rounds) \in Nat /\ Span(Rounds + 1) = Span(Rounds) + JobTime /\ JobTime \in Nat
    BY RoundsSuffice, SpanGrows
  <2>4. Span(Rounds + 1) = (Rounds + 1) * JobTime
    BY RoundsSuffice, <2>3 DEF Span
  <2> QED BY <2>1, <2>2, <2>3, <2>4, Limits
<1> QED BY <1>1, <1>2, TimingInit, TimingNext, AgeNext, PTL DEF Spec

----------------------------------------------------------------------------
(* The end of a shutdown *)

\* What n jobs cost at most, once nothing is sent any more.
Cost(n) == UpdateTime * n

\* The places of the channel that jobs have left, but for the one that a claim
\* under way has seen and may still fill.
Taken == QueueSize - Len(jobs) - (IF InTransaction THEN 1 ELSE 0)

\* A worker never waits after the cancel, so the time since then has gone into
\* the jobs that left the channel and the one it had, or has; the dispatcher
\* only waits for the transaction it was in.
StopInv ==
    /\ ~stopping \/ dstate = "claiming" => since = 0
    /\ InTransaction => since <= dage
    /\ since <= ClaimTime \/ since <= Cost(QueueSize + 1)
    /\ \A w \in Worker :
          /\ wstate[w] = "idle"    => since <= Cost(Taken + 1)
          /\ wstate[w] = "sending" => since <= Cost(Taken)
          /\ wstate[w] = "writing" => since <= wtime[w] + Cost(Taken)

\* Each further job costs UpdateTime.
LEMMA CostGrows ==
    /\ \A n \in Nat : /\ Cost(n) \in Nat /\ Cost(n + 1) \in Nat /\ Cost(n + 1 + 1) \in Nat
                     /\ Cost(n + 1) = Cost(n) + UpdateTime
                     /\ Cost(n) <= Cost(n + 1) /\ Cost(n + 1) <= Cost(n + 1 + 1)
    /\ \A m, n \in Nat : m <= n => Cost(m) <= Cost(n)
<1>1. UpdateTime \in {0, 1, 2}
  BY TimingAssumption DEF UpdateTimeout
<1>2. CASE UpdateTime = 0
  BY <1>2 DEF Cost
<1>3. CASE UpdateTime = 1
  BY <1>3 DEF Cost
<1>4. CASE UpdateTime = 2
  BY <1>4 DEF Cost
<1> QED BY <1>1, <1>2, <1>3, <1>4

\* Every step keeps the time since the cancel within what was done in it.
LEMMA StopNext == TimingInv /\ StopInv /\ [Next]_vars => StopInv'
<1> SUFFICES ASSUME TimingInv, StopInv, [Next]_vars PROVE StopInv'
  OBVIOUS
<1>0. /\ Len(jobs) \in 0..QueueSize /\ Len(jobs') \in 0..QueueSize
      /\ QueueSize \in Nat /\ UpdateTime \in Nat
      /\ Taken \in Nat /\ Taken' \in Nat
      /\ since \in Nat
      /\ \A w \in Worker : wtime[w] \in Nat
  <2>1. TimingInv'
    BY TimingNext
  <2>2. Len(jobs) \in Nat /\ Len(jobs') \in Nat
    BY <2>1, LenProperties DEF TimingInv, ChannelOK
  <2> QED BY <2>1, <2>2, Limits DEF TimingInv, ChannelOK, WorkersOK, StopOK, Taken
<1>1. CASE /\ UNCHANGED <<jobs, wstate, wtime, since, stopping, dage>>
           /\ InTransaction' = InTransaction
           /\ dstate' = "claiming" => dstate = "claiming"
  <2>1. Taken' = Taken
    BY <1>1, Zenon DEF Taken
  <2> QED BY <1>1, <2>1 DEF StopInv, Cost
<1>2. CASE BeginClaim
  <2>1. /\ since = 0 /\ since' = 0 /\ dage' = 0
        /\ wstate' = wstate /\ wtime' = wtime
    BY <1>2 DEF BeginClaim, StopInv, workerVars, stopVars
  <2>2. Cost(Taken') \in Nat /\ Cost(Taken' + 1) \in Nat /\ Cost(QueueSize + 1) \in Nat
    <3>1. QueueSize + 1 \in Nat
      BY <1>0
    <3> QED BY <1>0, <3>1, CostGrows, Zenon
  <2>3. \A w \in Worker : since' <= wtime'[w] + Cost(Taken')
    BY <1>0, <2>1, <2>2
  <2>4. 0 <= ClaimTime /\ 0 <= Cost(Taken') /\ 0 <= Cost(Taken' + 1)
    BY <2>2, Limits
  <2>5. \A w \in Worker : since' <= Cost(Taken') /\ since' <= Cost(Taken' + 1)
    BY <2>1, <2>4
  <2>6. since' <= ClaimTime /\ since' <= dage'
    BY <2>1, <2>4
  <2> QED BY <2>1, <2>3, <2>5, <2>6 DEF StopInv, Cost
<1>3. ASSUME NEW w \in Worker, Take(w) PROVE StopInv'
  <2>1. /\ Len(jobs') = Len(jobs) - 1
        /\ wstate[w] = "idle"
        /\ wstate' = [wstate EXCEPT ![w] = "sending"]
        /\ wtime' = [wtime EXCEPT ![w] = 0]
        /\ since' = since /\ stopping' = stopping /\ dstate' = dstate /\ dage' = dage
    BY <1>3, JobsTail DEF Take, Enter, dispatcherVars, stopVars, TimingInv, ChannelOK
  <2>2. Taken' = Taken + 1
    BY <1>0, <2>1 DEF Taken, InTransaction
  <2>3. Cost(Taken) <= Cost(Taken + 1) /\ Cost(Taken + 1) <= Cost(Taken + 1 + 1)
        /\ Cost(Taken) \in Nat /\ Cost(Taken + 1) \in Nat /\ Cost(Taken + 1 + 1) \in Nat
    BY <1>0, CostGrows, Zenon
  <2>4. ASSUME NEW v \in Worker
        PROVE  /\ wstate'[v] = "idle"    => since <= Cost(Taken + 1 + 1)
               /\ wstate'[v] = "sending" => since <= Cost(Taken + 1)
               /\ wstate'[v] = "writing" => since <= wtime'[v] + Cost(Taken + 1)
    <3>1. CASE v = w
      BY <2>1, <3>1 DEF StopInv, TimingInv, WorkersOK
    <3>2. CASE v # w
      <4>1. wstate'[v] = wstate[v] /\ wtime'[v] = wtime[v]
        BY <2>1, <3>2 DEF TimingInv, WorkersOK
      <4> QED BY <1>0, <2>3, <4>1 DEF StopInv
    <3> QED BY <3>1, <3>2
  <2> QED BY <2>1, <2>2, <2>4 DEF StopInv, Cost, InTransaction
<1>4. ASSUME NEW w \in Worker, SendEnds(w) \/ UpdateEnds(w) \/ WorkerStop(w)
      PROVE  StopInv'
  <2>1. UNCHANGED <<jobs, since, stopping, dstate, dage>>
    BY <1>4 DEF SendEnds, UpdateEnds, WorkerStop, dispatcherVars, stopVars
  <2>2. \A v \in Worker \ {w} : wstate'[v] = wstate[v] /\ wtime'[v] = wtime[v]
    BY <1>4 DEF SendEnds, UpdateEnds, WorkerStop, Enter, TimingInv, WorkersOK
  <2>3. /\ wtime'[w] = 0
        /\ \/ wstate[w] = "sending" /\ wstate'[w] = "writing"
           \/ wstate[w] = "writing" /\ wstate'[w] = "idle"
           \/ wstate'[w] = "stopped"
    BY <1>4 DEF SendEnds, UpdateEnds, WorkerStop, Enter, TimingInv, WorkersOK
  <2>4. wstate[w] = "writing" => wtime[w] <= UpdateTime
    BY DEF TimingInv, WorkersOK
  <2>5. Cost(Taken) \in Nat /\ Cost(Taken + 1) = Cost(Taken) + UpdateTime
    BY <1>0, CostGrows
  <2>6. /\ wstate'[w] = "idle"    => since <= Cost(Taken + 1)
        /\ wstate'[w] = "sending" => since <= Cost(Taken)
        /\ wstate'[w] = "writing" => since <= wtime'[w] + Cost(Taken)
    BY <1>0, <2>3, <2>4, <2>5 DEF StopInv
  <2>7. Taken' = Taken
    BY <2>1 DEF Taken, InTransaction
  <2> QED BY <2>1, <2>2, <2>6, <2>7 DEF StopInv, Cost, InTransaction
<1>5. CASE Cancel
  <2>1. /\ since = 0 /\ since' = 0
        /\ UNCHANGED <<jobs, wstate, wtime, dstate, dage>>
    BY <1>5 DEF Cancel, StopInv, workerVars, dispatcherVars
  <2>2. Taken' = Taken
    BY <2>1 DEF Taken, InTransaction
  <2> QED BY <2>1, <2>2 DEF StopInv, Cost, InTransaction
<1>6. CASE Exit
  <2>1. /\ ~stopping' /\ since' = 0 /\ dstate' = "idle"
        /\ \A w \in Worker : wstate'[w] = "idle"
    BY <1>6 DEF Exit
  <2>2. Cost(QueueSize + 1) \in Nat
    BY <1>0, CostGrows
  <2>3. Cost(Taken' + 1) \in Nat
    BY <1>0, CostGrows, Zenon
  <2> QED BY <2>1, <2>2, <2>3, Limits DEF StopInv, Cost, InTransaction
<1>7. CASE Elapse
  <2>1. /\ wstate' = wstate /\ stopping' = stopping /\ dstate' = dstate
        /\ \A w \in Worker : WorkerWaits(w)
        /\ \A w \in Worker : wtime'[w] = IF Working(w) THEN wtime[w] + 1 ELSE 0
        /\ DispatcherWaits /\ ~AllStopped
        /\ since' = IF stopping THEN since + 1 ELSE 0
        /\ dage' = IF InTransaction THEN dage + 1 ELSE 0
    BY <1>7 DEF Elapse
  <2>6. dage \in Nat /\ (InTransaction => dage < ClaimTime)
    BY <2>1, Limits DEF TimingInv, DispatcherOK, DispatcherWaits, InTransaction
  <2>2. Len(jobs') = Len(jobs)
    <3>1. DOMAIN jobs' = DOMAIN jobs
      BY <1>7 DEF Elapse
    <3>2. jobs \in Seq(Job) /\ jobs' \in Seq(Job)
      BY TimingNext DEF TimingInv, ChannelOK
    <3> QED BY <3>1, <3>2, LenProperties
  <2>3. Taken' = Taken
    BY <2>1, <2>2 DEF Taken, InTransaction
  <2>4. CASE ~stopping
    <3>1. since = 0 /\ since' = 0
      BY <2>1, <2>4 DEF StopInv
    <3>2. \A w \in Worker : wstate[w] = "writing" => since' <= wtime'[w] + Cost(Taken)
      <4>1. Cost(Taken) \in Nat
        BY <1>0, CostGrows, Zenon
      <4> QED BY <1>0, <2>1, <3>1, <4>1 DEF Working
    <3> QED BY <2>1, <2>3, <2>4, <2>6, <3>1, <3>2 DEF StopInv, Cost, InTransaction
  <2>5. CASE stopping
    <3>1. /\ dstate # "claiming" /\ (dstate = "stopped" \/ InTransaction)
          /\ \A w \in Worker : wstate[w] \in {"writing", "stopped"}
      BY <2>1, <2>5 DEF DispatcherWaits, WorkerWaits, SendMayLast
    <3>2. Cost(Taken) \in Nat /\ Cost(Taken + 1) = Cost(Taken) + UpdateTime
      BY <1>0, CostGrows, Zenon
    <3>4. Cost(Taken + 1) <= Cost(QueueSize + 1) /\ Cost(QueueSize + 1) \in Nat
      <4>1. Taken + 1 \in Nat /\ QueueSize + 1 \in Nat /\ Taken + 1 <= QueueSize + 1
        BY <1>0 DEF Taken
      <4> QED BY <4>1, CostGrows, Zenon
    <3>5. \A v \in Worker : wstate[v] = "writing" =>
            /\ since + 1 <= wtime[v] + 1 + Cost(Taken)
            /\ wtime[v] + 1 <= UpdateTime
      <4> SUFFICES ASSUME NEW v \in Worker, wstate[v] = "writing"
                   PROVE  /\ since + 1 <= wtime[v] + 1 + Cost(Taken)
                          /\ wtime[v] + 1 <= UpdateTime
        OBVIOUS
      <4>1. since <= wtime[v] + Cost(Taken) /\ wtime[v] < UpdateTime
        BY <2>1 DEF StopInv, WorkerWaits
      <4> QED BY <1>0, <3>2, <4>1
    <3>6. ASSUME NEW w \in Worker, wstate[w] = "writing"
          PROVE  since + 1 <= Cost(QueueSize + 1)
      <4>1. since + 1 <= wtime[w] + 1 + Cost(Taken) /\ wtime[w] + 1 <= UpdateTime
        BY <3>5, <3>6, Zenon
      <4>2. since \in Nat /\ wtime[w] \in Nat /\ UpdateTime \in Nat
        BY <1>0, Zenon
      <4>3. \A c, d, e \in Nat : d = c + UpdateTime /\ d <= e
                                 /\ since + 1 <= wtime[w] + 1 + c => since + 1 <= e
        BY <4>1, <4>2
      <4>4. Cost(Taken + 1) \in Nat
        BY <1>0, CostGrows, Zenon
      <4> QED BY <3>2, <3>4, <4>1, <4>3, <4>4, Zenon
    <3>7. \A v \in Worker : wstate[v] = "writing" => since + 1 <= wtime'[v] + Cost(Taken)
      BY <2>1, <3>5 DEF Working
    <3>8. InTransaction => since + 1 <= dage + 1 /\ since + 1 <= ClaimTime
      BY <1>0, <2>6, Limits DEF StopInv
    <3>9. since + 1 <= ClaimTime \/ since + 1 <= Cost(QueueSize + 1)
      BY <2>1, <3>1, <3>6, <3>8 DEF AllStopped
    <3> QED BY <2>1, <2>3, <2>5, <3>1, <3>7, <3>8, <3>9 DEF StopInv, Cost, InTransaction
  <2> QED BY <2>4, <2>5
<1>8. CASE Enqueue
  <2>1. /\ dstate = "committing" /\ dstate' = "idle"
        /\ jobs' = Append(jobs, [age |-> dage, waited |-> FALSE])
        /\ UNCHANGED <<wstate, wtime, since, stopping>>
    BY <1>8 DEF Enqueue, workerVars, stopVars
  <2>2. Len(jobs') = Len(jobs) + 1
    <3>1. [age |-> dage, waited |-> FALSE] \in Job
      BY Limits DEF Job, TimingInv, DispatcherOK
    <3> QED BY <2>1, <3>1, JobsAppend DEF TimingInv, ChannelOK
  <2>3. Taken' = Taken
    BY <1>0, <2>1, <2>2 DEF Taken, InTransaction
  <2> QED BY <2>1, <2>3 DEF StopInv, Cost, InTransaction
<1>9. CASE ClaimNothing \/ DispatcherStop
  <2>1. /\ UNCHANGED <<jobs, wstate, wtime, since, stopping>>
        /\ dstate' \in {"idle", "stopped"}
    BY <1>9 DEF ClaimNothing, DispatcherStop, workerVars, stopVars
  <2>2. Taken' = Taken \/ Taken' = Taken + 1
    BY <1>0, <2>1 DEF Taken, InTransaction
  <2>3. /\ Cost(Taken) \in Nat /\ Cost(Taken + 1) \in Nat /\ Cost(Taken + 1 + 1) \in Nat
        /\ Cost(Taken) <= Cost(Taken + 1) /\ Cost(Taken + 1) <= Cost(Taken + 1 + 1)
    BY <1>0, CostGrows, Zenon
  <2>4. Cost(Taken) <= Cost(Taken') /\ Cost(Taken + 1) <= Cost(Taken' + 1)
        /\ Cost(Taken') \in Nat /\ Cost(Taken' + 1) \in Nat
    BY <1>0, <2>2, <2>3
  <2>5. ~stopping' => since' = 0
    BY <2>1 DEF StopInv
  <2>6. \A w \in Worker :
          /\ wstate[w] = "idle"    => since <= Cost(Taken' + 1)
          /\ wstate[w] = "sending" => since <= Cost(Taken')
          /\ wstate[w] = "writing" => since <= wtime[w] + Cost(Taken')
    BY <1>0, <2>3, <2>4 DEF StopInv
  <2> QED BY <2>1, <2>5, <2>6 DEF StopInv, Cost, InTransaction
<1> QED BY <1>1, <1>2, <1>3, <1>4, <1>5, <1>6, <1>7, <1>8, <1>9
      DEF Next, PoolStep, vars, SkipTick, Commit, Rollback, workerVars, stopVars,
          InTransaction

\* At the start no time has passed since a cancel.
LEMMA StopInit == Init => StopInv
<1> SUFFICES ASSUME Init PROVE StopInv
  OBVIOUS
<1>1. /\ since = 0 /\ stopping = FALSE /\ \A w \in Worker : wstate[w] = "idle"
      /\ Len(jobs) = 0 /\ dstate = "idle"
  BY EmptySeq DEF Init
<1>2. Taken \in Nat /\ QueueSize \in Nat
  BY <1>1, Limits DEF Taken, InTransaction
<1>3. Cost(QueueSize + 1) \in Nat /\ Cost(Taken + 1) \in Nat
  BY <1>2, CostGrows
<1> QED BY <1>1, <1>3, Limits DEF StopInv, InTransaction

\* Once poolCancel is called Start returns within the time that a COMMIT takes or
\* that one worker needs to write a verdict for its job and for every job the
\* channel can buffer, whichever is longer.
THEOREM StopsInTime == Spec => []StopsWithin
<1>1. TimingInv /\ StopInv => StopsWithin
  BY Limits DEF StopInv, StopsWithin, Cost
<1> QED BY <1>1, StopInit, TimingInit, TimingNext, StopNext, PTL DEF Spec

\* The workers are done within the second of the two, whatever the dispatcher
\* waits for.
THEOREM WorkersStopInTime ==
    Spec => [](since > (QueueSize + 1) * UpdateTime =>
                  \A w \in Worker : wstate[w] = "stopped")
<1>1. TimingInv /\ StopInv =>
          (since > (QueueSize + 1) * UpdateTime =>
              \A w \in Worker : wstate[w] = "stopped")
  <2> SUFFICES ASSUME TimingInv, StopInv, NEW w \in Worker, wstate[w] # "stopped"
               PROVE  since <= (QueueSize + 1) * UpdateTime
    BY Limits DEF TimingInv, StopOK
  <2>1. /\ Taken \in Nat /\ Taken + 1 <= QueueSize + 1
        /\ wtime[w] \in Nat /\ since \in Nat
        /\ wstate[w] = "writing" => wtime[w] <= UpdateTime
    BY LenProperties, Limits
    DEF TimingInv, ChannelOK, WorkersOK, StopOK, Taken, InTransaction
  <2>2. /\ Cost(Taken) \in Nat /\ Cost(Taken + 1) = Cost(Taken) + UpdateTime
        /\ Cost(Taken + 1) <= Cost(QueueSize + 1) /\ Cost(QueueSize + 1) \in Nat
    <3>1. QueueSize + 1 \in Nat /\ Taken + 1 \in Nat
      BY <2>1, Limits
    <3> QED BY <2>1, <3>1, CostGrows, Zenon
  <2>3. since <= Cost(Taken + 1)
    BY <2>1, <2>2, Limits DEF StopInv, TimingInv, WorkersOK
  <2> QED BY <2>1, <2>2, <2>3, Limits DEF Cost
<1> QED BY <1>1, StopInit, TimingInit, TimingNext, StopNext, PTL DEF Spec

----------------------------------------------------------------------------
(* Workers that keep up with the ticker *)

Ticks(n) == PollInterval * n

\* Until the cancel no job waits.  Only a tick begins a claim, so the jobs that
\* are worked at are whole numbers of ticks apart, and the next one is younger.
Paced(k) ==
    /\ \A w \in Worker :
          Working(w) => ~wjob[w].waited /\ wjob[w].age = sinceTick + Ticks(k[w])
    /\ \A v, w \in Worker : v # w /\ Working(v) /\ Working(w) => k[v] # k[w]
    /\ tick \/ InTransaction \/ jobs # <<>> =>
          \A w \in Worker : Working(w) => k[w] # 0

PaceInv ==
    ~stopping =>
        /\ dstate # "stopped" /\ \A w \in Worker : wstate[w] # "stopped"
        /\ tick => sinceTick = 0 /\ dstate = "idle" /\ jobs = <<>>
        /\ InTransaction => dage = sinceTick /\ jobs = <<>>
        /\ jobs # <<>> => /\ jobs = <<[age |-> sinceTick, waited |-> FALSE]>>
                          /\ \E w \in Worker : wstate[w] = "idle"
        /\ \E k \in [Worker -> Nat] : Paced(k)

\* After it, one job may have to wait for an update, as its worker has stopped;
\* it may be one that a COMMIT under way has only then added to the channel.
LateInv ==
    stopping =>
        /\ Len(jobs) <= 1
        /\ InTransaction => jobs = <<>>
        /\ InTransaction \/ jobs # <<>> =>
              \A w \in Worker : /\ wstate[w] = "idle" => since <= UpdateTime
                                /\ wstate[w] = "sending" => since = 0
                                /\ wstate[w] = "writing" => since <= wtime[w]
                                /\ Working(w) => ~wjob[w].waited
        /\ jobs # <<>> => jobs[1].age <= ClaimTime + since
        /\ \A w \in Worker : wjob[w].waited =>
              /\ wstate[w] = "sending" => wjob[w].age <= ClaimTime + UpdateTime
              /\ wstate[w] = "writing" =>
                    wjob[w].age <= ClaimTime + UpdateTime + wtime[w]

\* Each further tick takes PollInterval.
LEMMA TicksGrow ==
    /\ Ticks(0) = 0
    /\ \A n \in Nat : Ticks(n) \in Nat /\ Ticks(n + 1) = Ticks(n) + PollInterval
    /\ \A m, n \in Nat : m <= n => Ticks(m) <= Ticks(n)
<1>1. PollInterval \in Nat
  BY Limits
<1>2. \A p, n \in Nat : p * n \in Nat /\ p * (n + 1) = p * n + p
  OBVIOUS
<1>3. ASSUME NEW p \in Nat, NEW m \in Nat, NEW n \in Nat, m <= n PROVE p * m <= p * n
  <2>1. PICK d \in Nat : n = m + d
    <3>1. n - m \in Nat /\ n = m + (n - m)
      BY <1>3
    <3> QED BY <3>1
  <2>2. p * n = p * m + p * d /\ p * m \in Nat /\ p * d \in Nat
    BY <2>1
  <2> QED BY <2>2
<1> QED BY <1>1, <1>2, <1>3 DEF Ticks

\* When a claim succeeds some worker is idle: as many jobs as there are workers,
\* all of different ages, would have one that is older than a job gets.
LEMMA SomeWorkerIsIdle ==
    WorkersKeepUp /\ TimingInv /\ PromptInv /\ PaceInv /\ ~stopping /\ InTransaction
    => \E w \in Worker : wstate[w] = "idle"
<1> SUFFICES ASSUME WorkersKeepUp, TimingInv, PromptInv, PaceInv, ~stopping,
                    InTransaction, \A w \in Worker : wstate[w] # "idle"
             PROVE  FALSE
  OBVIOUS
<1>1. PICK k \in [Worker -> Nat] : Paced(k)
  BY DEF PaceInv
<1>2. \A w \in Worker : Working(w)
  BY DEF Working, PaceInv, TimingInv, WorkersOK
<1> DEFINE n == Cardinality(Worker)
<1>3. n \in Nat /\ n > 0 /\ IsFiniteSet(Worker)
  BY TimingAssumption, FS_CardinalityType, FS_EmptySet
<1>4. \E w \in Worker : n <= k[w]
  <2> SUFFICES ASSUME \A w \in Worker : ~(n <= k[w]) PROVE FALSE
    OBVIOUS
  <2> DEFINE T == 1..(n - 1)
  <2>1. n - 1 \in Nat
    BY <1>3
  <2>2. IsFiniteSet(T) /\ Cardinality(T) = n - 1
    BY <2>1, FS_Interval
  <2>3. \A w \in Worker : k[w] \in T
    <3> SUFFICES ASSUME NEW w \in Worker PROVE k[w] \in T
      OBVIOUS
    <3>1. k[w] # 0 /\ k[w] \in Nat /\ ~(n <= k[w])
      BY <1>1, <1>2 DEF Paced
    <3> QED BY <1>3, <3>1
  <2>4. k \in [Worker -> T]
    BY <2>3
  <2>5. Cardinality(T) < Cardinality(Worker)
    BY <1>3, <2>2
  <2> HIDE DEF T
  <2>6. \E v, w \in Worker : v # w /\ k[v] = k[w]
    BY <1>3, <2>2, <2>4, <2>5, FS_PigeonHole
  <2> QED BY <1>1, <1>2, <2>6 DEF Paced
<1>5. PICK w \in Worker : n <= k[w]
  BY <1>4
<1>6. wjob[w].age = sinceTick + Ticks(k[w]) /\ ~wjob[w].waited /\ k[w] \in Nat
  BY <1>1, <1>2 DEF Paced
<1>7. Ticks(n) <= Ticks(k[w]) /\ Ticks(n) \in Nat /\ Ticks(k[w]) \in Nat
  BY <1>3, <1>5, <1>6, TicksGrow
<1>8. ClaimTime + JobTime < Ticks(n)
  BY <1>3, Limits DEF WorkersKeepUp, Ticks
<1>9. wjob[w].age <= ClaimTime + JobTime
  <2>1. wtime[w] \in Nat /\ wjob[w].age \in Nat
    BY DEF TimingInv, WorkersOK, Job
  <2>2. CASE wstate[w] = "sending"
    <3>1. wtime[w] <= SendTime /\ wjob[w].age <= ClaimTime + wtime[w]
      BY <1>6, <2>2 DEF TimingInv, WorkersOK, PromptInv
    <3> QED BY <2>1, <3>1, Limits DEF JobTime
  <2>3. CASE wstate[w] = "writing"
    <3>1. wtime[w] <= UpdateTime /\ wjob[w].age <= ClaimTime + SendTime + wtime[w]
      BY <1>6, <2>3 DEF TimingInv, WorkersOK, PromptInv
    <3> QED BY <2>1, <3>1, Limits DEF JobTime
  <2> QED BY <1>2, <2>2, <2>3 DEF Working
<1>10. sinceTick \in Nat /\ JobTime \in Nat /\ wjob[w].age \in Nat
  BY Limits DEF TimingInv, DispatcherOK, WorkersOK, Job, JobTime
<1> QED BY <1>6, <1>7, <1>8, <1>9, <1>10, Limits

\* Every step until the cancel keeps jobs from waiting.
LEMMA PaceNext ==
    WorkersKeepUp /\ TimingInv /\ PromptInv /\ PaceInv /\ [Next]_vars => PaceInv'
<1> SUFFICES ASSUME WorkersKeepUp, TimingInv, PromptInv, PaceInv, [Next]_vars, ~stopping'
             PROVE  PaceInv'
  BY DEF PaceInv
<1> USE DEF InTransaction
<1>0. /\ jobs \in Seq(Job) /\ sinceTick \in 0..(PollInterval - 1) /\ tick \in BOOLEAN
      /\ \A w \in Worker : wjob[w] \in Job /\ wjob[w].age \in Nat
  BY DEF TimingInv, ChannelOK, DispatcherOK, WorkersOK, Job
<1>1. CASE UNCHANGED <<sinceTick, jobs, workerVars, stopVars>>
           /\ (tick' => tick)
           /\ \/ dstate' = dstate /\ dage' = dage
              \/ InTransaction /\ dstate' \in {"committing", "rollingBack"} /\ dage' = dage
              \/ dstate' = "idle"
  <2> USE DEF workerVars, stopVars
  <2>1. PICK k \in [Worker -> Nat] : Paced(k)
    BY <1>1 DEF PaceInv
  <2>2. (\A w \in Worker : Working(w)' = Working(w)) /\ Paced(k)'
    BY <1>1, <2>1 DEF Working, Paced
  <2>3. \E m \in [Worker -> Nat] : Paced(m)'
    BY <2>2
  <2> QED BY <1>1, <2>3 DEF PaceInv
<1>2. CASE BeginClaim
  <2>1. /\ tick /\ tick' = FALSE /\ dstate' = "claiming" /\ dage' = 0
        /\ UNCHANGED <<sinceTick, jobs, wstate, wtime, wjob, stopping>>
    BY <1>2 DEF BeginClaim, workerVars, stopVars
  <2>2. PICK k \in [Worker -> Nat] : Paced(k)
    BY <2>1 DEF PaceInv
  <2>3. (\A w \in Worker : Working(w)' = Working(w)) /\ Paced(k)'
    BY <2>1, <2>2 DEF Working, Paced
  <2>4. \E m \in [Worker -> Nat] : Paced(m)'
    BY <2>3
  <2> QED BY <2>1, <2>4 DEF PaceInv
<1>3. CASE Enqueue
  <2>1. /\ InTransaction /\ dstate' = "idle"
        /\ jobs' = Append(jobs, [age |-> dage, waited |-> FALSE])
        /\ UNCHANGED <<sinceTick, tick, wstate, wtime, wjob, stopping>>
    BY <1>3 DEF Enqueue, workerVars, stopVars
  <2>2. jobs = <<>> /\ dage = sinceTick /\ ~tick
    BY <2>1 DEF PaceInv
  <2>3. jobs' = <<[age |-> sinceTick, waited |-> FALSE]>>
    BY <2>1, <2>2
  <2>4. PICK k \in [Worker -> Nat] : Paced(k)
    BY <2>1 DEF PaceInv
  <2>5. (\A w \in Worker : Working(w)' = Working(w)) /\ Paced(k)'
    BY <2>1, <2>4 DEF Working, Paced
  <2>6. \E m \in [Worker -> Nat] : Paced(m)'
    BY <2>5
  <2>7. \E w \in Worker : wstate[w] = "idle"
    BY <2>1, SomeWorkerIsIdle
  <2> QED BY <2>1, <2>2, <2>3, <2>6, <2>7 DEF PaceInv
<1>4. ASSUME NEW w \in Worker, Take(w) PROVE PaceInv'
  <2>1. /\ wstate[w] = "idle" /\ jobs # <<>> /\ jobs' = Tail(jobs)
        /\ wjob' = [wjob EXCEPT ![w] = Head(jobs)]
        /\ wstate' = [wstate EXCEPT ![w] = "sending"]
        /\ UNCHANGED <<sinceTick, tick, dstate, dage, stopping>>
    BY <1>4 DEF Take, Enter, dispatcherVars, stopVars
  <2>2. /\ jobs = <<[age |-> sinceTick, waited |-> FALSE]>>
        /\ ~tick /\ ~InTransaction /\ dstate # "stopped"
        /\ \A v \in Worker : wstate[v] # "stopped"
    BY <2>1 DEF PaceInv
  <2>3. jobs' = <<>> /\ Head(jobs) = [age |-> sinceTick, waited |-> FALSE]
    BY <2>1, <2>2
  <2>4. PICK k \in [Worker -> Nat] : Paced(k)
    BY <2>1 DEF PaceInv
  <2> DEFINE m == [k EXCEPT ![w] = 0]
  <2>5. m \in [Worker -> Nat] /\ m[w] = 0 /\ \A v \in Worker \ {w} : m[v] = k[v]
    OBVIOUS
  <2>6. /\ wstate'[w] = "sending" /\ wjob'[w] = Head(jobs)
        /\ \A v \in Worker \ {w} : wstate'[v] = wstate[v] /\ wjob'[v] = wjob[v]
    BY <2>1 DEF TimingInv, WorkersOK
  <2> HIDE DEF m
  <2>7. Working(w)' /\ \A v \in Worker \ {w} : Working(v)' = Working(v)
    BY <2>6 DEF Working
  <2>8. \A v \in Worker : Working(v) => k[v] # 0
    BY <2>1, <2>4 DEF Paced
  <2>9. ASSUME NEW v \in Worker, Working(v)'
        PROVE  ~wjob'[v].waited /\ wjob'[v].age = sinceTick' + Ticks(m[v])
    <3>1. CASE v = w
      <4>1. wjob'[v] = [age |-> sinceTick, waited |-> FALSE] /\ m[v] = 0
        BY <2>3, <2>5, <2>6, <3>1
      <4>2. wjob'[v].age = sinceTick /\ wjob'[v].waited = FALSE
        BY <4>1
      <4>3. Ticks(m[v]) = 0
        BY <4>1, TicksGrow
      <4> QED BY <1>0, <2>1, <4>2, <4>3
    <3>2. CASE v # w
      BY <2>1, <2>4, <2>5, <2>6, <2>7, <2>9, <3>2 DEF Paced
    <3> QED BY <3>1, <3>2
  <2>10. ASSUME NEW u \in Worker, NEW v \in Worker, u # v, Working(u)', Working(v)'
         PROVE  m[u] # m[v]
    BY <2>4, <2>5, <2>7, <2>8, <2>10 DEF Paced
  <2>11. Paced(m)'
    BY <2>1, <2>2, <2>3, <2>9, <2>10 DEF Paced
  <2>12. \E n \in [Worker -> Nat] : Paced(n)'
    BY <2>5, <2>11
  <2>13. \A v \in Worker : wstate'[v] # "stopped"
    BY <2>2, <2>6
  <2> QED BY <2>1, <2>2, <2>3, <2>12, <2>13 DEF PaceInv
<1>5. ASSUME NEW w \in Worker, SendEnds(w) \/ UpdateEnds(w) PROVE PaceInv'
  <2>1. /\ wstate[w] \in {"sending", "writing"}
        /\ wstate'[w] \in {"writing", "idle"}
        /\ \A v \in Worker \ {w} : wstate'[v] = wstate[v]
        /\ \A v \in Worker : Working(v)' => Working(v) /\ wjob'[v] = wjob[v]
        /\ UNCHANGED <<sinceTick, tick, dstate, dage, jobs, stopping>>
    BY <1>5 DEF SendEnds, UpdateEnds, Enter, dispatcherVars, stopVars, Working,
                TimingInv, WorkersOK
  <2>2. PICK k \in [Worker -> Nat] : Paced(k)
    BY <2>1 DEF PaceInv
  <2>3. Paced(k)'
    BY <2>1, <2>2 DEF Paced
  <2>4. \E m \in [Worker -> Nat] : Paced(m)'
    BY <2>3
  <2>5. \A v \in Worker : /\ wstate[v] = "idle" => wstate'[v] = "idle"
                          /\ wstate[v] # "stopped" => wstate'[v] # "stopped"
    BY <2>1
  <2> QED BY <2>1, <2>4, <2>5 DEF PaceInv
<1>6. CASE Exit
  <2>1. /\ jobs' = <<>> /\ tick' = FALSE /\ dstate' = "idle"
        /\ \A w \in Worker : wstate'[w] = "idle"
    BY <1>6 DEF Exit
  <2> DEFINE k == [w \in Worker |-> 0]
  <2>2. k \in [Worker -> Nat] /\ Paced(k)'
    BY <2>1 DEF Paced, Working
  <2>3. \E m \in [Worker -> Nat] : Paced(m)'
    BY <2>2
  <2> QED BY <2>1, <2>3 DEF PaceInv
<1>7. CASE Elapse
  <2>1. /\ DispatcherWaits /\ \A w \in Worker : WorkerWaits(w)
        /\ sinceTick' = IF sinceTick + 1 = PollInterval THEN 0 ELSE sinceTick + 1
        /\ dage' = IF InTransaction THEN dage + 1 ELSE 0
        /\ wjob' = [w \in Worker |-> IF Working(w) THEN Older(wjob[w]) ELSE wjob[w]]
        /\ wstate' = wstate /\ dstate' = dstate /\ ~stopping /\ ~stopping'
    BY <1>7 DEF Elapse
  <2>2. tick' = (tick \/ sinceTick + 1 = PollInterval)
    BY <1>7 DEF Elapse
  <2>3. jobs = <<>>
    BY <2>1 DEF PaceInv, WorkerWaits
  <2>4. jobs' = <<>>
    <3>1. jobs' = [i \in DOMAIN jobs |-> [age |-> jobs[i].age + 1, waited |-> TRUE]]
      BY <1>7 DEF Elapse
    <3> QED BY <2>3, <3>1
  <2>5. ~tick /\ dstate # "stopped"
    BY <2>1 DEF DispatcherWaits, PaceInv
  <2>6. InTransaction => sinceTick + 1 # PollInterval /\ dage = sinceTick
    <3> SUFFICES ASSUME InTransaction
                 PROVE  sinceTick + 1 # PollInterval /\ dage = sinceTick
      OBVIOUS
    <3>1. dage = sinceTick /\ dage < ClaimTime /\ ClaimTime < PollInterval
      BY <2>1 DEF PaceInv, DispatcherWaits, WorkersKeepUp
    <3> QED BY <1>0, <3>1, Limits
  <2>7. \A w \in Worker : /\ Working(w)' = Working(w)
                          /\ Working(w) => /\ wjob'[w].age = wjob[w].age + 1
                                           /\ wjob'[w].waited = wjob[w].waited
    BY <1>0, <2>1 DEF Working, Older, Job
  <2>8. PICK k \in [Worker -> Nat] : Paced(k)
    BY <2>1 DEF PaceInv
  <2>9. \E m \in [Worker -> Nat] : Paced(m)'
    <3>1. CASE sinceTick + 1 = PollInterval
      <4> DEFINE m == [w \in Worker |-> k[w] + 1]
      <4>1. m \in [Worker -> Nat] /\ \A w \in Worker : m[w] = k[w] + 1 /\ k[w] \in Nat
        OBVIOUS
      <4> HIDE DEF m
      <4>2. \A w \in Worker : Ticks(m[w]) = Ticks(k[w]) + PollInterval
                              /\ Ticks(k[w]) \in Nat /\ Ticks(m[w]) \in Nat
        BY <4>1, TicksGrow
      <4>3. ASSUME NEW w \in Worker, Working(w)'
            PROVE  ~wjob'[w].waited /\ wjob'[w].age = sinceTick' + Ticks(m[w])
        <5>1. /\ wjob[w].age = sinceTick + Ticks(k[w]) /\ ~wjob[w].waited
              /\ wjob'[w].age = wjob[w].age + 1 /\ wjob'[w].waited = wjob[w].waited
          BY <2>7, <2>8, <4>3 DEF Paced
        <5>2. sinceTick' = 0
          BY <2>1, <3>1
        <5> QED BY <1>0, <3>1, <4>2, <5>1, <5>2, Limits
      <4>4. \A v, w \in Worker : v # w /\ Working(v)' /\ Working(w)' => m[v] # m[w]
        BY <2>7, <2>8, <4>1 DEF Paced
      <4>5. \A w \in Worker : m[w] # 0
        BY <4>1
      <4>6. Paced(m)'
        BY <4>3, <4>4, <4>5 DEF Paced
      <4> QED BY <4>1, <4>6
    <3>2. CASE sinceTick + 1 # PollInterval
      <4>1. sinceTick' = sinceTick + 1 /\ ~tick'
        BY <2>1, <2>2, <2>5, <3>2
      <4>2. ASSUME NEW w \in Worker, Working(w)'
            PROVE  ~wjob'[w].waited /\ wjob'[w].age = sinceTick' + Ticks(k[w])
        <5>1. /\ wjob[w].age = sinceTick + Ticks(k[w]) /\ ~wjob[w].waited
              /\ wjob'[w].age = wjob[w].age + 1 /\ wjob'[w].waited = wjob[w].waited
          BY <2>7, <2>8, <4>2 DEF Paced
        <5>2. Ticks(k[w]) \in Nat
          BY TicksGrow
        <5> QED BY <1>0, <4>1, <5>1, <5>2, Limits
      <4>3. Paced(k)'
        BY <2>1, <2>4, <2>7, <2>8, <4>1, <4>2 DEF Paced
      <4> QED BY <4>3
    <3> QED BY <3>1, <3>2
  <2>10. InTransaction' => dage' = sinceTick'
    BY <1>0, <2>1, <2>6
  <2>11. tick' => sinceTick' = 0 /\ dstate' = "idle"
    BY <2>1, <2>2, <2>5, <2>6 DEF TimingInv, DispatcherOK
  <2> QED BY <2>1, <2>4, <2>5, <2>9, <2>10, <2>11 DEF PaceInv
<1>8. CASE Cancel
  BY <1>8 DEF Cancel
<1>9. ASSUME NEW w \in Worker, WorkerStop(w) PROVE FALSE
  BY <1>9 DEF WorkerStop, stopVars
<1>10. ASSUME DispatcherStop PROVE FALSE
  BY <1>10 DEF DispatcherStop, stopVars
<1> QED BY <1>1, <1>2, <1>3, <1>4, <1>5, <1>6, <1>7, <1>8, <1>9, <1>10
        DEF Next, PoolStep, vars, SkipTick, Commit, Rollback, ClaimNothing, workerVars,
            stopVars, InTransaction

\* Every step from the cancel on lets one job wait at most, for an update at most.
LEMMA LateNext ==
    TimingInv /\ PromptInv /\ StopInv /\ PaceInv /\ LateInv /\ [Next]_vars => LateInv'
<1> SUFFICES ASSUME TimingInv, PromptInv, StopInv, PaceInv, LateInv, [Next]_vars, stopping'
             PROVE  LateInv'
  BY DEF LateInv
<1> USE DEF InTransaction
<1>0. /\ jobs \in Seq(Job) /\ Len(jobs) \in Nat
      /\ since \in Nat /\ ClaimTime \in Nat /\ UpdateTime \in Nat
      /\ \A w \in Worker : wjob[w] \in Job /\ wjob[w].age \in Nat /\ wtime[w] \in Nat
  BY Limits, LenProperties DEF TimingInv, ChannelOK, WorkersOK, StopOK, Job
<1>1. CASE UNCHANGED <<jobs, workerVars, stopVars>> /\ (InTransaction' => InTransaction)
  BY <1>1 DEF LateInv, Working, workerVars, stopVars
<1>2. CASE Enqueue
  <2>1. /\ InTransaction /\ dstate' = "idle"
        /\ jobs' = Append(jobs, [age |-> dage, waited |-> FALSE])
        /\ UNCHANGED <<wstate, wtime, wjob, stopping, since>>
    BY <1>2 DEF Enqueue, workerVars, stopVars
  <2>2. jobs = <<>>
    BY <2>1 DEF LateInv
  <2>3. jobs' = <<[age |-> dage, waited |-> FALSE]>>
    BY <2>1, <2>2
  <2>4. Len(jobs') = 1 /\ jobs'[1].age = dage /\ dage \in 0..ClaimTime
    BY <2>3 DEF TimingInv, DispatcherOK
  <2>5. jobs'[1].age <= ClaimTime + since'
    BY <1>0, <2>1, <2>4
  <2> QED BY <2>1, <2>2, <2>4, <2>5 DEF LateInv, Working
<1>3. ASSUME NEW w \in Worker, Take(w) PROVE LateInv'
  <2>1. /\ wstate[w] = "idle" /\ jobs # <<>> /\ jobs' = Tail(jobs)
        /\ wjob' = [wjob EXCEPT ![w] = Head(jobs)]
        /\ wstate' = [wstate EXCEPT ![w] = "sending"]
        /\ wtime' = [wtime EXCEPT ![w] = 0]
        /\ UNCHANGED <<dstate, stopping, since>>
    BY <1>3 DEF Take, Enter, dispatcherVars, stopVars
  <2>2. ~InTransaction /\ Len(jobs) <= 1
    BY <2>1 DEF LateInv
  <2>3. Tail(jobs) \in Seq(Job) /\ Len(Tail(jobs)) = Len(jobs) - 1
        /\ Head(jobs) = jobs[1]
    BY <1>0, <2>1, JobsTail
  <2>4. jobs' = <<>>
    BY <1>0, <2>1, <2>2, <2>3, EmptySeq
  <2>5. Len(jobs') <= 1
    BY <1>0, <2>1, <2>2, <2>3
  <2>6. jobs[1].age <= ClaimTime + UpdateTime
    <3>1. /\ Head(jobs) \in Job
          /\ jobs[1].age <= ClaimTime + since /\ since <= UpdateTime
      BY <1>0, <2>1, JobsTail DEF LateInv
    <3>2. jobs[1].age \in Nat
      BY <2>3, <3>1 DEF Job
    <3> QED BY <1>0, <3>1, <3>2
  <2>7. /\ wstate'[w] = "sending" /\ wjob'[w] = jobs[1]
        /\ \A v \in Worker \ {w} : /\ wstate'[v] = wstate[v] /\ wtime'[v] = wtime[v]
                                   /\ wjob'[v] = wjob[v]
    BY <2>1, <2>3 DEF TimingInv, WorkersOK
  <2>8. \A v \in Worker : wjob'[v].waited =>
              /\ wstate'[v] = "sending" => wjob'[v].age <= ClaimTime + UpdateTime
              /\ wstate'[v] = "writing" =>
                    wjob'[v].age <= ClaimTime + UpdateTime + wtime'[v]
    BY <2>1, <2>6, <2>7 DEF LateInv
  <2> QED BY <2>1, <2>2, <2>4, <2>5, <2>8 DEF LateInv
<1>4. ASSUME NEW w \in Worker, SendEnds(w) \/ UpdateEnds(w) \/ WorkerStop(w)
      PROVE  LateInv'
  <2>1. /\ wtime'[w] = 0
        /\ wstate'[w] = "writing" => wstate[w] = "sending" /\ wjob'[w] = wjob[w]
        /\ wstate'[w] # "sending"
        /\ UNCHANGED <<dstate, jobs, stopping, since>>
    BY <1>4 DEF SendEnds, UpdateEnds, WorkerStop, Enter, dispatcherVars, stopVars,
                TimingInv, WorkersOK
  <2>2. \A v \in Worker \ {w} : /\ wstate'[v] = wstate[v] /\ wtime'[v] = wtime[v]
                                /\ wjob'[v] = wjob[v]
    BY <1>4 DEF SendEnds, UpdateEnds, WorkerStop, Enter, TimingInv, WorkersOK
  <2>3. ASSUME NEW v \in Worker, wjob'[v].waited
        PROVE  /\ wstate'[v] = "sending" => wjob'[v].age <= ClaimTime + UpdateTime
               /\ wstate'[v] = "writing" =>
                     wjob'[v].age <= ClaimTime + UpdateTime + wtime'[v]
    <3>1. CASE v = w
      <4>1. wstate[w] = "sending" /\ wjob[w].waited => wjob[w].age <= ClaimTime + UpdateTime
        BY <2>1 DEF LateInv
      <4> QED BY <1>0, <2>1, <2>3, <3>1, <4>1
    <3>2. CASE v # w
      BY <2>1, <2>2, <2>3, <3>2 DEF LateInv
    <3> QED BY <3>1, <3>2
  <2>4. ASSUME InTransaction \/ jobs # <<>>, NEW v \in Worker
        PROVE  /\ wstate'[v] = "idle" => since <= UpdateTime
               /\ wstate'[v] = "sending" => since = 0
               /\ wstate'[v] = "writing" => since <= wtime'[v]
               /\ Working(v)' => ~wjob'[v].waited
    <3>1. wstate'[w] = "idle" => wstate[w] = "writing" /\ wtime[w] <= UpdateTime
      BY <1>4 DEF SendEnds, UpdateEnds, WorkerStop, Enter, TimingInv, WorkersOK
    <3> QED BY <1>0, <2>1, <2>2, <2>4, <3>1 DEF LateInv, Working
  <2> QED BY <2>1, <2>3, <2>4 DEF LateInv
<1>5. CASE Cancel
  <2>1. /\ ~stopping /\ UNCHANGED <<dstate, jobs, wstate, wtime, wjob, since>>
    BY <1>5 DEF Cancel, dispatcherVars, workerVars
  <2>2. since = 0 /\ \A w \in Worker : Working(w) => ~wjob[w].waited
    BY <2>1 DEF StopInv, PaceInv, Paced
  <2>3. jobs = <<>> \/ jobs = <<[age |-> sinceTick, waited |-> FALSE]>>
    BY <2>1 DEF PaceInv
  <2>4. Len(jobs) <= 1
    <3>1. CASE jobs = <<>>
      BY <3>1, EmptySeq
    <3>2. CASE jobs = <<[age |-> sinceTick, waited |-> FALSE]>>
      <4>1. Len(jobs) = 1
        BY <3>2
      <4> QED BY <4>1
    <3> QED BY <2>3, <3>1, <3>2
  <2>5. jobs # <<>> => jobs[1].age <= ClaimTime
    <3> SUFFICES ASSUME jobs # <<>> PROVE jobs[1].age <= ClaimTime
      OBVIOUS
    <3>1. 1 \in DOMAIN jobs /\ jobs[1].waited = FALSE
      BY <2>3
    <3> QED BY <3>1 DEF PromptInv
  <2>6. InTransaction => jobs = <<>>
    BY <2>1 DEF PaceInv
  <2> QED BY <1>0, <2>1, <2>2, <2>4, <2>5, <2>6 DEF LateInv, Working
<1>6. ASSUME Exit PROVE FALSE
  BY <1>6 DEF Exit
<1>7. CASE Elapse
  <2>1. /\ DispatcherWaits /\ \A w \in Worker : WorkerWaits(w)
        /\ ~AllStopped
        /\ jobs' = [i \in DOMAIN jobs |-> [age |-> jobs[i].age + 1, waited |-> TRUE]]
        /\ wtime' = [w \in Worker |-> IF Working(w) THEN wtime[w] + 1 ELSE 0]
        /\ wjob' = [w \in Worker |-> IF Working(w) THEN Older(wjob[w]) ELSE wjob[w]]
        /\ wstate' = wstate /\ dstate' = dstate /\ stopping
        /\ since' = since + 1
    BY <1>7 DEF Elapse
  <2>3. \A w \in Worker : /\ wstate[w] \in {"stopped", "writing"}
                          /\ wstate[w] = "writing" => wtime[w] < UpdateTime
    BY <2>1 DEF WorkerWaits, SendMayLast
  <2>4. \A w \in Worker : wstate[w] = "writing" =>
            /\ wtime'[w] = wtime[w] + 1 /\ wjob'[w].age = wjob[w].age + 1
            /\ wjob'[w].waited = wjob[w].waited
    BY <1>0, <2>1 DEF Working, Older, Job
  <2>5. Len(jobs') = Len(jobs)
    <3>1. DOMAIN jobs' = DOMAIN jobs
      BY <2>1
    <3>2. jobs' \in Seq(Job)
      BY TimingNext DEF TimingInv, ChannelOK
    <3> QED BY <1>0, <3>1, <3>2, LenProperties
  <2>6. jobs' # <<>> => jobs # <<>>
    BY <2>1
  <2>7. jobs # <<>> => jobs'[1].age <= ClaimTime + since'
    <3> SUFFICES ASSUME jobs # <<>> PROVE jobs'[1].age <= ClaimTime + since'
      OBVIOUS
    <3>1. Head(jobs) \in Job /\ Head(jobs) = jobs[1] /\ 1 \in DOMAIN jobs
      BY <1>0, JobsTail
    <3>2. jobs[1].age \in Nat /\ jobs[1].age <= ClaimTime + since
      BY <2>1, <3>1 DEF LateInv, Job
    <3>3. jobs'[1].age = jobs[1].age + 1
      BY <2>1, <3>1
    <3> QED BY <1>0, <2>1, <3>2, <3>3
  <2>8. ASSUME NEW w \in Worker, wjob'[w].waited
        PROVE  /\ wstate'[w] = "sending" => wjob'[w].age <= ClaimTime + UpdateTime
               /\ wstate'[w] = "writing" =>
                     wjob'[w].age <= ClaimTime + UpdateTime + wtime'[w]
    BY <1>0, <2>1, <2>3, <2>4, <2>8 DEF LateInv
  <2>9. ASSUME InTransaction \/ jobs # <<>>, NEW w \in Worker
        PROVE  /\ wstate'[w] \notin {"idle", "sending"}
               /\ wstate'[w] = "writing" => since' <= wtime'[w]
               /\ Working(w)' => ~wjob'[w].waited
    BY <1>0, <2>1, <2>3, <2>4, <2>9 DEF LateInv, Working
  <2>10. InTransaction => jobs' = <<>>
    <3> SUFFICES ASSUME InTransaction PROVE jobs' = <<>>
      OBVIOUS
    <3>1. jobs = <<>>
      BY <2>1 DEF LateInv
    <3> QED BY <2>1, <3>1
  <2> QED BY <2>1, <2>5, <2>6, <2>7, <2>8, <2>9, <2>10 DEF LateInv
<1> QED BY <1>1, <1>2, <1>3, <1>4, <1>5, <1>6, <1>7
        DEF Next, PoolStep, vars, SkipTick, BeginClaim, Commit, Rollback, ClaimNothing,
            DispatcherStop, workerVars, stopVars, InTransaction

\* The lease covers every job, whatever the channel could hold, if the workers
\* keep up with the ticker, the lease has its margin, and an update takes no
\* longer than a send may.
THEOREM JobsCovered ==
    WorkersKeepUp /\ LeaseHasMargin /\ UpdateTime <= SendTime =>
        (Spec => []LeaseCoversDelivery)
<1> SUFFICES ASSUME WorkersKeepUp, LeaseHasMargin, UpdateTime <= SendTime
             PROVE  Spec => []LeaseCoversDelivery
  OBVIOUS
<1>1. Init => PaceInv /\ LateInv
  <2> SUFFICES ASSUME Init PROVE PaceInv /\ LateInv
    OBVIOUS
  <2>1. /\ stopping = FALSE /\ tick = FALSE /\ dstate = "idle" /\ jobs = <<>>
        /\ \A w \in Worker : wstate[w] = "idle"
    BY DEF Init
  <2> DEFINE k == [w \in Worker |-> 0]
  <2>2. k \in [Worker -> Nat] /\ Paced(k)
    BY <2>1 DEF Paced, Working
  <2>3. \E m \in [Worker -> Nat] : Paced(m)
    BY <2>2
  <2> QED BY <2>1, <2>3 DEF PaceInv, LateInv, InTransaction
<1>2. TimingInv /\ PromptInv /\ PaceInv /\ LateInv => LeaseCoversDelivery
  <2> SUFFICES ASSUME TimingInv, PromptInv, PaceInv, LateInv, NEW w \in Worker, Working(w)
               PROVE  wjob[w].age < LeaseLength
    BY DEF LeaseCoversDelivery
  <2>1. CASE ~wjob[w].waited
    BY <2>1, PromptCovered DEF LeaseCoversPromptJob
  <2>2. CASE wjob[w].waited
    <3>1. stopping
      BY <2>2 DEF PaceInv, Paced, TimingInv, StopOK
    <3>2. /\ wtime[w] \in Nat /\ wjob[w].age \in Nat
          /\ wstate[w] = "writing" => wtime[w] <= UpdateTime
      BY DEF TimingInv, WorkersOK, Job
    <3>3. wjob[w].age <= ClaimTime + UpdateTime + UpdateTime
      BY <2>2, <3>1, <3>2, Limits DEF LateInv, Working
    <3>4. LeaseLength \in Nat /\ ClaimTime + SendTime + UpdateTime < LeaseLength
      BY Limits, TimingAssumption DEF LeaseHasMargin, JobTime, LeaseLength
    <3> QED BY <3>2, <3>3, <3>4, Limits
  <2> QED BY <2>1, <2>2
<1> QED BY <1>1, <1>2, TimingInit, TimingNext, PromptInit, PromptNext, StopInit, StopNext,
           PaceNext, LateNext, PTL DEF Spec

============================================================================
