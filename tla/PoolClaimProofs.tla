-------------------------- MODULE PoolClaimProofs --------------------------
(***************************************************************************)
(* Proofs about DeliveryPool, 2: who has which claim.                      *)
(*                                                                         *)
(* UniqueInv says that no claim is in two places.  It is inductive because *)
(* attempt_count counts every claim there is (AllCounted), so the next one *)
(* is new, and because the row lock keeps the row of a claim in the making *)
(* as it was selected (RowsKept).  Sole, that the job of a row without     *)
(* overrun leases is the row's only one, rests on it: a worker that        *)
(* settles such a row cannot leave another job of it behind.               *)
(***************************************************************************)
EXTENDS PoolTypeProofs


\* The claims that are not audited yet: those on their way to RecordAttempt.
Unrecorded(c) == \A a \in attempts : a[1] # c

\* No claim is in two places at once, and none is audited before its time.
Unique ==
    /\ \A p, q \in Proc : dpc[p] = "holding" /\ dpc[q] = "holding" =>
            (dclaim[p] = dclaim[q] => p = q)
    /\ \A p, q \in Proc : dpc[p] = "holding" =>
            \A i \in 1..Len(jobs[q]) : dclaim[p] # jobs[q][i]
    /\ \A p \in Proc, w \in Worker :
            dpc[p] = "holding" /\ Busy(w) => dclaim[p] # wjob[w]
    /\ \A p, q \in Proc : \A i \in 1..Len(jobs[p]), j \in 1..Len(jobs[q]) :
            jobs[p][i] = jobs[q][j] => p = q /\ i = j
    /\ \A p \in Proc, w \in Worker : Busy(w) =>
            \A i \in 1..Len(jobs[p]) : wjob[w] # jobs[p][i]
    /\ \A w, v \in Worker : Busy(w) /\ Busy(v) => (wjob[w] = wjob[v] => w = v)

NotYetAudited ==
    /\ \A p \in Proc : dpc[p] = "holding" => Unrecorded(dclaim[p])
    /\ \A p \in Proc : \A i \in 1..Len(jobs[p]) : Unrecorded(jobs[p][i])
    /\ \A w \in Worker : wpc[w] \in {"sending", "sent"} => Unrecorded(wjob[w])

\* The claim c is counted in its row.
Counted(c) == c[2] <= attemptCount[c[1]]

AllCounted ==
    /\ \A p \in Proc : dpc[p] = "holding" => Counted(dclaim[p])
    /\ \A p \in Proc : \A i \in 1..Len(jobs[p]) : Counted(jobs[p][i])
    /\ \A w \in Worker : Busy(w) => Counted(wjob[w])
    /\ \A a \in attempts : Counted(a[1])

\* What the row lock keeps between SELECT and COMMIT.
RowsKept ==
    /\ \A p \in Proc : dpc[p] = "selected" =>
            /\ dclaim[p] = NextClaim(dclaim[p][1])
            /\ Claimable(dclaim[p][1])
    /\ \A p, q \in Proc : dpc[p] = "selected" /\ dpc[q] = "selected" =>
            (dclaim[p][1] = dclaim[q][1] => p = q)

UniqueInv == TypeInv /\ Unique /\ NotYetAudited /\ AllCounted /\ RowsKept

\* Nobody has a claim to begin with.
LEMMA UniqueInit == PoolInit => UniqueInv
BY TypeInvInit DEF PoolInit, StoreInit, UniqueInv, Unique, NotYetAudited, AllCounted, RowsKept, Busy


\* RowsKept depends on the status, lock, leases, attempt_count and backoff of
\* the locked rows, and AllCounted on attempt_count.
LEMMA ClaimRowEffect ==
    ASSUME TypeInv, NEW d \in Delivery, ClaimRow(d)
    PROVE  /\ attemptCount'[d] = attemptCount[d] + 1
           /\ \A x \in Delivery : attemptCount[x] <= attemptCount'[x]
           /\ \A x \in Delivery \ {d} : Claimable(x) => Claimable(x)'
           /\ \A x \in Delivery \ {d} : attemptCount'[x] = attemptCount[x]
           /\ attempts' = attempts
BY DEF TypeInv, StoreTypeOK, ClaimRow, Claimable, LeaseExpired, NextClaim

\* The claim a selected dispatcher is about to make is new.
LEMMA SelectedIsNew ==
    ASSUME UniqueInv, NEW p \in Proc, dpc[p] = "selected"
    PROVE  /\ dclaim[p] \in Claim /\ dclaim[p][1] \in Delivery
           /\ dclaim[p][2] = attemptCount[dclaim[p][1]] + 1
           /\ ~Counted(dclaim[p])
           /\ Unrecorded(dclaim[p])
<1>1. dclaim[p] \in Claim /\ dclaim[p][1] \in Delivery
    BY DEF UniqueInv, TypeInv, AtClaim, Claim
<1>2. dclaim[p] = <<dclaim[p][1], attemptCount[dclaim[p][1]] + 1>>
    BY DEF UniqueInv, RowsKept, NextClaim
<1>3. attemptCount[dclaim[p][1]] \in Nat
    BY <1>1 DEF UniqueInv, TypeInv, StoreTypeOK
<1>4. dclaim[p][2] = attemptCount[dclaim[p][1]] + 1
    BY <1>2
<1>5. ~Counted(dclaim[p])
    BY <1>3, <1>4 DEF Counted
<1> QED
    BY <1>1, <1>4, <1>5 DEF UniqueInv, AllCounted, Unrecorded

\* The UPDATE of a claim, committed or lost, leaves the other open claims their
\* rows and counts the claim it makes.
LEMMA ClaimRowKeeps ==
    ASSUME UniqueInv, NEW p \in Proc, dpc[p] = "selected",
           ClaimRow(dclaim[p][1]), dpc'[p] # "selected",
           dpc'[p] = "holding" => dclaim'[p] = dclaim[p],
           \A q \in Proc \ {p} : dpc'[q] = dpc[q] /\ dclaim'[q] = dclaim[q],
           UNCHANGED <<jobs, wpc, wjob>>
    PROVE  RowsKept' /\ AllCounted' /\ NotYetAudited'
<1> DEFINE d == dclaim[p][1]
<1>1. /\ dclaim[p] \in Claim /\ d \in Delivery
      /\ dclaim[p][2] = attemptCount[d] + 1
      /\ Unrecorded(dclaim[p])
    BY SelectedIsNew
<1>2. /\ attemptCount'[d] = attemptCount[d] + 1
      /\ \A x \in Delivery : attemptCount[x] <= attemptCount'[x]
      /\ \A x \in Delivery \ {d} : Claimable(x) => Claimable(x)'
      /\ \A x \in Delivery \ {d} : attemptCount'[x] = attemptCount[x]
      /\ attempts' = attempts
    BY <1>1, ClaimRowEffect DEF UniqueInv
<1>3. \A q \in Proc \ {p} : dpc[q] = "selected" =>
          dclaim[q] \in Claim /\ dclaim[q][1] \in Delivery \ {d}
    BY SelectedIsNew DEF UniqueInv, RowsKept
<1>4. RowsKept'
    BY <1>2, <1>3 DEF UniqueInv, RowsKept, NextClaim
<1>5. attemptCount \in [Delivery -> Nat] /\ attemptCount' \in [Delivery -> Nat]
    BY <1>1, ClaimRowType DEF UniqueInv, TypeInv, StoreTypeOK
<1>6. \A c \in Claim : Counted(c) => Counted(c)'
    BY <1>2, <1>5 DEF Counted, Claim
<1>7. /\ \A q \in Proc : dpc[q] = "holding" => dclaim[q] \in Claim
      /\ \A q \in Proc : \A i \in 1..Len(jobs[q]) : jobs[q][i] \in Claim
      /\ \A w \in Worker : Busy(w) => wjob[w] \in Claim
      /\ \A a \in attempts : a[1] \in Claim
    BY ElementOfSeq DEF UniqueInv, TypeInv, PoolTypeOK, AtClaim, StoreTypeOK
<1>8. dclaim'[p] = dclaim[p] => Counted(dclaim[p])'
    BY <1>1, <1>2, <1>5 DEF Counted
<1> QED
    BY <1>1, <1>2, <1>4, <1>6, <1>7, <1>8
    DEF UniqueInv, AllCounted, NotYetAudited, Unrecorded, Busy

\* The dispatcher loop keeps claims apart.
LEMMA UniqueInvDispatcher ==
    ASSUME UniqueInv, NEW p \in Proc, DispatcherStep(p)
    PROVE  UniqueInv'
<1> USE PoolAssumption, NoClaimType
<1>1. TypeInv'
    BY TypeInvDispatcher DEF UniqueInv
<1> USE DEF UniqueInv, TypeInv, PoolTypeOK, Busy
<1>2. CASE PollNothing(p)
    BY <1>1, <1>2 DEF PollNothing, vars, storeVars, procVars, workerVars, Unique,
        NotYetAudited, Unrecorded, AllCounted, Counted, RowsKept, NextClaim,
        Claimable, LeaseExpired
<1>3. CASE ClaimSelect(p)
  <2>1. Unique' /\ NotYetAudited' /\ AllCounted'
    BY <1>3 DEF ClaimSelect, storeVars, workerVars, Unique, NotYetAudited,
        Unrecorded, AllCounted, Counted
  <2>2. PICK d \in Delivery : Selectable(d) /\ dclaim' = [dclaim EXCEPT ![p] = NextClaim(d)]
    BY <1>3 DEF ClaimSelect
  <2>3. NextClaim(d)[1] = d /\ Claimable(d) /\ ~RowLocked(d)
    BY <2>2 DEF NextClaim, Selectable
  <2>4. \A x : Claimable(x)' = Claimable(x) /\ NextClaim(x)' = NextClaim(x)
    BY <1>3 DEF ClaimSelect, storeVars, Claimable, LeaseExpired, NextClaim
  <2>5. RowsKept'
    BY <1>3, <2>2, <2>3, <2>4 DEF ClaimSelect, RowsKept, RowLocked
  <2> QED
    BY <1>1, <2>1, <2>5
<1>4. CASE ClaimCommit(p)
  <2>1. RowsKept' /\ AllCounted' /\ NotYetAudited'
    BY <1>4, ClaimRowKeeps DEF ClaimCommit, workerVars
  <2>2. Unique'
    BY <1>4, SelectedIsNew DEF ClaimCommit, AllCounted, Unique, workerVars
  <2> QED
    BY <1>1, <2>1, <2>2
<1>5. CASE ClaimCommitLost(p)
  <2>1. RowsKept' /\ AllCounted' /\ NotYetAudited'
    BY <1>5, ClaimRowKeeps DEF ClaimCommitLost, workerVars
  <2>2. Unique'
    BY <1>5 DEF ClaimCommitLost, Unique, workerVars
  <2> QED
    BY <1>1, <2>1, <2>2
<1>6. CASE ClaimAbort(p)
    BY <1>1, <1>6 DEF ClaimAbort, storeVars, workerVars, Unique, NotYetAudited,
        Unrecorded, AllCounted, Counted, RowsKept, NextClaim, Claimable, LeaseExpired
<1>7. CASE Enqueue(p)
  <2> DEFINE s == jobs[p]
             t == Append(s, dclaim[p])
  <2>1. s \in Seq(Claim) /\ dclaim[p] \in Claim
    BY <1>7 DEF Enqueue, AtClaim
  <2>2. /\ Len(t) = Len(s) + 1 /\ Len(s) \in Nat
        /\ \A i \in 1..Len(t) : t[i] = IF i = Len(s) + 1 THEN dclaim[p] ELSE s[i]
    BY <2>1, AppendAt
  <2>3. jobs' = [jobs EXCEPT ![p] = t]
    BY <1>7 DEF Enqueue
  <2> HIDE DEF t
  <2>4. Unique'
    BY <1>7, <2>1, <2>2, <2>3 DEF Enqueue, workerVars, Unique
  <2>5. NotYetAudited' /\ AllCounted'
    BY <1>7, <2>1, <2>2, <2>3 DEF Enqueue, storeVars, workerVars, NotYetAudited,
        Unrecorded, AllCounted, Counted
  <2>6. RowsKept'
    BY <1>7 DEF Enqueue, storeVars, RowsKept, NextClaim, Claimable, LeaseExpired
  <2> QED
    BY <1>1, <2>4, <2>5, <2>6
<1>8. CASE DispatcherStop(p)
    BY <1>1, <1>8 DEF DispatcherStop, storeVars, workerVars, Unique, NotYetAudited,
        Unrecorded, AllCounted, Counted, RowsKept, NextClaim, Claimable, LeaseExpired
<1> QED
    BY <1>2, <1>3, <1>4, <1>5, <1>6, <1>7, <1>8 DEF DispatcherStep

\* A verdict leaves every other row, attempt_count and the audit alone.
LEMMA VerdictEffect ==
    ASSUME TypeInv, NEW c \in Claim, NEW r, Verdict(c, r)
    PROVE  /\ \A x \in Delivery \ {c[1]} :
                 (Claimable(x) => Claimable(x)') /\ status'[x] = status[x]
           /\ UNCHANGED <<attemptCount, live, attempts, eventOf>>
BY DEF TypeInv, StoreTypeOK, Verdict, MarkSucceeded, MarkDead, ScheduleRetry,
       Claimable, LeaseExpired

\* A worker that becomes idle or stops, nothing else of the pool changing.
LEMMA WorkerGone ==
    ASSUME UniqueInv, NEW w \in Worker, wpc'[w] \in {"idle", "stopped"},
           \A v \in Worker \ {w} : wpc'[v] = wpc[v] /\ wjob'[v] = wjob[v],
           UNCHANGED <<dpc, dclaim, jobs, attempts, attemptCount>>
    PROVE  Unique' /\ NotYetAudited' /\ AllCounted'
BY DEF UniqueInv, Unique, NotYetAudited, Unrecorded, AllCounted, Counted, Busy

\* A worker receives the head of the channel.
LEMMA WorkerReceives ==
    ASSUME UniqueInv, NEW w \in Worker, Receive(w), wpc'[w] \in {"sending", "sent"},
           \A v \in Worker \ {w} : wpc'[v] = wpc[v],
           UNCHANGED <<storeVars, dpc, dclaim>>
    PROVE  Unique' /\ NotYetAudited' /\ AllCounted'
<1> USE PoolAssumption
<1> DEFINE h == Host[w]
           s == jobs[h]
           t == Tail(s)
<1>1. h \in Proc /\ s \in Seq(Claim) /\ s # <<>>
    BY DEF UniqueInv, TypeInv, PoolTypeOK, Receive
<1>2. /\ Head(s) = s[1] /\ 1 \in 1..Len(s)
      /\ Len(t) = Len(s) - 1 /\ Len(s) \in Nat
      /\ \A i \in 1..Len(t) : i + 1 \in 1..Len(s) /\ t[i] = s[i + 1]
    BY <1>1, TailAt
<1>3. jobs' = [jobs EXCEPT ![h] = t] /\ wjob' = [wjob EXCEPT ![w] = s[1]]
    BY <1>2 DEF Receive
<1>4. ~Busy(w)
    BY DEF Receive, Busy
<1>5. jobs \in [Proc -> Seq(Claim)] /\ wjob \in [Worker -> Claim \cup {NoClaim}]
    BY DEF UniqueInv, TypeInv, PoolTypeOK
<1> DEFINE old(q, i) == IF q = h THEN i + 1 ELSE i
<1> HIDE DEF t, h
<1>6. \A q \in Proc : \A i \in 1..Len(jobs'[q]) :
          i \in Int /\ old(q, i) \in 1..Len(jobs[q]) /\ jobs'[q][i] = jobs[q][old(q, i)]
    BY <1>1, <1>2, <1>3, <1>5
<1>7. 1 \in 1..Len(jobs[h]) /\ wjob'[w] = jobs[h][1]
    BY <1>1, <1>2, <1>3, <1>5
<1>8. \A v \in Worker : Busy(v)' => (v = w \/ (Busy(v) /\ wjob'[v] = wjob[v]))
    BY <1>3, <1>5 DEF Busy
<1>9. \A q \in Proc : \A i \in 1..Len(jobs'[q]) : wjob'[w] # jobs'[q][i]
    BY <1>1, <1>6, <1>7 DEF UniqueInv, Unique
<1>10. \A p, q \in Proc : \A i \in 1..Len(jobs'[p]), j \in 1..Len(jobs'[q]) :
           jobs'[p][i] = jobs'[q][j] => p = q /\ i = j
  <2> SUFFICES ASSUME NEW p \in Proc, NEW q \in Proc, NEW i \in 1..Len(jobs'[p]),
                      NEW j \in 1..Len(jobs'[q]), jobs'[p][i] = jobs'[q][j]
               PROVE  p = q /\ i = j
    OBVIOUS
  <2>1. jobs[p][old(p, i)] = jobs[q][old(q, j)]
    BY <1>6
  <2>2. p = q /\ old(p, i) = old(q, j)
    BY <1>6, <2>1 DEF UniqueInv, Unique
  <2> QED
    BY <1>6, <2>2
<1>11. Unique'
  <2>1. UNCHANGED <<dpc, dclaim>>
    OBVIOUS
  <2>2. \A q \in Proc : dpc[q] = "holding" =>
            \A r \in Proc : \A i \in 1..Len(jobs'[r]) : dclaim[q] # jobs'[r][i]
    BY <1>6 DEF UniqueInv, Unique
  <2>3. \A q \in Proc, v \in Worker : dpc[q] = "holding" /\ Busy(v)' =>
            dclaim[q] # wjob'[v]
    BY <1>1, <1>7, <1>8 DEF UniqueInv, Unique
  <2>4. \A q \in Proc, v \in Worker : Busy(v)' =>
            \A i \in 1..Len(jobs'[q]) : wjob'[v] # jobs'[q][i]
    BY <1>6, <1>8, <1>9 DEF UniqueInv, Unique
  <2>5. \A v \in Worker : Busy(v) => wjob[v] # wjob'[w]
    BY <1>1, <1>7 DEF UniqueInv, Unique
  <2>6. \A u, v \in Worker : Busy(u)' /\ Busy(v)' => (wjob'[u] = wjob'[v] => u = v)
    BY <1>8, <2>5 DEF UniqueInv, Unique
  <2> QED
    BY <1>10, <2>1, <2>2, <2>3, <2>4, <2>6 DEF UniqueInv, Unique
<1>12. NotYetAudited' /\ AllCounted'
  <2>1. \A c : Counted(c)' = Counted(c) /\ Unrecorded(c)' = Unrecorded(c)
    BY DEF Counted, Unrecorded, storeVars
  <2>2. \A v \in Worker : wpc'[v] \in {"sending", "sent"} =>
            (v = w \/ (wpc[v] \in {"sending", "sent"} /\ wjob'[v] = wjob[v]))
    BY <1>3, <1>5
  <2>3. UNCHANGED <<dpc, dclaim, attempts>>
    BY DEF storeVars
  <2> QED
    BY <1>1, <1>6, <1>7, <1>8, <2>1, <2>2, <2>3
    DEF UniqueInv, NotYetAudited, AllCounted
<1> QED
    BY <1>11, <1>12

\* RowsKept depends on these variables only.
LEMMA RowsKeptByStutter ==
    ASSUME RowsKept, UNCHANGED <<dpc, dclaim, status, attemptCount, locked, waiting, live>>
    PROVE  RowsKept'
BY DEF RowsKept, NextClaim, Claimable, LeaseExpired

\* Process keeps claims apart, and audits a claim once.
LEMMA UniqueInvWorker ==
    ASSUME UniqueInv, NEW w \in Worker, WorkerStep(w)
    PROVE  UniqueInv'
<1> USE PoolAssumption, NoClaimType
<1>1. TypeInv'
    BY TypeInvWorker DEF UniqueInv
<1> USE DEF UniqueInv
<1>2. CASE Take(w)
  <2>1. Unique' /\ NotYetAudited' /\ AllCounted'
    BY <1>2, WorkerReceives DEF Take, TypeInv, PoolTypeOK
  <2>2. RowsKept'
    BY <1>2, RowsKeptByStutter DEF Take, storeVars
  <2> QED
    BY <1>1, <2>1, <2>2
<1>3. CASE TakeCancelled(w)
  <2>1. Unique' /\ NotYetAudited' /\ AllCounted'
    BY <1>3, WorkerReceives DEF TakeCancelled, SendReturned, TypeInv, PoolTypeOK
  <2>2. RowsKept'
    BY <1>3, RowsKeptByStutter DEF TakeCancelled, storeVars
  <2> QED
    BY <1>1, <2>1, <2>2
<1>4. CASE SendReturns(w)
  <2>1. Unique' /\ NotYetAudited' /\ AllCounted'
    BY <1>4 DEF SendReturns, SendReturned, storeVars, procVars, TypeInv, PoolTypeOK,
        Unique, NotYetAudited, Unrecorded, AllCounted, Counted, Busy
  <2>2. RowsKept'
    BY <1>4, RowsKeptByStutter DEF SendReturns, storeVars, procVars
  <2> QED
    BY <1>1, <2>1, <2>2
<1>5. CASE Record(w)
  <2>1. /\ attempts' = attempts \cup {<<wjob[w], OutcomeOf(wres[w])>>}
        /\ wpc' = [wpc EXCEPT ![w] = "recorded"]
        /\ UNCHANGED <<status, attemptCount, locked, waiting, live, procVars, wjob>>
    BY <1>5 DEF Record, RecordAttempt
  <2>2. Busy(w) /\ Busy(w)' /\ \A v \in Worker : Busy(v)' = Busy(v)
    BY <1>5, <2>1 DEF Record, Busy, TypeInv, PoolTypeOK
  <2>3. Unique' /\ AllCounted'
    BY <2>1, <2>2 DEF Unique, AllCounted, Counted, procVars
  <2>4. NotYetAudited'
    BY <2>1, <2>2 DEF Unique, NotYetAudited, Unrecorded, procVars, TypeInv,
        PoolTypeOK, Busy
  <2>5. RowsKept'
    BY <2>1, RowsKeptByStutter DEF procVars
  <2> QED
    BY <1>1, <2>3, <2>4, <2>5
<1>6. CASE RecordFails(w)
  <2>1. Unique' /\ NotYetAudited' /\ AllCounted'
    BY <1>6 DEF RecordFails, storeVars, procVars, TypeInv, PoolTypeOK,
        Unique, NotYetAudited, Unrecorded, AllCounted, Counted, Busy
  <2>2. RowsKept'
    BY <1>6, RowsKeptByStutter DEF RecordFails, storeVars, procVars
  <2> QED
    BY <1>1, <2>1, <2>2
<1>7. CASE Settle(w)
  <2>1. wjob[w] \in Claim /\ Verdict(wjob[w], wres[w]) /\ ~RowLocked(wjob[w][1])
    BY <1>7 DEF Settle, TypeInv, AtClaim, Busy
  <2>2. Unique' /\ NotYetAudited' /\ AllCounted'
    BY <1>7, <2>1, WorkerGone, VerdictEffect
    DEF Settle, WorkerIdle, procVars, TypeInv, PoolTypeOK
  <2>3. RowsKept'
    BY <1>7, <2>1, VerdictEffect, SelectedIsNew
    DEF Settle, procVars, RowsKept, RowLocked, NextClaim
  <2> QED
    BY <1>1, <2>2, <2>3
<1>8. CASE SettleFails(w)
  <2>1. Unique' /\ NotYetAudited' /\ AllCounted'
    BY <1>8, WorkerGone
    DEF SettleFails, WorkerIdle, storeVars, procVars, TypeInv, PoolTypeOK
  <2>2. RowsKept'
    BY <1>8, RowsKeptByStutter DEF SettleFails, storeVars, procVars
  <2> QED
    BY <1>1, <2>1, <2>2
<1>9. CASE WorkerStop(w)
  <2>1. Unique' /\ NotYetAudited' /\ AllCounted'
    BY <1>9, WorkerGone DEF WorkerStop, storeVars, procVars, TypeInv, PoolTypeOK
  <2>2. RowsKept'
    BY <1>9, RowsKeptByStutter DEF WorkerStop, storeVars, procVars
  <2> QED
    BY <1>1, <2>1, <2>2
<1> QED
    BY <1>2, <1>3, <1>4, <1>5, <1>6, <1>7, <1>8, <1>9 DEF WorkerStep

\* The pool holds what it held, or less of it.
LEMMA PoolShrinks ==
    ASSUME UniqueInv,
           \A q \in Proc : dpc'[q] = "holding" =>
               (dpc[q] = "holding" /\ dclaim'[q] = dclaim[q]),
           \A q \in Proc : \A i \in 1..Len(jobs'[q]) :
               i \in 1..Len(jobs[q]) /\ jobs'[q][i] = jobs[q][i],
           \A v \in Worker : Busy(v)' => (Busy(v) /\ wjob'[v] = wjob[v]),
           \A v \in Worker : wpc'[v] \in {"sending", "sent"} =>
               wpc[v] \in {"sending", "sent"},
           UNCHANGED <<attempts, attemptCount>>
    PROVE  Unique' /\ NotYetAudited' /\ AllCounted'
<1>1. \A c : Counted(c)' = Counted(c) /\ Unrecorded(c)' = Unrecorded(c)
    BY DEF Counted, Unrecorded
<1>2. \A v \in Worker : wpc'[v] \in {"sending", "sent"} => wjob'[v] = wjob[v]
    BY DEF Busy
<1>3. NotYetAudited' /\ AllCounted'
    BY <1>1, <1>2 DEF UniqueInv, NotYetAudited, AllCounted
<1>4. \A p, q \in Proc : \A i \in 1..Len(jobs'[p]), j \in 1..Len(jobs'[q]) :
          jobs'[p][i] = jobs'[q][j] => p = q /\ i = j
    BY DEF UniqueInv, Unique
<1>5. \A p \in Proc, v \in Worker : Busy(v)' =>
          \A i \in 1..Len(jobs'[p]) : wjob'[v] # jobs'[p][i]
    BY DEF UniqueInv, Unique
<1>6. \A p, q \in Proc : dpc'[p] = "holding" =>
          \A i \in 1..Len(jobs'[q]) : dclaim'[p] # jobs'[q][i]
    BY DEF UniqueInv, Unique
<1>7. Unique'
    BY <1>4, <1>5, <1>6 DEF UniqueInv, Unique
<1> QED
    BY <1>3, <1>7

\* The process dies: what its dispatcher, channel and workers held is nowhere.
LEMMA UniqueInvEnd ==
    ASSUME UniqueInv, NEW p \in Proc, End(p)
    PROVE  Unique' /\ NotYetAudited' /\ AllCounted' /\ RowsKept'
<1> USE DEF UniqueInv, TypeInv, PoolTypeOK
<1>1. \A q \in Proc \ {p} :
          dpc'[q] = dpc[q] /\ dclaim'[q] = dclaim[q] /\ jobs'[q] = jobs[q]
    BY DEF End
<1>2. dpc'[p] = "stopped" /\ 1..Len(jobs'[p]) = {}
    BY DEF End
<1>3. \A v \in Worker : wpc'[v] # "stopped" => (wpc'[v] = wpc[v] /\ wjob'[v] = wjob[v])
    BY DEF End
<1>4. UNCHANGED storeVars
    BY DEF End
<1>5. Unique' /\ NotYetAudited' /\ AllCounted'
  <2>1. UNCHANGED <<attempts, attemptCount>>
    BY <1>4 DEF storeVars
  <2>2. \A q \in Proc : \A i \in 1..Len(jobs'[q]) :
            i \in 1..Len(jobs[q]) /\ jobs'[q][i] = jobs[q][i]
    BY <1>1, <1>2
  <2>3. \A v \in Worker : Busy(v)' => (Busy(v) /\ wjob'[v] = wjob[v])
    BY <1>3 DEF Busy
  <2>4. \A v \in Worker : wpc'[v] \in {"sending", "sent"} => wpc[v] \in {"sending", "sent"}
    BY <1>3
  <2>5. \A q \in Proc : dpc'[q] = "holding" => (dpc[q] = "holding" /\ dclaim'[q] = dclaim[q])
    BY <1>1, <1>2
  <2> QED
    BY <2>1, <2>2, <2>3, <2>4, <2>5, PoolShrinks
<1>6. RowsKept'
  <2>1. \A x : Claimable(x)' = Claimable(x) /\ NextClaim(x)' = NextClaim(x)
    BY <1>4 DEF NextClaim, Claimable, LeaseExpired, storeVars
  <2>2. \A q \in Proc : dpc'[q] = "selected" => (dpc[q] = "selected" /\ dclaim'[q] = dclaim[q])
    BY <1>1, <1>2
  <2> QED
    BY <2>1, <2>2 DEF RowsKept
<1> QED
    BY <1>5, <1>6

\* Shutdown, crash and restart keep claims apart.
LEMMA UniqueInvProcess ==
    ASSUME UniqueInv, NEW p \in Proc, ProcessStep(p)
    PROVE  UniqueInv'
<1>1. TypeInv'
    BY TypeInvProcess DEF UniqueInv
<1> USE DEF UniqueInv
<1>2. CASE Shutdown(p)
    BY <1>1, <1>2, RowsKeptByStutter
    DEF Shutdown, storeVars, workerVars, Unique, NotYetAudited, Unrecorded,
        AllCounted, Counted, Busy
<1>3. CASE Exit(p) \/ ExitUnfinished(p) \/ Crash(p)
    BY <1>1, <1>3, UniqueInvEnd DEF Exit, ExitUnfinished, Crash
<1>4. CASE Restart(p)
  <2>1. \A q \in Proc : dpc'[q] \in {"selected", "holding"} => dpc'[q] = dpc[q]
    BY <1>4 DEF Restart, TypeInv, PoolTypeOK
  <2>2. \A v \in Worker : wpc'[v] # "idle" => wpc'[v] = wpc[v]
    BY <1>4 DEF Restart, TypeInv, PoolTypeOK
  <2>3. UNCHANGED <<storeVars, dclaim, jobs, wjob>>
    BY <1>4 DEF Restart
  <2>4. Unique' /\ NotYetAudited' /\ AllCounted'
    BY <2>1, <2>2, <2>3, PoolShrinks DEF Busy, storeVars
  <2>5. RowsKept'
    BY <2>1, <2>3 DEF RowsKept, NextClaim, Claimable, LeaseExpired, storeVars
  <2> QED
    BY <1>1, <2>4, <2>5
<1> QED
    BY <1>2, <1>3, <1>4 DEF ProcessStep

\* Steps that leave the pool alone, and every claimable row claimable.
LEMMA UniqueInvStore ==
    ASSUME UniqueInv, TypeInv', UNCHANGED <<poolVars, attemptCount, attempts>>,
           \A x \in Delivery : Claimable(x) => Claimable(x)'
    PROVE  UniqueInv'
<1>1. Unique' /\ NotYetAudited' /\ AllCounted'
    BY DEF UniqueInv, Unique, NotYetAudited, Unrecorded, AllCounted, Counted,
        Busy, poolVars, procVars, workerVars
<1>2. \A p \in Proc : dpc[p] = "selected" => dclaim[p][1] \in Delivery
    BY SelectedIsNew
<1>3. RowsKept'
    BY <1>2 DEF UniqueInv, RowsKept, NextClaim, poolVars, procVars
<1> QED
    BY <1>1, <1>3 DEF UniqueInv

\* An inserted row was absent before.
LEMMA InsertEffect ==
    ASSUME TypeInv, NEW e \in Event, InsertPending(e)
    PROVE  \A x \in Delivery : status[x] # "absent" =>
               /\ status'[x] = status[x]
               /\ eventOf'[x] = eventOf[x]
BY DEF TypeInv, StoreTypeOK, InsertPending, NextId

\* Requests and the clock keep claims apart.
LEMMA UniqueInvOutside ==
    ASSUME UniqueInv,
           \/ \E e \in Event : Submit(e) \/ Replay(e)
           \/ \E d \in Delivery : RetryDue(d) \/ LeasePasses(d)
    PROVE  UniqueInv'
<1>1. TypeInv'
    BY TypeInvOutside DEF UniqueInv
<1>2. ASSUME NEW e \in Event, Submit(e) \/ Replay(e)
      PROVE  UniqueInv'
  <2>1. InsertPending(e) /\ UNCHANGED poolVars
    BY <1>2 DEF Submit, Replay, CreateEventWithDelivery, CreateReplayDelivery
  <2>2. UNCHANGED <<attemptCount, locked, waiting, live, attempts>>
    BY <2>1 DEF InsertPending
  <2>3. \A x \in Delivery : Claimable(x) => Claimable(x)'
    BY <2>1, <2>2, InsertEffect DEF UniqueInv, Claimable, LeaseExpired
  <2> QED
    BY <1>1, <2>1, <2>2, <2>3, UniqueInvStore
<1>3. ASSUME NEW d \in Delivery, RetryDue(d)
      PROVE  UniqueInv'
    BY <1>1, <1>3, UniqueInvStore DEF RetryDue, BackoffElapses, Claimable, LeaseExpired
<1>4. ASSUME NEW d \in Delivery, LeasePasses(d)
      PROVE  UniqueInv'
    BY <1>1, <1>4, UniqueInvStore DEF LeasePasses, LeaseElapses, Claimable, LeaseExpired
<1> QED
    BY <1>2, <1>3, <1>4

\* UniqueInv is inductive.
LEMMA UniqueInvNext == UniqueInv /\ [Next]_vars => UniqueInv'
<1> SUFFICES ASSUME UniqueInv, [Next]_vars PROVE UniqueInv'
    OBVIOUS
<1>1. CASE UNCHANGED vars
  <2>1. TypeInv'
    BY <1>1, TypeInvNext DEF UniqueInv
  <2> QED
    BY <1>1, <2>1, UniqueInvStore
    DEF vars, storeVars, poolVars, procVars, workerVars, Claimable, LeaseExpired
<1>2. CASE Next
    BY <1>2, UniqueInvDispatcher, UniqueInvWorker, UniqueInvProcess, UniqueInvOutside
    DEF Next
<1> QED
    BY <1>1, <1>2

\* UniqueInv holds in every reachable state.
THEOREM UniqueInvariant == Spec => []UniqueInv
BY UniqueInit, UniqueInvNext, PTL DEF Spec

\* Any number of processes that share the database never claim the same
\* attempt of a delivery twice, and never audit one twice.
THEOREM AttemptNumbersAreUnique == Spec => []AttemptNumbersUnique
<1>1. UniqueInv => AttemptNumbersUnique
  <2> SUFFICES ASSUME UniqueInv PROVE AttemptNumbersUnique
    OBVIOUS
  <2>1. \A p \in Proc : DOMAIN jobs[p] = 1..Len(jobs[p])
    BY LenProperties DEF UniqueInv, TypeInv, PoolTypeOK
  <2> QED
    BY <2>1 DEF UniqueInv, Unique, NotYetAudited, Unrecorded, AttemptNumbersUnique, Queued
<1> QED
    BY <1>1, UniqueInvariant, PTL

----------------------------------------------------------------------------
(* Sole holders *)

\* SoleHolder, by place.
Current(c) ==
    c[1] \notin overrun =>
        /\ status[c[1]] = "running"
        /\ locked[c[1]]
        /\ attemptCount[c[1]] = c[2]
        /\ c \in live

Sole ==
    /\ \A p \in Proc : dpc[p] = "holding" => Current(dclaim[p])
    /\ \A p \in Proc : \A i \in 1..Len(jobs[p]) : Current(jobs[p][i])
    /\ \A w \in Worker : Busy(w) => Current(wjob[w])

\* Held, place by place.
LEMMA HeldClaims ==
    ASSUME TypeInv
    PROVE  /\ \A c : c \in Held <=>
                 \/ \E p \in Proc : dpc[p] = "holding" /\ c = dclaim[p]
                 \/ \E p \in Proc : \E i \in 1..Len(jobs[p]) : c = jobs[p][i]
                 \/ \E w \in Worker : Busy(w) /\ c = wjob[w]
           /\ Held \subseteq Claim
<1>1. \A p \in Proc : DOMAIN jobs[p] = 1..Len(jobs[p])
    BY LenProperties DEF TypeInv, PoolTypeOK
<1>2. \A c : c \in Held <=>
                 \/ \E p \in Proc : dpc[p] = "holding" /\ c = dclaim[p]
                 \/ \E p \in Proc : \E i \in 1..Len(jobs[p]) : c = jobs[p][i]
                 \/ \E w \in Worker : Busy(w) /\ c = wjob[w]
  <2> SUFFICES ASSUME NEW c
               PROVE  c \in Held <=>
                 \/ \E p \in Proc : dpc[p] = "holding" /\ c = dclaim[p]
                 \/ \E p \in Proc : \E i \in 1..Len(jobs[p]) : c = jobs[p][i]
                 \/ \E w \in Worker : Busy(w) /\ c = wjob[w]
    OBVIOUS
  <2>1. c \in (UNION {Queued(p) : p \in Proc}) <=>
            \E p \in Proc : \E i \in 1..Len(jobs[p]) : c = jobs[p][i]
    BY <1>1 DEF Queued
  <2>2. c \in {dclaim[p] : p \in {q \in Proc : dpc[q] = "holding"}} <=>
            \E p \in Proc : dpc[p] = "holding" /\ c = dclaim[p]
    OBVIOUS
  <2>3. c \in {wjob[w] : w \in {v \in Worker : Busy(v)}} <=>
            \E w \in Worker : Busy(w) /\ c = wjob[w]
    OBVIOUS
  <2> QED
    BY <2>1, <2>2, <2>3 DEF Held
<1>3. /\ \A q \in Proc : dpc[q] = "holding" => dclaim[q] \in Claim
      /\ \A q \in Proc : \A i \in 1..Len(jobs[q]) : jobs[q][i] \in Claim
      /\ \A w \in Worker : Busy(w) => wjob[w] \in Claim
    BY ElementOfSeq DEF TypeInv, PoolTypeOK, AtClaim
<1> QED
    BY <1>2, <1>3

\* Whatever a dispatcher, a channel or a worker has is a claim.
LEMMA HeldAreClaims ==
    ASSUME TypeInv
    PROVE  /\ \A q \in Proc : dpc[q] = "holding" => dclaim[q] \in Claim
           /\ \A q \in Proc : \A i \in 1..Len(jobs[q]) : jobs[q][i] \in Claim
           /\ \A w \in Worker : Busy(w) => wjob[w] \in Claim
BY ElementOfSeq DEF TypeInv, PoolTypeOK, AtClaim

\* The pool holds what it held or less of it, and the row of a claim that it
\* held and still holds is as it was.
LEMMA SoleShrinks ==
    ASSUME TypeInv, Sole,
           \A q \in Proc : dpc'[q] = "holding" =>
               (dpc[q] = "holding" /\ dclaim'[q] = dclaim[q]),
           \A q \in Proc : \A i \in 1..Len(jobs'[q]) :
               \E j \in 1..Len(jobs[q]) : jobs'[q][i] = jobs[q][j],
           \A v \in Worker : Busy(v)' => (Busy(v) /\ wjob'[v] = wjob[v]),
           \A c \in Claim : Current(c) => Current(c)'
    PROVE  Sole'
BY HeldAreClaims DEF Sole

\* Current depends on these variables only, and overrun excuses it.
LEMMA CurrentStutter ==
    ASSUME UNCHANGED <<status, locked, attemptCount, live>>, overrun \subseteq overrun'
    PROVE  \A c \in Claim : Current(c) => Current(c)'
BY DEF Current

\* A claim in hand and a claim being made are of different rows.
LEMMA SelectedNotHeld ==
    ASSUME TypeInv, NEW d, Claimable(d), NEW c \in Claim, Current(c), c[1] = d
    PROVE  d \in overrun
<1>1. c = <<c[1], c[2]>>
    BY DEF Claim
<1> QED
    BY <1>1 DEF Claimable, LeaseExpired, Current

\* A claim just made is current, and the others still are.
LEMMA ClaimRowCurrent ==
    ASSUME TypeInv, NEW d \in Delivery, ClaimRow(d), Claimable(d), UNCHANGED overrun
    PROVE  /\ \A c \in Claim : Current(c) => Current(c)'
           /\ \A c : c = NextClaim(d) => Current(c)'
<1>1. ASSUME NEW c \in Claim, Current(c)
      PROVE  Current(c)'
  <2>1. CASE c[1] \in overrun
    BY <2>1 DEF Current
  <2>2. CASE c[1] \notin overrun
    <3>1. c[1] # d
        BY <1>1, <2>2, SelectedNotHeld
    <3>2. c[1] \in Delivery
        BY DEF Claim
    <3> QED
        BY <1>1, <3>1, <3>2 DEF ClaimRow, Current, TypeInv, StoreTypeOK
  <2> QED
    BY <2>1, <2>2
<1>2. ASSUME NEW c, c = NextClaim(d)
      PROVE  Current(c)'
    BY <1>2 DEF ClaimRow, Current, NextClaim, TypeInv, StoreTypeOK
<1> QED
    BY <1>1, <1>2

\* The dispatcher loop makes no second job of a row.
LEMMA SoleDispatcher ==
    ASSUME UniqueInv, Sole, NEW p \in Proc, DispatcherStep(p)
    PROVE  Sole'
<1>1. TypeInv
    BY DEF UniqueInv
<1>2. CASE PollNothing(p)
    BY <1>2 DEF PollNothing, vars, storeVars, procVars, workerVars, historyVars,
        Sole, Current, Busy
<1>3. CASE ClaimSelect(p)
    BY <1>1, <1>3, CurrentStutter, SoleShrinks
    DEF ClaimSelect, storeVars, workerVars, historyVars, Busy, TypeInv, PoolTypeOK
<1>4. ASSUME dpc[p] = "selected", ClaimRow(dclaim[p][1]), UNCHANGED overrun
      PROVE  /\ \A c \in Claim : Current(c) => Current(c)'
             /\ \A c : c = dclaim[p] => Current(c)'
  <2>1. dclaim[p][1] \in Delivery /\ dclaim[p] = NextClaim(dclaim[p][1])
        /\ Claimable(dclaim[p][1])
    BY <1>4, SelectedIsNew DEF UniqueInv, RowsKept
  <2> QED
    BY <1>1, <1>4, <2>1, ClaimRowCurrent
<1>5. CASE ClaimCommit(p)
  <2>1. /\ \A c \in Claim : Current(c) => Current(c)'
        /\ \A c : c = dclaim[p] => Current(c)'
    BY <1>4, <1>5 DEF ClaimCommit, historyVars
  <2>2. \A q \in Proc \ {p} : dpc'[q] = dpc[q]
    BY <1>1, <1>5 DEF ClaimCommit, TypeInv, PoolTypeOK
  <2>3. UNCHANGED <<dclaim, jobs, wpc, wjob>>
    BY <1>5 DEF ClaimCommit, workerVars
  <2> QED
    BY <1>1, <2>1, <2>2, <2>3, HeldAreClaims DEF Sole, Busy
<1>6. CASE ClaimCommitLost(p)
  <2>1. \A c \in Claim : Current(c) => Current(c)'
    BY <1>4, <1>6 DEF ClaimCommitLost, historyVars
  <2> QED
    BY <1>1, <1>6, <2>1, SoleShrinks
    DEF ClaimCommitLost, workerVars, Busy, TypeInv, PoolTypeOK
<1>7. CASE ClaimAbort(p)
    BY <1>1, <1>7, CurrentStutter, SoleShrinks
    DEF ClaimAbort, storeVars, workerVars, historyVars, Busy, TypeInv, PoolTypeOK
<1>8. CASE Enqueue(p)
  <2> DEFINE s == jobs[p]
             t == Append(s, dclaim[p])
  <2>1. s \in Seq(Claim) /\ dclaim[p] \in Claim
    BY <1>1, <1>8 DEF Enqueue, TypeInv, PoolTypeOK, AtClaim
  <2>2. /\ Len(t) = Len(s) + 1 /\ Len(s) \in Nat
        /\ \A i \in 1..Len(t) : t[i] = IF i = Len(s) + 1 THEN dclaim[p] ELSE s[i]
    BY <2>1, AppendAt
  <2>3. jobs' = [jobs EXCEPT ![p] = t] /\ jobs \in [Proc -> Seq(Claim)]
    BY <1>1, <1>8 DEF Enqueue, TypeInv, PoolTypeOK
  <2>4. \A c : Current(c)' = Current(c)
    BY <1>8 DEF Enqueue, storeVars, historyVars, Current
  <2> HIDE DEF t
  <2>5. \A q \in Proc : \A i \in 1..Len(jobs'[q]) : Current(jobs'[q][i])
    BY <1>8, <2>1, <2>2, <2>3 DEF Enqueue, Sole
  <2>6. \A q \in Proc : dpc'[q] = "holding" => (dpc[q] = "holding" /\ dclaim'[q] = dclaim[q])
    BY <1>1, <1>8 DEF Enqueue, TypeInv, PoolTypeOK
  <2> QED
    BY <1>8, <2>4, <2>5, <2>6 DEF Enqueue, workerVars, Sole, Busy
<1>9. CASE DispatcherStop(p)
    BY <1>1, <1>9, CurrentStutter, SoleShrinks
    DEF DispatcherStop, storeVars, workerVars, historyVars, Busy, TypeInv, PoolTypeOK
<1> QED
    BY <1>2, <1>3, <1>5, <1>6, <1>7, <1>8, <1>9 DEF DispatcherStep

\* A job received is as current as it was in the channel.
LEMMA SoleReceive ==
    ASSUME TypeInv, Sole, NEW w \in Worker, Receive(w),
           \A v \in Worker \ {w} : wpc'[v] = wpc[v],
           \A c \in Claim : Current(c) => Current(c)',
           UNCHANGED <<dpc, dclaim>>
    PROVE  Sole'
<1> DEFINE h == Host[w]
           s == jobs[h]
           t == Tail(s)
<1>1. h \in Proc /\ s \in Seq(Claim) /\ s # <<>>
    BY PoolAssumption DEF TypeInv, PoolTypeOK, Receive
<1>2. /\ Head(s) = s[1] /\ 1 \in 1..Len(s)
      /\ \A i \in 1..Len(t) : i + 1 \in 1..Len(s) /\ t[i] = s[i + 1]
    BY <1>1, TailAt
<1>3. jobs' = [jobs EXCEPT ![h] = t] /\ wjob' = [wjob EXCEPT ![w] = s[1]]
    BY <1>2 DEF Receive
<1>4. jobs \in [Proc -> Seq(Claim)] /\ wjob \in [Worker -> Claim \cup {NoClaim}]
    BY DEF TypeInv, PoolTypeOK
<1> HIDE DEF t, h
<1>5. \A q \in Proc : \A i \in 1..Len(jobs'[q]) :
          \E j \in 1..Len(jobs[q]) : jobs'[q][i] = jobs[q][j]
    BY <1>1, <1>2, <1>3, <1>4
<1>6. \A v \in Worker \ {w} : Busy(v)' => (Busy(v) /\ wjob'[v] = wjob[v])
    BY <1>3, <1>4 DEF Busy
<1>7. 1 \in 1..Len(jobs[h]) /\ wjob'[w] = jobs[h][1]
    BY <1>1, <1>2, <1>3, <1>4
<1> QED
    BY <1>1, <1>5, <1>6, <1>7, HeldAreClaims DEF Sole

\* A worker whose job is of a row without overrun leases decides a running row,
\* and nobody else has a job of that row.
LEMMA SettlerIsAlone ==
    ASSUME UniqueInv, Sole, NEW w \in Worker, Busy(w), NEW c \in Claim, Current(c),
           c # wjob[w], c[1] \notin overrun
    PROVE  c[1] # wjob[w][1]
<1>1. wjob[w] \in Claim /\ Current(wjob[w])
    BY HeldAreClaims DEF UniqueInv, Sole
<1>2. c = <<c[1], c[2]>> /\ wjob[w] = <<wjob[w][1], wjob[w][2]>>
    BY <1>1 DEF Claim
<1> QED
    BY <1>1, <1>2 DEF Current

\* A verdict changes the row of no other current job.
LEMMA SoleSettle ==
    ASSUME UniqueInv, Sole, NEW w \in Worker, Settle(w)
    PROVE  Sole'
<1>1. TypeInv /\ Busy(w) /\ wjob[w] \in Claim
    BY DEF UniqueInv, TypeInv, AtClaim, Settle, Busy
<1>2. \A c \in Claim : Current(c) /\ c # wjob[w] => Current(c)'
  <2> SUFFICES ASSUME NEW c \in Claim, Current(c), c # wjob[w]
               PROVE  Current(c)'
    OBVIOUS
  <2>1. UNCHANGED overrun
    BY DEF Settle, historyVars
  <2>2. CASE c[1] \in overrun
    BY <2>1, <2>2 DEF Current
  <2>3. CASE c[1] \notin overrun
    <3>1. c[1] # wjob[w][1] /\ c[1] \in Delivery
        BY <1>1, <2>3, SettlerIsAlone DEF Claim
    <3>2. wjob[w][1] \in Delivery
        BY <1>1 DEF Claim
    <3> QED
        BY <1>1, <2>1, <3>1, <3>2 DEF Settle, Verdict, MarkSucceeded, MarkDead,
            ScheduleRetry, Current, TypeInv, StoreTypeOK
  <2> QED
    BY <2>2, <2>3
<1>3. UNCHANGED <<dpc, dclaim, jobs>>
    BY DEF Settle, procVars
<1>4. \A v \in Worker : Busy(v)' => (v # w /\ Busy(v) /\ wjob'[v] = wjob[v])
    BY DEF Settle, WorkerIdle, Busy, UniqueInv, TypeInv, PoolTypeOK
<1>5. \A q \in Proc : dpc[q] = "holding" => dclaim[q] # wjob[w]
    BY <1>1 DEF UniqueInv, Unique
<1>6. \A q \in Proc : \A i \in 1..Len(jobs[q]) : jobs[q][i] # wjob[w]
    BY <1>1 DEF UniqueInv, Unique
<1>7. \A v \in Worker : Busy(v) /\ v # w => wjob[v] # wjob[w]
    BY <1>1 DEF UniqueInv, Unique
<1> QED
    BY <1>1, <1>2, <1>3, <1>4, <1>5, <1>6, <1>7, HeldAreClaims DEF Sole

\* Process leaves the other jobs current.
LEMMA SoleWorker ==
    ASSUME UniqueInv, Sole, NEW w \in Worker, WorkerStep(w)
    PROVE  Sole'
<1>1. TypeInv
    BY DEF UniqueInv
<1>2. CASE Take(w)
    BY <1>1, <1>2, CurrentStutter, SoleReceive
    DEF Take, storeVars, historyVars, TypeInv, PoolTypeOK
<1>3. CASE TakeCancelled(w)
    BY <1>1, <1>3, CurrentStutter, SoleReceive
    DEF TakeCancelled, SendReturned, storeVars, TypeInv, PoolTypeOK
<1>4. CASE SendReturns(w)
    BY <1>1, <1>4, CurrentStutter, SoleShrinks
    DEF SendReturns, SendReturned, storeVars, procVars, Busy, TypeInv, PoolTypeOK
<1>5. CASE Record(w)
    BY <1>1, <1>5, CurrentStutter, SoleShrinks
    DEF Record, RecordAttempt, historyVars, procVars, Busy, TypeInv, PoolTypeOK
<1>6. CASE RecordFails(w)
    BY <1>1, <1>6, CurrentStutter, SoleShrinks
    DEF RecordFails, storeVars, procVars, Busy, TypeInv, PoolTypeOK
<1>7. CASE Settle(w)
    BY <1>7, SoleSettle
<1>8. CASE SettleFails(w)
    BY <1>1, <1>8, CurrentStutter, SoleShrinks
    DEF SettleFails, WorkerIdle, storeVars, procVars, historyVars, Busy, TypeInv, PoolTypeOK
<1>9. CASE WorkerStop(w)
    BY <1>1, <1>9, CurrentStutter, SoleShrinks
    DEF WorkerStop, storeVars, procVars, historyVars, Busy, TypeInv, PoolTypeOK
<1> QED
    BY <1>2, <1>3, <1>4, <1>5, <1>6, <1>7, <1>8, <1>9 DEF WorkerStep

\* Shutdown, crash and restart leave the remaining jobs current.
LEMMA SoleProcess ==
    ASSUME UniqueInv, Sole, NEW p \in Proc, ProcessStep(p)
    PROVE  Sole'
<1>1. TypeInv
    BY DEF UniqueInv
<1>2. CASE Shutdown(p)
    BY <1>1, <1>2, CurrentStutter, SoleShrinks
    DEF Shutdown, storeVars, workerVars, historyVars, Busy
<1>3. CASE End(p)
  <2>1. \A q \in Proc \ {p} :
            dpc'[q] = dpc[q] /\ dclaim'[q] = dclaim[q] /\ jobs'[q] = jobs[q]
    BY <1>1, <1>3 DEF End, TypeInv, PoolTypeOK
  <2>2. dpc'[p] = "stopped" /\ 1..Len(jobs'[p]) = {}
    BY <1>1, <1>3 DEF End, TypeInv, PoolTypeOK
  <2>3. \A v \in Worker : Busy(v)' => (Busy(v) /\ wjob'[v] = wjob[v])
    BY <1>1, <1>3 DEF End, Busy, TypeInv, PoolTypeOK
  <2>4. \A c \in Claim : Current(c) => Current(c)'
    BY <1>3, CurrentStutter DEF End, storeVars, historyVars
  <2>5. \A q \in Proc : \A i \in 1..Len(jobs'[q]) :
            \E j \in 1..Len(jobs[q]) : jobs'[q][i] = jobs[q][j]
    BY <2>1, <2>2
  <2>6. \A q \in Proc : dpc'[q] = "holding" => (dpc[q] = "holding" /\ dclaim'[q] = dclaim[q])
    BY <2>1, <2>2
  <2> QED
    BY <1>1, <2>3, <2>4, <2>5, <2>6, SoleShrinks
<1>4. CASE Restart(p)
  <2>1. \A v \in Worker : Busy(v)' => (Busy(v) /\ wjob'[v] = wjob[v])
    BY <1>1, <1>4 DEF Restart, Busy, TypeInv, PoolTypeOK
  <2>2. \A c \in Claim : Current(c) => Current(c)'
    BY <1>4, CurrentStutter DEF Restart, storeVars, historyVars
  <2>3. \A q \in Proc : dpc'[q] = "holding" => (dpc[q] = "holding" /\ dclaim'[q] = dclaim[q])
    BY <1>1, <1>4 DEF Restart, TypeInv, PoolTypeOK
  <2> QED
    BY <1>1, <1>4, <2>1, <2>2, <2>3, SoleShrinks DEF Restart
<1> QED
    BY <1>2, <1>3, <1>4 DEF ProcessStep, Exit, ExitUnfinished, Crash

\* Requests change no row that has a job; a lease that passes under a job
\* marks its row as overrun.
LEMMA SoleOutside ==
    ASSUME UniqueInv, Sole,
           \/ \E e \in Event : Submit(e) \/ Replay(e)
           \/ \E d \in Delivery : RetryDue(d) \/ LeasePasses(d)
    PROVE  Sole'
<1>1. TypeInv
    BY DEF UniqueInv
<1>2. UNCHANGED poolVars
    BY DEF Submit, Replay, RetryDue, LeasePasses
<1>3. ASSUME NEW e \in Event, Submit(e) \/ Replay(e)
      PROVE  Sole'
  <2>1. /\ InsertPending(e)
        /\ UNCHANGED <<attemptCount, locked, live, overrun>>
    BY <1>3 DEF Submit, Replay, CreateEventWithDelivery, CreateReplayDelivery,
        InsertPending, historyVars
  <2>2. \A c \in Claim : Current(c) => Current(c)'
    BY <1>1, <2>1, InsertEffect DEF Current, Claim
  <2> QED
    BY <1>1, <1>2, <2>2, SoleShrinks DEF poolVars, procVars, workerVars, Busy
<1>4. ASSUME NEW d \in Delivery, RetryDue(d)
      PROVE  Sole'
    BY <1>1, <1>2, <1>4, CurrentStutter, SoleShrinks
    DEF RetryDue, BackoffElapses, historyVars, poolVars, procVars, workerVars, Busy
<1>5. ASSUME NEW d \in Delivery, LeasePasses(d)
      PROVE  Sole'
  <2>1. PICK c \in live :
            /\ c[1] = d
            /\ LeaseElapses(d, c[2])
            /\ IF c \in Held THEN overrun' = overrun \cup {d} ELSE UNCHANGED overrun
    BY <1>5 DEF LeasePasses
  <2>2. live' = live \ {c} /\ UNCHANGED <<status, locked, attemptCount>>
    BY <1>1, <2>1 DEF LeaseElapses, TypeInv, StoreTypeOK, Claim
  <2>3. \A x \in Held : Current(x) => Current(x)'
    BY <2>1, <2>2 DEF Current
  <2>4. Sole'
    BY <1>1, <1>2, <2>3, HeldClaims DEF Sole, poolVars, procVars, workerVars, Busy
  <2> QED
    BY <2>4
<1> QED
    BY <1>3, <1>4, <1>5

\* Sole is inductive, given UniqueInv.
LEMMA SoleNext == UniqueInv /\ Sole /\ [Next]_vars => Sole'
<1> SUFFICES ASSUME UniqueInv, Sole, [Next]_vars PROVE Sole'
    OBVIOUS
<1>1. CASE UNCHANGED vars
    BY <1>1 DEF vars, storeVars, procVars, workerVars, historyVars, Sole, Current, Busy
<1>2. CASE Next
    BY <1>2, SoleDispatcher, SoleWorker, SoleProcess, SoleOutside DEF Next
<1> QED
    BY <1>1, <1>2

\* Both hold in every reachable state.
THEOREM SoleInvariant == Spec => [](UniqueInv /\ Sole)
<1>1. PoolInit => Sole
    BY DEF PoolInit, Sole, Busy
<1> QED
    BY <1>1, UniqueInit, UniqueInvNext, SoleNext, PTL DEF Spec

\* While no lease of a delivery is overrun, a job of it is the only one and
\* its row is running under an unexpired lease, in every reachable state.
THEOREM HoldersAreSole == Spec => []SoleHolder
<1>1. UniqueInv /\ Sole => SoleHolder
    BY HeldClaims DEF UniqueInv, Sole, Current, SoleHolder
<1> QED
    BY <1>1, SoleInvariant, PTL

============================================================================
