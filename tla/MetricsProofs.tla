---------------------------- MODULE MetricsProofs ----------------------------
(***************************************************************************)
(* Proofs about PoolMetrics: counting disturbs nobody, and every update    *)
(* that was not made yet is accounted for (CountInv), so the gauges tell   *)
(* the length of the channel and the number of busy workers up to these.   *)
(***************************************************************************)
EXTENDS PoolMetrics, PoolVerdictProofs, FiniteSetTheorems

\* With or without metrics the pools do the same.
THEOREM MetricsImplementPool == MetricsSpec => Spec
<1>1. MetricsInit => PoolInit
    BY DEF MetricsInit
<1>2. [MetricsNext]_<<vars, metricVars>> => [Next]_vars
    BY DEF MetricsNext, Dispatches, Works, Ends, Update, Next, DispatcherStep,
        WorkerStep, ProcessStep
<1> QED
    BY <1>1, <1>2, PTL DEF MetricsSpec, Spec

----------------------------------------------------------------------------
(* Counting *)

\* One worker joins a set, leaves it or does neither.
LEMMA OneWorker ==
    ASSUME NEW S \in SUBSET Worker, NEW T \in SUBSET Worker, NEW w \in Worker,
           S \ {w} = T \ {w}
    PROVE  /\ Cardinality(S) \in Nat /\ Cardinality(T) \in Nat
           /\ w \in T /\ w \notin S => Cardinality(T) = Cardinality(S) + 1
           /\ w \in S /\ w \notin T => Cardinality(T) = Cardinality(S) - 1
<1>1. IsFiniteSet(S) /\ IsFiniteSet(T)
    BY FS_Subset, MetricsAssumption
<1>2. Cardinality(S) \in Nat /\ Cardinality(T) \in Nat
    BY <1>1, FS_CardinalityType
<1>3. ASSUME w \in T, w \notin S
      PROVE  Cardinality(T) = Cardinality(S) + 1
  <2>1. T = S \cup {w}
    BY <1>3
  <2> QED
    BY <1>1, <1>3, <2>1, FS_AddElement
<1>4. ASSUME w \in S, w \notin T
      PROVE  Cardinality(T) = Cardinality(S) - 1
  <2>1. T = S \ {w}
    BY <1>4
  <2> QED
    BY <1>1, <1>4, <2>1, FS_RemoveElement
<1> QED
    BY <1>2, <1>3, <1>4

\* A worker counts the start and the end of a job in different updates.
DueType ==
    /\ queueDepth \in [Proc -> Int]
    /\ inFlight \in [Proc -> Int]
    /\ finals \in [Label -> Nat]
    /\ due \in [Proc \cup Worker -> SUBSET ({"enqueued", "taken", "begun", "left"} \cup Label)]
    /\ \A p \in Proc : due[p] \subseteq {"enqueued"}
    /\ \A w \in Worker : /\ "enqueued" \notin due[w]
                         /\ ~("begun" \in due[w] /\ "left" \in due[w])

CountInv == DueType /\ QueueDepthCounts /\ InFlightCounts

\* Nothing that is counted changes, and no update is made.
LEMMA NothingCounted ==
    ASSUME CountInv, UNCHANGED <<metricVars, jobs>>,
           \A w \in Worker : Busy(w)' <=> Busy(w)
    PROVE  CountInv'
BY DEF CountInv, DueType, QueueDepthCounts, InFlightCounts, Owing, metricVars

\* A dispatcher sends, and owes the increment.
LEMMA CountSend ==
    ASSUME CountInv, TypeInv, NEW p \in Proc, Enqueue(p), due[p] = {}, Then(p, AfterSend)
    PROVE  CountInv'
<1> USE MetricsAssumption DEF CountInv, DueType
<1>1. /\ due' = [due EXCEPT ![p] = {"enqueued"}]
      /\ UNCHANGED <<queueDepth, inFlight, finals>>
    BY DEF Then, AfterSend
<1>2. \A q \in Proc : \A u : Owing(q, u)' = Owing(q, u)
    BY <1>1 DEF Owing
<1>3. jobs' = [jobs EXCEPT ![p] = Append(@, dclaim[p])] /\ UNCHANGED wpc
    BY DEF Enqueue, workerVars
<1>4. jobs \in [Proc -> Seq(Claim)] /\ dclaim[p] \in Claim
    BY DEF TypeInv, PoolTypeOK, AtClaim, Enqueue
<1>5. Len(jobs'[p]) = Len(jobs[p]) + 1 /\ \A q \in Proc : Len(jobs[q]) \in Nat
    BY <1>3, <1>4, AppendProperties, LenProperties
<1>6. \A q \in Proc : Cardinality(Owing(q, "taken")) \in Nat
    BY FS_Subset, FS_CardinalityType DEF Owing
<1>7. QueueDepthCounts'
    BY <1>1, <1>2, <1>3, <1>4, <1>5, <1>6 DEF QueueDepthCounts
<1>8. InFlightCounts'
    BY <1>1, <1>2, <1>3 DEF InFlightCounts, Busy
<1>9. DueType'
    BY <1>1
<1> QED
    BY <1>7, <1>8, <1>9

\* Owing and BusyIn of a given due and wpc.
Owe(f, q, u) == {w \in Worker : Host[w] = q /\ u \in f[w]}
BusyAt(pc, q) == {w \in Worker : Host[w] = q /\ pc[w] \in {"sending", "sent", "recorded"}}

\* Two functions that differ for one worker at most.
OnlyAt(w, f, g) == \A v \in Worker \ {w} : g[v] = f[v]

\* The two invariants, for one process, of given values of the variables.
DepthAt(q, depth, buf, f) ==
    depth[q] = Len(buf[q]) + Cardinality(Owe(f, q, "taken"))
                   - IF "enqueued" \in f[q] THEN 1 ELSE 0
FlightAt(q, flight, pc, f) ==
    flight[q] = Cardinality(BusyAt(pc, q)) + Cardinality(Owe(f, q, "left"))
                    - Cardinality(Owe(f, q, "begun"))

LEMMA CountsNow ==
    /\ QueueDepthCounts <=> \A q \in Proc : DepthAt(q, queueDepth, jobs, due)
    /\ QueueDepthCounts' <=> \A q \in Proc : DepthAt(q, queueDepth', jobs', due')
    /\ InFlightCounts <=> \A q \in Proc : FlightAt(q, inFlight, wpc, due)
    /\ InFlightCounts' <=> \A q \in Proc : FlightAt(q, inFlight', wpc', due')
BY DEF QueueDepthCounts, InFlightCounts, DepthAt, FlightAt, Owing, Owe, BusyAt, Busy

\* What one worker owes changes in one way at most.
LEMMA OneWorkerOwes ==
    ASSUME NEW f, NEW g, NEW w \in Worker, OnlyAt(w, f, g),
           NEW q \in Proc, NEW u
    PROVE  /\ Cardinality(Owe(f, q, u)) \in Nat
           /\ Host[w] # q \/ (u \in g[w] <=> u \in f[w]) =>
                  Cardinality(Owe(g, q, u)) = Cardinality(Owe(f, q, u))
           /\ Host[w] = q /\ u \in g[w] /\ u \notin f[w] =>
                  Cardinality(Owe(g, q, u)) = Cardinality(Owe(f, q, u)) + 1
           /\ Host[w] = q /\ u \notin g[w] /\ u \in f[w] =>
                  Cardinality(Owe(g, q, u)) = Cardinality(Owe(f, q, u)) - 1
<1> DEFINE S == Owe(f, q, u)
           T == Owe(g, q, u)
<1>1. S \in SUBSET Worker /\ T \in SUBSET Worker /\ S \ {w} = T \ {w}
    BY DEF Owe, OnlyAt
<1>2. /\ w \in S <=> Host[w] = q /\ u \in f[w]
      /\ w \in T <=> Host[w] = q /\ u \in g[w]
    BY DEF Owe
<1> HIDE DEF S, T
<1>3. /\ Cardinality(S) \in Nat /\ Cardinality(T) \in Nat
      /\ w \in T /\ w \notin S => Cardinality(T) = Cardinality(S) + 1
      /\ w \in S /\ w \notin T => Cardinality(T) = Cardinality(S) - 1
    BY <1>1, OneWorker
<1>4. (w \in S <=> w \in T) => T = S
    BY <1>1
<1>5. /\ Cardinality(S) \in Nat
      /\ Host[w] # q \/ (u \in g[w] <=> u \in f[w]) => Cardinality(T) = Cardinality(S)
      /\ Host[w] = q /\ u \in g[w] /\ u \notin f[w] => Cardinality(T) = Cardinality(S) + 1
      /\ Host[w] = q /\ u \notin g[w] /\ u \in f[w] => Cardinality(T) = Cardinality(S) - 1
    BY <1>2, <1>3, <1>4
<1> QED
    BY <1>5 DEF S, T

\* And so does whether it is busy.
LEMMA OneWorkerBusy ==
    ASSUME NEW f, NEW g, NEW w \in Worker, OnlyAt(w, f, g),
           NEW q \in Proc
    PROVE  LET In(pc) == pc[w] \in {"sending", "sent", "recorded"}
           IN  /\ Cardinality(BusyAt(f, q)) \in Nat
               /\ Host[w] # q \/ (In(f) <=> In(g)) =>
                      Cardinality(BusyAt(g, q)) = Cardinality(BusyAt(f, q))
               /\ Host[w] = q /\ In(g) /\ ~In(f) =>
                      Cardinality(BusyAt(g, q)) = Cardinality(BusyAt(f, q)) + 1
               /\ Host[w] = q /\ ~In(g) /\ In(f) =>
                      Cardinality(BusyAt(g, q)) = Cardinality(BusyAt(f, q)) - 1
<1> DEFINE S == BusyAt(f, q)
           T == BusyAt(g, q)
           In(pc) == pc[w] \in {"sending", "sent", "recorded"}
<1>1. S \in SUBSET Worker /\ T \in SUBSET Worker /\ S \ {w} = T \ {w}
    BY DEF BusyAt, OnlyAt
<1>2. (w \in S <=> Host[w] = q /\ In(f)) /\ (w \in T <=> Host[w] = q /\ In(g))
    BY DEF BusyAt
<1> HIDE DEF S, T, In
<1>3. /\ Cardinality(S) \in Nat /\ Cardinality(T) \in Nat
      /\ w \in T /\ w \notin S => Cardinality(T) = Cardinality(S) + 1
      /\ w \in S /\ w \notin T => Cardinality(T) = Cardinality(S) - 1
    BY <1>1, OneWorker
<1>4. (w \in S <=> w \in T) => T = S
    BY <1>1
<1>5. /\ Cardinality(S) \in Nat
      /\ Host[w] # q \/ (In(f) <=> In(g)) => Cardinality(T) = Cardinality(S)
      /\ Host[w] = q /\ In(g) /\ ~In(f) => Cardinality(T) = Cardinality(S) + 1
      /\ Host[w] = q /\ ~In(g) /\ In(f) => Cardinality(T) = Cardinality(S) - 1
    BY <1>2, <1>3, <1>4
<1> QED
    BY <1>5 DEF S, T, In

\* A worker receives, with or without a request to follow, and owes both updates.
LEMMA CountReceive ==
    ASSUME CountInv, TypeInv, NEW w \in Worker, Take(w) \/ TakeCancelled(w),
           due[w] = {}, Then(w, AfterReceive)
    PROVE  CountInv'
<1> USE PoolAssumption DEF CountInv
<1> DEFINE h == Host[w]
           U == {"taken", "begun"}
<1>1. due' = [due EXCEPT ![w] = U] /\ UNCHANGED <<queueDepth, inFlight, finals>>
    BY DEF Then, AfterReceive
<1>2. /\ jobs' = [jobs EXCEPT ![h] = Tail(@)] /\ jobs[h] # <<>>
      /\ wpc[w] = "idle" /\ wpc'[w] \in {"sending", "sent"}
      /\ \A v \in Worker \ {w} : wpc'[v] = wpc[v]
    BY DEF Take, TakeCancelled, Receive, SendReturned, TypeInv, PoolTypeOK, Busy
<1>3. jobs \in [Proc -> Seq(Claim)] /\ h \in Proc
    BY DEF TypeInv, PoolTypeOK
<1>4. /\ Len(jobs'[h]) = Len(jobs[h]) - 1 /\ \A q \in Proc \ {h} : jobs'[q] = jobs[q]
      /\ \A q \in Proc : Len(jobs[q]) \in Nat
    BY <1>2, <1>3, HeadTailProperties, LenProperties
<1>5. \A q \in Proc : due'[q] = due[q]
    BY <1>1, MetricsAssumption DEF DueType
<1>6. /\ OnlyAt(w, due, due') /\ OnlyAt(w, wpc, wpc')
      /\ due[w] = {} /\ due'[w] = U
    BY <1>1, <1>2 DEF DueType, OnlyAt
<1>7. ASSUME NEW q \in Proc PROVE DepthAt(q, queueDepth', jobs', due')
  <2>1. /\ Cardinality(Owe(due, q, "taken")) \in Nat
        /\ Cardinality(Owe(due', q, "taken")) =
               Cardinality(Owe(due, q, "taken")) + (IF q = h THEN 1 ELSE 0)
    BY <1>6, OneWorkerOwes
  <2>2. DepthAt(q, queueDepth, jobs, due) /\ queueDepth[q] \in Int /\ Len(jobs[q]) \in Nat
    BY <1>4, CountsNow DEF DueType
  <2>3. CASE q = h
    <3>1. Len(jobs'[q]) = Len(jobs[q]) - 1
        BY <1>4, <2>3
    <3>2. Cardinality(Owe(due', q, "taken")) = Cardinality(Owe(due, q, "taken")) + 1
        BY <2>1, <2>3
    <3> QED
        BY <1>1, <1>5, <2>1, <2>2, <3>1, <3>2 DEF DepthAt
  <2>4. CASE q # h
    <3>1. jobs'[q] = jobs[q]
        BY <1>4, <2>4
    <3>2. Cardinality(Owe(due', q, "taken")) = Cardinality(Owe(due, q, "taken"))
        BY <2>1, <2>4
    <3> QED
        BY <1>1, <1>5, <2>1, <2>2, <3>1, <3>2 DEF DepthAt
  <2> QED
    BY <2>3, <2>4
<1>8. ASSUME NEW q \in Proc PROVE FlightAt(q, inFlight', wpc', due')
  <2>1. /\ Cardinality(Owe(due, q, "begun")) \in Nat
        /\ Cardinality(Owe(due', q, "begun")) =
               Cardinality(Owe(due, q, "begun")) + (IF q = h THEN 1 ELSE 0)
    BY <1>6, OneWorkerOwes
  <2>2. /\ Cardinality(Owe(due, q, "left")) \in Nat
        /\ Cardinality(Owe(due', q, "left")) = Cardinality(Owe(due, q, "left"))
    BY <1>6, OneWorkerOwes
  <2>3. /\ Cardinality(BusyAt(wpc, q)) \in Nat
        /\ Cardinality(BusyAt(wpc', q)) =
               Cardinality(BusyAt(wpc, q)) + (IF q = h THEN 1 ELSE 0)
    BY <1>2, <1>6, OneWorkerBusy
  <2> QED
    BY <1>1, <2>1, <2>2, <2>3, CountsNow DEF FlightAt, DueType
<1>9. DueType'
    BY <1>1, MetricsAssumption DEF DueType
<1> QED
    BY <1>7, <1>8, <1>9, CountsNow

\* A worker leaves Process and owes the decrement, maybe with a label.
LEMMA CountSettle ==
    ASSUME CountInv, TypeInv, NEW w \in Worker, wpc[w] = "recorded", WorkerIdle(w),
           UNCHANGED jobs, due[w] = {}, NEW U \in SUBSET (Label \cup {"left"}), "left" \in U,
           Then(w, U)
    PROVE  CountInv'
<1> USE PoolAssumption DEF CountInv
<1>1. due' = [due EXCEPT ![w] = U] /\ UNCHANGED <<queueDepth, inFlight, finals>>
    BY DEF Then
<1>2. "taken" \notin U /\ "begun" \notin U /\ "enqueued" \notin U
    BY DEF Label
<1>3. wpc'[w] = "idle" /\ \A v \in Worker \ {w} : wpc'[v] = wpc[v]
    BY DEF WorkerIdle, TypeInv, PoolTypeOK
<1>4. /\ OnlyAt(w, due, due') /\ OnlyAt(w, wpc, wpc')
      /\ due[w] = {} /\ due'[w] = U
    BY <1>1, <1>3 DEF DueType, OnlyAt
<1>5. \A q \in Proc : due'[q] = due[q]
    BY <1>1, MetricsAssumption DEF DueType
<1>6. ASSUME NEW q \in Proc PROVE DepthAt(q, queueDepth', jobs', due')
  <2>1. Cardinality(Owe(due', q, "taken")) = Cardinality(Owe(due, q, "taken"))
    BY <1>2, <1>4, OneWorkerOwes
  <2> QED
    BY <1>1, <1>5, <2>1, CountsNow DEF DepthAt
<1>7. ASSUME NEW q \in Proc PROVE FlightAt(q, inFlight', wpc', due')
  <2>1. /\ Cardinality(Owe(due, q, "left")) \in Nat
        /\ Cardinality(Owe(due', q, "left")) =
               Cardinality(Owe(due, q, "left")) + (IF q = Host[w] THEN 1 ELSE 0)
    BY <1>4, OneWorkerOwes
  <2>2. /\ Cardinality(Owe(due, q, "begun")) \in Nat
        /\ Cardinality(Owe(due', q, "begun")) = Cardinality(Owe(due, q, "begun"))
    BY <1>2, <1>4, OneWorkerOwes
  <2>3. /\ Cardinality(BusyAt(wpc, q)) \in Nat
        /\ Cardinality(BusyAt(wpc', q)) =
               Cardinality(BusyAt(wpc, q)) - (IF q = Host[w] THEN 1 ELSE 0)
    BY <1>3, <1>4, OneWorkerBusy
  <2> QED
    BY <1>1, <2>1, <2>2, <2>3, CountsNow DEF FlightAt, DueType
<1>8. DueType'
    BY <1>1, <1>2, MetricsAssumption DEF DueType
<1> QED
    BY <1>6, <1>7, <1>8, CountsNow

\* The dispatcher makes its update.
LEMMA CountEnqueued ==
    ASSUME CountInv, TypeInv, NEW p \in Proc, Update(p), UNCHANGED vars
    PROVE  CountInv'
<1> USE MetricsAssumption DEF CountInv
<1>1. due[p] = {"enqueued"} /\ p \notin Worker
    BY DEF DueType, Update
<1>2. /\ due' = [due EXCEPT ![p] = {}]
      /\ queueDepth' = [queueDepth EXCEPT ![p] = @ + 1]
      /\ inFlight' = [inFlight EXCEPT ![p] = @ + 0]
      /\ finals' = [s \in Label |-> IF s \in due[p] THEN finals[s] + 1 ELSE finals[s]]
    BY <1>1 DEF Update, ProcOf, Delta
<1>3. inFlight' = inFlight /\ finals' = finals
    BY <1>1, <1>2 DEF DueType, Label
<1>4. \A q \in Proc : \A u : Owe(due', q, u) = Owe(due, q, u)
    BY <1>1, <1>2 DEF Owe, DueType
<1>5. \A q \in Proc : /\ Cardinality(Owe(due, q, "taken")) \in Nat
                      /\ Len(jobs[q]) \in Nat /\ Len(jobs'[q]) = Len(jobs[q])
    BY FS_Subset, FS_CardinalityType, LenProperties DEF TypeInv, PoolTypeOK, Owe, vars, procVars
<1>6. ASSUME NEW q \in Proc PROVE DepthAt(q, queueDepth', jobs', due')
  <2>1. DepthAt(q, queueDepth, jobs, due) /\ queueDepth[q] \in Int
    BY CountsNow DEF DueType
  <2>2. Len(jobs'[q]) = Len(jobs[q]) /\ Owe(due', q, "taken") = Owe(due, q, "taken")
    BY <1>4, <1>5
  <2>3. CASE q = p
    <3>1. queueDepth'[q] = queueDepth[q] + 1 /\ due'[q] = {} /\ due[q] = {"enqueued"}
        BY <1>1, <1>2, <2>3 DEF DueType
    <3> QED
        BY <1>5, <2>1, <2>2, <3>1 DEF DepthAt
  <2>4. CASE q # p
    <3>1. queueDepth'[q] = queueDepth[q] /\ due'[q] = due[q]
        BY <1>2, <2>4 DEF DueType
    <3> QED
        BY <2>1, <2>2, <3>1 DEF DepthAt
  <2> QED
    BY <2>3, <2>4
<1>7. ASSUME NEW q \in Proc PROVE FlightAt(q, inFlight', wpc', due')
    BY <1>3, <1>4, CountsNow DEF FlightAt, vars, workerVars
<1>8. DueType'
    BY <1>1, <1>2, <1>3 DEF DueType
<1> QED
    BY <1>6, <1>7, <1>8, CountsNow

\* A worker makes its updates.
LEMMA CountUpdated ==
    ASSUME CountInv, TypeInv, NEW w \in Worker, Update(w), UNCHANGED vars
    PROVE  CountInv'
<1> USE PoolAssumption DEF CountInv
<1> DEFINE h == Host[w]
           One(b) == IF b THEN 1 ELSE 0
<1>1. w \notin Proc /\ h \in Proc /\ "enqueued" \notin due[w]
    BY MetricsAssumption DEF DueType
<1>2. /\ due' = [due EXCEPT ![w] = {}]
      /\ queueDepth' = [queueDepth EXCEPT ![h] = @ + (0 - One("taken" \in due[w]))]
      /\ inFlight' = [inFlight EXCEPT ![h] = @ + (One("begun" \in due[w]) - One("left" \in due[w]))]
      /\ finals' = [s \in Label |-> IF s \in due[w] THEN finals[s] + 1 ELSE finals[s]]
    BY <1>1 DEF Update, ProcOf, Delta
<1>3. /\ OnlyAt(w, due, due') /\ due'[w] = {}
      /\ \A q \in Proc : due'[q] = due[q]
    BY <1>1, <1>2, MetricsAssumption DEF DueType, OnlyAt
<1>4. jobs' = jobs /\ wpc' = wpc /\ \A q \in Proc : Len(jobs[q]) \in Nat
    BY LenProperties DEF TypeInv, PoolTypeOK, vars, procVars, workerVars
<1>5. ASSUME NEW q \in Proc PROVE DepthAt(q, queueDepth', jobs', due')
  <2>1. DepthAt(q, queueDepth, jobs, due) /\ queueDepth[q] \in Int /\ Len(jobs[q]) \in Nat
    BY <1>4, CountsNow DEF DueType
  <2>2. /\ Cardinality(Owe(due, q, "taken")) \in Nat
        /\ Cardinality(Owe(due', q, "taken")) =
               Cardinality(Owe(due, q, "taken")) - One(q = h /\ "taken" \in due[w])
    BY <1>3, OneWorkerOwes
  <2>3. queueDepth'[q] = queueDepth[q] - One(q = h /\ "taken" \in due[w])
    BY <1>1, <1>2, <2>1 DEF DueType
  <2> QED
    BY <1>3, <1>4, <2>1, <2>2, <2>3 DEF DepthAt
<1>6. ASSUME NEW q \in Proc PROVE FlightAt(q, inFlight', wpc', due')
  <2>1. FlightAt(q, inFlight, wpc, due) /\ inFlight[q] \in Int
    BY CountsNow DEF DueType
  <2>2. /\ Cardinality(Owe(due, q, "left")) \in Nat
        /\ Cardinality(Owe(due', q, "left")) =
               Cardinality(Owe(due, q, "left")) - One(q = h /\ "left" \in due[w])
    BY <1>3, OneWorkerOwes
  <2>3. /\ Cardinality(Owe(due, q, "begun")) \in Nat
        /\ Cardinality(Owe(due', q, "begun")) =
               Cardinality(Owe(due, q, "begun")) - One(q = h /\ "begun" \in due[w])
    BY <1>3, OneWorkerOwes
  <2>4. inFlight'[q] = inFlight[q] + One(q = h /\ "begun" \in due[w])
                           - One(q = h /\ "left" \in due[w])
    BY <1>1, <1>2, <2>1 DEF DueType
  <2>5. Cardinality(BusyAt(wpc, q)) \in Nat
    BY OneWorkerBusy DEF OnlyAt
  <2> QED
    BY <1>4, <2>1, <2>2, <2>3, <2>4, <2>5 DEF FlightAt
<1>7. DueType'
  <2>1. finals' \in [Label -> Nat]
    BY <1>2 DEF DueType
  <2>2. inFlight' \in [Proc -> Int] /\ queueDepth' \in [Proc -> Int]
    BY <1>1, <1>2 DEF DueType
  <2> QED
    BY <1>2, <1>3, <2>1, <2>2 DEF DueType
<1> QED
    BY <1>5, <1>6, <1>7, CountsNow

\* The process ends: its metrics, its channel and its workers start anew.
LEMMA CountEnds ==
    ASSUME CountInv, TypeInv, NEW p \in Proc, End(p), Forget(p)
    PROVE  CountInv'
<1> USE PoolAssumption, MetricsAssumption DEF CountInv
<1>1. /\ queueDepth' = [queueDepth EXCEPT ![p] = 0]
      /\ inFlight' = [inFlight EXCEPT ![p] = 0]
      /\ finals' = finals
      /\ \A q \in Proc : due'[q] = IF q = p THEN {} ELSE due[q]
      /\ \A w \in Worker : due'[w] = IF Host[w] = p THEN {} ELSE due[w]
      /\ DOMAIN due' = Proc \cup Worker /\ due' = [x \in Proc \cup Worker |-> due'[x]]
    BY DEF Forget, ProcOf
<1>2. /\ jobs' = [jobs EXCEPT ![p] = <<>>]
      /\ wpc' = [w \in Worker |-> IF Host[w] = p THEN "stopped" ELSE wpc[w]]
    BY DEF End
<1>3. ASSUME NEW u PROVE
          /\ Owe(due', p, u) = {}
          /\ \A q \in Proc \ {p} : Owe(due', q, u) = Owe(due, q, u)
    BY <1>1 DEF Owe
<1>4. /\ BusyAt(wpc', p) = {}
      /\ \A q \in Proc \ {p} : BusyAt(wpc', q) = BusyAt(wpc, q)
    BY <1>2 DEF BusyAt
<1>5. ASSUME NEW q \in Proc PROVE DepthAt(q, queueDepth', jobs', due')
  <2>1. CASE q = p
    <3>1. queueDepth'[q] = 0 /\ jobs'[q] = <<>> /\ due'[q] = {} /\ Owe(due', q, "taken") = {}
        BY <1>1, <1>2, <1>3, <2>1 DEF DueType, TypeInv, PoolTypeOK
    <3>2. Len(<<>>) = 0 /\ Cardinality({}) = 0
        BY FS_EmptySet
    <3>3. "enqueued" \notin due'[q]
        BY <3>1
    <3>4. Len(jobs'[q]) = 0 /\ Cardinality(Owe(due', q, "taken")) = 0
        BY <3>1, <3>2
    <3> QED
        BY <3>1, <3>3, <3>4 DEF DepthAt
  <2>2. CASE q # p
    <3>1. /\ queueDepth'[q] = queueDepth[q] /\ jobs'[q] = jobs[q] /\ due'[q] = due[q]
          /\ Owe(due', q, "taken") = Owe(due, q, "taken")
        BY <1>1, <1>2, <1>3, <2>2 DEF DueType, TypeInv, PoolTypeOK
    <3> QED
        BY <3>1, CountsNow DEF DepthAt
  <2> QED
    BY <2>1, <2>2
<1>6. ASSUME NEW q \in Proc PROVE FlightAt(q, inFlight', wpc', due')
  <2>1. CASE q = p
    <3>1. /\ inFlight'[q] = 0 /\ BusyAt(wpc', q) = {}
          /\ Owe(due', q, "left") = {} /\ Owe(due', q, "begun") = {}
        BY <1>1, <1>3, <1>4, <2>1 DEF DueType
    <3> QED
        BY <3>1, FS_EmptySet DEF FlightAt
  <2>2. CASE q # p
    <3>1. /\ inFlight'[q] = inFlight[q] /\ BusyAt(wpc', q) = BusyAt(wpc, q)
          /\ Owe(due', q, "left") = Owe(due, q, "left")
          /\ Owe(due', q, "begun") = Owe(due, q, "begun")
        BY <1>1, <1>3, <1>4, <2>2 DEF DueType
    <3> QED
        BY <3>1, CountsNow DEF FlightAt
  <2> QED
    BY <2>1, <2>2
<1>7. DueType'
  <2>1. queueDepth' \in [Proc -> Int] /\ inFlight' \in [Proc -> Int] /\ finals' \in [Label -> Nat]
    BY <1>1 DEF DueType
  <2>2. /\ \A q \in Proc : due'[q] \subseteq {"enqueued"}
        /\ \A w \in Worker : /\ due'[w] \subseteq {"enqueued", "taken", "begun", "left"} \cup Label
                             /\ "enqueued" \notin due'[w]
                             /\ ~("begun" \in due'[w] /\ "left" \in due'[w])
    BY <1>1 DEF DueType
  <2>3. due' \in [Proc \cup Worker -> SUBSET ({"enqueued", "taken", "begun", "left"} \cup Label)]
    BY <1>1, <2>2
  <2> QED
    BY <2>1, <2>2, <2>3 DEF DueType
<1> QED
    BY <1>5, <1>6, <1>7, CountsNow

\* A process that is down has no busy worker.
DownIsIdle == \A w \in Worker : phase[Host[w]] = "down" => ~Busy(w)

LEMMA DownNext == TypeInv /\ DownIsIdle /\ [Next]_vars => DownIsIdle'
<1> SUFFICES ASSUME TypeInv, DownIsIdle, [Next]_vars PROVE DownIsIdle'
    OBVIOUS
<1> USE PoolAssumption DEF DownIsIdle
<1>1. CASE UNCHANGED <<phase, wpc>>
    BY <1>1 DEF Busy
<1>2. ASSUME NEW p \in Proc, DispatcherStep(p) PROVE DownIsIdle'
    BY <1>1, <1>2 DEF DispatcherStep, PollNothing, ClaimSelect, ClaimCommit,
        ClaimCommitLost, ClaimAbort, Enqueue, DispatcherStop, vars, procVars, workerVars
<1>3. ASSUME NEW p \in Proc, ProcessStep(p) PROVE DownIsIdle'
    BY <1>3 DEF ProcessStep, Shutdown, Exit, ExitUnfinished, Crash, Restart, End,
        workerVars, Busy, TypeInv, PoolTypeOK
<1>4. ASSUME NEW w \in Worker, WorkerStep(w) PROVE DownIsIdle'
    BY <1>4 DEF WorkerStep, Take, TakeCancelled, Receive, SendReturns, SendReturned, Record,
        RecordFails, Settle, SettleFails, WorkerIdle, WorkerStop, procVars, Busy,
        TypeInv, PoolTypeOK
<1>5. ASSUME NEW e \in Event, Submit(e) \/ Replay(e) PROVE DownIsIdle'
    BY <1>1, <1>5 DEF Submit, Replay, poolVars, procVars, workerVars
<1>6. ASSUME NEW d \in Delivery, RetryDue(d) \/ LeasePasses(d) PROVE DownIsIdle'
    BY <1>1, <1>6 DEF RetryDue, LeasePasses, poolVars, procVars, workerVars
<1> QED
    BY <1>1, <1>2, <1>3, <1>4, <1>5, <1>6 DEF Next, vars, procVars, workerVars

\* The counts are right to begin with.
LEMMA CountInit == MetricsInit => CountInv
<1> SUFFICES ASSUME MetricsInit PROVE CountInv
    OBVIOUS
<1>1. \A p \in Proc : /\ Owe(due, p, "taken") = {} /\ Owe(due, p, "left") = {}
                      /\ Owe(due, p, "begun") = {} /\ BusyAt(wpc, p) = {}
                      /\ due[p] = {} /\ "enqueued" \notin due[p]
    BY DEF MetricsInit, PoolInit, Owe, BusyAt
<1>2. \A p \in Proc : jobs[p] = <<>> /\ queueDepth[p] = 0 /\ inFlight[p] = 0
    BY DEF MetricsInit, PoolInit
<1>3. Len(<<>>) = 0 /\ Cardinality({}) = 0
    BY FS_EmptySet
<1>4. ASSUME NEW p \in Proc
      PROVE  DepthAt(p, queueDepth, jobs, due) /\ FlightAt(p, inFlight, wpc, due)
  <2>1. /\ Len(jobs[p]) = 0 /\ Cardinality(Owe(due, p, "taken")) = 0
        /\ Cardinality(Owe(due, p, "left")) = 0 /\ Cardinality(Owe(due, p, "begun")) = 0
        /\ Cardinality(BusyAt(wpc, p)) = 0
    BY <1>1, <1>2, <1>3
  <2> QED
    BY <1>1, <1>2, <2>1 DEF DepthAt, FlightAt
<1>5. DueType
    BY DEF MetricsInit, DueType
<1> QED
    BY <1>4, <1>5, CountsNow DEF CountInv

\* A step that neither counts nor changes what is counted.
NotCounted == UNCHANGED metricVars /\ UNCHANGED jobs /\ \A w \in Worker : Busy(w)' <=> Busy(w)

\* CountInv is inductive.
LEMMA CountNext == TypeInv /\ DownIsIdle /\ CountInv /\ [MetricsNext]_<<vars, metricVars>> => CountInv'
<1> SUFFICES ASSUME TypeInv, DownIsIdle, CountInv, [MetricsNext]_<<vars, metricVars>> PROVE CountInv'
    OBVIOUS
<1>1. CASE NotCounted
    BY <1>1, NothingCounted DEF NotCounted
<1>2. ASSUME NEW p \in Proc, Dispatches(p) PROVE CountInv'
  <2>1. CASE Enqueue(p) /\ Then(p, AfterSend)
    BY <1>2, <2>1, CountSend DEF Dispatches
  <2>2. CASE /\ \/ PollNothing(p) \/ ClaimSelect(p) \/ ClaimCommit(p)
                \/ ClaimCommitLost(p) \/ ClaimAbort(p) \/ DispatcherStop(p)
             /\ UNCHANGED metricVars
    BY <1>1, <2>2 DEF NotCounted, PollNothing, ClaimSelect, ClaimCommit, ClaimCommitLost,
        ClaimAbort, DispatcherStop, vars, procVars, workerVars, Busy
  <2> QED
    BY <1>2, <2>1, <2>2 DEF Dispatches
<1>3. ASSUME NEW w \in Worker, Works(w) PROVE CountInv'
  <2>1. CASE (Take(w) \/ TakeCancelled(w)) /\ Then(w, AfterReceive)
    BY <1>3, <2>1, CountReceive DEF Works
  <2>2. CASE Settle(w) /\ Then(w, AfterVerdict(wjob[w], wres[w]))
    <3>1. /\ AfterVerdict(wjob[w], wres[w]) \in SUBSET (Label \cup {"left"})
          /\ "left" \in AfterVerdict(wjob[w], wres[w])
        BY DEF AfterVerdict, LabelOf, Label
    <3>2. wpc[w] = "recorded" /\ WorkerIdle(w) /\ UNCHANGED jobs
        BY <2>2 DEF Settle, procVars
    <3> QED
        BY <1>3, <2>2, <3>1, <3>2, CountSettle DEF Works
  <2>3. CASE SettleFails(w) /\ Then(w, AfterFailure(wjob[w], wres[w]))
    <3>1. /\ AfterFailure(wjob[w], wres[w]) \in SUBSET (Label \cup {"left"})
          /\ "left" \in AfterFailure(wjob[w], wres[w])
        BY DEF AfterFailure
    <3>2. wpc[w] = "recorded" /\ WorkerIdle(w) /\ UNCHANGED jobs
        BY <2>3 DEF SettleFails, procVars
    <3> QED
        BY <1>3, <2>3, <3>1, <3>2, CountSettle DEF Works
  <2>4. CASE /\ SendReturns(w) \/ Record(w) \/ RecordFails(w) \/ WorkerStop(w)
             /\ UNCHANGED metricVars
    BY <1>1, <2>4 DEF NotCounted, SendReturns, SendReturned, Record, RecordFails, WorkerStop,
        procVars, Busy, TypeInv, PoolTypeOK
  <2> QED
    BY <1>3, <2>1, <2>2, <2>3, <2>4 DEF Works
<1>4. ASSUME NEW x \in Proc \cup Worker, Update(x) PROVE CountInv'
    BY <1>4, CountEnqueued, CountUpdated DEF Update
<1>5. ASSUME NEW p \in Proc, Ends(p) PROVE CountInv'
  <2>1. End(p) /\ Forget(p)
    BY <1>5 DEF Ends, Exit, ExitUnfinished, Crash
  <2> QED
    BY <2>1, CountEnds
<1>6. ASSUME NEW p \in Proc, (Shutdown(p) \/ Restart(p)) /\ UNCHANGED metricVars
      PROVE  CountInv'
    BY <1>1, <1>6, PoolAssumption DEF NotCounted, Shutdown, Restart, workerVars, Busy,
        DownIsIdle, TypeInv, PoolTypeOK
<1>7. ASSUME NEW e \in Event, (Submit(e) \/ Replay(e)) /\ UNCHANGED metricVars
      PROVE  CountInv'
    BY <1>1, <1>7 DEF NotCounted, Submit, Replay, poolVars, procVars, workerVars, Busy
<1>8. ASSUME NEW d \in Delivery, (RetryDue(d) \/ LeasePasses(d)) /\ UNCHANGED metricVars
      PROVE  CountInv'
    BY <1>1, <1>8 DEF NotCounted, RetryDue, LeasePasses, poolVars, procVars, workerVars, Busy
<1>9. CASE UNCHANGED <<vars, metricVars>>
    BY <1>1, <1>9 DEF NotCounted, vars, procVars, workerVars, Busy
<1> QED
    BY <1>2, <1>3, <1>4, <1>5, <1>6, <1>7, <1>8, <1>9 DEF MetricsNext

THEOREM CountInvariant == MetricsSpec => []CountInv
<1>1. Spec => []TypeInv
    BY TypeInvInit, TypeInvNext, PTL DEF Spec
<1>2. PoolInit => DownIsIdle
    BY PoolAssumption DEF PoolInit, DownIsIdle
<1>3. Spec => []DownIsIdle
    BY <1>1, <1>2, DownNext, PTL DEF Spec
<1> QED
    BY <1>1, <1>3, MetricsImplementPool, CountInit, CountNext, PTL DEF MetricsSpec

\* DeliveryQueueDepth is the length of the channel but for updates under way,
\* for any number of workers and processes and any queue size.
THEOREM QueueDepthIsCounted == MetricsSpec => []QueueDepthCounts
BY CountInvariant, PTL DEF CountInv

\* DeliveriesInFlight is the number of busy workers but for updates under way.
THEOREM InFlightIsCounted == MetricsSpec => []InFlightCounts
BY CountInvariant, PTL DEF CountInv

----------------------------------------------------------------------------
(* Final states *)

Rows(st, s) == {d \in Delivery : st[d] = s}
Owed(f, s)  == {w \in Worker : s \in f[w]}

LEMMA Finite ==
    ASSUME NEW st, NEW f, NEW s
    PROVE  /\ IsFiniteSet(Rows(st, s)) /\ Cardinality(Rows(st, s)) \in Nat
           /\ IsFiniteSet(Owed(f, s)) /\ Cardinality(Owed(f, s)) \in Nat
<1>1. IsFiniteSet(Delivery)
    BY FS_Interval, StoreAssumption DEF Delivery
<1>2. Rows(st, s) \in SUBSET Delivery /\ Owed(f, s) \in SUBSET Worker
    BY DEF Rows, Owed
<1> QED
    BY <1>1, <1>2, MetricsAssumption, FS_Subset, FS_CardinalityType

\* FinalsAreRows, for one label, of given values of the variables.
RowsFor(s, n, f, st) == n[s] + Cardinality(Owed(f, s)) <= Cardinality(Rows(st, s))

LEMMA FinalsNow ==
    /\ FinalsAreRows <=> (overrun = {} => \A s \in Terminal : RowsFor(s, finals, due, status))
    /\ FinalsAreRows' <=> (overrun' = {} => \A s \in Terminal : RowsFor(s, finals', due', status'))
BY DEF FinalsAreRows, RowsFor, Rows, Owed

\* Rows in a final state stay, nothing more is owed or counted.
LEMMA RowsStay ==
    ASSUME DueType, NEW s \in Terminal, RowsFor(s, finals, due, status), UNCHANGED finals,
           Owed(due', s) \subseteq Owed(due, s), Rows(status, s) \subseteq Rows(status', s)
    PROVE  RowsFor(s, finals', due', status')
<1>1. Cardinality(Owed(due', s)) <= Cardinality(Owed(due, s))
    BY Finite, FS_Subset
<1>2. Cardinality(Rows(status, s)) <= Cardinality(Rows(status', s))
    BY Finite, FS_Subset
<1>3. finals[s] \in Nat
    BY DEF DueType, Terminal, Label
<1> QED
    BY <1>1, <1>2, <1>3, Finite DEF RowsFor

\* A verdict finds its row running, so the label it owes is for a new row.
LEMMA RowsSettle ==
    ASSUME UniqueInv, Sole, DueType, overrun = {}, NEW s \in Terminal, NEW w \in Worker,
           RowsFor(s, finals, due, status), due[w] = {}, Settle(w),
           Then(w, AfterVerdict(wjob[w], wres[w]))
    PROVE  RowsFor(s, finals', due', status')
<1> DEFINE d == wjob[w][1]
           l == LabelOf(wjob[w], wres[w])
<1>1. /\ wjob[w] \in Claim /\ d \in Delivery /\ status[d] = "running" /\ wres[w] \in Result
    BY HeldAreClaims DEF UniqueInv, TypeInv, AtClaim, Sole, Current, Settle, Busy, Claim
<1>2. /\ due' = [due EXCEPT ![w] = {l, "left"}] /\ finals' = finals
    BY DEF Then, AfterVerdict
<1>3. finals[s] \in Nat /\ s \in {"succeeded", "dead"}
    BY DEF DueType, Terminal, Label
<1>4. CASE l = s
  <2>1. status' = [status EXCEPT ![d] = s]
    BY <1>1, <1>3, <1>4 DEF LabelOf, Settle, Verdict, MarkSucceeded, MarkDead, ScheduleRetry, Result
  <2>2. Rows(status', s) = Rows(status, s) \cup {d} /\ d \notin Rows(status, s)
    BY <1>1, <1>3, <2>1 DEF Rows, UniqueInv, TypeInv, StoreTypeOK
  <2>3. Cardinality(Rows(status', s)) = Cardinality(Rows(status, s)) + 1
    BY <2>2, Finite, FS_AddElement
  <2>4. Owed(due', s) = Owed(due, s) \cup {w} /\ w \notin Owed(due, s)
    BY <1>2, <1>4 DEF Owed, DueType
  <2>5. Cardinality(Owed(due', s)) = Cardinality(Owed(due, s)) + 1
    BY <2>4, Finite, FS_AddElement
  <2> QED
    BY <1>2, <1>3, <2>3, <2>5, Finite DEF RowsFor
<1>5. CASE l # s
  <2>1. Owed(due', s) \subseteq Owed(due, s)
    BY <1>2, <1>3, <1>5 DEF Owed, DueType
  <2>2. Rows(status, s) \subseteq Rows(status', s)
    BY <1>1, <1>3 DEF Rows, Settle, Verdict, MarkSucceeded, MarkDead, ScheduleRetry,
        UniqueInv, TypeInv, StoreTypeOK
  <2> QED
    BY <1>2, <2>1, <2>2, RowsStay
<1> QED
    BY <1>4, <1>5

\* A worker that owes the label counts it.
LEMMA RowsUpdate ==
    ASSUME DueType, NEW s \in Terminal, NEW x \in Proc \cup Worker,
           RowsFor(s, finals, due, status), Update(x), UNCHANGED vars
    PROVE  RowsFor(s, finals', due', status')
<1>1. /\ due' = [due EXCEPT ![x] = {}] /\ status' = status
      /\ finals'[s] = IF s \in due[x] THEN finals[s] + 1 ELSE finals[s]
      /\ finals[s] \in Nat /\ s \in {"succeeded", "dead"}
    BY DEF Update, vars, storeVars, DueType, Terminal, Label
<1>2. CASE s \in due[x]
  <2>1. x \in Worker
    BY <1>1, <1>2 DEF DueType
  <2>2. Owed(due', s) = Owed(due, s) \ {x} /\ x \in Owed(due, s)
    BY <1>1, <1>2, <2>1 DEF Owed, DueType
  <2>3. Cardinality(Owed(due', s)) = Cardinality(Owed(due, s)) - 1
    BY <2>2, Finite, FS_RemoveElement
  <2> QED
    BY <1>1, <1>2, <2>3, Finite DEF RowsFor
<1>3. CASE s \notin due[x]
  <2>1. Owed(due', s) = Owed(due, s)
    BY <1>1, <1>3 DEF Owed, DueType
  <2> QED
    BY <1>1, <1>3, <2>1 DEF RowsFor
<1> QED
    BY <1>2, <1>3

\* FinalsAreRows is inductive, given who holds what.
LEMMA FinalsNext ==
    UniqueInv /\ Sole /\ DueType /\ FinalsAreRows /\ [MetricsNext]_<<vars, metricVars>>
        => FinalsAreRows'
<1> SUFFICES ASSUME UniqueInv, Sole, DueType, FinalsAreRows,
                    [MetricsNext]_<<vars, metricVars>>, overrun' = {}, NEW s \in Terminal
             PROVE  RowsFor(s, finals', due', status')
    BY FinalsNow
<1>1. [Next]_vars
    BY DEF MetricsNext, Dispatches, Works, Ends, Update, Next, DispatcherStep,
        WorkerStep, ProcessStep
<1>2. overrun = {} /\ \A d \in Delivery : status[d] \in Terminal => status'[d] = status[d]
  <2>1. CASE \E e \in Event : Submit(e) \/ Replay(e)
    BY <2>1, InsertStep DEF UniqueInv, Terminal
  <2>2. CASE ~\E e \in Event : Submit(e) \/ Replay(e)
    <3>1. \A d \in Delivery : PoolMove(d)
        BY <1>1, <2>2, PoolStep DEF Next
    <3>2. overrun \subseteq overrun'
        BY <1>1, <2>2 DEF Next, DispatcherStep, PollNothing, ClaimSelect, ClaimCommit,
            ClaimCommitLost, ClaimAbort, Enqueue, DispatcherStop, WorkerStep, Take,
            TakeCancelled, SendReturns, Record, RecordFails, Settle, SettleFails, WorkerStop,
            ProcessStep, Shutdown, Exit, ExitUnfinished, Crash, Restart, End, RetryDue,
            LeasePasses, vars, historyVars
    <3> QED
        BY <3>1, <3>2 DEF PoolMove, ReadmeMoves, Terminal
  <2> QED
    BY <2>1, <2>2
<1>3. RowsFor(s, finals, due, status) /\ Rows(status, s) \subseteq Rows(status', s)
    BY <1>2, FinalsNow DEF Rows
<1>4. CASE UNCHANGED metricVars
    BY <1>3, <1>4, RowsStay DEF metricVars
<1>5. ASSUME NEW x \in Proc \cup Worker, NEW U, Then(x, U), "succeeded" \notin U, "dead" \notin U
      PROVE  RowsFor(s, finals', due', status')
  <2>1. Owed(due', s) \subseteq Owed(due, s)
    BY <1>5 DEF Then, Owed, DueType, Terminal
  <2> QED
    BY <1>3, <1>5, <2>1, RowsStay DEF Then
<1>6. ASSUME NEW p \in Proc, Dispatches(p) PROVE RowsFor(s, finals', due', status')
    BY <1>4, <1>5, <1>6 DEF Dispatches, AfterSend
<1>7. ASSUME NEW w \in Worker, Works(w) PROVE RowsFor(s, finals', due', status')
  <2>1. CASE Settle(w) /\ Then(w, AfterVerdict(wjob[w], wres[w]))
    BY <1>2, <1>3, <1>7, <2>1, RowsSettle DEF Works
  <2> QED
    BY <1>4, <1>5, <1>7, <2>1 DEF Works, AfterReceive, AfterFailure
<1>8. ASSUME NEW x \in Proc \cup Worker, Update(x) PROVE RowsFor(s, finals', due', status')
    BY <1>3, <1>8, RowsUpdate DEF Update
<1>9. ASSUME NEW p \in Proc, Ends(p) PROVE RowsFor(s, finals', due', status')
  <2>1. Owed(due', s) \subseteq Owed(due, s)
    BY <1>9 DEF Ends, Forget, Owed
  <2> QED
    BY <1>3, <1>9, <2>1, RowsStay DEF Ends, Forget
<1> QED
    BY <1>4, <1>6, <1>7, <1>8, <1>9 DEF MetricsNext

\* Without overrun leases the counter of final states never exceeds the rows
\* that are in them, whatever order the workers, crashes and replays come in.
THEOREM FinalsAreOfRows == MetricsSpec => []FinalsAreRows
<1>1. MetricsInit => FinalsAreRows
  <2> SUFFICES ASSUME MetricsInit, NEW s \in Terminal PROVE RowsFor(s, finals, due, status)
    BY FinalsNow
  <2>1. Owed(due, s) = {} /\ Cardinality({}) = 0 /\ finals[s] = 0
    BY FS_EmptySet DEF MetricsInit, Owed, Terminal, Label
  <2> QED
    BY <2>1, Finite DEF RowsFor
<1>2. MetricsSpec => [](UniqueInv /\ Sole)
    BY MetricsImplementPool, SoleInvariant, PTL
<1>3. MetricsSpec => []DueType
    BY CountInvariant, PTL DEF CountInv
<1> QED
    BY <1>1, <1>2, <1>3, FinalsNext, PTL DEF MetricsSpec

============================================================================
