---------------------------- MODULE ServerProofs ----------------------------
(***************************************************************************)
(* Proofs about ServerProcess.  Every step of main is a step of PoolTiming *)
(* or none, so what TimingProofs says of the pool holds in the server; and *)
(* main's timer, the ages of the requests and the time since the cancel    *)
(* move together (ServerInv).                                              *)
(***************************************************************************)
EXTENDS ServerProcess, TimingProofs

\* The pool inside a server process behaves as PoolTiming says.
THEOREM ServerImplementsTiming == ServerSpec => Spec
<1>1. ServerInit => Init
    BY DEF ServerInit
<1>2. [ServerNext]_<<vars, serverVars>> => [Next]_vars
    BY DEF ServerNext, Next, PoolStep, SendCancelled, Accept, Respond, Signal, StopPool,
        PoolDone, WaitTimeout, ServerFails, Killed, Gone, Second
<1> QED
    BY <1>1, <1>2, PTL DEF ServerSpec, Spec

\* main counts as the pool does, and as the requests it waits for.
Synchronous ==
    /\ ~stopping => since = 0
    /\ main = "waiting" => since = mtime
    /\ main = "draining" => \A r \in open : mtime <= age[r]

ServerInv == ServerTypeOK /\ Synchronous /\ RequestsFinish

\* No step of the pool's goroutines touches the context or its clock.
LEMMA PoolStepKeepsStop == PoolStep => UNCHANGED stopVars
BY DEF PoolStep, SkipTick, BeginClaim, Commit, Rollback, ClaimNothing, Enqueue,
       DispatcherStop, Take, SendEnds, UpdateEnds, WorkerStop

\* The state Gone leads to.
LEMMA GoneInv == Gone => ServerInv'
<1> SUFFICES ASSUME Gone PROVE ServerInv'
    OBVIOUS
<1>1. interrupted' \in BOOLEAN
    BY Zenon DEF Gone
<1> QED
    BY <1>1, ServerAssumption
    DEF Gone, Goes, Exit, ServerInv, ServerTypeOK, Synchronous, RequestsFinish

\* ServerInv is inductive.
LEMMA ServerInvNext ==
    ServerInv /\ [ServerNext]_<<vars, serverVars>> => ServerInv'
<1> SUFFICES ASSUME ServerInv, [ServerNext]_<<vars, serverVars>>
             PROVE  ServerInv'
    OBVIOUS
<1> USE ServerAssumption DEF ServerInv, ServerTypeOK, Synchronous, RequestsFinish
<1>1. CASE PoolStep /\ UNCHANGED serverVars
    BY <1>1, PoolStepKeepsStop DEF stopVars, serverVars, mainVars, requestVars
<1>2. CASE UNCHANGED <<vars, serverVars>>
    BY <1>2 DEF vars, serverVars, mainVars, requestVars
<1>3. ASSUME NEW r \in Request, Accept(r) \/ Respond(r)
      PROVE  ServerInv'
    BY <1>3 DEF Accept, Respond, vars, mainVars
<1>4. CASE Signal
    BY <1>4 DEF Signal, Goes, vars, requestVars
<1>5. CASE StopPool
    BY <1>5 DEF StopPool, Drained, Cancel, Goes, requestVars
<1>6. CASE Gone
    BY <1>6, GoneInv
<1>7. CASE Second
    BY <1>7 DEF Second, MainWaits, Drained, Elapse
<1>8. ASSUME NEW w \in Worker, SendCancelled(w)
      PROVE  ServerInv'
    BY <1>8, PoolStepKeepsStop DEF SendCancelled, PoolStep, stopVars, mainVars, requestVars
<1> QED
    BY <1>1, <1>2, <1>3, <1>4, <1>5, <1>6, <1>7, <1>8
    DEF ServerNext, PoolDone, WaitTimeout, ServerFails, Killed

\* ServerInv holds in every reachable state.
THEOREM ServerInvariant == ServerSpec => []ServerInv
<1>1. ServerInit => ServerInv
  <2> SUFFICES ASSUME ServerInit PROVE ServerInv
    OBVIOUS
  <2>1. interrupted \in BOOLEAN
    BY Zenon DEF ServerInit
  <2> QED
    BY <2>1, ServerAssumption
    DEF ServerInit, Init, ServerInv, ServerTypeOK, Synchronous, RequestsFinish
<1> QED
    BY <1>1, ServerInvNext, PTL DEF ServerSpec

\* main never waits longer than ShutdownTimeout in either wait, and the pool is
\* cancelled exactly while it waits for poolDone.
THEOREM ServerTypes == ServerSpec => []ServerTypeOK
<1>1. ServerInv => ServerTypeOK
    BY DEF ServerInv
<1> QED
    BY <1>1, ServerInvariant, PTL

\* If handlers take less than ShutdownTimeout, a signal cuts no request off.
THEOREM RequestsDoFinish == ServerSpec => []RequestsFinish
<1>1. ServerInv => RequestsFinish
    BY DEF ServerInv
<1> QED
    BY <1>1, ServerInvariant, PTL

\* If the statements for a full channel take less than ShutdownTimeout, main
\* never leaves a worker behind that is still at work.
THEOREM VerdictsDoFinish == ServerSpec => []VerdictsFinish
<1> DEFINE WorkersDone ==
        since > (QueueSize + 1) * UpdateTime => \A w \in Worker : wstate[w] = "stopped"
<1>1. ServerInv /\ WorkersDone => VerdictsFinish
  <2> SUFFICES ASSUME ServerInv, WorkersDone,
                      (QueueSize + 1) * UpdateTime < ShutdownTimeout,
                      main = "waiting", mtime >= ShutdownTimeout
               PROVE  \A w \in Worker : wstate[w] = "stopped"
    BY DEF VerdictsFinish
  <2>1. since = mtime
    BY DEF ServerInv, Synchronous
  <2>2. mtime \in Nat /\ ShutdownTimeout \in Nat /\ (QueueSize + 1) * UpdateTime \in Nat
    BY TimingAssumption, ServerAssumption DEF ServerInv, ServerTypeOK, UpdateTimeout
  <2> QED
    BY <2>1, <2>2
<1>2. ServerSpec => []WorkersDone
    BY ServerImplementsTiming, WorkersStopInTime, PTL
<1> QED
    BY <1>1, <1>2, ServerInvariant, PTL

============================================================================
