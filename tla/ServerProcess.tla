---------------------------- MODULE ServerProcess ----------------------------
(***************************************************************************)
(* A server process from start to end, in seconds: main.go around the HTTP *)
(* server and the pool of PoolTiming.                                      *)
(*                                                                         *)
(* A signal stops the HTTP server first, which waits for the requests that *)
(* were accepted, then the pool.  Either wait is given up after            *)
(* ShutdownTimeout; each has a timer of its own.  A later signal changes   *)
(* nothing, NotifyContext still catches it.                                *)
(***************************************************************************)
EXTENDS PoolTiming

CONSTANTS
    Request,            \* HTTP requests that can be under way at once
    HandlerTime,        \* the longest a handler takes
    ShutdownTimeouts    \* what the configuration may say when a process starts

\* config.Load takes any duration: a shutdown timeout of 0 or less never waits.
ASSUME ServerAssumption ==
    /\ HandlerTime \in Nat
    /\ ShutdownTimeouts \subseteq Nat

VARIABLES
    main,               \* "serving", "draining" (server.Shutdown) or "waiting" (poolDone)
    mtime,              \* for how long main has been there, after a signal
    ShutdownTimeout,    \* of this process
    open,               \* the requests being handled,
    age,                \* for how long
    interrupted         \* the cancel has ended a send of this process (a history)

mainVars    == <<main, mtime, ShutdownTimeout>>
requestVars == <<open, age>>
serverVars  == <<mainVars, requestVars, interrupted>>

ServerInit ==
    /\ Init
    /\ main  = "serving"
    /\ mtime = 0
    /\ ShutdownTimeout \in ShutdownTimeouts
    /\ open  = {}
    /\ age   = [r \in Request |-> 0]
    /\ interrupted = FALSE

----------------------------------------------------------------------------
(* The HTTP server *)

\* Shutdown closes the listener and the idle connections first.
Accept(r) ==
    /\ main = "serving" /\ r \notin open
    /\ open' = open \cup {r}
    /\ age'  = [age EXCEPT ![r] = 0]
    /\ UNCHANGED <<vars, mainVars, interrupted>>

Respond(r) ==
    /\ r \in open
    /\ open' = open \ {r}
    /\ age'  = [age EXCEPT ![r] = 0]
    /\ UNCHANGED <<vars, mainVars, interrupted>>

----------------------------------------------------------------------------
(* main *)

Goes(step) ==
    /\ main'  = step
    /\ mtime' = 0

Signal ==
    /\ main = "serving"
    /\ Goes("draining")
    /\ UNCHANGED <<vars, ShutdownTimeout, requestVars, interrupted>>

\* Mutant: server.Close, which waits for nobody.
Closed == main = "draining"

\* Shutdown has seen that no request is left, or shutdownCtx has ended.
Drained ==
    /\ main = "draining"
    /\ open = {} \/ mtime >= ShutdownTimeout

\* Mutant: both waits share one deadline.
StopPoolSameDeadline ==
    /\ Drained
    /\ Cancel
    /\ main' = "waiting"
    /\ UNCHANGED <<mtime, ShutdownTimeout, requestVars, interrupted>>

\* Mutant: the call of poolCancel is missing.
StopPoolUncancelled ==
    /\ Drained
    /\ Goes("waiting")
    /\ UNCHANGED <<vars, ShutdownTimeout, requestVars, interrupted>>

StopPool ==
    /\ Drained
    /\ Cancel
    /\ Goes("waiting")
    /\ UNCHANGED <<ShutdownTimeout, requestVars, interrupted>>

\* The process is gone, with the requests and the goroutines it still has, and
\* another is started.
Gone ==
    /\ Exit
    /\ Goes("serving")
    /\ ShutdownTimeout' \in ShutdownTimeouts
    /\ open' = {}
    /\ age'  = [r \in Request |-> 0]
    /\ interrupted' = FALSE

PoolDone ==
    /\ main = "waiting" /\ AllStopped
    /\ Gone

WaitTimeout ==
    /\ main = "waiting" /\ mtime >= ShutdownTimeout
    /\ Gone

\* ListenAndServe returns an error: poolCancel, and no wait for poolDone.
ServerFails ==
    /\ main = "serving"
    /\ Gone

\* A kill, or a panic outside the handlers.
Killed == Gone

----------------------------------------------------------------------------
(* The workers *)

\* The cancelled context ends a request to a target that had not answered and
\* had time left.
SendCancelled(w) ==
    /\ stopping /\ wtime[w] < SendTime
    /\ SendEnds(w)
    /\ interrupted' = TRUE
    /\ UNCHANGED <<mainVars, requestVars>>

----------------------------------------------------------------------------
(* Time *)

\* The polls of Shutdown, at most half a second apart, take no time here.
MainWaits ==
    \/ main = "serving"
    \/ main = "draining" /\ ~Drained
    \/ main = "waiting" /\ mtime < ShutdownTimeout

Second ==
    /\ MainWaits
    /\ \A r \in open : age[r] < HandlerTime
    /\ Elapse
    /\ mtime' = IF main = "serving" THEN 0 ELSE mtime + 1
    /\ age'   = [r \in Request |-> IF r \in open THEN age[r] + 1 ELSE age[r]]
    /\ UNCHANGED <<main, ShutdownTimeout, open, interrupted>>

ServerNext ==
    \/ PoolStep /\ UNCHANGED serverVars
    \/ \E w \in Worker : SendCancelled(w)
    \/ \E r \in Request : Accept(r) \/ Respond(r)
    \/ Signal \/ StopPool \/ PoolDone \/ WaitTimeout \/ ServerFails \/ Killed
    \/ Second

ServerSpec == ServerInit /\ [][ServerNext]_<<vars, serverVars>>

----------------------------------------------------------------------------
(* Invariants *)

\* main, its timer and the requests; the pool is cancelled exactly while main
\* waits for it, and both count the time since.
ServerTypeOK ==
    /\ main \in {"serving", "draining", "waiting"}
    /\ ShutdownTimeout \in ShutdownTimeouts
    /\ mtime \in 0..ShutdownTimeout
    /\ open \subseteq Request
    /\ age \in [Request -> 0..HandlerTime]
    /\ stopping <=> main = "waiting"
    /\ interrupted \in BOOLEAN

\* A signal cuts no request off, provided a handler needs less than
\* ShutdownTimeout: when the pool is stopped, and later the process ends, every
\* request that was accepted has its answer.
RequestsFinish ==
    HandlerTime < ShutdownTimeout => (main = "waiting" => open = {})

\* main gives up on no worker, provided the statements for a full channel take
\* less than ShutdownTimeout: however the workers share it, and however long a
\* COMMIT of the dispatcher takes, after a signal the process ends with no
\* verdict half written.
VerdictsFinish ==
    (QueueSize + 1) * UpdateTime < ShutdownTimeout =>
        (main = "waiting" /\ mtime >= ShutdownTimeout =>
            \A w \in Worker : wstate[w] = "stopped")

----------------------------------------------------------------------------
(* What the repository's documentation says without the reservations above *)

\* main.go: poolCancel comes after the workers have delivered what they have in
\* hand, and the wait for poolDone leaves long requests the time to finish.  So
\* no send is ended by the cancel.
SendsFinish == ~interrupted

============================================================================
