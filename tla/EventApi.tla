------------------------------ MODULE EventApi ------------------------------
(***************************************************************************)
(* POST /events and POST /events/:id/replay as concurrent requests run     *)
(* them, statement by statement, against tables with InnoDB's locks.       *)
(*                                                                         *)
(* A request is served once and inserts at most one event and one          *)
(* delivery, so the rows are named by the request that inserted them.      *)
(* What the pool does to a delivery is one step here, Finish.              *)
(***************************************************************************)
EXTENDS Naturals, FiniteSets

CONSTANTS
    Request,        \* HTTP requests, served in any order and in parallel
    NoRequest,      \* no event, no delivery
    Key,            \* event_key
    NoKey,
    MaxMishaps      \* bound: failed statements and lost commits

ASSUME ApiAssumption ==
    /\ IsFiniteSet(Request) /\ NoRequest \notin Request
    /\ NoKey \notin Key
    /\ MaxMishaps \in Nat

VARIABLES
    pc, key, event,     \* a request: where it is, its event_key, its event
    id, replayOf,       \* the delivery it inserts: id, replay_of_delivery_id
    answer, told,       \* its answer, and the event_id in it
    locks,              \* <<r, l>>: r's transaction holds the lock l
    events,             \* committed rows
    deliveries,
    open,               \* of these, the pending and running ones
    mishaps

requestVars == <<pc, key, event, id, replayOf, answer, told>>
tableVars   == <<events, deliveries, open>>
vars == <<requestVars, locks, tableVars, mishaps>>

----------------------------------------------------------------------------
(* Locks: of a key in uk_event_key, of the rows of an event, of the gap    *)
(* for pending and running rows in an index on status, and of a pending    *)
(* row that is not committed.                                              *)

Lock(on, of) == [on |-> on, of |-> of]
KeyLock(k)   == Lock("key", k)
EventLock(e) == Lock("event", e)
GapLock      == Lock("gap", NoRequest)
RowLock      == Lock("row", NoRequest)

Free(r, l) == \A q \in Request \ {r} : <<q, l>> \notin locks

Acquire(r, l) == locks' = locks \cup {<<r, l>>}

\* Mutant: a path without "defer tx.Rollback()".
ReleaseForgotten(r) == UNCHANGED locks

\* The end of a transaction, by COMMIT or by the deferred Rollback.
Release(r) == locks' = {l \in locks : l[1] # r}

Goto(r, step) == pc' = [pc EXCEPT ![r] = step]

Answer(r, what, e) ==
    /\ Goto(r, "answered")
    /\ answer' = [answer EXCEPT ![r] = what]
    /\ told'   = [told EXCEPT ![r] = e]

\* AUTO_INCREMENT, which a rollback does not take back.
NextId == Cardinality({r \in Request : id[r] # 0}) + 1

Init ==
    /\ pc       = [r \in Request |-> "new"]
    /\ key      = [r \in Request |-> NoKey]
    /\ event    = [r \in Request |-> NoRequest]
    /\ id       = [r \in Request |-> 0]
    /\ replayOf = [r \in Request |-> NoRequest]
    /\ answer   = [r \in Request |-> "none"]
    /\ told     = [r \in Request |-> NoRequest]
    /\ locks    = {}
    /\ events = {} /\ deliveries = {} /\ open = {}
    /\ mishaps  = 0

----------------------------------------------------------------------------
(* POST /events *)

Submit(r, k) ==
    /\ pc[r] = "new"
    /\ Goto(r, "begun")
    /\ key' = [key EXCEPT ![r] = k]
    /\ UNCHANGED <<event, id, replayOf, answer, told, locks, tableVars, mishaps>>

IsSubmit(r) == key[r] # NoKey

\* Mutant: an uncommitted row counts as a duplicate.
KeyTakenOrLocked(r) ==
    \/ \E e \in events : key[e] = key[r]
    \/ ~Free(r, KeyLock(key[r]))

\* Error 1062.
KeyTaken(r) == \E e \in events : key[e] = key[r]

\* Mutant: the event is inserted through db, not tx, and so committed at once.
InsertEventAutocommitted(r) ==
    /\ IsSubmit(r) /\ pc[r] = "begun"
    /\ Free(r, KeyLock(key[r]))
    /\ ~KeyTaken(r)
    /\ Goto(r, "inserted")
    /\ event' = [event EXCEPT ![r] = r]
    /\ events' = events \cup {r}
    /\ UNCHANGED <<key, id, replayOf, answer, told, locks, deliveries, open, mishaps>>

\* INSERT INTO events waits for an uncommitted row with the same key.
InsertEvent(r) ==
    /\ IsSubmit(r) /\ pc[r] = "begun"
    /\ Free(r, KeyLock(key[r]))
    /\ ~KeyTaken(r)
    /\ Goto(r, "inserted")
    /\ event' = [event EXCEPT ![r] = r]
    /\ Acquire(r, KeyLock(key[r]))
    /\ UNCHANGED <<key, id, replayOf, answer, told, tableVars, mishaps>>

InsertConflicts(r) ==
    /\ IsSubmit(r) /\ pc[r] = "begun"
    /\ KeyTaken(r)
    /\ Goto(r, "duplicate")
    /\ Release(r)
    /\ UNCHANGED <<key, event, id, replayOf, answer, told, tableVars, mishaps>>

\* GetEventIDByKey, after and outside the transaction; no row is no error, but
\* the id 0.
IdByKey(k) == IF \E e \in events : key[e] = k
              THEN CHOOSE e \in events : key[e] = k
              ELSE NoRequest

ReadBack(r) ==
    /\ pc[r] = "duplicate"
    /\ Answer(r, "duplicate", IdByKey(key[r]))
    /\ UNCHANGED <<key, event, id, replayOf, locks, tableVars, mishaps>>

\* INSERT INTO deliveries, for both kinds of request.
InsertPending(r) ==
    /\ Free(r, GapLock)
    /\ Goto(r, "filled")
    /\ id' = [id EXCEPT ![r] = NextId]
    /\ Acquire(r, RowLock)
    /\ UNCHANGED <<key, event, answer, told, replayOf, tableVars, mishaps>>

InsertDelivery(r) == IsSubmit(r) /\ pc[r] = "inserted" /\ InsertPending(r)

----------------------------------------------------------------------------
(* POST /events/:id/replay *)

Replay(r, e) ==
    /\ pc[r] = "new"
    /\ Goto(r, "begun")
    /\ event' = [event EXCEPT ![r] = e]
    /\ UNCHANGED <<key, id, replayOf, answer, told, locks, tableVars, mishaps>>

DeliveriesOf(e) == {d \in deliveries : event[d] = e}

\* What the first FOR UPDATE locks depends on the index the optimizer takes.  In
\* an index on status it stops at every uncommitted pending row, and at
\* another's lock when there are active rows; a lock on a mere gap is shared.
StatusIndex(r) ==
    /\ Free(r, RowLock)
    /\ open = {} \/ Free(r, GapLock)
    /\ Acquire(r, GapLock)

EventIndex(r) ==
    /\ Free(r, EventLock(event[r]))
    /\ Acquire(r, EventLock(event[r]))

\* Mutant: the first SELECT has no FOR UPDATE.
CheckActiveUnlocked(r) ==
    /\ ~IsSubmit(r) /\ pc[r] = "begun"
    /\ DeliveriesOf(event[r]) \cap open = {}
    /\ Goto(r, "checked")
    /\ UNCHANGED <<key, event, id, replayOf, answer, told, locks, tableVars, mishaps>>

\* Step 1: no active delivery.
CheckActive(r) ==
    /\ ~IsSubmit(r) /\ pc[r] = "begun"
    /\ DeliveriesOf(event[r]) \cap open = {}
    /\ StatusIndex(r) \/ EventIndex(r)
    /\ Goto(r, "checked")
    /\ UNCHANGED <<key, event, id, replayOf, answer, told, tableVars, mishaps>>

\* Step 1: an active delivery, ErrActiveDeliveryExists.  It is committed, and r
\* holds nothing: what the scan waits for besides only delays the answer.
FindActive(r) ==
    /\ ~IsSubmit(r) /\ pc[r] = "begun"
    /\ DeliveriesOf(event[r]) \cap open # {}
    /\ Answer(r, "active", event[r])
    /\ Release(r)
    /\ UNCHANGED <<key, event, id, replayOf, tableVars, mishaps>>

\* Mutant: ORDER BY id without DESC.
IsOldest(d, e) == \A x \in DeliveriesOf(e) : id[x] >= id[d]

IsLatest(d, e) == \A x \in DeliveriesOf(e) : id[x] <= id[d]

\* Step 2: the latest delivery, locked.
ReadLatest(r) ==
    /\ ~IsSubmit(r) /\ pc[r] = "checked"
    /\ Free(r, EventLock(event[r]))
    /\ \E d \in DeliveriesOf(event[r]) :
          IsLatest(d, event[r]) /\ replayOf' = [replayOf EXCEPT ![r] = d]
    /\ Goto(r, "read")
    /\ Acquire(r, EventLock(event[r]))
    /\ UNCHANGED <<key, event, id, answer, told, tableVars, mishaps>>

\* Step 2: ErrDeliveryNotFound.
FindNone(r) ==
    /\ ~IsSubmit(r) /\ pc[r] = "checked"
    /\ DeliveriesOf(event[r]) = {}
    /\ Answer(r, "unknown", NoRequest)
    /\ Release(r)
    /\ UNCHANGED <<key, event, id, replayOf, tableVars, mishaps>>

\* Step 3.
InsertReplay(r) == ~IsSubmit(r) /\ pc[r] = "read" /\ InsertPending(r)

----------------------------------------------------------------------------
(* The end of a transaction *)

CommitRows(r) ==
    /\ pc[r] = "filled"
    /\ events'     = IF IsSubmit(r) THEN events \cup {r} ELSE events
    /\ deliveries' = deliveries \cup {r}
    /\ open'       = open \cup {r}
    /\ Release(r)

Commit(r) ==
    /\ CommitRows(r)
    /\ Answer(r, "created", event[r])
    /\ UNCHANGED <<key, event, id, replayOf, mishaps>>

Mishap ==
    /\ mishaps < MaxMishaps
    /\ mishaps' = mishaps + 1

\* COMMIT takes effect, but the connection fails before its answer is read.
CommitLost(r) ==
    /\ Mishap
    /\ CommitRows(r)
    /\ Answer(r, "error", NoRequest)
    /\ UNCHANGED <<key, event, id, replayOf>>

InTransaction(r) == pc[r] \in {"begun", "inserted", "checked", "read", "filled"}

RollBack(r) ==
    /\ InTransaction(r) \/ pc[r] = "duplicate"
    /\ Answer(r, "error", NoRequest)
    /\ Release(r)
    /\ UNCHANGED <<key, event, id, replayOf, tableVars>>

\* A statement fails (as a deadlock victim of locks not modelled here, too), the
\* request times out, its client leaves, or the process ends: nobody sees the
\* answer then, but MySQL rolls back all the same.
Fail(r) == Mishap /\ RollBack(r)

\* Locks the next statement of r may have to wait for.  A replay that begins may
\* want any, by the index it takes, and holds none, so no deadlock has it.
Wanted(r) ==
    CASE IsSubmit(r) /\ pc[r] = "begun"    -> {KeyLock(key[r])}
      [] ~IsSubmit(r) /\ pc[r] = "begun"   -> {RowLock, GapLock, EventLock(event[r])}
      [] pc[r] \in {"inserted", "read"}    -> {GapLock}
      [] pc[r] = "checked"                 -> {EventLock(event[r])}
      [] OTHER                             -> {}

WaitsFor(r, q) == \E l \in Wanted(r) : <<q, l>> \in locks

\* InnoDB breaks a deadlock with error 1213 for one of the two.
DeadlockVictim(r) ==
    /\ \E q \in Request \ {r} : WaitsFor(r, q) /\ WaitsFor(q, r)
    /\ RollBack(r)
    /\ UNCHANGED mishaps

----------------------------------------------------------------------------

\* The pool settles a delivery.
Finish(d) ==
    /\ d \in open
    /\ open' = open \ {d}
    /\ UNCHANGED <<requestVars, locks, events, deliveries, mishaps>>

\* Every request was answered, and every delivery settled.
Quiet ==
    /\ \A r \in Request : pc[r] = "answered"
    /\ open = {}
    /\ UNCHANGED vars

RequestStep(r) ==
    \/ InsertEvent(r) \/ InsertConflicts(r) \/ ReadBack(r) \/ InsertDelivery(r)
    \/ CheckActive(r) \/ FindActive(r) \/ ReadLatest(r) \/ FindNone(r)
    \/ InsertReplay(r) \/ Commit(r) \/ DeadlockVictim(r)

Next ==
    \/ \E r \in Request :
          \/ \E k \in Key : Submit(r, k)
          \/ \E e \in events \cup {NoRequest} : Replay(r, e)
          \/ RequestStep(r)
          \/ CommitLost(r) \/ Fail(r)
    \/ \E d \in Request : Finish(d)
    \/ Quiet

Spec == Init /\ [][Next]_vars

FairSpec == Spec /\ \A r \in Request : WF_vars(RequestStep(r))

----------------------------------------------------------------------------
(* Properties *)

\* Rows and locks belong to requests that got as far as to insert or take them.
TypeOK ==
    /\ pc \in [Request -> {"new", "begun", "inserted", "duplicate", "checked",
                            "read", "filled", "answered"}]
    /\ key      \in [Request -> Key \cup {NoKey}]
    /\ event    \in [Request -> Request \cup {NoRequest}]
    /\ id       \in [Request -> Nat]
    /\ replayOf \in [Request -> Request \cup {NoRequest}]
    /\ answer   \in [Request -> {"none", "created", "duplicate", "active",
                                 "unknown", "error"}]
    /\ told     \in [Request -> Request \cup {NoRequest}]
    /\ \A h \in locks : h[1] \in Request /\ InTransaction(h[1])
    /\ events \subseteq Request /\ open \subseteq deliveries
    /\ deliveries \subseteq Request
    /\ mishaps \in 0..MaxMishaps

\* No event without a delivery, whatever fails between the two INSERTs.
EventHasDelivery == \A e \in events : DeliveriesOf(e) # {}

Accepted(r) == IsSubmit(r) /\ answer[r] \in {"created", "duplicate"}

\* Whoever submits a key and hears that it is accepted hears of one and the
\* same committed event; only the one whose event it is hears "created".
AnswersAgree ==
    \A q, r \in Request :
        Accepted(q) /\ Accepted(r) /\ key[q] = key[r] =>
            /\ told[q] = told[r]
            /\ told[r] \in events
            /\ answer[r] = "created" <=> told[r] = r

\* The deliveries of an event form one chain: each replays the one before it.
ReplayChain ==
    \A d \in deliveries : \A c \in DeliveriesOf(event[d]) :
        id[c] < id[d] =>
            /\ replayOf[d] \in DeliveriesOf(event[d])
            /\ id[replayOf[d]] \in id[c]..(id[d] - 1)

\* Seen from their commits, concurrent requests are single steps: an event is
\* accepted once, and replayed only while it has no delivery under way.
Log == INSTANCE EventLog WITH
          Delivery <- Request,
          rows     <- [k \in Key |-> {d \in deliveries : key[event[d]] = k}]
ImplementsLog == Log!LogSpec

InService(r) == pc[r] \notin {"new", "answered"}

Waiting(r) == \E q \in Request \ {r} : WaitsFor(r, q)

\* No deadlock is of three or more, and nobody waits for a request that is
\* answered: while any is in service, one can go on without waiting, or two
\* wait for each other, which InnoDB ends with error 1213.
DeadlocksAreOfTwo ==
    (\E r \in Request : InService(r)) =>
        \/ \E r \in Request : InService(r) /\ ~Waiting(r)
        \/ \E q, r \in Request : q # r /\ WaitsFor(q, r) /\ WaitsFor(r, q)

\* Nobody waits for a lock for ever: all requests in service get their answers.
EventuallyAnswered ==
    (\E r \in Request : InService(r)) ~> (\A r \in Request : ~InService(r))

============================================================================
