--------------------------- MODULE EventApiProofs ---------------------------
(***************************************************************************)
(* Theorems about EventApi, for any number of requests and keys: the types *)
(* hold, an event always has a delivery, the answers agree, and seen from  *)
(* their commits the requests are the single steps of EventLog.            *)
(***************************************************************************)
EXTENDS EventApi, TLAPS, FiniteSetTheorems

\* Both ends of a transaction that inserted its rows, and both of one that did
\* not.
Commits(r)  == Commit(r) \/ CommitLost(r)
GivesUp(r)  == Fail(r) \/ DeadlockVictim(r)
Inserts(r)  == InsertDelivery(r) \/ InsertReplay(r)

\* The steps of a request in an order for proofs.
LEMMA Steps ==
    ASSUME [Next]_vars
    PROVE  \/ UNCHANGED vars
           \/ \E d \in Request : Finish(d)
           \/ \E r \in Request :
                 \/ \E k \in Key : Submit(r, k)
                 \/ \E e \in events \cup {NoRequest} : Replay(r, e)
                 \/ InsertEvent(r) \/ InsertConflicts(r) \/ ReadBack(r) \/ Inserts(r)
                 \/ CheckActive(r) \/ FindActive(r) \/ ReadLatest(r) \/ FindNone(r)
                 \/ Commits(r) \/ GivesUp(r)
BY DEF Next, RequestStep, Quiet, Commits, GivesUp, Inserts

----------------------------------------------------------------------------
(* Types *)

\* AUTO_INCREMENT counts from 1.
LEMMA IdIsNat == NextId \in Nat \ {0}
<1>1. IsFiniteSet({r \in Request : id[r] # 0})
  BY ApiAssumption, FS_Subset
<1>2. Cardinality({r \in Request : id[r] # 0}) \in Nat
  BY <1>1, FS_CardinalityType
<1> QED BY <1>2 DEF NextId

\* Every step keeps the types.
LEMMA TypesNext == TypeOK /\ [Next]_vars => TypeOK'
<1> SUFFICES ASSUME TypeOK, [Next]_vars PROVE TypeOK'
  OBVIOUS
<1> USE DEF TypeOK, InTransaction, Goto
<1>1. CASE UNCHANGED vars
  BY <1>1 DEF vars, requestVars, tableVars
<1>2. ASSUME NEW d \in Request, Finish(d) PROVE TypeOK'
  BY <1>2 DEF Finish, requestVars
<1>3. ASSUME NEW r \in Request, NEW k \in Key, Submit(r, k) PROVE TypeOK'
  BY <1>3 DEF Submit, tableVars
<1>4. ASSUME NEW r \in Request, NEW e \in events \cup {NoRequest}, Replay(r, e)
      PROVE  TypeOK'
  BY <1>4 DEF Replay, tableVars
<1>5. ASSUME NEW r \in Request, InsertEvent(r) PROVE TypeOK'
  BY <1>5 DEF InsertEvent, tableVars, Acquire
<1>6. ASSUME NEW r \in Request, InsertConflicts(r) PROVE TypeOK'
  BY <1>6 DEF InsertConflicts, tableVars, Release
<1>7. ASSUME NEW r \in Request, ReadBack(r) PROVE TypeOK'
  <2>1. IdByKey(key[r]) \in Request \cup {NoRequest}
    BY DEF IdByKey
  <2> QED BY <1>7, <2>1 DEF ReadBack, Answer, tableVars
<1>8. ASSUME NEW r \in Request, Inserts(r) PROVE TypeOK'
  BY <1>8, IdIsNat
     DEF Inserts, InsertDelivery, InsertReplay, InsertPending, tableVars, Acquire
<1>9. ASSUME NEW r \in Request, CheckActive(r) PROVE TypeOK'
  BY <1>9 DEF CheckActive, StatusIndex, EventIndex, tableVars, Acquire
<1>10. ASSUME NEW r \in Request, FindActive(r) PROVE TypeOK'
  BY <1>10 DEF FindActive, Answer, Release, tableVars
<1>11. ASSUME NEW r \in Request, ReadLatest(r) PROVE TypeOK'
  BY <1>11 DEF ReadLatest, DeliveriesOf, Acquire, tableVars
<1>12. ASSUME NEW r \in Request, FindNone(r) PROVE TypeOK'
  BY <1>12 DEF FindNone, Answer, Release, tableVars
<1>13. ASSUME NEW r \in Request, Commits(r) PROVE TypeOK'
  BY <1>13, ApiAssumption
     DEF Commits, Commit, CommitLost, CommitRows, Answer, Release, Mishap
<1>14. ASSUME NEW r \in Request, GivesUp(r) PROVE TypeOK'
  BY <1>14, ApiAssumption
     DEF GivesUp, Fail, DeadlockVictim, RollBack, Answer, Release, Mishap, tableVars
<1> QED BY Steps, <1>1, <1>2, <1>3, <1>4, <1>5, <1>6, <1>7, <1>8, <1>9, <1>10,
           <1>11, <1>12, <1>13, <1>14

\* Rows, answers and locks have their types in every reachable state.
THEOREM ApiTypes == Spec => []TypeOK
<1>1. Init => TypeOK
  BY ApiAssumption DEF Init, TypeOK
<1> QED BY <1>1, TypesNext, PTL DEF Spec

----------------------------------------------------------------------------
(* Rows *)

\* What a request that got somewhere is, and how committed rows hang together.
RowsInv ==
    /\ \A r \in Request :
          /\ pc[r] = "new" => key[r] = NoKey
          /\ pc[r] \in {"inserted", "duplicate"} => IsSubmit(r)
          /\ pc[r] \in {"checked", "read"} => ~IsSubmit(r)
          /\ pc[r] # "answered" => r \notin events /\ r \notin deliveries
          /\ IsSubmit(r) /\ pc[r] \in {"inserted", "filled"} => event[r] = r
          /\ ~IsSubmit(r) /\ pc[r] \in {"begun", "checked"} =>
                event[r] \in events \cup {NoRequest}
          /\ ~IsSubmit(r) /\ pc[r] \in {"read", "filled"} => event[r] \in events
    /\ \A e \in events : IsSubmit(e) /\ event[e] = e /\ e \in deliveries
    /\ \A d \in deliveries : event[d] \in events

\* Every step keeps that.
LEMMA RowsNext == TypeOK /\ RowsInv /\ [Next]_vars => RowsInv'
<1> SUFFICES ASSUME TypeOK, RowsInv, [Next]_vars PROVE RowsInv'
  OBVIOUS
<1> USE ApiAssumption DEF RowsInv, TypeOK, Goto, IsSubmit
<1>1. CASE UNCHANGED vars
  BY <1>1 DEF vars, requestVars, tableVars
<1>2. ASSUME NEW d \in Request, Finish(d) PROVE RowsInv'
  BY <1>2 DEF Finish, requestVars
<1>3. ASSUME NEW r \in Request, NEW k \in Key, Submit(r, k) PROVE RowsInv'
  BY <1>3 DEF Submit, tableVars
<1>4. ASSUME NEW r \in Request, NEW e \in events \cup {NoRequest}, Replay(r, e)
      PROVE  RowsInv'
  BY <1>4 DEF Replay, tableVars
<1>5. ASSUME NEW r \in Request, InsertEvent(r) PROVE RowsInv'
  BY <1>5 DEF InsertEvent, tableVars
<1>6. ASSUME NEW r \in Request, InsertConflicts(r) PROVE RowsInv'
  BY <1>6 DEF InsertConflicts, tableVars
<1>7. ASSUME NEW r \in Request, ReadBack(r) PROVE RowsInv'
  BY <1>7 DEF ReadBack, Answer, tableVars
<1>8. ASSUME NEW r \in Request, Inserts(r) PROVE RowsInv'
  BY <1>8 DEF Inserts, InsertDelivery, InsertReplay, InsertPending, tableVars
<1>9. ASSUME NEW r \in Request, CheckActive(r) PROVE RowsInv'
  BY <1>9 DEF CheckActive, tableVars
<1>10. ASSUME NEW r \in Request, FindActive(r) PROVE RowsInv'
  BY <1>10 DEF FindActive, Answer, tableVars
<1>11. ASSUME NEW r \in Request, ReadLatest(r) PROVE RowsInv'
  BY <1>11 DEF ReadLatest, DeliveriesOf, tableVars
<1>12. ASSUME NEW r \in Request, FindNone(r) PROVE RowsInv'
  BY <1>12 DEF FindNone, Answer, tableVars
<1>13. ASSUME NEW r \in Request, Commits(r) PROVE RowsInv'
  BY <1>13 DEF Commits, Commit, CommitLost, CommitRows, Answer
<1>14. ASSUME NEW r \in Request, GivesUp(r) PROVE RowsInv'
  BY <1>14 DEF GivesUp, Fail, DeadlockVictim, RollBack, Answer, tableVars
<1> QED BY Steps, <1>1, <1>2, <1>3, <1>4, <1>5, <1>6, <1>7, <1>8, <1>9, <1>10,
           <1>11, <1>12, <1>13, <1>14

\* No committed event is without its delivery.
THEOREM EventsHaveDeliveries == Spec => []EventHasDelivery
<1>1. Init => TypeOK /\ RowsInv
  BY ApiAssumption DEF Init, TypeOK, RowsInv
<1>2. RowsInv => EventHasDelivery
  BY DEF RowsInv, EventHasDelivery, DeliveriesOf
<1> QED BY <1>1, <1>2, TypesNext, RowsNext, PTL DEF Spec

----------------------------------------------------------------------------
(* Locks *)

Holds(r, l) == <<r, l>> \in locks

\* The locks a transaction holds where it is.
LocksHeld ==
    \A r \in Request :
       /\ IsSubmit(r) /\ pc[r] \in {"inserted", "filled"} => Holds(r, KeyLock(key[r]))
       /\ ~IsSubmit(r) /\ pc[r] \in {"read", "filled"} => Holds(r, EventLock(event[r]))
       /\ pc[r] = "checked" => Holds(r, EventLock(event[r])) \/ Holds(r, GapLock)
       /\ pc[r] = "filled" => Holds(r, RowLock)

\* Locks that exclude each other: a key and an event are held by one, and while
\* one holds the gap there is no other's uncommitted pending row.
LocksExclusive ==
    \A q, r \in Request : q # r =>
       /\ \A k : ~ (Holds(q, KeyLock(k)) /\ Holds(r, KeyLock(k)))
       /\ \A e : ~ (Holds(q, EventLock(e)) /\ Holds(r, EventLock(e)))
       /\ ~ (Holds(q, GapLock) /\ Holds(r, RowLock))

LocksInv == LocksHeld /\ LocksExclusive

\* The locks are different ones.
LEMMA LocksDiffer ==
    /\ \A j, k : KeyLock(j) = KeyLock(k) => j = k
    /\ \A e, f : EventLock(e) = EventLock(f) => e = f
    /\ \A k, e : KeyLock(k) # EventLock(e)
    /\ \A k : KeyLock(k) # GapLock /\ KeyLock(k) # RowLock
    /\ \A e : EventLock(e) # GapLock /\ EventLock(e) # RowLock
    /\ GapLock # RowLock
BY DEF KeyLock, EventLock, GapLock, RowLock, Lock

\* Acquiring adds one lock.
LEMMA Acquired ==
    ASSUME NEW r, NEW l, Acquire(r, l)
    PROVE  \A q, x : Holds(q, x)' <=> Holds(q, x) \/ (q = r /\ x = l)
BY DEF Acquire, Holds

\* Releasing takes all of a transaction's locks.
LEMMA Released ==
    ASSUME NEW r, Release(r)
    PROVE  \A q, x : Holds(q, x)' <=> Holds(q, x) /\ q # r
BY DEF Release, Holds

\* A lock that is free, or goes with what others hold, is safe to take.
LEMMA AcquiredExclusive ==
    ASSUME LocksExclusive, NEW r \in Request, NEW l, Acquire(r, l),
           \/ Free(r, l) /\ ((\E k : l = KeyLock(k)) \/ (\E e : l = EventLock(e)))
           \/ l = GapLock /\ Free(r, RowLock)
           \/ l = RowLock /\ Free(r, GapLock)
    PROVE  LocksExclusive'
<1>1. \A q, x : Holds(q, x)' <=> Holds(q, x) \/ (q = r /\ x = l)
  BY Acquired
<1>2. CASE \E k : l = KeyLock(k) /\ Free(r, l)
  <2> PICK k : l = KeyLock(k) /\ Free(r, l)
    BY <1>2
  <2>1. \A q \in Request \ {r} : ~Holds(q, l)
    BY DEF Free, Holds
  <2> QED BY <1>1, <2>1, LocksDiffer, Zenon DEF LocksExclusive
<1>3. CASE \E e : l = EventLock(e) /\ Free(r, l)
  <2> PICK e : l = EventLock(e) /\ Free(r, l)
    BY <1>3
  <2>1. \A q \in Request \ {r} : ~Holds(q, l)
    BY DEF Free, Holds
  <2> QED BY <1>1, <2>1, LocksDiffer, Zenon DEF LocksExclusive
<1>4. CASE l = GapLock /\ Free(r, RowLock)
  <2>1. \A q \in Request \ {r} : ~Holds(q, RowLock)
    BY <1>4 DEF Free, Holds
  <2> QED BY <1>1, <1>4, <2>1, LocksDiffer, Zenon DEF LocksExclusive
<1>5. CASE l = RowLock /\ Free(r, GapLock)
  <2>1. \A q \in Request \ {r} : ~Holds(q, GapLock)
    BY <1>5 DEF Free, Holds
  <2> QED BY <1>1, <1>5, <2>1, LocksDiffer, Zenon DEF LocksExclusive
<1> QED BY <1>2, <1>3, <1>4, <1>5

\* Every step keeps the locks where they belong and exclusive.
LEMMA LocksNext == TypeOK /\ RowsInv /\ LocksInv /\ [Next]_vars => LocksInv'
<1> SUFFICES ASSUME TypeOK, RowsInv, LocksInv, [Next]_vars PROVE LocksInv'
  OBVIOUS
<1> USE DEF Goto
\* A step that leaves the locks alone, and moves no request to where it would
\* hold one.
<1>b. ASSUME locks' = locks, UNCHANGED <<key, id>>,
             \A r \in Request :
                \/ pc'[r] = pc[r] /\ event'[r] = event[r]
                \/ pc'[r] \in {"begun", "answered", "duplicate"}
      PROVE  LocksInv'
  BY <1>b DEF LocksInv, LocksHeld, LocksExclusive, Holds, IsSubmit
\* A transaction ends.
<1>c. ASSUME NEW r \in Request, Release(r), UNCHANGED <<key, event>>,
             pc'[r] \in {"answered", "duplicate"},
             \A q \in Request \ {r} : pc'[q] = pc[q]
      PROVE  LocksInv'
  BY <1>c, Released DEF LocksInv, LocksHeld, LocksExclusive, IsSubmit
<1>1. CASE UNCHANGED vars
  BY <1>1, <1>b DEF vars, requestVars, tableVars
<1>2. ASSUME NEW d \in Request, Finish(d) PROVE LocksInv'
  BY <1>2, <1>b DEF Finish, requestVars
<1>3. ASSUME NEW r \in Request, NEW k \in Key, Submit(r, k) PROVE LocksInv'
  BY <1>3 DEF Submit, TypeOK, LocksInv, LocksHeld, LocksExclusive,
              Holds, IsSubmit
<1>4. ASSUME NEW r \in Request, NEW e \in events \cup {NoRequest}, Replay(r, e)
      PROVE  LocksInv'
  BY <1>4 DEF Replay, TypeOK, LocksInv, LocksHeld, LocksExclusive,
              Holds, IsSubmit
<1>5. ASSUME NEW r \in Request, InsertEvent(r) PROVE LocksInv'
  <2>1. Acquire(r, KeyLock(key[r])) /\ Free(r, KeyLock(key[r]))
    BY <1>5 DEF InsertEvent
  <2>2. \A q, x : Holds(q, x)' <=> Holds(q, x) \/ (q = r /\ x = KeyLock(key[r]))
    BY <2>1, Acquired
  <2>3. LocksHeld'
    BY <1>5, <2>2 DEF InsertEvent, TypeOK, LocksInv, LocksHeld, IsSubmit
  <2> QED BY <2>1, <2>3, AcquiredExclusive DEF LocksInv
<1>6. ASSUME NEW r \in Request, InsertConflicts(r) PROVE LocksInv'
  BY <1>6, <1>c DEF InsertConflicts, TypeOK
<1>7. ASSUME NEW r \in Request, ReadBack(r) PROVE LocksInv'
  BY <1>7, <1>b DEF ReadBack, Answer, TypeOK
<1>8. ASSUME NEW r \in Request, Inserts(r) PROVE LocksInv'
  <2>1. /\ Acquire(r, RowLock) /\ Free(r, GapLock)
        /\ pc' = [pc EXCEPT ![r] = "filled"] /\ UNCHANGED <<key, event>>
        /\ IF IsSubmit(r) THEN pc[r] = "inserted" ELSE pc[r] = "read"
    BY <1>8 DEF Inserts, InsertDelivery, InsertReplay, InsertPending
  <2>2. \A q, x : Holds(q, x)' <=> Holds(q, x) \/ (q = r /\ x = RowLock)
    BY <2>1, Acquired
  <2>3. LocksHeld'
    BY <2>1, <2>2 DEF TypeOK, LocksInv, LocksHeld, IsSubmit
  <2> QED BY <2>1, <2>3, AcquiredExclusive DEF LocksInv
<1>9. ASSUME NEW r \in Request, CheckActive(r) PROVE LocksInv'
  <2>1. PICK l : /\ Acquire(r, l)
                 /\ \/ l = GapLock /\ Free(r, RowLock)
                    \/ l = EventLock(event[r]) /\ Free(r, l)
    BY <1>9 DEF CheckActive, StatusIndex, EventIndex
  <2>2. \A q, x : Holds(q, x)' <=> Holds(q, x) \/ (q = r /\ x = l)
    BY <2>1, Acquired
  <2>3. LocksHeld'
    BY <1>9, <2>1, <2>2 DEF CheckActive, TypeOK, LocksInv, LocksHeld, IsSubmit
  <2> QED BY <2>1, <2>3, AcquiredExclusive DEF LocksInv
<1>10. ASSUME NEW r \in Request, FindActive(r) PROVE LocksInv'
  BY <1>10, <1>c DEF FindActive, Answer, TypeOK
<1>11. ASSUME NEW r \in Request, ReadLatest(r) PROVE LocksInv'
  <2>1. Acquire(r, EventLock(event[r])) /\ Free(r, EventLock(event[r]))
    BY <1>11 DEF ReadLatest
  <2>2. \A q, x : Holds(q, x)' <=> Holds(q, x) \/ (q = r /\ x = EventLock(event[r]))
    BY <2>1, Acquired
  <2>3. LocksHeld'
    BY <1>11, <2>2 DEF ReadLatest, TypeOK, LocksInv, LocksHeld, IsSubmit
  <2> QED BY <2>1, <2>3, AcquiredExclusive DEF LocksInv
<1>12. ASSUME NEW r \in Request, FindNone(r) PROVE LocksInv'
  BY <1>12, <1>c DEF FindNone, Answer, TypeOK
<1>13. ASSUME NEW r \in Request, Commits(r) PROVE LocksInv'
  BY <1>13, <1>c DEF Commits, Commit, CommitLost, CommitRows, Answer, TypeOK
<1>14. ASSUME NEW r \in Request, GivesUp(r) PROVE LocksInv'
  BY <1>14, <1>c DEF GivesUp, Fail, DeadlockVictim, RollBack, Answer, TypeOK
<1> QED BY Steps, <1>1, <1>2, <1>3, <1>4, <1>5, <1>6, <1>7, <1>8, <1>9, <1>10,
           <1>11, <1>12, <1>13, <1>14

----------------------------------------------------------------------------
(* What a transaction saw is still so when it commits *)

SeenInv ==
    /\ \A e, f \in events : key[e] = key[f] => e = f
    /\ \A r \in Request :
          /\ IsSubmit(r) /\ pc[r] \in {"inserted", "filled"} =>
                \A e \in events : key[e] # key[r]
          /\ ~IsSubmit(r) /\ pc[r] \in {"checked", "read", "filled"} =>
                DeliveriesOf(event[r]) \cap open = {}

\* A commit does not change what another transaction saw: for a submission
\* there would be two holders of its key, for a replay two of its event, or a
\* holder of the gap beside a pending row that is not committed.
LEMMA SeenNext ==
    TypeOK /\ RowsInv /\ LocksInv /\ SeenInv /\ [Next]_vars => SeenInv'
<1> SUFFICES ASSUME TypeOK, RowsInv, LocksInv, SeenInv, [Next]_vars PROVE SeenInv'
  OBVIOUS
<1> USE DEF Goto
\* Steps that write no row and take no request past a check.
<1>a. ASSUME UNCHANGED <<events, deliveries>>, open' \subseteq open,
             \A r \in Request : r \in events \cup deliveries => 
                key'[r] = key[r] /\ event'[r] = event[r],
             \A r \in Request :
                \/ pc'[r] \in {"new", "begun", "duplicate", "answered"}
                \/ /\ key'[r] = key[r] /\ event'[r] = event[r]
                   /\ \/ pc'[r] = pc[r]
                      \/ pc[r] = "inserted" /\ pc'[r] = "filled"
                      \/ pc[r] = "checked" /\ pc'[r] = "read"
                      \/ pc[r] = "read" /\ pc'[r] = "filled"
      PROVE  SeenInv'
  BY <1>a DEF SeenInv, RowsInv, TypeOK, DeliveriesOf, IsSubmit
<1>1. CASE UNCHANGED vars
  BY <1>1, <1>a DEF vars, requestVars, tableVars
<1>2. ASSUME NEW d \in Request, Finish(d) PROVE SeenInv'
  BY <1>2, <1>a DEF Finish, requestVars
<1>3. ASSUME NEW r \in Request, NEW k \in Key, Submit(r, k) PROVE SeenInv'
  BY <1>3, <1>a DEF Submit, tableVars, TypeOK, RowsInv
<1>4. ASSUME NEW r \in Request, NEW e \in events \cup {NoRequest}, Replay(r, e)
      PROVE  SeenInv'
  BY <1>4, <1>a DEF Replay, tableVars, TypeOK, RowsInv
<1>5. ASSUME NEW r \in Request, InsertEvent(r) PROVE SeenInv'
  BY <1>5 DEF InsertEvent, KeyTaken, tableVars, SeenInv, RowsInv, TypeOK, DeliveriesOf,
              IsSubmit
<1>6. ASSUME NEW r \in Request, InsertConflicts(r) PROVE SeenInv'
  BY <1>6, <1>a DEF InsertConflicts, tableVars, TypeOK
<1>7. ASSUME NEW r \in Request, ReadBack(r) PROVE SeenInv'
  BY <1>7, <1>a DEF ReadBack, Answer, tableVars, TypeOK
<1>8. ASSUME NEW r \in Request, Inserts(r) PROVE SeenInv'
  BY <1>8, <1>a
     DEF Inserts, InsertDelivery, InsertReplay, InsertPending, tableVars, TypeOK
<1>9. ASSUME NEW r \in Request, CheckActive(r) PROVE SeenInv'
  BY <1>9 DEF CheckActive, tableVars, SeenInv, RowsInv, TypeOK, DeliveriesOf, IsSubmit
<1>10. ASSUME NEW r \in Request, FindActive(r) PROVE SeenInv'
  BY <1>10, <1>a DEF FindActive, Answer, tableVars, TypeOK
<1>11. ASSUME NEW r \in Request, ReadLatest(r) PROVE SeenInv'
  BY <1>11, <1>a DEF ReadLatest, tableVars, TypeOK
<1>12. ASSUME NEW r \in Request, FindNone(r) PROVE SeenInv'
  BY <1>12, <1>a DEF FindNone, Answer, tableVars, TypeOK
<1>13. ASSUME NEW r \in Request, Commits(r) PROVE SeenInv'
  <2>1. /\ pc[r] = "filled" /\ pc' = [pc EXCEPT ![r] = "answered"]
        /\ events' = IF IsSubmit(r) THEN events \cup {r} ELSE events
        /\ deliveries' = deliveries \cup {r} /\ open' = open \cup {r}
        /\ key' = key /\ event' = event
    BY <1>13 DEF Commits, Commit, CommitLost, CommitRows, Answer
  <2>2. \A e, f \in events' : key'[e] = key'[f] => e = f
    BY <2>1 DEF SeenInv
  <2>3. ASSUME NEW q \in Request, IsSubmit(q)', pc'[q] \in {"inserted", "filled"},
               NEW e \in events'
        PROVE  key'[e] # key'[q]
    <3>1. q # r /\ IsSubmit(q) /\ pc[q] \in {"inserted", "filled"} /\ key[q] \in Key
      BY <2>1, <2>3 DEF TypeOK, IsSubmit
    <3>2. CASE e = r /\ IsSubmit(r)
      BY <2>1, <3>1, <3>2 DEF LocksInv, LocksHeld, LocksExclusive
    <3> QED BY <2>1, <3>1, <3>2 DEF SeenInv
  <2>4. ASSUME NEW q \in Request, ~IsSubmit(q)', pc'[q] \in {"checked", "read", "filled"}
        PROVE  (DeliveriesOf(event[q]) \cap open)' = {}
    <3>1. q # r /\ ~IsSubmit(q) /\ pc[q] \in {"checked", "read", "filled"}
      BY <2>1, <2>4 DEF TypeOK, IsSubmit
    <3>2. DeliveriesOf(event[q]) \cap open = {}
      BY <3>1 DEF SeenInv
    <3>3. event[r] # event[q]
      <4>1. event[q] \in events \cup {NoRequest} /\ event[q] \in Request \cup {NoRequest}
        BY <3>1 DEF RowsInv, TypeOK
      <4>2. CASE IsSubmit(r)
        BY <2>1, <4>1, <4>2, ApiAssumption DEF RowsInv
      <4>3. CASE ~IsSubmit(r)
        <5>1. Holds(r, EventLock(event[r])) /\ Holds(r, RowLock)
          BY <2>1, <4>3 DEF LocksInv, LocksHeld
        <5>2. Holds(q, EventLock(event[q])) \/ Holds(q, GapLock)
          BY <3>1 DEF LocksInv, LocksHeld
        <5> QED BY <3>1, <4>1, <5>1, <5>2 DEF LocksInv, LocksExclusive
      <4> QED BY <4>2, <4>3
    <3> QED BY <2>1, <3>2, <3>3 DEF DeliveriesOf
  <2> QED BY <2>2, <2>3, <2>4 DEF SeenInv
<1>14. ASSUME NEW r \in Request, GivesUp(r) PROVE SeenInv'
  BY <1>14, <1>a DEF GivesUp, Fail, DeadlockVictim, RollBack, Answer, tableVars, TypeOK
<1> QED BY Steps, <1>1, <1>2, <1>3, <1>4, <1>5, <1>6, <1>7, <1>8, <1>9, <1>10,
           <1>11, <1>12, <1>13, <1>14

ApiInv == TypeOK /\ RowsInv /\ LocksInv /\ SeenInv

\* ApiInv holds at first.
LEMMA ApiInvInit == Init => ApiInv
BY ApiAssumption
   DEF Init, ApiInv, TypeOK, RowsInv, LocksInv, LocksHeld, LocksExclusive, Holds, SeenInv

\* ApiInv is inductive.
LEMMA ApiInvNext == ApiInv /\ [Next]_vars => ApiInv'
BY TypesNext, RowsNext, LocksNext, SeenNext DEF ApiInv

----------------------------------------------------------------------------
(* The implementation of EventLog *)

LogRows == [k \in Key |-> {d \in deliveries : key[event[d]] = k}]

\* The deliveries of a committed event's key are the event's.
LEMMA RowsOfKey ==
    ASSUME ApiInv, NEW e \in events
    PROVE  key[e] \in Key /\ LogRows[key[e]] = DeliveriesOf(e)
BY DEF ApiInv, RowsInv, SeenInv, TypeOK, IsSubmit, LogRows, DeliveriesOf

\* A commit is one step of EventLog.
LEMMA CommitIsStep ==
    ASSUME ApiInv, NEW r \in Request, Commits(r)
    PROVE  Log!LogNext
<1>1. /\ pc[r] = "filled"
      /\ deliveries' = deliveries \cup {r} /\ open' = open \cup {r}
      /\ key' = key /\ event' = event
  BY DEF Commits, Commit, CommitLost, CommitRows, Answer
<1>2. event[r] \in Request /\ r \notin deliveries
  BY <1>1 DEF ApiInv, RowsInv, TypeOK
<1>3. \A k \in Key : r \notin LogRows[k]
  BY <1>2 DEF LogRows
<1>4. PICK k \in Key : k = key[event[r]]
  BY <1>1 DEF ApiInv, RowsInv, TypeOK, IsSubmit
<1>5. LogRows' = [LogRows EXCEPT ![k] = @ \cup {r}]
  BY <1>1, <1>4 DEF LogRows
<1>6. Log!Add(k, r)
  BY <1>1, <1>3, <1>5 DEF Log!Add, Log!New, LogRows
<1>7. CASE IsSubmit(r)
  <2>1. event[r] = r /\ \A e \in events : key[e] # k
    BY <1>1, <1>4, <1>7 DEF ApiInv, RowsInv, SeenInv
  <2>2. \A d \in deliveries : event[d] \in events
    BY DEF ApiInv, RowsInv
  <2>3. LogRows[k] = {}
    BY <2>1, <2>2 DEF LogRows
  <2>4. Log!Accept(k, r)
    BY <1>6, <2>3 DEF Log!Accept, LogRows
  <2> QED BY <2>4 DEF Log!LogNext
<1>8. CASE ~IsSubmit(r)
  <2>1. event[r] \in events /\ DeliveriesOf(event[r]) \cap open = {}
    BY <1>1, <1>8 DEF ApiInv, RowsInv, SeenInv
  <2>2. event[r] \in DeliveriesOf(event[r])
    BY <2>1 DEF ApiInv, RowsInv, DeliveriesOf
  <2>3. LogRows[k] # {} /\ LogRows[k] \cap open = {}
    BY <1>4, <2>1, <2>2, RowsOfKey
  <2>4. Log!ReplayEvent(k, r)
    BY <1>6, <2>3 DEF Log!ReplayEvent, LogRows
  <2> QED BY <2>4 DEF Log!LogNext
<1> QED BY <1>7, <1>8

\* Every other step but a settlement leaves what EventLog sees.
LEMMA StepIsLogStep == ApiInv /\ [Next]_vars => [Log!LogNext]_(Log!logVars)
<1> SUFFICES ASSUME ApiInv, [Next]_vars PROVE [Log!LogNext]_(Log!logVars)
  OBVIOUS
<1>1. ASSUME UNCHANGED <<deliveries, open>>,
             \A d \in deliveries : event'[d] = event[d] /\ key'[event[d]] = key[event[d]]
      PROVE  UNCHANGED Log!logVars
  <2>1. LogRows' = LogRows
    BY <1>1 DEF LogRows
  <2> QED BY <1>1, <2>1 DEF Log!logVars, LogRows
<1>2. \A d \in deliveries : /\ d \in Request /\ pc[d] = "answered"
                            /\ event[d] \in Request /\ pc[event[d]] = "answered"
  BY DEF ApiInv, TypeOK, RowsInv
<1>3. CASE UNCHANGED vars
  BY <1>1, <1>3 DEF vars, requestVars, tableVars
<1>4. ASSUME NEW d \in Request, Finish(d) PROVE Log!LogNext
  <2>1. Log!Settle(d)
    BY <1>4 DEF Finish, requestVars, Log!Settle
  <2> QED BY <2>1 DEF Log!LogNext
<1>5. ASSUME NEW r \in Request, NEW k \in Key, Submit(r, k) PROVE UNCHANGED Log!logVars
  BY <1>1, <1>2, <1>5 DEF Submit, tableVars, ApiInv, TypeOK
<1>6. ASSUME NEW r \in Request, NEW e \in events \cup {NoRequest}, Replay(r, e)
      PROVE  UNCHANGED Log!logVars
  BY <1>1, <1>2, <1>6 DEF Replay, tableVars, ApiInv, TypeOK
<1>7. ASSUME NEW r \in Request, InsertEvent(r) PROVE UNCHANGED Log!logVars
  BY <1>1, <1>2, <1>7 DEF InsertEvent, tableVars, ApiInv, TypeOK
<1>8. ASSUME NEW r \in Request,
             \/ InsertConflicts(r) \/ ReadBack(r) \/ Inserts(r) \/ CheckActive(r)
             \/ FindActive(r) \/ ReadLatest(r) \/ FindNone(r) \/ GivesUp(r)
      PROVE  UNCHANGED Log!logVars
  <2>1. UNCHANGED <<key, event, deliveries, open>>
    BY <1>8 DEF InsertConflicts, ReadBack, Inserts, InsertDelivery, InsertReplay,
                InsertPending, CheckActive, FindActive, ReadLatest, FindNone, GivesUp,
                Fail, DeadlockVictim, RollBack, tableVars
  <2> QED BY <1>1, <2>1
<1> QED BY Steps, CommitIsStep, <1>3, <1>4, <1>5, <1>6, <1>7, <1>8

\* Concurrent requests are single steps of EventLog: an event is accepted once
\* and replayed only while it has no delivery under way, whichever index the
\* optimizer takes.
THEOREM ApiImplementsLog == Spec => ImplementsLog
<1>1. Init => Log!LogInit
  BY DEF Init, Log!LogInit
<1> QED BY <1>1, ApiInvInit, ApiInvNext, StepIsLogStep, PTL
        DEF Spec, ImplementsLog, Log!LogSpec

----------------------------------------------------------------------------
(* Answers *)

\* What the answers to submissions are made of.
AnswersInv ==
    \A r \in Request :
       /\ pc[r] # "answered" => answer[r] = "none"
       /\ pc[r] = "duplicate" => \E e \in events : key[e] = key[r]
       /\ Accepted(r) => /\ told[r] \in events /\ key[told[r]] = key[r]
                         /\ answer[r] = "created" <=> told[r] = r

\* Every step keeps that.
LEMMA AnswersNext == ApiInv /\ AnswersInv /\ [Next]_vars => AnswersInv'
<1> SUFFICES ASSUME ApiInv, AnswersInv, [Next]_vars PROVE AnswersInv'
  OBVIOUS
<1> USE DEF Goto, Accepted, IsSubmit
<1>0. TypeOK /\ \A e \in events : pc[e] = "answered"
  BY DEF ApiInv, TypeOK, RowsInv
<1>1. CASE UNCHANGED vars
  BY <1>1 DEF vars, requestVars, tableVars, AnswersInv
<1>2. ASSUME NEW d \in Request, Finish(d) PROVE AnswersInv'
  BY <1>2 DEF Finish, requestVars, AnswersInv
<1>3. ASSUME NEW r \in Request, NEW k \in Key, Submit(r, k) PROVE AnswersInv'
  BY <1>0, <1>3 DEF Submit, tableVars, AnswersInv, TypeOK
<1>4. ASSUME NEW r \in Request, NEW e \in events \cup {NoRequest}, Replay(r, e)
      PROVE  AnswersInv'
  BY <1>0, <1>4 DEF Replay, tableVars, AnswersInv, TypeOK
<1>5. ASSUME NEW r \in Request,
             InsertEvent(r) \/ Inserts(r) \/ CheckActive(r) \/ ReadLatest(r)
      PROVE  AnswersInv'
  BY <1>0, <1>5
     DEF InsertEvent, Inserts, InsertDelivery, InsertReplay, InsertPending, CheckActive,
         ReadLatest, tableVars, AnswersInv, TypeOK
<1>6. ASSUME NEW r \in Request, InsertConflicts(r) PROVE AnswersInv'
  BY <1>0, <1>6 DEF InsertConflicts, KeyTaken, tableVars, AnswersInv, TypeOK
<1>7. ASSUME NEW r \in Request, ReadBack(r) PROVE AnswersInv'
  <2>1. pc[r] = "duplicate" /\ \E e \in events : key[e] = key[r]
    BY <1>7 DEF ReadBack, AnswersInv
  <2>2. IdByKey(key[r]) \in events /\ key[IdByKey(key[r])] = key[r]
    BY <2>1 DEF IdByKey
  <2>3. IdByKey(key[r]) # r
    BY <1>0, <2>1, <2>2
  <2>4. /\ answer' = [answer EXCEPT ![r] = "duplicate"]
        /\ told' = [told EXCEPT ![r] = IdByKey(key[r])]
        /\ pc' = [pc EXCEPT ![r] = "answered"]
        /\ UNCHANGED <<key, events>>
    BY <1>7 DEF ReadBack, Answer, tableVars
  <2> QED BY <1>0, <2>2, <2>3, <2>4 DEF AnswersInv, TypeOK
<1>8. ASSUME NEW r \in Request, FindActive(r) \/ FindNone(r) \/ GivesUp(r)
      PROVE  AnswersInv'
  BY <1>0, <1>8
     DEF FindActive, FindNone, GivesUp, Fail, DeadlockVictim, RollBack, Answer, tableVars,
         AnswersInv, TypeOK
<1>9. ASSUME NEW r \in Request, Commits(r) PROVE AnswersInv'
  <2>1. pc[r] = "filled" /\ (IsSubmit(r) => event[r] = r)
    BY <1>9 DEF Commits, Commit, CommitLost, CommitRows, ApiInv, RowsInv
  <2> QED BY <1>0, <1>9, <2>1
          DEF Commits, Commit, CommitLost, CommitRows, Answer, AnswersInv, TypeOK
<1> QED BY Steps, <1>1, <1>2, <1>3, <1>4, <1>5, <1>6, <1>7, <1>8, <1>9

\* All accepted submissions of a key are answered with the same event, and only
\* the one that created it with "created".
THEOREM AnswersDoAgree == Spec => []AnswersAgree
<1>1. Init => AnswersInv
  BY DEF Init, AnswersInv, Accepted
<1>2. ApiInv /\ AnswersInv => AnswersAgree
  BY DEF ApiInv, SeenInv, AnswersInv, AnswersAgree, Accepted
<1> QED BY <1>1, <1>2, ApiInvInit, ApiInvNext, AnswersNext, PTL DEF Spec

----------------------------------------------------------------------------
(* The chain of replays *)

\* Ids are given out in order, and a delivery that was not inserted has none.
IdsInv ==
    \A r \in Request :
       /\ id[r] < NextId
       /\ pc[r] \in {"new", "begun", "inserted", "duplicate", "checked", "read"} => id[r] = 0
       /\ pc[r] = "filled" \/ r \in deliveries => id[r] # 0

\* What a replay read is still its event's latest delivery when it commits.
LatestInv ==
    \A r \in Request :
       ~IsSubmit(r) /\ pc[r] \in {"read", "filled"} =>
          /\ replayOf[r] \in DeliveriesOf(event[r])
          /\ IsLatest(replayOf[r], event[r])
          /\ pc[r] = "filled" => \A x \in DeliveriesOf(event[r]) : id[x] < id[r]

ChainInv == IdsInv /\ LatestInv /\ ReplayChain

\* The next id follows the one just given.
LEMMA NextIdGrows ==
    ASSUME TypeOK, NEW r \in Request, id[r] = 0, id' = [id EXCEPT ![r] = NextId]
    PROVE  NextId' = NextId + 1
<1> DEFINE S == {q \in Request : id[q] # 0}
<1>1. IsFiniteSet(S) /\ r \notin S
  BY ApiAssumption, FS_Subset
<1>2. S' = S \cup {r}
  BY IdIsNat DEF TypeOK
<1>3. Cardinality(S) \in Nat /\ Cardinality(S \cup {r}) = Cardinality(S) + 1
  BY <1>1, FS_CardinalityType, FS_AddElement
<1> QED BY <1>2, <1>3 DEF NextId

\* Every step keeps the chain.  A commit does not come between a replay and the
\* delivery it read: both transactions would hold the event.
LEMMA ChainNext == ApiInv /\ ChainInv /\ [Next]_vars => ChainInv'
<1> SUFFICES ASSUME ApiInv, ChainInv, [Next]_vars PROVE ChainInv'
  OBVIOUS
<1> USE DEF Goto
<1>0. /\ TypeOK /\ IdsInv /\ LatestInv /\ ReplayChain
      /\ \A d \in deliveries : d \in Request /\ pc[d] = "answered"
  BY DEF ApiInv, TypeOK, RowsInv, ChainInv
\* Steps that give no id, write no row and take no request past its read.
<1>a. ASSUME UNCHANGED <<id, replayOf, deliveries>>,
             \A d \in deliveries : event'[d] = event[d],
             \A r \in Request :
                \/ /\ pc'[r] \in {"begun", "inserted", "duplicate", "checked"}
                   /\ pc[r] \in {"new", "begun", "inserted", "duplicate", "checked", "read"}
                \/ pc'[r] = "answered"
                \/ pc'[r] = pc[r] /\ key'[r] = key[r] /\ event'[r] = event[r]
      PROVE  ChainInv'
  <2>1. \A e : DeliveriesOf(e)' = DeliveriesOf(e)
    BY <1>a DEF DeliveriesOf
  <2>2. NextId' = NextId
    BY <1>a DEF NextId
  <2>3. IdsInv'
    BY <1>0, <1>a, <2>2 DEF IdsInv
  <2>4. LatestInv'
    BY <1>0, <1>a, <2>1 DEF LatestInv, IsLatest, IsSubmit
  <2>5. ReplayChain'
    BY <1>0, <1>a, <2>1 DEF ReplayChain
  <2> QED BY <2>3, <2>4, <2>5 DEF ChainInv
<1>1. CASE UNCHANGED vars
  BY <1>1, <1>a DEF vars, requestVars, tableVars
<1>2. ASSUME NEW d \in Request, Finish(d) PROVE ChainInv'
  BY <1>2, <1>a DEF Finish, requestVars
<1>3. ASSUME NEW r \in Request, NEW k \in Key, Submit(r, k) PROVE ChainInv'
  BY <1>0, <1>3, <1>a DEF Submit, tableVars, TypeOK
<1>4. ASSUME NEW r \in Request, NEW e \in events \cup {NoRequest}, Replay(r, e)
      PROVE  ChainInv'
  BY <1>0, <1>4, <1>a DEF Replay, tableVars, TypeOK
<1>5. ASSUME NEW r \in Request, InsertEvent(r) PROVE ChainInv'
  BY <1>0, <1>5, <1>a DEF InsertEvent, tableVars, TypeOK
<1>6. ASSUME NEW r \in Request, InsertConflicts(r) \/ CheckActive(r) PROVE ChainInv'
  BY <1>0, <1>6, <1>a DEF InsertConflicts, CheckActive, tableVars, TypeOK
<1>7. ASSUME NEW r \in Request,
             ReadBack(r) \/ FindActive(r) \/ FindNone(r) \/ GivesUp(r)
      PROVE  ChainInv'
  BY <1>0, <1>7, <1>a
     DEF ReadBack, FindActive, FindNone, GivesUp, Fail, DeadlockVictim, RollBack, Answer,
         tableVars, TypeOK
<1>8. ASSUME NEW r \in Request, ReadLatest(r) PROVE ChainInv'
  <2>1. PICK d \in DeliveriesOf(event[r]) :
           IsLatest(d, event[r]) /\ replayOf' = [replayOf EXCEPT ![r] = d]
    BY <1>8 DEF ReadLatest
  <2>2. /\ ~IsSubmit(r) /\ pc[r] = "checked" /\ pc' = [pc EXCEPT ![r] = "read"]
        /\ UNCHANGED <<key, event, id, deliveries>>
    BY <1>8 DEF ReadLatest, tableVars
  <2>3. \A e : DeliveriesOf(e)' = DeliveriesOf(e)
    BY <2>2 DEF DeliveriesOf
  <2>4. NextId' = NextId
    BY <2>2 DEF NextId
  <2>5. IdsInv'
    BY <1>0, <2>2, <2>4 DEF IdsInv, TypeOK
  <2>6. LatestInv'
    BY <1>0, <2>1, <2>2, <2>3 DEF LatestInv, IsLatest, IsSubmit, TypeOK
  <2>7. ReplayChain'
    BY <1>0, <2>1, <2>2, <2>3 DEF ReplayChain, DeliveriesOf, TypeOK
  <2> QED BY <2>5, <2>6, <2>7 DEF ChainInv
<1>9. ASSUME NEW r \in Request, Inserts(r) PROVE ChainInv'
  <2>1. /\ pc' = [pc EXCEPT ![r] = "filled"] /\ id' = [id EXCEPT ![r] = NextId]
        /\ IF IsSubmit(r) THEN pc[r] = "inserted" ELSE pc[r] = "read"
        /\ UNCHANGED <<key, event, replayOf, deliveries>>
    BY <1>9 DEF Inserts, InsertDelivery, InsertReplay, InsertPending, tableVars
  <2>2. \A e : DeliveriesOf(e)' = DeliveriesOf(e)
    BY <2>1 DEF DeliveriesOf
  <2>3. id[r] = 0 /\ r \notin deliveries
    BY <1>0, <2>1 DEF IdsInv
  <2>4. NextId' = NextId + 1
    BY <1>0, <2>1, <2>3, NextIdGrows
  <2>5. \A q \in Request : id[q] \in Nat /\ id'[q] = IF q = r THEN NextId ELSE id[q]
    BY <1>0, <2>1 DEF TypeOK
  <2>6. \A e : \A x \in DeliveriesOf(e) : x \in Request /\ id'[x] = id[x] /\ id[x] < NextId
    BY <1>0, <2>3, <2>5 DEF DeliveriesOf, IdsInv
  <2>7. IdsInv'
    BY <1>0, <2>1, <2>4, <2>5, IdIsNat DEF IdsInv, TypeOK
  <2>8. LatestInv'
    <3> SUFFICES ASSUME NEW q \in Request, ~IsSubmit(q), pc'[q] \in {"read", "filled"}
                 PROVE  /\ replayOf[q] \in DeliveriesOf(event[q])
                        /\ \A x \in DeliveriesOf(event[q]) : id[x] <= id[replayOf[q]]
                        /\ pc'[q] = "filled" =>
                              \A x \in DeliveriesOf(event[q]) : id[x] < id'[q]
      BY <2>1, <2>2, <2>6 DEF LatestInv, IsLatest, IsSubmit
    <3>1. pc[q] \in {"read", "filled"} /\ (q # r => pc'[q] = pc[q])
      BY <1>0, <2>1 DEF TypeOK
    <3> QED BY <1>0, <2>5, <2>6, <3>1 DEF LatestInv, IsLatest
  <2>9. ReplayChain'
    BY <1>0, <2>1, <2>2, <2>6 DEF ReplayChain, DeliveriesOf
  <2> QED BY <2>7, <2>8, <2>9 DEF ChainInv
<1>10. ASSUME NEW r \in Request, Commits(r) PROVE ChainInv'
  <2>1. /\ pc[r] = "filled" /\ pc' = [pc EXCEPT ![r] = "answered"]
        /\ deliveries' = deliveries \cup {r}
        /\ UNCHANGED <<key, event, id, replayOf>>
    BY <1>10 DEF Commits, Commit, CommitLost, CommitRows, Answer
  <2>2. \A e : DeliveriesOf(e)' = IF e = event[r] THEN DeliveriesOf(e) \cup {r}
                                                  ELSE DeliveriesOf(e)
    BY <2>1 DEF DeliveriesOf
  <2>3. NextId' = NextId
    BY <2>1 DEF NextId
  <2>4. IdsInv'
    BY <1>0, <2>1, <2>3 DEF IdsInv, TypeOK
  <2>5. ASSUME NEW q \in Request, ~IsSubmit(q), pc'[q] \in {"read", "filled"}
        PROVE  event[q] # event[r] /\ pc[q] = pc'[q]
    <3>1. q # r /\ pc[q] = pc'[q] /\ event[q] \in events
      BY <1>0, <2>1, <2>5 DEF ApiInv, RowsInv, TypeOK
    <3>2. CASE IsSubmit(r)
      BY <2>1, <3>1, <3>2 DEF ApiInv, RowsInv
    <3>3. CASE ~IsSubmit(r)
      <4>1. Holds(r, EventLock(event[r])) /\ Holds(q, EventLock(event[q]))
        BY <2>1, <2>5, <3>1, <3>3 DEF ApiInv, LocksInv, LocksHeld
      <4> QED BY <3>1, <4>1 DEF ApiInv, LocksInv, LocksExclusive
    <3> QED BY <3>1, <3>2, <3>3
  <2>6. LatestInv'
    BY <1>0, <2>1, <2>2, <2>5 DEF LatestInv, IsLatest, IsSubmit
  <2>7. /\ r \notin deliveries
        /\ IsSubmit(r) => DeliveriesOf(event[r]) = {}
    BY <2>1 DEF ApiInv, RowsInv, DeliveriesOf
  <2>8. \A x \in DeliveriesOf(event[r]) :
           /\ id[x] < id[r]
           /\ replayOf[r] \in DeliveriesOf(event[r])
           /\ id[x] <= id[replayOf[r]]
    BY <1>0, <2>1, <2>7 DEF LatestInv, IsLatest
  <2>9. ReplayChain'
    <3> SUFFICES ASSUME NEW d \in deliveries', NEW c \in DeliveriesOf(event[d])',
                        id[c] < id[d]
                 PROVE  /\ replayOf[d] \in DeliveriesOf(event[d])
                        /\ id[replayOf[d]] \in id[c]..(id[d] - 1)
      BY <2>1, <2>2 DEF ReplayChain
    <3>0. /\ \A x \in Request : id[x] \in Nat
          /\ \A e : DeliveriesOf(e) \subseteq Request /\ DeliveriesOf(e) \subseteq deliveries
      BY <1>0 DEF TypeOK, DeliveriesOf
    <3>1. CASE d = r
      <4>1. c \in DeliveriesOf(event[r])
        BY <2>1, <3>0, <3>1 DEF DeliveriesOf
      <4> QED BY <2>8, <3>0, <3>1, <4>1
    <3>2. CASE d # r
      <4>1. d \in deliveries /\ d \in DeliveriesOf(event[d])
        BY <2>1, <3>2 DEF DeliveriesOf
      <4>2. c \in DeliveriesOf(event[d])
        BY <2>1, <2>8, <3>0, <4>1 DEF DeliveriesOf
      <4> QED BY <1>0, <4>1, <4>2 DEF ReplayChain
    <3> QED BY <3>1, <3>2
  <2> QED BY <2>4, <2>6, <2>9 DEF ChainInv
<1> QED BY Steps, <1>1, <1>2, <1>3, <1>4, <1>5, <1>6, <1>7, <1>8, <1>9, <1>10

\* However replays and submissions overlap, the deliveries of an event form one
\* chain: each replays the one before it.
THEOREM ReplaysFormChain == Spec => []ReplayChain
<1>1. Init => ChainInv
  <2>1. ASSUME Init PROVE IdsInv
    <3>1. NextId \in Nat \ {0}
      BY IdIsNat
    <3> QED BY <2>1, <3>1 DEF Init, IdsInv
  <2> QED BY <2>1 DEF Init, ChainInv, LatestInv, ReplayChain, DeliveriesOf
<1>2. ChainInv => ReplayChain
  BY DEF ChainInv
<1> QED BY <1>1, <1>2, ApiInvInit, ApiInvNext, ChainNext, PTL DEF Spec

----------------------------------------------------------------------------
(* Deadlocks *)

\* Who may hold which lock: what LocksHeld says, the other way round.
MayHold(r, l) ==
    \/ IsSubmit(r) /\ pc[r] \in {"inserted", "filled"} /\ l = KeyLock(key[r])
    \/ /\ ~IsSubmit(r) /\ pc[r] \in {"checked", "read", "filled"}
       /\ l \in {GapLock, EventLock(event[r])}
    \/ pc[r] = "filled" /\ l = RowLock

HoldersInv == \A r \in Request : \A l : Holds(r, l) => MayHold(r, l)

\* Every step keeps that.
LEMMA HoldersNext == TypeOK /\ RowsInv /\ HoldersInv /\ [Next]_vars => HoldersInv'
<1> SUFFICES ASSUME TypeOK, RowsInv, HoldersInv, [Next]_vars PROVE HoldersInv'
  OBVIOUS
<1> USE DEF Goto
\* The request that moves takes one lock, which it may hold, and keeps the others.
<1>a. ASSUME NEW r \in Request, NEW l, Acquire(r, l), MayHold(r, l)',
             \A x : MayHold(r, x) => MayHold(r, x)',
             UNCHANGED <<key, event>>, \A q \in Request \ {r} : pc'[q] = pc[q]
      PROVE  HoldersInv'
  <2>1. \A q, x : Holds(q, x)' <=> Holds(q, x) \/ (q = r /\ x = l)
    BY <1>a, Acquired
  <2>2. \A q \in Request \ {r} : \A x : MayHold(q, x) => MayHold(q, x)'
    BY <1>a DEF MayHold, IsSubmit
  <2> QED BY <1>a, <2>1, <2>2 DEF HoldersInv
\* It gives up all its locks.
<1>b. ASSUME NEW r \in Request, Release(r), UNCHANGED <<key, event>>,
             \A q \in Request \ {r} : pc'[q] = pc[q]
      PROVE  HoldersInv'
  <2>1. \A q, x : Holds(q, x)' <=> Holds(q, x) /\ q # r
    BY <1>b, Released
  <2>2. \A q \in Request \ {r} : \A x : MayHold(q, x) => MayHold(q, x)'
    BY <1>b DEF MayHold, IsSubmit
  <2> QED BY <2>1, <2>2 DEF HoldersInv
\* It has none.
<1>c. ASSUME NEW r \in Request, pc[r] \in {"new", "duplicate"}, locks' = locks,
             \A q \in Request \ {r} :
                pc'[q] = pc[q] /\ key'[q] = key[q] /\ event'[q] = event[q]
      PROVE  HoldersInv'
  <2>1. \A x : ~Holds(r, x)
    BY <1>c DEF HoldersInv, MayHold
  <2>2. \A q \in Request \ {r} : \A x : MayHold(q, x) => MayHold(q, x)'
    BY <1>c DEF MayHold, IsSubmit
  <2>3. \A q, x : Holds(q, x)' <=> Holds(q, x)
    BY <1>c DEF Holds
  <2> QED BY <2>1, <2>2, <2>3 DEF HoldersInv
<1>1. CASE UNCHANGED vars \/ \E d \in Request : Finish(d)
  BY <1>1 DEF vars, Finish, requestVars, HoldersInv, Holds, MayHold, IsSubmit
<1>2. ASSUME NEW r \in Request,
             (\E k \in Key : Submit(r, k)) \/ \E e \in events \cup {NoRequest} : Replay(r, e)
      PROVE  HoldersInv'
  BY <1>2, <1>c DEF Submit, Replay, tableVars, TypeOK
<1>3. ASSUME NEW r \in Request, InsertEvent(r) PROVE HoldersInv'
  <2>1. \A x : ~MayHold(r, x)
    BY <1>3 DEF InsertEvent, MayHold
  <2>2. /\ Acquire(r, KeyLock(key[r])) /\ UNCHANGED key
        /\ pc' = [pc EXCEPT ![r] = "inserted"] /\ event' = [event EXCEPT ![r] = r]
        /\ IsSubmit(r)
    BY <1>3 DEF InsertEvent
  <2>3. \A q, x : Holds(q, x)' <=> Holds(q, x) \/ (q = r /\ x = KeyLock(key[r]))
    BY <2>2, Acquired
  <2>4. MayHold(r, KeyLock(key[r]))'
    BY <2>2 DEF MayHold, IsSubmit, TypeOK
  <2>5. \A q \in Request \ {r} : \A x : MayHold(q, x) => MayHold(q, x)'
    BY <2>2 DEF MayHold, IsSubmit, TypeOK
  <2> QED BY <2>1, <2>2, <2>3, <2>4, <2>5 DEF HoldersInv
<1>4. ASSUME NEW r \in Request, ReadBack(r) PROVE HoldersInv'
  BY <1>4, <1>c DEF ReadBack, Answer, TypeOK
<1>5. ASSUME NEW r \in Request, Inserts(r) PROVE HoldersInv'
  <2>1. /\ Acquire(r, RowLock) /\ UNCHANGED <<key, event>>
        /\ pc' = [pc EXCEPT ![r] = "filled"]
        /\ IF IsSubmit(r) THEN pc[r] = "inserted" ELSE pc[r] = "read"
    BY <1>5 DEF Inserts, InsertDelivery, InsertReplay, InsertPending
  <2>2. MayHold(r, RowLock)' /\ \A x : MayHold(r, x) => MayHold(r, x)'
    BY <2>1 DEF MayHold, IsSubmit, TypeOK
  <2> QED BY <1>a, <2>1, <2>2 DEF TypeOK
<1>6. ASSUME NEW r \in Request, CheckActive(r) PROVE HoldersInv'
  <2>1. PICK l \in {GapLock, EventLock(event[r])} : Acquire(r, l)
    BY <1>6 DEF CheckActive, StatusIndex, EventIndex
  <2>2. /\ ~IsSubmit(r) /\ pc[r] = "begun" /\ UNCHANGED <<key, event>>
        /\ pc' = [pc EXCEPT ![r] = "checked"]
    BY <1>6 DEF CheckActive
  <2>3. MayHold(r, l)' /\ \A x : ~MayHold(r, x)
    BY <2>1, <2>2 DEF MayHold, IsSubmit, TypeOK
  <2> QED BY <1>a, <2>1, <2>2, <2>3 DEF TypeOK
<1>7. ASSUME NEW r \in Request, ReadLatest(r) PROVE HoldersInv'
  <2>1. /\ Acquire(r, EventLock(event[r])) /\ UNCHANGED <<key, event>>
        /\ ~IsSubmit(r) /\ pc[r] = "checked" /\ pc' = [pc EXCEPT ![r] = "read"]
    BY <1>7 DEF ReadLatest
  <2>2. MayHold(r, EventLock(event[r]))' /\ \A x : MayHold(r, x) => MayHold(r, x)'
    BY <2>1 DEF MayHold, IsSubmit, TypeOK
  <2> QED BY <1>a, <2>1, <2>2 DEF TypeOK
<1>8. ASSUME NEW r \in Request,
             InsertConflicts(r) \/ FindActive(r) \/ FindNone(r) \/ Commits(r) \/ GivesUp(r)
      PROVE  HoldersInv'
  <2>1. Release(r) /\ UNCHANGED <<key, event>> /\ \A q \in Request \ {r} : pc'[q] = pc[q]
    BY <1>8 DEF InsertConflicts, FindActive, FindNone, Commits, Commit, CommitLost,
                CommitRows, GivesUp, Fail, DeadlockVictim, RollBack, Answer, TypeOK
  <2> QED BY <1>b, <2>1
<1> QED BY Steps, <1>1, <1>2, <1>3, <1>4, <1>5, <1>6, <1>7, <1>8

MutualWait == \E q, r \in Request : q # r /\ WaitsFor(q, r) /\ WaitsFor(r, q)

\* What a request waits for, by where it is.
LEMMA Waits ==
    ASSUME NEW r \in Request, Waiting(r)
    PROVE  /\ pc[r] \in {"begun", "inserted", "checked", "read"}
           /\ pc[r] \in {"inserted", "read"} =>
                 \E q \in Request \ {r} : Holds(q, GapLock)
           /\ pc[r] = "checked" =>
                 \E q \in Request \ {r} : Holds(q, EventLock(event[r]))
           /\ pc[r] = "begun" => \E q \in Request \ {r} : \E l : Holds(q, l)
BY DEF Waiting, WaitsFor, Wanted, Holds

\* A replay that has checked for active deliveries and waits for its event has
\* the gap; whoever has the event goes on, or waits for this gap.
LEMMA CheckedGoesOn ==
    ASSUME LocksInv, HoldersInv, NEW r \in Request, pc[r] = "checked"
    PROVE  \/ \E q \in Request : InService(q) /\ ~Waiting(q)
           \/ MutualWait
<1> SUFFICES ASSUME \A q \in Request : InService(q) => Waiting(q)
             PROVE  MutualWait
  OBVIOUS
<1>1. PICK q \in Request \ {r} : Holds(q, EventLock(event[r]))
  BY Waits DEF InService
<1>2. Holds(r, GapLock)
  BY <1>1 DEF LocksInv, LocksHeld, LocksExclusive
<1>3. event[q] = event[r] /\ ~IsSubmit(q) /\ pc[q] \in {"checked", "read", "filled"}
  BY <1>1, LocksDiffer DEF HoldersInv, MayHold
<1>4. pc[q] # "filled"
  BY <1>3, Waits DEF InService
<1>5. pc[q] # "checked"
  <2> SUFFICES ASSUME pc[q] = "checked" PROVE FALSE
    OBVIOUS
  <2>1. PICK p \in Request \ {q} : Holds(p, EventLock(event[q]))
    BY Waits DEF InService
  <2> QED BY <1>1, <1>3, <2>1 DEF LocksInv, LocksExclusive
<1>6. WaitsFor(q, r)
  BY <1>2, <1>3, <1>4, <1>5 DEF WaitsFor, Wanted, Holds
<1>7. WaitsFor(r, q)
  BY <1>1 DEF WaitsFor, Wanted, Holds
<1> QED BY <1>6, <1>7 DEF MutualWait

\* If all wait, two wait for each other.  When none has just checked, those that
\* hold the gap are replays that want it, so they are two or none.  If none,
\* nobody waits for the gap, so nobody has inserted or read anything; then there
\* is no lock at all to wait for.
LEMMA SomebodyGoesOn == TypeOK /\ LocksInv /\ HoldersInv => DeadlocksAreOfTwo
<1> SUFFICES ASSUME TypeOK, LocksInv, HoldersInv, NEW s \in Request, InService(s),
                    \A q \in Request : InService(q) => Waiting(q)
             PROVE  MutualWait
  BY DEF DeadlocksAreOfTwo, MutualWait
<1>1. CASE \E r \in Request : pc[r] = "checked"
  BY <1>1, CheckedGoesOn
<1>2. CASE \A r \in Request : pc[r] # "checked"
  <2>1. \A r \in Request : pc[r] \notin {"filled", "duplicate"}
    BY Waits DEF InService
  <2>2. \A r \in Request : Holds(r, GapLock) => pc[r] = "read"
    BY <1>2, <2>1, LocksDiffer DEF HoldersInv, MayHold
  <2>3. CASE \E r \in Request : pc[r] \in {"inserted", "read"}
    <3>1. PICK r \in Request : pc[r] \in {"inserted", "read"}
      BY <2>3
    <3>2. PICK q \in Request \ {r} : Holds(q, GapLock)
      BY <3>1, Waits DEF InService
    <3>3. pc[q] = "read"
      BY <2>2, <3>2
    <3>4. PICK p \in Request \ {q} : Holds(p, GapLock)
      BY <3>3, Waits DEF InService
    <3>5. pc[p] = "read"
      BY <2>2, <3>4
    <3>6. WaitsFor(p, q) /\ WaitsFor(q, p)
      BY <3>2, <3>3, <3>4, <3>5 DEF WaitsFor, Wanted, Holds
    <3> QED BY <3>4, <3>6 DEF MutualWait
  <2>4. CASE \A r \in Request : pc[r] \notin {"inserted", "read"}
    <3>1. \A r \in Request : \A l : ~Holds(r, l)
      BY <1>2, <2>1, <2>4 DEF HoldersInv, MayHold
    <3>2. pc[s] = "begun"
      BY <2>4, <1>2, Waits
    <3> QED BY <3>1, <3>2, Waits
  <2> QED BY <2>3, <2>4
<1> QED BY <1>1, <1>2

\* However many requests are in service, the locks they wait for form no cycle
\* of three or more: one goes on, or two are a deadlock that InnoDB breaks.
THEOREM DeadlocksAreBroken == Spec => []DeadlocksAreOfTwo
<1>1. Init => HoldersInv
  BY DEF Init, HoldersInv, Holds
<1>2. ApiInv /\ HoldersInv => DeadlocksAreOfTwo
  BY SomebodyGoesOn DEF ApiInv
<1>3. ApiInv /\ HoldersInv /\ [Next]_vars => HoldersInv'
  BY HoldersNext DEF ApiInv
<1> QED BY <1>1, <1>2, <1>3, ApiInvInit, ApiInvNext, PTL DEF Spec

=============================================================================
