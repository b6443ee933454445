---------------------------- MODULE ClockProofs ----------------------------
(***************************************************************************)
(* Proofs about DeliveryClock.                                             *)
(*                                                                         *)
(* WorkInv ties the lease of a row to the age of its job: what has passed  *)
(* of the one has passed of the other, so a row with a job cannot be       *)
(* claimed.  WaitInv ties the timestamps of a row to the time since the    *)
(* first attempt: NOW() reaches them no sooner than Gap after the attempt. *)
(***************************************************************************)
EXTENDS DeliveryClock, TLAPS

States == {"idle", "claiming", "sending", "writing"}

\* TypeOK, with what bounds the timestamps that are not written yet.
TypeInv ==
    /\ TypeOK
    /\ \A h \in Holder :
          /\ pc[h] = "claiming" /\ until[h] > 0 => until[h] <= ClaimLease + Offset[h]
          /\ pc[h] = "writing" /\ until[h] > 0 => until[h] <= 30 + Offset[h]

LEMMA GapType == \A n \in Nat : Gap(n) \in Nat /\ Backoff(n) \in 5..30
BY ClockAssumption DEF Gap, AtLeast0, Smaller, Backoff

LEMMA RecoveryType == RecoveryTime \in Nat
<1>1. Gap(1) \in Nat /\ Gap(2) \in Nat
    BY GapType
<1>2. CASE MaxAttempts = 1
    BY <1>2 DEF RecoveryTime
<1>3. CASE MaxAttempts # 1
  <2>1. MaxAttempts - 2 \in Nat
    BY <1>3, ClockAssumption
  <2>2. \A m, n \in Nat : m * n \in Nat
    OBVIOUS
  <2> QED
    BY <1>1, <1>3, <2>1, <2>2 DEF RecoveryTime
<1> QED
    BY <1>2, <1>3

LEMMA TypeInit == Init => TypeInv
BY RecoveryType, ClockAssumption DEF Init, TypeInv, TypeOK, Answer

\* What a holder does keeps the types.
LEMMA TypeHolder ==
    ASSUME TypeInv, NEW h \in Holder,
           \/ Begin(h) \/ Claim(h) \/ ClaimLost(h) \/ ClaimNothing(h)
           \/ SendEnds(h) \/ Settle(h) \/ Lose(h)
    PROVE  TypeInv'
<1> USE ClockAssumption DEF TypeInv, TypeOK, rowVars, jobVars, histVars
<1>1. CASE Begin(h)
    BY <1>1 DEF Begin, AtLeast0
<1>2. CASE Claim(h)
    BY <1>2 DEF Claim, ClaimRow
<1>3. CASE ClaimLost(h)
    BY <1>3 DEF ClaimLost, ClaimRow, Idle, Loss, Answer
<1>4. CASE ClaimNothing(h)
    BY <1>4 DEF ClaimNothing, Idle, Answer
<1>5. CASE SendEnds(h)
  <2>1. Backoff(attemptNo[h]) \in 5..30
    BY GapType
  <2> QED
    BY <1>5, <2>1 DEF SendEnds, AtLeast0
<1>6. CASE Settle(h)
    BY <1>6 DEF Settle, Idle, Answer, Terminal
<1>7. CASE Lose(h)
    BY <1>7 DEF Lose, Idle, Loss, Answer
<1> QED
    BY <1>1, <1>2, <1>3, <1>4, <1>5, <1>6, <1>7

LEMMA TypeSecond == TypeInv /\ Second => TypeInv'
<1> SUFFICES ASSUME TypeInv, Second PROVE TypeInv'
    OBVIOUS
<1> USE ClockAssumption, RecoveryType DEF TypeInv, TypeOK, Second
<1>1. \A n \in Nat : AtLeast0(n - 1) \in Nat /\ AtLeast0(n - 1) <= n
    BY DEF AtLeast0
<1>2. since' \in 0..RecoveryTime
    BY DEF Smaller
<1>3. /\ until' \in [Holder -> Nat] /\ age' \in [Holder -> Nat]
      /\ lockedFor' \in Nat /\ lockedFor' <= lockedFor
      /\ retryIn' \in Nat /\ retryIn' <= retryIn
      /\ \A h \in Holder : until'[h] <= until[h]
    BY <1>1
<1>4. lockedFor' > 0 => \E h \in Holder : lockedFor' <= ClaimLease + Offset[h]
    BY <1>3
<1>5. retryIn' > 0 => \E h \in Holder : retryIn' <= 30 + Offset[h]
    BY <1>3
<1>6. \A h \in Holder :
          /\ pc'[h] = "claiming" /\ until'[h] > 0 => until'[h] <= ClaimLease + Offset[h]
          /\ pc'[h] = "writing" /\ until'[h] > 0 => until'[h] <= 30 + Offset[h]
    BY <1>3
<1> QED
    BY <1>2, <1>3, <1>4, <1>5, <1>6

LEMMA TypeNext == TypeInv /\ [Next]_vars => TypeInv'
<1>1. TypeInv /\ UNCHANGED vars => TypeInv'
    BY DEF TypeInv, TypeOK, vars, rowVars, jobVars, histVars
<1> QED
    BY <1>1, TypeHolder, TypeSecond DEF Next

\* No row is locked for longer than a lease, none backs off for longer than 30
\* seconds, but for what the clocks differ.
THEOREM ClockTypes == Spec => []TypeOK
<1>1. Spec => []TypeInv
    BY TypeInit, TypeNext, PTL DEF Spec
<1> QED
    BY <1>1, PTL DEF TypeInv

----------------------------------------------------------------------------
(* One holder *)

\* What is left of a lease is what its age left of it.
Leased(h) ==
    /\ pc[h] = "idle" => age[h] = 0
    /\ pc[h] = "claiming" =>
          age[h] <= ClaimTime /\ until[h] >= ClaimLease + Offset[h] - age[h]
    /\ Working(h) =>
          /\ status = "running" /\ attemptNo[h] = attemptCount
          /\ age[h] <= JobTime /\ lockedFor >= ClaimLease + Offset[h] - age[h]

Alone == \A g, h \in Holder : Working(g) /\ Working(h) => g = h

\* A row that nobody works on and that is not settled has an attempt left.
Counted ==
    /\ attemptCount <= MaxAttempts + losses
    /\ status \notin Terminal /\ (\A h \in Holder : ~Working(h)) =>
           attemptCount < MaxAttempts + losses

WorkInv == LeasesCover => Alone /\ Counted /\ \A h \in Holder : Leased(h)

\* While anybody works on the row its lease has not ended.
LEMMA WorkedIsNotClaimable ==
    ASSUME TypeInv, LeasesCover, NEW h \in Holder, Leased(h), Working(h)
    PROVE  ~Claimable
BY ClockAssumption DEF TypeInv, TypeOK, LeasesCover, Leased, Claimable

LEMMA WorkHolder ==
    ASSUME TypeInv, LeasesCover, Alone, Counted, \A g \in Holder : Leased(g), NEW h \in Holder,
           \/ Begin(h) \/ Claim(h) \/ ClaimLost(h) \/ ClaimNothing(h)
           \/ SendEnds(h) \/ Settle(h) \/ Lose(h)
    PROVE  Alone' /\ Counted' /\ \A g \in Holder : Leased(g)'
<1> USE ClockAssumption
<1> DEFINE TypeFacts ==
        /\ pc \in [Holder -> States] /\ attemptNo \in [Holder -> Nat]
        /\ until \in [Holder -> Nat] /\ age \in [Holder -> Nat] /\ answer \in [Holder -> Answer]
        /\ attemptCount \in Nat /\ lockedFor \in Nat /\ losses \in Nat
        /\ status \in {"pending", "running"} \cup Terminal
<1>1. TypeFacts
    BY DEF TypeInv, TypeOK, States
<1>2. CASE Begin(h)
    BY <1>1, <1>2 DEF Begin, Alone, Counted, Leased, Working, AtLeast0, rowVars, histVars
<1>3. ASSUME ClaimRow(h)
      PROVE  /\ \A g \in Holder : ~Working(g)
             /\ status' = "running" /\ attemptCount' = attemptCount + 1 /\ lockedFor' = until[h]
             /\ attemptCount < MaxAttempts + losses
             /\ until[h] >= ClaimLease + Offset[h] - age[h] /\ age[h] <= JobTime
  <2>1. \A g \in Holder : ~Working(g)
    BY <1>3, WorkedIsNotClaimable DEF ClaimRow
  <2> QED
    BY <1>1, <1>3, <2>1 DEF ClaimRow, Claimable, Counted, Terminal, Leased
<1>4. CASE Claim(h)
  <2>1. ClaimRow(h)
    BY <1>4 DEF Claim
  <2>2. /\ pc' = [pc EXCEPT ![h] = "sending"]
        /\ attemptNo' = [attemptNo EXCEPT ![h] = attemptCount + 1]
        /\ UNCHANGED <<until, age, losses>>
    BY <1>4 DEF Claim
  <2>3. Alone' /\ Counted'
    BY <1>1, <1>3, <2>1, <2>2 DEF Alone, Counted, Working, Terminal
  <2>4. \A g \in Holder : Leased(g)'
    BY <1>1, <1>3, <2>1, <2>2 DEF Leased, Working
  <2> QED
    BY <2>3, <2>4
<1>5. CASE ClaimLost(h)
  <2>1. ClaimRow(h) /\ Idle(h) /\ losses' = losses + 1
    BY <1>5 DEF ClaimLost, Loss
  <2>2. Alone' /\ Counted'
    BY <1>1, <1>3, <2>1 DEF Alone, Counted, Working, Idle, Terminal
  <2>3. \A g \in Holder : Leased(g)'
    BY <1>1, <1>3, <2>1 DEF Leased, Working, Idle
  <2> QED
    BY <2>2, <2>3
<1>6. CASE ClaimNothing(h)
    BY <1>1, <1>6 DEF ClaimNothing, Idle, Alone, Counted, Leased, Working, rowVars, histVars
<1>7. CASE SendEnds(h)
    BY <1>1, <1>7 DEF SendEnds, Alone, Counted, Leased, Working, rowVars
<1>8. CASE Settle(h)
  <2>1. \A g \in Holder \ {h} : ~Working(g)
    BY <1>8 DEF Settle, Alone, Working
  <2>2. status = "running" /\ attemptNo[h] = attemptCount
    BY <1>8 DEF Settle, Leased, Working
  <2>3. /\ pc' = [pc EXCEPT ![h] = "idle"] /\ age' = [age EXCEPT ![h] = 0]
        /\ attemptNo' = [attemptNo EXCEPT ![h] = 0] /\ until' = [until EXCEPT ![h] = 0]
        /\ UNCHANGED <<attemptCount, losses>>
    BY <1>8 DEF Settle, Idle, histVars
  <2>4. status' \in Terminal \/ attemptCount < MaxAttempts
    BY <1>8, <2>2 DEF Settle, Retries, Terminal
  <2>5. Alone' /\ Counted'
    BY <1>1, <2>1, <2>3, <2>4 DEF Alone, Counted, Working
  <2>6. \A g \in Holder : Leased(g)'
    BY <1>1, <2>1, <2>3 DEF Leased, Working
  <2> QED
    BY <2>5, <2>6
<1>9. CASE Lose(h)
  <2>1. Alone' /\ Counted'
    BY <1>1, <1>9 DEF Lose, Loss, Idle, Alone, Counted, Working, rowVars
  <2>2. \A g \in Holder : Leased(g)'
    BY <1>1, <1>9 DEF Lose, Idle, Leased, Working, rowVars
  <2> QED
    BY <2>1, <2>2
<1> QED
    BY <1>2, <1>4, <1>5, <1>6, <1>7, <1>8, <1>9

LEMMA WorkSecond ==
    ASSUME TypeInv, LeasesCover, Alone, Counted, \A g \in Holder : Leased(g), Second
    PROVE  Alone' /\ Counted' /\ \A g \in Holder : Leased(g)'
<1>1. Alone' /\ Counted'
    BY DEF Second, Alone, Counted, Working
<1>2. ASSUME NEW g \in Holder PROVE Leased(g)'
  <2>1. /\ age[g] \in Nat /\ until[g] \in Nat /\ lockedFor \in Nat /\ Offset[g] \in Int
        /\ pc'[g] = pc[g] /\ attemptNo'[g] = attemptNo[g]
        /\ age'[g] = IF pc[g] = "idle" THEN 0 ELSE age[g] + 1
        /\ until'[g] = AtLeast0(until[g] - 1) /\ lockedFor' = AtLeast0(lockedFor - 1)
    BY ClockAssumption DEF TypeInv, TypeOK, Second
  <2> QED
    BY <2>1, ClockAssumption DEF Second, Leased, Working, AtLeast0
<1> QED
    BY <1>1, <1>2

LEMMA WorkNext == TypeInv /\ WorkInv /\ [Next]_vars => WorkInv'
<1> SUFFICES ASSUME TypeInv, WorkInv, [Next]_vars, LeasesCover
             PROVE  Alone' /\ Counted' /\ \A g \in Holder : Leased(g)'
    BY DEF WorkInv, LeasesCover
<1>1. CASE UNCHANGED vars
    BY <1>1 DEF WorkInv, Alone, Counted, Leased, Working, vars, rowVars, jobVars, histVars
<1> QED
    BY <1>1, WorkHolder, WorkSecond DEF Next, WorkInv

LEMMA WorkInit == Init => WorkInv
BY ClockAssumption DEF Init, WorkInv, Alone, Counted, Leased, Working, Terminal

THEOREM WorkInvariant == Spec => [](TypeInv /\ WorkInv)
BY TypeInit, TypeNext, WorkInit, WorkNext, PTL DEF Spec

\* If a lease is longer than a job by the slowest clock, a delivery is sent by
\* one holder at a time, whatever the clocks of the others.
THEOREM HoldersExclude == Spec => []OneHolder
<1>1. WorkInv => OneHolder
    BY DEF WorkInv, OneHolder, Alone
<1> QED
    BY <1>1, WorkInvariant, PTL

\* Then only lost attempts go beyond MaxAttempts.
THEOREM AttemptsAreAccounted == Spec => []AttemptsAccounted
<1>1. WorkInv => AttemptsAccounted
    BY DEF WorkInv, AttemptsAccounted, Counted
<1> QED
    BY <1>1, WorkInvariant, PTL

\* And nobody is left to overwrite a final status.
THEOREM FinalDoesStay == Spec => FinalStays
<1> DEFINE Stays == LeasesCover /\ status \in Terminal => status' = status
<1>1. ASSUME TypeInv, WorkInv, Next PROVE Stays
  <2>1. \A h \in Holder : LeasesCover /\ Working(h) => status = "running"
    BY <1>1 DEF WorkInv, Leased
  <2> QED
    BY <1>1, <2>1 DEF Next, Begin, Claim, ClaimLost, ClaimRow, Claimable, ClaimNothing,
        SendEnds, Settle, Lose, Second, Working, rowVars, Terminal
<1>2. TypeInv /\ WorkInv /\ [Next]_vars => [Stays]_vars
    BY <1>1
<1> QED
    BY <1>2, WorkInvariant, PTL DEF Spec, FinalStays

----------------------------------------------------------------------------
(* How long the attempts last *)

\* No attempt after the n-th begins before Reach(n).
Reach(n) == IF n = 0 THEN 0 ELSE Gap(1) + (n - 1) * Gap(2)

LEMMA ReachStep ==
    ASSUME NEW n \in Nat
    PROVE  Reach(n) \in Nat /\ Reach(n + 1) \in Nat /\ Reach(n + 1) <= Reach(n) + Gap(n + 1)
<1>1. Gap(1) \in Nat /\ Gap(2) \in Nat /\ Gap(n + 1) \in Nat
    BY GapType
<1>2. n >= 1 => Gap(2) <= Gap(n + 1)
    BY ClockAssumption DEF Gap, Backoff, Smaller, AtLeast0
<1>3. \A k, g \in Nat : k * g \in Nat /\ (k + 1) * g = k * g + g
    OBVIOUS
<1>4. CASE n = 0
    BY <1>1, <1>4 DEF Reach
<1>5. CASE n >= 1
  <2> DEFINE k == n - 1
  <2>1. k \in Nat /\ n = k + 1
    BY <1>5
  <2>2. Reach(n) = Gap(1) + k * Gap(2) /\ Reach(n + 1) = Gap(1) + (k + 1) * Gap(2)
    BY <1>5, <2>1 DEF Reach
  <2>3. k * Gap(2) \in Nat /\ (k + 1) * Gap(2) = k * Gap(2) + Gap(2)
    BY <1>1, <1>3, <2>1
  <2> HIDE DEF k
  <2> QED
    BY <1>1, <1>2, <1>5, <2>2, <2>3
<1> QED
    BY <1>4, <1>5

LEMMA ReachEnd ==
    ASSUME NEW n \in Nat, n >= MaxAttempts - 1
    PROVE  Reach(n) >= RecoveryTime
<1>1. Gap(1) \in Nat /\ Gap(2) \in Nat
    BY GapType
<1>2. \A j, k, g \in Nat : j <= k => j * g <= k * g /\ j * g \in Nat /\ k * g \in Nat
  <2> SUFFICES ASSUME NEW j \in Nat, NEW k \in Nat, NEW g \in Nat, j <= k
               PROVE  j * g <= k * g /\ j * g \in Nat /\ k * g \in Nat
    OBVIOUS
  <2>1. PICK i \in Nat : k = j + i
    BY k - j \in Nat /\ k = j + (k - j)
  <2>2. k * g = j * g + i * g /\ i * g \in Nat /\ j * g \in Nat
    BY <2>1
  <2> QED
    BY <2>2
<1>3. CASE MaxAttempts = 1
    BY <1>3, ReachStep DEF RecoveryTime
<1>4. CASE MaxAttempts # 1
  <2>1. /\ MaxAttempts - 2 \in Nat /\ n - 1 \in Nat /\ MaxAttempts - 2 <= n - 1
        /\ n # 0
    BY <1>4, ClockAssumption
  <2>2. (MaxAttempts - 2) * Gap(2) <= (n - 1) * Gap(2)
    BY <1>1, <1>2, <2>1
  <2>3. (MaxAttempts - 2) * Gap(2) \in Nat /\ (n - 1) * Gap(2) \in Nat
    BY <1>1, <1>2, <2>1
  <2> QED
    BY <1>1, <1>4, <2>1, <2>2, <2>3 DEF Reach, RecoveryTime
<1> QED
    BY <1>3, <1>4

\* In x seconds it is Reach(n) after the first attempt, or enough.
Past(n, x) == since = RecoveryTime \/ since + x >= Reach(n)

WaitInv == LeasesCover =>
    /\ status # "pending" => attemptCount >= 1 /\ Past(attemptCount - 1, 0)
    /\ status = "pending" => Past(attemptCount, retryIn)
    /\ status = "running" => Past(attemptCount, lockedFor)
    /\ \A h \in Holder : pc[h] = "writing" =>
          Past(attemptNo[h], until[h]) /\ (outage => answer[h] \in Outage)
    /\ status = "dead" /\ outage => since >= RecoveryTime

LEMMA WaitInit == Init => WaitInv
BY GapType DEF Init, WaitInv, Past, Reach

\* What an answer from an outage leads to.
LEMMA OutageAnswers == \A a \in Outage : Retryable(a) /\ ~Delivered(a)
BY ClockAssumption DEF Outage, Retryable, Delivered

LEMMA WaitHolder ==
    ASSUME TypeInv, WorkInv, WaitInv, LeasesCover, NEW h \in Holder,
           \/ Begin(h) \/ Claim(h) \/ ClaimLost(h) \/ ClaimNothing(h)
           \/ SendEnds(h) \/ Settle(h) \/ Lose(h)
    PROVE  WaitInv'
<1> USE ClockAssumption
<1>1. /\ pc \in [Holder -> States] /\ attemptNo \in [Holder -> Nat]
      /\ until \in [Holder -> Nat] /\ age \in [Holder -> Nat] /\ answer \in [Holder -> Answer]
      /\ attemptCount \in Nat /\ lockedFor \in Nat /\ retryIn \in Nat /\ losses \in Nat
      /\ status \in {"pending", "running"} \cup Terminal
      /\ since \in Nat /\ RecoveryTime \in Nat /\ since <= RecoveryTime
    BY RecoveryType DEF TypeInv, TypeOK, States
<1>2. Alone /\ \A g \in Holder : Leased(g)
    BY DEF WorkInv
<1>3. CASE Begin(h)
    BY <1>1, <1>3 DEF Begin, WaitInv, Past, rowVars, histVars
<1>4. ASSUME ClaimRow(h)
      PROVE  /\ \A g \in Holder : ~Working(g)
             /\ attemptCount' = attemptCount + 1 /\ status' = "running"
             /\ Past(attemptCount - 1, 0)' /\ Past(attemptCount, lockedFor)'
  <2>1. \A g \in Holder : ~Working(g)
    BY <1>2, <1>4, WorkedIsNotClaimable DEF ClaimRow
  <2>2. Past(attemptCount, 0)
    BY <1>1, <1>4 DEF ClaimRow, Claimable, WaitInv
  <2>3. /\ attemptCount' = attemptCount + 1 /\ status' = "running" /\ lockedFor' = until[h]
        /\ since' = since /\ pc[h] = "claiming"
    BY <1>4 DEF ClaimRow
  <2>4. until[h] >= Gap(attemptCount + 1)
    BY <1>1, <1>2, <2>3 DEF Leased, Gap, AtLeast0, Smaller, Backoff
  <2>5. Reach(attemptCount) \in Nat /\ Reach(attemptCount + 1) \in Nat
        /\ Reach(attemptCount + 1) <= Reach(attemptCount) + Gap(attemptCount + 1)
    BY <1>1, ReachStep
  <2>6. Gap(attemptCount + 1) \in Nat
    BY <1>1, GapType
  <2>7. attemptCount' - 1 = attemptCount
    BY <1>1, <2>3
  <2>8. since = RecoveryTime \/ since + until[h] >= Reach(attemptCount + 1)
    BY <1>1, <2>2, <2>4, <2>5, <2>6 DEF Past
  <2> QED
    BY <1>1, <2>1, <2>2, <2>3, <2>7, <2>8 DEF Past
<1>5. CASE Claim(h)
  <2>1. ClaimRow(h) /\ pc' = [pc EXCEPT ![h] = "sending"] /\ UNCHANGED outage
    BY <1>5 DEF Claim, ClaimRow
  <2> QED
    BY <1>1, <1>4, <2>1 DEF WaitInv, Working
<1>6. CASE ClaimLost(h)
  <2>1. ClaimRow(h) /\ pc' = [pc EXCEPT ![h] = "idle"] /\ UNCHANGED outage
    BY <1>6 DEF ClaimLost, ClaimRow, Idle
  <2> QED
    BY <1>1, <1>4, <2>1 DEF WaitInv, Working
<1>7. CASE ClaimNothing(h)
    BY <1>1, <1>7 DEF ClaimNothing, Idle, WaitInv, Past, rowVars, histVars
<1>8. CASE SendEnds(h)
  <2> DEFINE n == attemptCount
  <2>1. /\ status = "running" /\ attemptNo[h] = n /\ \A g \in Holder \ {h} : ~Working(g)
    BY <1>2, <1>8 DEF SendEnds, Leased, Working, Alone
  <2>2. n >= 1 /\ n - 1 \in Nat /\ Past(n - 1, 0)
    BY <1>1, <2>1 DEF WaitInv
  <2>3. /\ pc' = [pc EXCEPT ![h] = "writing"]
        /\ until' = [until EXCEPT ![h] = AtLeast0(Backoff(n) + Offset[h])]
        /\ outage' => answer'[h] \in Outage
        /\ outage' => outage
        /\ UNCHANGED <<status, attemptCount, lockedFor, retryIn, attemptNo, since>>
    BY <1>1, <1>8, <2>1 DEF SendEnds, rowVars
  <2>4. until'[h] >= Gap(n) /\ until'[h] \in Nat
    BY <1>1, <2>3, GapType DEF Gap, AtLeast0, Smaller
  <2>5. /\ Reach(n - 1) \in Nat /\ Reach(n) \in Nat /\ Reach(n) <= Reach(n - 1) + Gap(n)
    <3>1. PICK k \in Nat : n = k + 1 /\ n - 1 = k
        BY <1>1, <2>2
    <3> QED
        BY <3>1, ReachStep
  <2>6. Gap(n) \in Nat
    BY <1>1, GapType
  <2>7. since' = RecoveryTime \/ since' + until'[h] >= Reach(n)
    BY <1>1, <2>2, <2>3, <2>4, <2>5, <2>6 DEF Past
  <2>8. Past(attemptNo[h], until[h])'
    BY <2>1, <2>3, <2>7 DEF Past
  <2>9. \A g \in Holder \ {h} : pc'[g] # "writing"
    BY <1>1, <2>1, <2>3 DEF Working
  <2> QED
    BY <2>1, <2>3, <2>8, <2>9 DEF WaitInv, Past
<1>9. CASE Settle(h)
  <2> DEFINE n == attemptCount
  <2>1. /\ status = "running" /\ attemptNo[h] = n /\ \A g \in Holder \ {h} : ~Working(g)
    BY <1>2, <1>9 DEF Settle, Leased, Working, Alone
  <2>2. n >= 1 /\ n - 1 \in Nat /\ Past(n - 1, 0) /\ Past(n, until[h])
        /\ (outage => answer[h] \in Outage)
    BY <1>1, <1>9, <2>1 DEF WaitInv, Settle
  <2>3. pc' = [pc EXCEPT ![h] = "idle"] /\ UNCHANGED <<attemptCount, since, outage>>
    BY <1>9 DEF Settle, Idle, histVars
  <2>4. \A g \in Holder : pc'[g] # "writing"
    BY <1>1, <2>1, <2>3 DEF Working
  <2>5. CASE status' = "pending"
    <3>1. retryIn' = until[h]
        BY <1>9, <2>5 DEF Settle
    <3> QED
        BY <2>2, <2>3, <2>4, <2>5, <3>1 DEF WaitInv, Past
  <2>6. CASE status' = "dead"
    <3>1. outage => since >= RecoveryTime
      <4>1. outage => n >= MaxAttempts
        BY <1>1, <1>9, <2>1, <2>2, <2>6, OutageAnswers DEF Settle, Retries
      <4>2. n >= MaxAttempts => Reach(n - 1) >= RecoveryTime /\ Reach(n - 1) \in Nat
        <5>1. PICK k \in Nat : n = k + 1 /\ n - 1 = k
            BY <1>1, <2>2
        <5>2. n >= MaxAttempts => k >= MaxAttempts - 1
            BY <1>1, <5>1
        <5> QED
            BY <5>1, <5>2, ReachEnd, ReachStep
      <4> QED
        BY <1>1, <2>2, <4>1, <4>2 DEF Past
    <3> QED
        BY <2>2, <2>3, <2>4, <2>6, <3>1 DEF WaitInv, Past
  <2>7. CASE status' = "succeeded"
    BY <2>2, <2>3, <2>4, <2>7 DEF WaitInv, Past
  <2> QED
    BY <1>9, <2>5, <2>6, <2>7 DEF Settle
<1>10. CASE Lose(h)
    BY <1>1, <1>10 DEF Lose, Idle, WaitInv, Past, rowVars
<1> QED
    BY <1>3, <1>5, <1>6, <1>7, <1>8, <1>9, <1>10

LEMMA WaitSecond ==
    ASSUME TypeInv, WorkInv, WaitInv, LeasesCover, Second
    PROVE  WaitInv'
<1>1. /\ attemptCount \in Nat /\ lockedFor \in Nat /\ retryIn \in Nat
      /\ until \in [Holder -> Nat] /\ attemptNo \in [Holder -> Nat]
      /\ since \in Nat /\ RecoveryTime \in Nat /\ since <= RecoveryTime
    BY RecoveryType DEF TypeInv, TypeOK
<1>2. /\ UNCHANGED <<status, attemptCount, pc, attemptNo, answer, outage>>
      /\ lockedFor' = AtLeast0(lockedFor - 1) /\ retryIn' = AtLeast0(retryIn - 1)
      /\ \A h \in Holder : until'[h] = AtLeast0(until[h] - 1)
      /\ since' = IF attemptCount = 0 THEN 0 ELSE Smaller(since + 1, RecoveryTime)
    BY DEF Second
<1>3. /\ since' <= RecoveryTime /\ since' \in Nat
      /\ attemptCount >= 1 => since' = RecoveryTime \/ since' = since + 1
    BY <1>1, <1>2 DEF Smaller
<1>4. ASSUME NEW n \in Nat, NEW x \in Nat, NEW y, y = AtLeast0(x - 1), Past(n, x),
             attemptCount >= 1
      PROVE  since' = RecoveryTime \/ since' + y >= Reach(n)
    BY <1>1, <1>3, <1>4, ReachStep DEF Past, AtLeast0
<1>5. ASSUME NEW n \in Nat, Past(n, 0), attemptCount >= 1
      PROVE  since' = RecoveryTime \/ since' + 0 >= Reach(n)
    BY <1>1, <1>3, <1>5, ReachStep DEF Past
<1>6. status # "pending" => attemptCount' >= 1 /\ Past(attemptCount - 1, 0)'
    BY <1>1, <1>2, <1>5 DEF WaitInv, Past
<1>7. status = "pending" => Past(attemptCount, retryIn)'
  <2>1. CASE attemptCount = 0
    BY <1>1, <1>2, <1>3, <2>1 DEF Past, Reach, AtLeast0
  <2>2. CASE attemptCount >= 1
    BY <1>1, <1>2, <1>4, <2>2 DEF WaitInv, Past
  <2> QED
    BY <1>1, <2>1, <2>2
<1>8. status = "running" => Past(attemptCount, lockedFor)'
    BY <1>1, <1>2, <1>4 DEF WaitInv, Past
<1>9. ASSUME NEW h \in Holder, pc[h] = "writing"
      PROVE  Past(attemptNo[h], until[h])' /\ (outage => answer[h] \in Outage)
  <2>1. attemptCount >= 1
    BY <1>9 DEF WorkInv, Leased, Working, WaitInv
  <2> QED
    BY <1>1, <1>2, <1>4, <1>9, <2>1 DEF WaitInv, Past
<1>10. status = "dead" /\ outage => since' >= RecoveryTime
    BY <1>1, <1>3 DEF WaitInv
<1> QED
    BY <1>2, <1>6, <1>7, <1>8, <1>9, <1>10 DEF WaitInv

LEMMA WaitNext == TypeInv /\ WorkInv /\ WaitInv /\ [Next]_vars => WaitInv'
<1> SUFFICES ASSUME TypeInv, WorkInv, WaitInv, [Next]_vars, LeasesCover PROVE WaitInv'
    BY DEF WaitInv, LeasesCover
<1>1. CASE UNCHANGED vars
    BY <1>1 DEF WaitInv, Past, vars, rowVars, jobVars, histVars
<1> QED
    BY <1>1, WaitHolder, WaitSecond DEF Next

\* If a lease is longer than a job by the slowest clock, no outage shorter than
\* RecoveryTime costs a delivery, whatever is lost on the way.
THEOREM OutagesAreSurvived == Spec => []OutageSurvived
<1>1. WaitInv => OutageSurvived
    BY DEF WaitInv, OutageSurvived
<1> QED
    BY <1>1, WorkInvariant, WaitInit, WaitNext, PTL DEF Spec

============================================================================
