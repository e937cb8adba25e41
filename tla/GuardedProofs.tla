---------------------------- MODULE GuardedProofs -----------------------------
(***************************************************************************)
(* Theorems about the executor with the guard plugged in: the car only     *)
(* reverses on a fresh and safe answer, an obstacle that stays is a        *)
(* standing car, and all that holds of the executor under any guard holds  *)
(* under this one.                                                         *)
(***************************************************************************)
EXTENDS GuardedManeuver, TLAPS

PlanOK == prims \in Seq(Prims) /\ idx \in Nat /\ (E!Active => idx \in 1..Len(prims))

\* Only driving publishes a speed.
StandsStill == state # "DRIVING" => motor.speed = 0

\* The guard's count of near checks never lags behind the ticks that saw them.
NearCounted ==
  /\ bad_hits \in 0..ConfirmHits /\ near_ticks \in 0..ConfirmHits
  /\ near_ticks <= bad_hits
  /\ age \in Nat

WatchInv == PlanOK /\ StandsStill /\ NearCounted /\ ReversingIsWatched /\ NearStopsCar

-----------------------------------------------------------------------------
\* A segment in hand goes forwards or backwards.
LEMMA DirectionTyping == ASSUME PlanOK, E!Active PROVE E!prim.direction \in {-1, 1}
<1>1. prims[idx] \in Prims
  BY DEF PlanOK
<1>2. QED
  BY <1>1, GuardedAssumption DEF E!prim, E!Prim

\* Both speeds roll the car.
LEMMA SpeedTyping ==
  /\ E!SpeedUnits \in Nat /\ E!SpeedUnits > 0
  /\ E!SlowUnits \in Nat /\ E!SlowUnits > 0
<1>1. E!SpeedUnits \in Nat /\ E!SpeedUnits > 0
  BY GuardedAssumption DEF E!SpeedUnits, E!AtLeast
<1>2. (E!SpeedUnits * SlowPercent) \div 100 \in Int
  BY <1>1, GuardedAssumption
<1>3. E!SlowUnits \in Nat /\ E!SlowUnits > 0
  BY <1>2, GuardedAssumption DEF E!SlowUnits, E!AtLeast
<1>4. QED
  BY <1>1, <1>3

\* The clock of the guard's readings stays a number.
LEMMA AgeTyping == ASSUME age \in Nat, NEW dt \in Nat PROVE G!AgeAfter(dt) \in Nat
BY GuardedAssumption DEF G!AgeAfter

\* Forwards the guard never stops the car.
LEMMA ForwardAnswer ==
  ASSUME NEW dt, G!Check(1, dt)
  PROVE  /\ verdict' = [safe |-> TRUE, slow |-> FALSE, reason |-> "forward"]
         /\ bad_hits' = bad_hits /\ age' = G!AgeAfter(dt)
<1>1. G!CheckForward(dt)
  BY DEF G!Check
<1>2. QED
  BY <1>1 DEF G!CheckForward, G!Answer

\* The answer the guard gives is the one that is published.
LEMMA AnswerFields ==
  ASSUME NEW safe, NEW slow, NEW reason, G!Answer(safe, slow, reason)
  PROVE  verdict'.safe = safe /\ verdict'.slow = slow /\ verdict'.reason = reason
<1>1. verdict' = [safe |-> safe, slow |-> slow, reason |-> reason]
  BY Zenon DEF G!Answer
<1>2. QED
  BY <1>1, Zenon

\* Backwards a safe answer rests on a fresh array, and only a safe one may be slow.
LEMMA ReverseAnswer ==
  ASSUME NEW dt, G!Check(-1, dt)
  PROVE  /\ verdict'.safe \in BOOLEAN /\ verdict'.slow \in BOOLEAN
         /\ verdict'.slow => verdict'.safe
         /\ verdict'.safe => fed' /\ age' <= StaleAfter /\ verdict'.reason # "forward"
         /\ age' = G!AgeAfter(dt)
<1>1. G!CheckReverse(dt)
  BY DEF G!Check
<1>2. age' = G!AgeAfter(dt)
  BY <1>1, Zenon DEF G!CheckReverse, G!CheckNeverFed, G!CheckStale, G!CheckNoEcho,
       G!CheckConfirming, G!CheckNear, G!CheckReleasing, G!CheckClear, G!Fresh
<1> DEFINE refused == verdict'.safe = FALSE /\ verdict'.slow = FALSE
           granted == /\ verdict'.safe = TRUE /\ verdict'.slow \in BOOLEAN
                      /\ verdict'.reason # "forward" /\ fed' /\ age' <= StaleAfter
<1>3. CASE G!CheckNeverFed(dt)
  <2>1. refused
    BY <1>3, AnswerFields, Zenon DEF G!CheckNeverFed
  <2>2. QED
    BY <1>2, <2>1
<1>4. CASE G!CheckStale(dt)
  <2>1. refused
    BY <1>4, AnswerFields, Zenon DEF G!CheckStale
  <2>2. QED
    BY <1>2, <2>1
<1>5. CASE G!CheckNoEcho(dt)
  <2>1. granted
    BY <1>5, AnswerFields, "no_echo" # "forward", Zenon DEF G!CheckNoEcho, G!Fresh
  <2>2. QED
    BY <1>2, <2>1
<1>6. CASE G!CheckConfirming(dt)
  <2>1. granted
    BY <1>6, AnswerFields, "confirming" # "forward", Zenon DEF G!CheckConfirming, G!Fresh
  <2>2. QED
    BY <1>2, <2>1
<1>7. CASE G!CheckNear(dt)
  <2>1. refused
    BY <1>7, AnswerFields, Zenon DEF G!CheckNear
  <2>2. QED
    BY <1>2, <2>1
<1>8. CASE G!CheckReleasing(dt)
  <2>1. refused
    BY <1>8, AnswerFields, Zenon DEF G!CheckReleasing
  <2>2. QED
    BY <1>2, <2>1
<1>9. CASE G!CheckClear(dt)
  <2>1. G!RearWithin(SlowDistance) \in BOOLEAN
    BY Zenon DEF G!RearWithin
  <2>2. granted
    BY <1>9, <2>1, AnswerFields, "clear" # "forward", Zenon DEF G!CheckClear, G!Fresh
  <2>3. QED
    BY <1>2, <2>2
<1>10. QED
  BY <1>1, <1>3, <1>4, <1>5, <1>6, <1>7, <1>8, <1>9, Zenon DEF G!CheckReverse

\* A reverse check that sees a live near rear counts it, and the one that brings the
\* count to the limit answers with a stop.
LEMMA NearIsCounted ==
  ASSUME NearCounted, NEW dt \in Nat, G!Check(-1, dt),
         near_ticks' = IF fed /\ age' <= StaleAfter /\ G!RearNear
                       THEN E!AtMost(ConfirmHits, near_ticks + 1) ELSE 0
  PROVE  NearCounted' /\ (near_ticks' >= ConfirmHits => ~verdict'.safe)
<1> USE GuardedAssumption DEF NearCounted
<1>1. G!CheckReverse(dt) /\ age' \in Nat
  BY AgeTyping, ReverseAnswer DEF G!Check
<1>2. ASSUME ~(fed /\ age' <= StaleAfter /\ G!RearNear), bad_hits' \in 0..ConfirmHits
      PROVE  NearCounted' /\ (near_ticks' >= ConfirmHits => ~verdict'.safe)
  BY <1>1, <1>2
<1>3. CASE G!CheckNeverFed(dt)
  BY <1>2, <1>3 DEF G!CheckNeverFed
<1>4. CASE G!CheckStale(dt)
  BY <1>1, <1>2, <1>4 DEF G!CheckStale
<1>5. CASE G!CheckNoEcho(dt)
  BY <1>2, <1>5 DEF G!CheckNoEcho, G!RearUnknown, G!RearNear, G!RearWithin
<1>6. CASE G!CheckConfirming(dt)
  BY <1>1, <1>6 DEF G!CheckConfirming, G!Confirmed, E!AtMost
<1>7. CASE G!CheckNear(dt)
  BY <1>1, <1>7 DEF G!CheckNear, G!Answer, E!AtMost
<1>8. CASE G!CheckReleasing(dt)
  BY <1>2, <1>8 DEF G!CheckReleasing, G!RearClear
<1>9. CASE G!CheckClear(dt)
  BY <1>2, <1>9 DEF G!CheckClear, G!RearClear
<1>10. QED
  BY <1>1, <1>3, <1>4, <1>5, <1>6, <1>7, <1>8, <1>9 DEF G!CheckReverse

-----------------------------------------------------------------------------
LEMMA InitWatched == Init => WatchInv
<1> SUFFICES ASSUME Init PROVE WatchInv
  OBVIOUS
<1>1. PlanOK
  BY DEF Init, E!Init, PlanOK, E!Active
<1>2. motor.speed = 0 /\ state = "IDLE"
  BY DEF Init, E!Init
<1>3. NearCounted
  BY GuardedAssumption DEF Init, G!GuardInit, NearCounted
<1>4. QED
  BY <1>1, <1>2, <1>3 DEF WatchInv, StandsStill, ReversingIsWatched, NearStopsCar

\* A step that publishes a standing car, or leaves a standing one alone, can only
\* break what is known of the plan and of the counters.
LEMMA StandingStep ==
  ASSUME PlanOK', NearCounted', motor'.speed = 0 PROVE WatchInv'
BY DEF WatchInv, StandsStill, ReversingIsWatched, NearStopsCar

\* The guard's clock runs and nothing is asked.
LEMMA WaitCounted ==
  ASSUME NearCounted, NEW dt \in Nat, G!Wait(dt), UNCHANGED near_ticks PROVE NearCounted'
BY AgeTyping DEF NearCounted, G!Wait

\* A published command has the speed it was given.
LEMMA PublishedSpeed ==
  ASSUME NEW steer, NEW speed, E!Publish(steer, speed) PROVE motor'.speed = speed
<1>1. motor' = [steer |-> steer, speed |-> speed]
  BY Zenon DEF E!Publish
<1>2. QED
  BY <1>1, Zenon

\* Feeding the guard makes its readings fresher and asks nothing.
LEMMA UltraWatched == ASSUME WatchInv, OnUltra PROVE WatchInv'
<1>1. fed' = TRUE /\ age' = 0 /\ UNCHANGED <<bad_hits, verdict, near_ticks>>
  BY Zenon DEF OnUltra, G!Feed
<1>2. UNCHANGED execVars
  BY Zenon DEF OnUltra
<1>3. UNCHANGED <<state, prims, idx, motor>>
  BY <1>2, Zenon DEF execVars
<1>4. PlanOK' /\ StandsStill'
  BY <1>3 DEF WatchInv, PlanOK, StandsStill, E!Active
<1>5. NearCounted'
  BY <1>1 DEF WatchInv, NearCounted
<1>6. ReversingIsWatched'
  BY <1>1, <1>3, GuardedAssumption DEF WatchInv, ReversingIsWatched
<1>7. NearStopsCar'
  BY <1>1, <1>3 DEF WatchInv, NearStopsCar
<1>8. QED
  BY <1>4, <1>5, <1>6, <1>7 DEF WatchInv

LEMMA OdomWatched == ASSUME WatchInv, OnOdom PROVE WatchInv'
<1>1. UNCHANGED <<state, prims, idx, motor>> /\ UNCHANGED guardVars /\ UNCHANGED near_ticks
  BY Zenon DEF OnOdom, E!OdomArrives
<1>2. UNCHANGED <<fed, age, bad_hits, verdict>>
  BY <1>1, Zenon DEF guardVars
<1>3. QED
  BY <1>1, <1>2 DEF WatchInv, PlanOK, StandsStill, E!Active, NearCounted,
       ReversingIsWatched, NearStopsCar

LEMMA StartWatched == ASSUME WatchInv, NEW plan \in Plans, Start(plan) PROVE WatchInv'
<1>1. UNCHANGED guardVars /\ UNCHANGED <<near_ticks, motor>>
  BY Zenon DEF Start, E!Start
<1>2. NearCounted'
  BY <1>1 DEF WatchInv, NearCounted, guardVars
<1>3. ~E!Active /\ prims' = E!Runnable(plan) /\ idx' = 1
      /\ (state' = "DONE" \/ prims' # <<>>)
  BY Zenon DEF Start, E!Start
<1>4. prims' \in Seq(Prims)
  BY <1>3, GuardedAssumption
<1>5. PlanOK'
  <2>1. CASE state' = "DONE"
    BY <1>3, <1>4, <2>1 DEF PlanOK, E!Active
  <2>2. CASE prims' # <<>>
    <3>1. Len(prims') \in Nat /\ Len(prims') > 0
      BY <1>4, <2>2
    <3>2. QED
      BY <1>3, <1>4, <3>1 DEF PlanOK
  <2>3. QED
    BY <1>3, <2>1, <2>2
<1>6. motor'.speed = 0
  BY <1>1, <1>3 DEF WatchInv, StandsStill, E!Active
<1>7. QED
  BY <1>2, <1>5, <1>6, StandingStep

LEMMA AbortWatched == ASSUME WatchInv, Abort PROVE WatchInv'
<1>1. UNCHANGED guardVars /\ UNCHANGED near_ticks /\ UNCHANGED <<prims, idx>>
      /\ state' = "FAILED"
  BY Zenon DEF Abort, E!Abort
<1>2. NearCounted'
  BY <1>1 DEF WatchInv, NearCounted, guardVars
<1>3. PlanOK'
  BY <1>1 DEF WatchInv, PlanOK, E!Active
<1>4. motor'.speed = 0
  BY PublishedSpeed, Zenon DEF Abort, E!Abort
<1>5. QED
  BY <1>2, <1>3, <1>4, StandingStep

LEMMA IdleWatched == ASSUME WatchInv, NEW dt \in 1..MaxDelay, Idle(dt) PROVE WatchInv'
<1>1. ~E!Active /\ UNCHANGED execVars /\ UNCHANGED near_ticks /\ G!Wait(dt) /\ dt \in Nat
  BY GuardedAssumption DEF Idle
<1>2. UNCHANGED <<state, prims, idx, motor>>
  BY <1>1, Zenon DEF execVars
<1>3. PlanOK' /\ motor'.speed = 0
  BY <1>1, <1>2 DEF WatchInv, PlanOK, StandsStill, E!Active
<1>4. NearCounted'
  BY <1>1, WaitCounted DEF WatchInv
<1>5. QED
  BY <1>3, <1>4, StandingStep

\* A tick keeps the plan, and moves on in it only to a segment it has.
LEMMA TickPlan ==
  ASSUME PlanOK, E!Active, NEW dt, NEW step, NEW turn, NEW v,
         E!TickUnguarded(dt, step, turn) \/ E!TickGuarded(dt, step, turn, v)
  PROVE  PlanOK'
<1>1. prims' = prims
  BY Zenon DEF E!TickUnguarded, E!TickGuarded, E!PreSteerWait, E!PreSteerDone,
       E!SettleWait, E!SettleNext, E!DriveTimeout, E!HoldRelease, E!HoldWait,
       E!HoldGiveUp, E!DriveStop, E!DriveFinish, E!DriveOn
<1>2. CASE E!SettleNext(dt)
  <2>1. Len(prims) \in Nat /\ idx \in 1..Len(prims)
    BY DEF PlanOK
  <2>2. idx' = idx + 1
        /\ (state' = "DONE" \/ idx' <= Len(prims))
    BY <1>2, Zenon DEF E!SettleNext
  <2>3. QED
    BY <1>1, <2>1, <2>2 DEF PlanOK, E!Active
<1>3. CASE ~E!SettleNext(dt)
  <2>1. idx' = idx
    BY <1>3, Zenon DEF E!TickUnguarded, E!TickGuarded, E!PreSteerWait, E!PreSteerDone,
         E!SettleWait, E!DriveTimeout, E!HoldRelease, E!HoldWait,
         E!HoldGiveUp, E!DriveStop, E!DriveFinish, E!DriveOn
  <2>2. QED
    BY <1>1, <2>1 DEF PlanOK
<1>4. QED
  BY <1>2, <1>3

LEMMA UnguardedWatched ==
  ASSUME WatchInv, NEW dt \in 1..MaxDelay, NEW step, NEW turn, UnguardedTick(dt, step, turn)
  PROVE  WatchInv'
<1>1. E!Active /\ E!TickUnguarded(dt, step, turn) /\ G!Wait(dt)
      /\ UNCHANGED near_ticks /\ dt \in Nat
  BY GuardedAssumption DEF UnguardedTick
<1>2. PlanOK'
  BY <1>1, TickPlan DEF WatchInv
<1>3. NearCounted'
  BY <1>1, WaitCounted DEF WatchInv
<1>4. motor'.speed = 0
  BY <1>1, PublishedSpeed, Zenon DEF E!TickUnguarded, E!PreSteerWait, E!PreSteerDone,
       E!SettleWait, E!SettleNext, E!DriveTimeout
<1>5. QED
  BY <1>2, <1>3, <1>4, StandingStep

\* A guarded tick either publishes a standing car or drives on, on a safe answer.
LEMMA GuardedTickSpeed ==
  ASSUME NEW dt, NEW step, NEW turn, NEW v, E!TickGuarded(dt, step, turn, v)
  PROVE  \/ motor'.speed = 0
         \/ /\ v.safe /\ state' = state /\ state = "DRIVING"
            /\ motor'.speed = E!prim.direction * E!SpeedUnits
               \/ motor'.speed = E!prim.direction * E!SlowUnits
<1>1. CASE E!DriveOn(dt, step, turn, v)
  <2> DEFINE speed == E!prim.direction * (IF v.slow THEN E!SlowUnits ELSE E!SpeedUnits)
  <2>1. v.safe /\ state' = state /\ state = "DRIVING" /\ motor'.speed = speed
    BY <1>1, PublishedSpeed, Zenon DEF E!DriveOn, E!InTime
  <2>2. speed = E!prim.direction * E!SpeedUnits \/ speed = E!prim.direction * E!SlowUnits
    BY Zenon
  <2>3. QED
    BY <2>1, <2>2, Zenon
<1>2. CASE ~E!DriveOn(dt, step, turn, v)
  BY <1>2, PublishedSpeed, Zenon DEF E!TickGuarded, E!HoldRelease, E!HoldWait,
       E!HoldGiveUp, E!DriveStop, E!DriveFinish
<1>3. QED
  BY <1>1, <1>2, Zenon

LEMMA GuardedWatched ==
  ASSUME WatchInv, NEW dt \in 1..MaxDelay, NEW step, NEW turn, GuardedTick(dt, step, turn)
  PROVE  WatchInv'
<1> DEFINE direction == E!prim.direction
<1>1. E!Active /\ G!Check(direction, dt) /\ E!TickGuarded(dt, step, turn, verdict')
  BY Zenon DEF GuardedTick
<1>2. dt \in Nat /\ direction \in {-1, 1}
  BY <1>1, DirectionTyping, GuardedAssumption DEF WatchInv
<1>3. near_ticks' = IF direction < 0 /\ fed /\ age' <= StaleAfter /\ G!RearNear
                    THEN E!AtMost(ConfirmHits, near_ticks + 1) ELSE 0
  BY Zenon DEF GuardedTick
<1>4. PlanOK'
  BY <1>1, TickPlan DEF WatchInv
<1>5. \/ motor'.speed = 0
      \/ /\ verdict'.safe /\ state' = state /\ state = "DRIVING"
         /\ motor'.speed = direction * E!SpeedUnits \/ motor'.speed = direction * E!SlowUnits
  BY <1>1, GuardedTickSpeed, Zenon
<1> HIDE DEF direction
<1>6. CASE direction = 1
  <2>1. G!Check(1, dt)
    BY <1>1, <1>6
  <2>2. near_ticks' = 0
    BY <1>3, <1>6
  <2>3. NearCounted'
    <3>1. bad_hits' = bad_hits /\ age' = G!AgeAfter(dt)
      BY <2>1, ForwardAnswer
    <3>2. age \in Nat
      BY DEF WatchInv, NearCounted
    <3>3. age' \in Nat
      BY <1>2, <3>1, <3>2, AgeTyping
    <3>4. bad_hits \in 0..ConfirmHits /\ near_ticks' = 0
      BY <2>2 DEF WatchInv, NearCounted
    <3>5. QED
      BY <3>1, <3>3, <3>4, GuardedAssumption DEF NearCounted
  <2>4. motor'.speed >= 0
    BY <1>5, <1>6, SpeedTyping
  <2>5. StandsStill'
    BY <1>5 DEF StandsStill
  <2>6. ReversingIsWatched' /\ NearStopsCar'
    BY <1>5, <1>6, <2>2, <2>4, SpeedTyping, GuardedAssumption DEF ReversingIsWatched, NearStopsCar
  <2>7. QED
    BY <1>4, <2>3, <2>5, <2>6 DEF WatchInv
<1>7. CASE direction = -1
  <2>1. G!Check(-1, dt)
    BY <1>1, <1>7
  <2>2. near_ticks' = IF fed /\ age' <= StaleAfter /\ G!RearNear
                      THEN E!AtMost(ConfirmHits, near_ticks + 1) ELSE 0
    BY <1>3, <1>7
  <2>3. NearCounted' /\ (near_ticks' >= ConfirmHits => ~verdict'.safe)
    BY <1>2, <2>1, <2>2, NearIsCounted DEF WatchInv
  <2>4. StandsStill'
    BY <1>5 DEF StandsStill
  <2>5. ReversingIsWatched'
    <3>1. CASE motor'.speed = 0
      BY <3>1 DEF ReversingIsWatched
    <3>2. CASE verdict'.safe
      BY <2>1, <3>2, ReverseAnswer DEF ReversingIsWatched
    <3>3. QED
      BY <1>5, <3>1, <3>2
  <2>6. NearStopsCar'
    BY <1>5, <2>3 DEF NearStopsCar
  <2>7. QED
    BY <1>4, <2>3, <2>4, <2>5, <2>6 DEF WatchInv
<1>8. QED
  BY <1>2, <1>6, <1>7

-----------------------------------------------------------------------------
LEMMA StepWatched == ASSUME WatchInv, [Next]_vars PROVE WatchInv'
<1>1. CASE UNCHANGED vars
  BY <1>1 DEF vars, WatchInv, PlanOK, StandsStill, E!Active, NearCounted,
       ReversingIsWatched, NearStopsCar
<1>2. QED
  BY <1>1, UltraWatched, OdomWatched, StartWatched, AbortWatched, IdleWatched,
     UnguardedWatched, GuardedWatched, Zenon DEF Next

\* The strengthening: a standing car outside DRIVING, and a count of near checks
\* that never lags behind the ticks that saw them.
THEOREM AlwaysWatched == Spec => []WatchInv
<1>1. WatchInv /\ [Next]_vars => WatchInv'
  BY StepWatched
<1>2. QED
  BY InitWatched, <1>1, PTL DEF Spec

\* The car only drives backward on a safe answer that rests on a fresh array.
THEOREM ReversingAlwaysWatched == Spec => []ReversingIsWatched
<1>1. WatchInv => ReversingIsWatched
  BY DEF WatchInv
<1>2. QED
  BY <1>1, AlwaysWatched, PTL

\* ConfirmHits reverse ticks in a row that saw a near rear leave a standing car.
THEOREM NearObstacleStopsCar == Spec => []NearStopsCar
<1>1. WatchInv => NearStopsCar
  BY DEF WatchInv
<1>2. QED
  BY <1>1, AlwaysWatched, PTL
-----------------------------------------------------------------------------
\* The answers of the guard are answers the executor's specification expects.
LEMMA AnswerExpected ==
  ASSUME NEW direction \in {-1, 1}, NEW dt, G!Check(direction, dt)
  PROVE  [safe |-> verdict'.safe, slow |-> verdict'.slow] \in E!Answers(direction)
<1> DEFINE answer == [safe |-> verdict'.safe, slow |-> verdict'.slow]
<1>1. CASE direction = 1
  <2>1. verdict' = [safe |-> TRUE, slow |-> FALSE, reason |-> "forward"]
    BY <1>1, ForwardAnswer
  <2>2. verdict'.safe = TRUE /\ verdict'.slow = FALSE
    BY <2>1, Zenon
  <2>3. answer = [safe |-> TRUE, slow |-> FALSE]
    BY <2>2, Zenon
  <2>4. direction > 0
    BY <1>1
  <2>5. QED
    BY <2>3, <2>4, Zenon DEF E!Answers
<1>2. CASE direction = -1
  <2>1. /\ verdict'.safe \in BOOLEAN /\ verdict'.slow \in BOOLEAN
        /\ verdict'.slow => verdict'.safe
    BY <1>2, ReverseAnswer
  <2>2. \/ verdict'.safe = TRUE /\ verdict'.slow = FALSE
        \/ verdict'.safe = TRUE /\ verdict'.slow = TRUE
        \/ verdict'.safe = FALSE /\ verdict'.slow = FALSE
    BY <2>1
  <2>3. \/ answer = [safe |-> TRUE, slow |-> FALSE]
        \/ answer = [safe |-> TRUE, slow |-> TRUE]
        \/ answer = [safe |-> FALSE, slow |-> FALSE]
    BY <2>2, Zenon
  <2>4. ~(direction > 0)
    BY <1>2
  <2>5. QED
    BY <2>3, <2>4, Zenon DEF E!Answers
<1>3. QED
  BY <1>1, <1>2

\* Of the guard's answer a tick only looks at "safe" and "slow".
LEMMA AnswerIsEnough ==
  ASSUME NEW dt, NEW step, NEW turn, NEW v, E!TickGuarded(dt, step, turn, v)
  PROVE  E!TickGuarded(dt, step, turn, [safe |-> v.safe, slow |-> v.slow])
<1> DEFINE w == [safe |-> v.safe, slow |-> v.slow]
<1>1. w.safe = v.safe /\ w.slow = v.slow
  BY Zenon
<1> HIDE DEF w
<1>2. E!TickGuarded(dt, step, turn, w)
  BY <1>1, Zenon DEF E!TickGuarded, E!HoldRelease, E!HoldWait, E!HoldGiveUp,
       E!DriveStop, E!DriveFinish, E!DriveOn
<1>3. QED
  BY <1>2 DEF w

\* Every step of the guarded executor is one of the executor's, or leaves it alone.
LEMMA StepExpected == ASSUME WatchInv, [Next]_vars PROVE [E!Next]_execVars
<1>1. CASE UNCHANGED vars
  BY <1>1, Zenon DEF vars, execVars
<1>2. CASE OnUltra \/ \E dt \in 1..MaxDelay : Idle(dt)
  BY <1>2, Zenon DEF OnUltra, Idle
<1>3. CASE OnOdom \/ Abort \/ \E plan \in Plans : Start(plan)
  BY <1>3, Zenon DEF OnOdom, Abort, Start, E!Next
<1>4. ASSUME NEW dt \in 1..MaxDelay, NEW step \in 0..MaxStep, NEW turn \in -MaxTurn..MaxTurn,
             UnguardedTick(dt, step, turn)
      PROVE  E!Next
  BY <1>4, Zenon DEF UnguardedTick, E!Tick, E!SomeTick, E!Next
<1>5. ASSUME NEW dt \in 1..MaxDelay, NEW step \in 0..MaxStep, NEW turn \in -MaxTurn..MaxTurn,
             GuardedTick(dt, step, turn)
      PROVE  E!Next
  <2>1. /\ E!Active /\ odom /\ G!Check(E!prim.direction, dt)
        /\ E!TickGuarded(dt, step, turn, verdict')
    BY <1>5, Zenon DEF GuardedTick
  <2>2. E!prim.direction \in {-1, 1}
    BY <2>1, DirectionTyping DEF WatchInv
  <2>3. [safe |-> verdict'.safe, slow |-> verdict'.slow] \in E!Answers(E!prim.direction)
    BY <2>1, <2>2, AnswerExpected
  <2>4. E!TickGuarded(dt, step, turn, [safe |-> verdict'.safe, slow |-> verdict'.slow])
    BY <2>1, AnswerIsEnough
  <2>5. E!Tick(dt, step, turn)
    BY <2>1, <2>3, <2>4, Zenon DEF E!Tick
  <2>6. QED
    BY <2>5, Zenon DEF E!SomeTick, E!Next
<1>6. QED
  BY <1>1, <1>2, <1>3, <1>4, <1>5, Zenon DEF Next

\* The guard answers nothing the executor's own specification does not expect, so
\* what holds of the executor under any guard holds under this one.
THEOREM GuardedImplementsExecutor == Spec => ImplementsExecutor
<1>1. Init => E!Init
  BY DEF Init
<1>2. WatchInv /\ [Next]_vars => [E!Next]_execVars
  BY StepExpected
<1>3. execVars = <<state, prims, idx, mark, held, seen, dist, yaw, motor, odom>>
  BY DEF execVars
<1>4. QED
  BY <1>1, <1>2, AlwaysWatched, PTL DEF Spec, ImplementsExecutor, E!Spec, E!execVars, execVars
=============================================================================
