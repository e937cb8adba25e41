--------------------------- MODULE ManeuverProofs ----------------------------
(***************************************************************************)
(* Theorems about the maneuver executor, for every set of plans, every     *)
(* value of its times and every behaviour of the odometry and the guard,   *)
(* and about the guard it asks, for every value of its constants.          *)
(***************************************************************************)
EXTENDS ManeuverHistory, GuardHistory, TLAPS

\* A tick made of its parts: the time that passed, the odometry sample and the
\* answer of the guard.
LEMMA TickCases ==
  ASSUME NEW dt, NEW step, NEW turn, Tick(dt, step, turn)
  PROVE  \/ PreSteerWait(dt) \/ PreSteerDone(dt)
         \/ SettleWait(dt) \/ SettleNext(dt)
         \/ DriveTimeout(dt, step, turn)
         \/ \E v \in Answers(prim.direction) :
              \/ HoldRelease(dt, v) \/ HoldWait(dt, v) \/ HoldGiveUp(dt, v)
              \/ DriveStop(dt, step, turn, v)
              \/ DriveFinish(dt, step, turn, v)
              \/ DriveOn(dt, step, turn, v)
BY Zenon DEF Tick, TickUnguarded, TickGuarded

\* The steering angle of a segment is within the mechanical limit.
LEMMA SteerTyping ==
  ASSUME NEW p \in Prim PROVE SteerFor(p) \in -SteerLimit..SteerLimit
BY ExecutorAssumption DEF SteerFor, AtMost, Prim

\* Both speeds are at least what overcomes static friction.
LEMMA SpeedTyping ==
  /\ SpeedUnits \in Nat /\ SpeedUnits > 0
  /\ SlowUnits \in Nat /\ SlowUnits > 0
<1>1. SpeedUnits \in Nat /\ SpeedUnits > 0
  BY ExecutorAssumption DEF SpeedUnits, AtLeast
<1>2. (SpeedUnits * SlowPercent) \div 100 \in Int
  BY <1>1, ExecutorAssumption
<1>3. SlowUnits \in Nat /\ SlowUnits > 0
  BY <1>2, ExecutorAssumption DEF SlowUnits, AtLeast
<1>4. QED
  BY <1>1, <1>3

\* While a maneuver is under way its current segment is one of the plan's.
LEMMA PrimTyping == ASSUME TypeOK, Active PROVE prim \in Prim
BY ExecutorAssumption DEF TypeOK, prim

\* A motor command made of a steering angle and a speed is well typed.
LEMMA PublishTyping ==
  ASSUME NEW steer \in -SteerLimit..SteerLimit, NEW speed \in Int, Publish(steer, speed)
  PROVE  motor' \in [steer : -SteerLimit..SteerLimit, speed : Int]
BY DEF Publish

\* One odometry sample keeps the segment's counters in their types.
LEMMA AccumulateTyping ==
  ASSUME TypeOK, NEW step \in 0..MaxStep, NEW turn \in -MaxTurn..MaxTurn,
         Accumulate(step, turn)
  PROVE  seen' \in BOOLEAN /\ dist' \in Nat /\ yaw' \in Int
BY ExecutorAssumption DEF Accumulate, TypeOK

LEMMA ResetTyping == ASSUME ResetSeg PROVE seen' \in BOOLEAN /\ dist' \in Nat /\ yaw' \in Int
<1>1. seen' \in BOOLEAN
  BY Zenon DEF ResetSeg
<1>2. dist' = 0 /\ yaw' = 0
  BY Zenon DEF ResetSeg
<1>3. QED
  BY <1>1, <1>2

LEMMA TickTyping ==
  ASSUME TypeOK, NEW dt \in 1..MaxDelay, NEW step \in 0..MaxStep,
         NEW turn \in -MaxTurn..MaxTurn, Tick(dt, step, turn)
  PROVE  TypeOK'
<1> USE ExecutorAssumption
<1> DEFINE Motors == [steer : -SteerLimit..SteerLimit, speed : Int]
<1>1. Active /\ odom' = odom /\ prims' = prims
  BY TickCases, Zenon DEF Tick, PreSteerWait, PreSteerDone, SettleWait, SettleNext,
       DriveTimeout, HoldRelease, HoldWait, HoldGiveUp, DriveStop, DriveFinish, DriveOn
<1>2. prim \in Prim /\ SteerFor(prim) \in -SteerLimit..SteerLimit
  BY <1>1, PrimTyping, SteerTyping
<1>3. 0 \in -SteerLimit..SteerLimit /\ 0 \in Int
  OBVIOUS
<1>4. CASE PreSteerWait(dt)
  <2>1. motor' \in Motors
    BY <1>2, <1>3, <1>4, PublishTyping DEF PreSteerWait
  <2>2. QED
    BY <1>1, <1>4, <2>1 DEF PreSteerWait, TypeOK, Active
<1>5. CASE PreSteerDone(dt)
  <2>1. motor' \in Motors
    BY <1>2, <1>3, <1>5, PublishTyping DEF PreSteerDone
  <2>2. QED
    <3>1. seen' \in BOOLEAN /\ dist' \in Nat /\ yaw' \in Int
      BY <1>5, ResetTyping, Zenon DEF PreSteerDone
    <3>2. state' \in States /\ mark' \in Int /\ held' \in Nat
      BY <1>5 DEF PreSteerDone, TypeOK, States
    <3>3. idx' \in Nat \ {0} /\ (Active' => idx' \in 1..Len(prims'))
      BY <1>1, <1>5 DEF PreSteerDone, TypeOK
    <3>4. QED
      BY <1>1, <2>1, <3>1, <3>2, <3>3 DEF TypeOK
<1>6. CASE SettleWait(dt)
  <2>1. motor' \in Motors
    BY <1>3, <1>6, PublishTyping DEF SettleWait
  <2>2. QED
    BY <1>1, <1>6, <2>1 DEF SettleWait, TypeOK, Active
<1>7. CASE SettleNext(dt)
  <2>1. motor' \in Motors
    BY <1>3, <1>7, PublishTyping DEF SettleNext
  <2>2. idx' \in Nat \ {0} /\ mark' \in Int /\ state' \in States
    BY <1>7 DEF SettleNext, TypeOK, States
  <2>3. Active' => idx' \in 1..Len(prims')
    BY <1>7 DEF SettleNext, TypeOK, Active
  <2>4. QED
    BY <1>1, <1>7, <2>1, <2>2, <2>3 DEF SettleNext, TypeOK
<1>8. CASE DriveTimeout(dt, step, turn)
  <2>1. motor' \in Motors
    BY <1>3, <1>8, PublishTyping DEF DriveTimeout
  <2>2. QED
    BY <1>1, <1>8, <2>1, AccumulateTyping DEF DriveTimeout, TypeOK, Active, States
<1>9. ASSUME NEW v \in Answers(prim.direction), HoldRelease(dt, v) PROVE TypeOK'
  <2>1. motor' \in Motors
    BY <1>2, <1>3, <1>9, PublishTyping DEF HoldRelease
  <2>2. QED
    BY <1>1, <1>9, <2>1 DEF HoldRelease, TypeOK, Active, States
<1>10. ASSUME NEW v \in Answers(prim.direction), HoldWait(dt, v) PROVE TypeOK'
  <2>1. motor' \in Motors
    BY <1>2, <1>3, <1>10, PublishTyping DEF HoldWait
  <2>2. QED
    BY <1>1, <1>10, <2>1 DEF HoldWait, TypeOK, Active
<1>11. ASSUME NEW v \in Answers(prim.direction), HoldGiveUp(dt, v) PROVE TypeOK'
  <2>1. motor' \in Motors
    BY <1>3, <1>11, PublishTyping DEF HoldGiveUp
  <2>2. QED
    BY <1>1, <1>11, <2>1 DEF HoldGiveUp, TypeOK, Active, States
<1>12. ASSUME NEW v \in Answers(prim.direction), DriveStop(dt, step, turn, v)
       PROVE  TypeOK'
  <2>1. motor' \in Motors
    BY <1>2, <1>3, <1>12, PublishTyping DEF DriveStop
  <2>2. QED
    BY <1>1, <1>12, <2>1, AccumulateTyping DEF DriveStop, InTime, TypeOK, Active, States
<1>13. ASSUME NEW v \in Answers(prim.direction), DriveFinish(dt, step, turn, v)
       PROVE  TypeOK'
  <2>1. motor' \in Motors
    BY <1>2, <1>3, <1>13, PublishTyping DEF DriveFinish
  <2>2. QED
    BY <1>1, <1>13, <2>1, AccumulateTyping DEF DriveFinish, InTime, TypeOK, Active, States
<1>14. ASSUME NEW v \in Answers(prim.direction), DriveOn(dt, step, turn, v)
       PROVE  TypeOK'
  <2>1. prim.direction * (IF v.slow THEN SlowUnits ELSE SpeedUnits) \in Int
    BY <1>2, SpeedTyping DEF Prim
  <2>2. motor' \in Motors
    BY <1>2, <2>1, <1>14, PublishTyping DEF DriveOn
  <2>3. QED
    BY <1>1, <1>14, <2>2, AccumulateTyping DEF DriveOn, InTime, TypeOK, Active
<1>15. QED
  BY TickCases, <1>4, <1>5, <1>6, <1>7, <1>8, <1>9, <1>10, <1>11, <1>12, <1>13, <1>14

LEMMA StepTyping == ASSUME TypeOK, [Next]_execVars PROVE TypeOK'
<1> USE ExecutorAssumption
<1>1. ASSUME NEW plan \in Plans, Start(plan) PROVE TypeOK'
  <2>1. prims' \in Seq(Prims) /\ idx' = 1
    BY <1>1 DEF Start
  <2>2. Active' => idx' \in 1..Len(prims')
    BY <1>1, <2>1 DEF Start, Active
  <2>3. seen' \in BOOLEAN /\ dist' \in Nat /\ yaw' \in Int
    BY <1>1, ResetTyping, Zenon DEF Start
  <2>4. state' \in States /\ mark' \in Int
    BY <1>1 DEF Start, States, TypeOK
  <2>5. held' \in Nat /\ motor' = motor /\ odom' = odom
    BY <1>1 DEF Start, TypeOK
  <2>6. QED
    BY <2>1, <2>2, <2>3, <2>4, <2>5 DEF TypeOK
<1>2. CASE Abort
  <2>1. motor' \in [steer : -SteerLimit..SteerLimit, speed : Int]
    BY <1>2, PublishTyping DEF Abort
  <2>2. QED
    BY <1>2, <2>1 DEF Abort, TypeOK, Active, States
<1>3. CASE OdomArrives
  BY <1>3 DEF OdomArrives, TypeOK, Active
<1>4. CASE SomeTick
  BY <1>4, TickTyping DEF SomeTick
<1>5. CASE UNCHANGED execVars
  BY <1>5 DEF execVars, TypeOK, Active
<1>6. QED
  BY <1>1, <1>2, <1>3, <1>4, <1>5 DEF Next

LEMMA InitTyping == ASSUME Init PROVE TypeOK
<1> USE ExecutorAssumption DEF Init
<1>1. state \in States /\ ~Active
  BY DEF States, Active
<1>2. prims \in Seq(Prims) /\ idx \in Nat \ {0}
  OBVIOUS
<1>3. mark \in Int /\ held \in Nat /\ dist \in Nat /\ yaw \in Int
  OBVIOUS
<1>4. seen \in BOOLEAN /\ odom \in BOOLEAN
  BY Zenon
<1>5. motor \in [steer : -SteerLimit..SteerLimit, speed : Int]
  OBVIOUS
<1>6. QED
  BY <1>1, <1>2, <1>3, <1>4, <1>5, Zenon DEF TypeOK

\* The executor is well typed; in particular, while a maneuver is under way the
\* index points into the plan, and the steering is within the mechanical limit.
THEOREM ExecutorTypeCorrect == Spec => []TypeOK
<1>1. Init => TypeOK
  BY InitTyping
<1>2. QED
  BY <1>1, StepTyping, PTL DEF Spec

\* The history variables only watch: each step with them is an executor step.
LEMMA HistoryStep == ASSUME [HNext]_vars PROVE [Next]_execVars
<1>1. CASE SomeHTick
  BY <1>1, Zenon DEF SomeHTick, HTick, SomeTick, Next
<1>2. CASE HNext /\ ~SomeHTick
  BY <1>2, Zenon DEF HNext, HAbort, Next
<1>3. CASE UNCHANGED vars
  BY <1>3 DEF vars, execVars
<1>4. QED
  BY <1>1, <1>2, <1>3

-----------------------------------------------------------------------------
\* A car that drives only in DRIVING stands still in every other state: in Spec
\* as in HSpec.
LEMMA StandingStep ==
  ASSUME TypeOK, StandsStill, [Next]_execVars PROVE StandsStill'
<1>1. ASSUME NEW dt \in 1..MaxDelay, NEW step \in 0..MaxStep,
             NEW turn \in -MaxTurn..MaxTurn, Tick(dt, step, turn)
      PROVE  StandsStill'
  BY <1>1, TickCases
     DEF StandsStill, PreSteerWait, PreSteerDone, SettleWait, SettleNext, DriveTimeout,
         HoldRelease, HoldWait, HoldGiveUp, DriveStop, DriveFinish, DriveOn, InTime, Publish
<1>2. ASSUME NEW plan \in Plans, Start(plan) PROVE StandsStill'
  BY <1>2 DEF Start, Active, StandsStill
<1>3. CASE Abort
  BY <1>3 DEF Abort, Publish, StandsStill
<1>4. CASE OdomArrives \/ UNCHANGED execVars
  BY <1>4 DEF OdomArrives, execVars, StandsStill
<1>5. QED
  BY <1>1, <1>2, <1>3, <1>4 DEF Next, SomeTick

\* A tick that repeats the steering angle lets its clock run on, and any tick
\* leaves the clock within its range.
LEMMA SteadyStep ==
  ASSUME HistoryOK, NEW dt \in 1..MaxDelay, SteadyAfter(dt)
  PROVE  /\ steady' \in 0..PreSteerTime
         /\ motor'.steer = motor.steer => steady' = AtMost(PreSteerTime, steady + dt)
BY ExecutorAssumption DEF HistoryOK, SteadyAfter, AtMost

\* What a tick does to the clock of the segment.
LEMMA TickClock ==
  ASSUME ExecInv, NEW dt \in 1..MaxDelay, NEW step \in 0..MaxStep,
         NEW turn \in -MaxTurn..MaxTurn, HTick(dt, step, turn)
  PROVE  ClockCountsDriving' /\ DrivingBounded'
<1>1. mark \in Int /\ held \in Nat /\ rolled \in Nat
  BY DEF ExecInv, TypeOK, HistoryOK
<1>2. ClockCountsDriving /\ DrivingBounded /\ Tick(dt, step, turn)
  BY DEF ExecInv, HTick
<1>3. /\ state = "DRIVING" => rolled' = rolled + dt
      /\ state = "PRE_STEER" => rolled' = 0
      /\ state \notin {"DRIVING", "PRE_STEER"} => rolled' = rolled
  BY DEF HTick
<1> USE <1>1, <1>3, ExecutorAssumption DEF ClockCountsDriving, DrivingBounded
<1> DEFINE Goal == ClockCountsDriving' /\ DrivingBounded'
<1>4. CASE PreSteerWait(dt)
  BY <1>4 DEF PreSteerWait
<1>5. CASE PreSteerDone(dt)
  BY <1>5 DEF PreSteerDone
<1>6. CASE SettleWait(dt)
  BY <1>2, <1>6 DEF SettleWait
<1>7. CASE SettleNext(dt)
  <2>1. state' \in {"DONE", "PRE_STEER"} /\ rolled' = rolled
    BY <1>7 DEF SettleNext
  <2>2. QED
    BY <1>2, <2>1
<1>8. CASE DriveTimeout(dt, step, turn)
  BY <1>2, <1>8 DEF DriveTimeout
<1>9. ASSUME NEW v, HoldRelease(dt, v) PROVE Goal
  <2>1. state = "HOLD" /\ state' = "DRIVING" /\ mark' = mark - held
    BY <1>9 DEF HoldRelease
  <2>2. QED
    BY <1>2, <2>1
<1>10. ASSUME NEW v, HoldWait(dt, v) PROVE Goal
  <2>1. state = "HOLD" /\ state' = "HOLD" /\ mark' = mark + dt /\ held' = held + dt
    BY <1>10 DEF HoldWait
  <2>2. QED
    BY <1>2, <2>1
<1>11. ASSUME NEW v, HoldGiveUp(dt, v) PROVE Goal
  BY <1>2, <1>11 DEF HoldGiveUp
<1>12. ASSUME NEW v, DriveStop(dt, step, turn, v) PROVE Goal
  BY <1>2, <1>12 DEF DriveStop, InTime
<1>13. ASSUME NEW v, DriveFinish(dt, step, turn, v) PROVE Goal
  BY <1>2, <1>13 DEF DriveFinish, InTime
<1>14. ASSUME NEW v, DriveOn(dt, step, turn, v) PROVE Goal
  BY <1>2, <1>14 DEF DriveOn, InTime
<1>15. QED
  BY <1>2, <1>4, <1>5, <1>6, <1>7, <1>8, <1>9, <1>10, <1>11, <1>12, <1>13, <1>14,
     TickCases

\* How long an angle must have been held for what the steering clock claims.
LEMMA HeldLongEnough ==
  ASSUME NEW s \in Nat, NEW d \in Nat, NEW p \in Nat
  PROVE  /\ s + d > p => s + d >= p
         /\ \A m \in Int : m <= d => s + d >= AtMost(p, m)
BY DEF AtMost

\* What a tick does to the steering.  A tick either publishes the angle of the
\* current segment, which keeps the clock running once the angle is commanded, or
\* ends in a state in which nothing is claimed.
LEMMA TickSteering ==
  ASSUME ExecInv, NEW dt \in 1..MaxDelay, NEW step \in 0..MaxStep,
         NEW turn \in -MaxTurn..MaxTurn, HTick(dt, step, turn)
  PROVE  SteeringHeld' /\ SteerBeforeRoll'
<1> DEFINE Goal == SteeringHeld' /\ SteerBeforeRoll'
           Repeats == motor'.steer = SteerFor(prim) /\ UNCHANGED <<prims, idx>>
<1>1. mark \in Int /\ steady \in Nat /\ steady' \in Nat /\ dt \in Nat /\ dt <= MaxDelay
      /\ PreSteerTime \in Nat /\ MaxDelay \in Nat \ {0}
  <2>1. MaxDelay \in Nat \ {0} /\ PreSteerTime \in Nat
    BY ExecutorAssumption
  <2>2. dt \in Nat /\ dt <= MaxDelay
    BY <2>1
  <2>3. mark \in Int /\ steady \in Nat
    BY <2>1 DEF ExecInv, TypeOK, HistoryOK
  <2>4. steady' \in Nat
    BY <2>1, SteadyStep DEF ExecInv, HTick
  <2>5. QED
    BY <2>1, <2>2, <2>3, <2>4
<1>2. motor'.steer = motor.steer => steady' = AtMost(PreSteerTime, steady + dt)
  BY SteadyStep DEF ExecInv, HTick
<1>3. SteeringHeld /\ Tick(dt, step, turn)
  BY DEF ExecInv, HTick
<1>4. ASSUME Repeats PROVE Steering' /\ (Steering => motor'.steer = motor.steer)
  BY <1>4 DEF Steering, prim
<1>5. ASSUME Repeats, state = "PRE_STEER"
      PROVE  steady' + MaxDelay >= AtMost(PreSteerTime, mark + dt)
  <2>1. CASE mark > 0
    <3>1. Steering /\ steady + MaxDelay >= AtMost(PreSteerTime, mark)
      BY <1>3, <1>5, <2>1 DEF SteeringHeld
    <3>2. steady' = AtMost(PreSteerTime, steady + dt)
      BY <1>2, <1>4, <1>5, <3>1
    <3>3. QED
      BY <1>1, <3>1, <3>2 DEF AtMost
  <2>2. CASE ~(mark > 0)
    <3>1. mark + dt <= MaxDelay
      BY <1>1, <2>2
    <3>2. QED
      BY <1>1, <3>1, HeldLongEnough
  <2>3. QED
    BY <2>1, <2>2
<1>6. ASSUME Repeats, state \in {"DRIVING", "HOLD"}
      PROVE  steady' + MaxDelay > PreSteerTime
  <2>1. Steering /\ steady + MaxDelay >= PreSteerTime
    BY <1>3, <1>6 DEF SteeringHeld
  <2>2. steady' = AtMost(PreSteerTime, steady + dt)
    BY <1>2, <1>4, <1>6, <2>1
  <2>3. QED
    BY <1>1, <2>1, <2>2 DEF AtMost
<1>7. ASSUME motor'.speed = 0, state' \notin {"PRE_STEER", "DRIVING", "HOLD"} PROVE Goal
  BY <1>7 DEF SteeringHeld, SteerBeforeRoll
<1>8. CASE PreSteerWait(dt)
  <2>1. Repeats /\ state = "PRE_STEER" /\ mark' = mark + dt /\ motor'.speed = 0
        /\ state' = "PRE_STEER"
    BY <1>8 DEF PreSteerWait, Publish
  <2>2. Steering' /\ steady' + MaxDelay >= AtMost(PreSteerTime, mark')
    BY <1>4, <1>5, <2>1
  <2>3. QED
    BY <2>1, <2>2 DEF SteeringHeld, SteerBeforeRoll
<1>9. CASE PreSteerDone(dt)
  <2>1. Repeats /\ state = "PRE_STEER" /\ mark + dt >= PreSteerTime /\ motor'.speed = 0
        /\ state' = "DRIVING"
    BY <1>9 DEF PreSteerDone, Publish
  <2>2. Steering'
    BY <1>4, <2>1
  <2>3. AtMost(PreSteerTime, mark + dt) = PreSteerTime
    BY <1>1, <2>1 DEF AtMost
  <2>4. steady' + MaxDelay >= PreSteerTime
    BY <1>5, <2>1, <2>3
  <2>5. QED
    BY <2>1, <2>2, <2>4 DEF SteeringHeld, SteerBeforeRoll
<1>10. CASE SettleWait(dt)
  <2>1. motor'.speed = 0 /\ state' = "SETTLE"
    BY <1>10 DEF SettleWait, Publish
  <2>2. QED
    BY <1>7, <2>1
<1>11. CASE SettleNext(dt)
  <2>1. motor'.speed = 0 /\ state' \in {"DONE", "PRE_STEER"}
        /\ (state' = "PRE_STEER" => mark' = 0)
    BY <1>11 DEF SettleNext, Publish
  <2>2. QED
    BY <2>1 DEF SteeringHeld, SteerBeforeRoll
<1>12. CASE DriveTimeout(dt, step, turn)
  <2>1. motor'.speed = 0 /\ state' = "FAILED"
    BY <1>12 DEF DriveTimeout, Publish
  <2>2. QED
    BY <1>7, <2>1
<1>13. ASSUME NEW v, HoldRelease(dt, v) \/ HoldWait(dt, v) PROVE Goal
  <2>1. Repeats /\ state = "HOLD" /\ motor'.speed = 0 /\ state' \in {"DRIVING", "HOLD"}
    BY <1>13 DEF HoldRelease, HoldWait, Publish
  <2>2. Steering' /\ steady' + MaxDelay > PreSteerTime
    BY <1>4, <1>6, <2>1
  <2>3. steady' + MaxDelay >= PreSteerTime
    BY <1>1, <2>2, HeldLongEnough
  <2>4. QED
    BY <2>1, <2>2, <2>3 DEF SteeringHeld, SteerBeforeRoll
<1>14. ASSUME NEW v, HoldGiveUp(dt, v) PROVE Goal
  <2>1. motor'.speed = 0 /\ state' = "FAILED"
    BY <1>14 DEF HoldGiveUp, Publish
  <2>2. QED
    BY <1>7, <2>1
<1>15. ASSUME NEW v, DriveStop(dt, step, turn, v) \/ DriveOn(dt, step, turn, v)
       PROVE  Goal
  <2>1. Repeats /\ state = "DRIVING" /\ state' \in {"DRIVING", "HOLD"}
    BY <1>15 DEF DriveStop, DriveOn, InTime, Publish
  <2>2. Steering' /\ steady' + MaxDelay > PreSteerTime
    BY <1>4, <1>6, <2>1
  <2>3. steady' + MaxDelay >= PreSteerTime
    BY <1>1, <2>2, HeldLongEnough
  <2>4. QED
    BY <2>1, <2>2, <2>3 DEF SteeringHeld, SteerBeforeRoll
<1>16. ASSUME NEW v, DriveFinish(dt, step, turn, v) PROVE Goal
  <2>1. motor'.speed = 0 /\ state' = "SETTLE"
    BY <1>16 DEF DriveFinish, Publish
  <2>2. QED
    BY <1>7, <2>1
<1>17. QED
  BY <1>3, <1>8, <1>9, <1>10, <1>11, <1>12, <1>13, <1>14, <1>15, <1>16, TickCases

LEMMA ExecInvStep == ASSUME ExecInv, [HNext]_vars PROVE ExecInv'
<1> USE ExecutorAssumption
<1>1. TypeOK'
  BY HistoryStep, StepTyping DEF ExecInv
<1>2. CASE SomeHTick
  <2>1. PICK dt \in 1..MaxDelay, step \in 0..MaxStep, turn \in -MaxTurn..MaxTurn :
          HTick(dt, step, turn)
    BY <1>2 DEF SomeHTick
  <2>2. odom' = odom /\ odom
    BY <2>1, TickCases, Zenon DEF HTick, Tick, PreSteerWait, PreSteerDone, SettleWait,
       SettleNext, DriveTimeout, HoldRelease, HoldWait, HoldGiveUp, DriveStop,
       DriveFinish, DriveOn
  <2>3. MovesOnOdometry'
    BY <2>2, Zenon DEF MovesOnOdometry
  <2>4. HistoryOK'
    <3>1. HistoryOK /\ SteadyAfter(dt)
      BY <2>1 DEF HTick, ExecInv
    <3>2. steady' \in 0..PreSteerTime
      BY <3>1, SteadyStep
    <3>3. rolled' \in {rolled + dt, 0, rolled} /\ rolled \in Nat /\ dt \in Nat
      BY <2>1, <3>1 DEF HTick, HistoryOK
    <3>4. rolled' \in Nat
      BY <3>3
    <3>5. QED
      BY <3>2, <3>4 DEF HistoryOK
  <2>5. StandsStill'
    BY HistoryStep, StandingStep DEF ExecInv
  <2>6. QED
    BY <1>1, <2>1, <2>3, <2>4, <2>5, TickClock, TickSteering DEF ExecInv
<1> USE DEF ExecInv, HistoryOK, ClockCountsDriving, DrivingBounded, SteeringHeld,
            StandsStill, MovesOnOdometry, SteerBeforeRoll, AtMost
<1>3. ASSUME NEW plan \in Plans, Start(plan), UNCHANGED <<steady, rolled>> PROVE ExecInv'
  <2>1. state' \in {"DONE", "PRE_STEER"} /\ (state' = "PRE_STEER" => mark' = 0)
    BY <1>3 DEF Start
  <2>2. motor' = motor /\ motor.speed = 0
    BY <1>3 DEF Start, Active
  <2>3. HistoryOK' /\ DrivingBounded'
    BY <1>3
  <2>4. ClockCountsDriving' /\ SteeringHeld' /\ MovesOnOdometry'
    BY <2>1
  <2>5. StandsStill' /\ SteerBeforeRoll'
    BY <2>2
  <2>6. QED
    BY <1>1, <2>3, <2>4, <2>5, Zenon
<1>4. CASE HAbort
  <2>1. state' = "FAILED" /\ motor'.speed = 0 /\ rolled' = rolled
    BY <1>4 DEF HAbort, Abort, Publish
  <2>2. steady' \in 0..PreSteerTime
    BY <1>4 DEF HAbort, SteadyAfter
  <2>3. QED
    BY <1>1, <2>1, <2>2
<1>5. CASE OdomArrives /\ UNCHANGED <<steady, rolled>>
  BY <1>1, <1>5 DEF OdomArrives, Steering, prim
<1>6. CASE UNCHANGED vars
  BY <1>1, <1>6 DEF vars, Steering, prim
<1>7. QED
  BY <1>2, <1>3, <1>4, <1>5, <1>6 DEF HNext

\* The inductive invariant of the executor and its clocks.
THEOREM ExecInvariant == HSpec => []ExecInv
<1>1. HInit => ExecInv
  <2> SUFFICES ASSUME HInit PROVE ExecInv
    OBVIOUS
  <2>1. TypeOK
    BY InitTyping DEF HInit
  <2>2. steady = 0 /\ rolled = 0 /\ state = "IDLE" /\ motor.speed = 0
    BY DEF HInit, Init
  <2>3. QED
    BY <2>1, <2>2, ExecutorAssumption DEF ExecInv, HistoryOK, ClockCountsDriving,
       DrivingBounded, SteeringHeld, StandsStill, MovesOnOdometry, SteerBeforeRoll
<1>2. QED
  BY <1>1, ExecInvStep, PTL DEF HSpec

\* No speed is published before the steering that goes with it has been held for
\* pre_steer_time, up to the delay of one tick.
THEOREM SteersBeforeRolling == HSpec => []SteerBeforeRoll
BY ExecInvariant, PTL DEF ExecInv

\* The clock of a segment counts its driving time, whatever the guard does.
THEOREM SegmentClock == HSpec => []ClockCountsDriving
BY ExecInvariant, PTL DEF ExecInv

\* A segment that times out has been driven for longer than segment_timeout.
THEOREM TimeoutsAreEarned == HSpec => TimeoutIsDriving
<1>1. ASSUME ExecInv, [HNext]_vars
      PROVE  [state = "DRIVING" /\ state' = "FAILED" => rolled' > SegmentTimeout]_vars
  <2> SUFFICES ASSUME state = "DRIVING", state' = "FAILED"
               PROVE  rolled' > SegmentTimeout
    OBVIOUS
  <2>1. TypeOK /\ HistoryOK /\ mark = rolled /\ odom
    BY <1>1 DEF ExecInv, ClockCountsDriving, MovesOnOdometry
  <2>2. PICK dt \in 1..MaxDelay, step \in 0..MaxStep, turn \in -MaxTurn..MaxTurn :
          HTick(dt, step, turn)
    <3>1. ~HAbort /\ ~UNCHANGED vars /\ ~OdomArrives
      BY <2>1 DEF HAbort, Abort, vars, OdomArrives
    <3>2. ASSUME NEW plan \in Plans PROVE ~Start(plan)
      BY DEF Start, Active
    <3>3. QED
      BY <1>1, <3>1, <3>2, Zenon DEF HNext, SomeHTick
  <2>3. DriveTimeout(dt, step, turn)
    BY <2>2, TickCases DEF HTick, PreSteerWait, PreSteerDone, SettleWait, SettleNext,
       HoldRelease, HoldWait, HoldGiveUp, DriveStop, DriveFinish, DriveOn
  <2>4. rolled' = rolled + dt
    BY <2>2 DEF HTick
  <2>5. QED
    BY <2>1, <2>3, <2>4 DEF DriveTimeout
<1>2. QED
  BY <1>1, ExecInvariant, PTL DEF HSpec, TimeoutIsDriving

-----------------------------------------------------------------------------
(***************************************************************************)
(* The executor implements Maneuver.  The names of the refinement mapping. *)
(***************************************************************************)
PlanBar == [i \in 1..Len(prims) |-> prims[i].direction]
OutcomeBar == CASE state = "IDLE"   -> "idle"
                [] state = "DONE"   -> "done"
                [] state = "FAILED" -> "failed"
                [] OTHER            -> "under_way"

\* The directions of a plan, segment by segment.
LEMMA PlanBarTyping ==
  ASSUME NEW s \in Seq(Prims)
  PROVE  /\ [i \in 1..Len(s) |-> s[i].direction] \in Seq({-1, 1})
         /\ Len([i \in 1..Len(s) |-> s[i].direction]) = Len(s)
         /\ s = <<>> <=> [i \in 1..Len(s) |-> s[i].direction] = <<>>
<1> DEFINE d == [i \in 1..Len(s) |-> s[i].direction]
<1>1. \A i \in 1..Len(s) : s[i].direction \in {-1, 1}
  BY ExecutorAssumption DEF Prim
<1>2. d \in Seq({-1, 1}) /\ Len(d) = Len(s)
  BY <1>1
<1>3. s = <<>> <=> d = <<>>
  BY <1>2
<1>4. QED
  BY <1>2, <1>3

\* Seen through the mapping, a tick is one abstract step or none.
LEMMA TickRefines ==
  ASSUME TypeOK, StandsStill, NEW dt \in 1..MaxDelay, NEW step \in 0..MaxStep,
         NEW turn \in -MaxTurn..MaxTurn, Tick(dt, step, turn)
  PROVE  M!Next \/ UNCHANGED M!maneuverVars
<1>1. prims' = prims /\ Active
  BY TickCases, Zenon DEF Tick, PreSteerWait, PreSteerDone, SettleWait, SettleNext,
     DriveTimeout, HoldRelease, HoldWait, HoldGiveUp, DriveStop, DriveFinish, DriveOn
<1>2. OutcomeBar = "under_way" /\ PlanBar' = PlanBar
  BY <1>1 DEF OutcomeBar, PlanBar, Active
<1>3. idx \in 1..Len(prims) /\ Len(PlanBar) = Len(prims) /\ Len(prims) \in Nat
  BY <1>1, PlanBarTyping DEF TypeOK, PlanBar
<1>4. ASSUME idx' = idx, Active', motor'.speed = 0 PROVE M!Halt
  <2>1. OutcomeBar' = "under_way" /\ Sign(motor'.speed) = 0
    BY <1>4 DEF OutcomeBar, Active, Sign
  <2>2. QED
    BY <1>2, <1>4, <2>1 DEF M!Halt, OutcomeBar, PlanBar
<1>5. ASSUME idx' = idx, state' = "FAILED", motor'.speed = 0 PROVE M!GiveUp
  <2>1. OutcomeBar' = "failed" /\ Sign(motor'.speed) = 0
    BY <1>5 DEF OutcomeBar, Sign
  <2>2. QED
    BY <1>2, <1>5, <2>1 DEF M!GiveUp, OutcomeBar, PlanBar
<1>6. CASE SettleNext(dt)
  <2>1. motor.speed = 0 /\ motor'.speed = 0
    BY <1>6 DEF SettleNext, Publish, StandsStill
  <2>2. Sign(motor.speed) = 0 /\ Sign(motor'.speed) = 0
    BY <2>1 DEF Sign
  <2>3. idx' - 1 = (idx - 1) + 1
    BY <1>3, <1>6 DEF SettleNext
  <2>4. OutcomeBar' = IF idx' - 1 = Len(PlanBar) THEN "done" ELSE "under_way"
    BY <1>3, <1>6 DEF SettleNext, OutcomeBar
  <2>5. M!Pass
    BY <1>2, <2>2, <2>3, <2>4 DEF M!Pass, OutcomeBar, PlanBar
  <2>6. QED
    BY <2>5 DEF M!Next
<1>7. ASSUME NEW v \in Answers(prim.direction), DriveOn(dt, step, turn, v)
      PROVE  M!Roll
  <2>1. prim \in Prim /\ prim.direction \in {-1, 1}
    BY <1>1, PrimTyping DEF Prim
  <2>2. motor'.speed = prim.direction * (IF v.slow THEN SlowUnits ELSE SpeedUnits)
    BY <1>7 DEF DriveOn, Publish
  <2>3. Sign(motor'.speed) = prim.direction
    BY <2>1, <2>2, SpeedTyping DEF Sign
  <2>4. PlanBar[(idx - 1) + 1] = prim.direction
    BY <1>3 DEF PlanBar, prim
  <2>5. OutcomeBar' = "under_way" /\ idx' = idx
    BY <1>7 DEF DriveOn, InTime, OutcomeBar
  <2>6. QED
    BY <1>2, <2>3, <2>4, <2>5 DEF M!Roll, OutcomeBar, PlanBar
<1>8. CASE PreSteerWait(dt) \/ PreSteerDone(dt) \/ SettleWait(dt)
  BY <1>4, <1>8 DEF PreSteerWait, PreSteerDone, SettleWait, Publish, Active, M!Next
<1>9. CASE DriveTimeout(dt, step, turn)
  BY <1>5, <1>9 DEF DriveTimeout, Publish, M!Next
<1>10. ASSUME NEW v \in Answers(prim.direction),
              \/ HoldRelease(dt, v) \/ HoldWait(dt, v)
              \/ DriveStop(dt, step, turn, v) \/ DriveFinish(dt, step, turn, v)
       PROVE  M!Next
  BY <1>4, <1>10 DEF HoldRelease, HoldWait, DriveStop, DriveFinish, Publish, Active, M!Next
<1>11. ASSUME NEW v \in Answers(prim.direction), HoldGiveUp(dt, v)
       PROVE  M!Next
  BY <1>5, <1>11 DEF HoldGiveUp, Publish, M!Next
<1>12. QED
  BY TickCases, <1>6, <1>7, <1>8, <1>9, <1>10, <1>11 DEF M!Next

LEMMA StepRefines ==
  ASSUME TypeOK, TypeOK', StandsStill, [Next]_execVars
  PROVE  [M!Next]_(M!maneuverVars)
<1>1. CASE SomeTick
  BY <1>1, TickRefines DEF SomeTick
<1>2. ASSUME NEW plan \in Plans, Start(plan) PROVE M!Begin
  <2>1. OutcomeBar # "under_way"
    BY <1>2 DEF Start, Active, OutcomeBar, TypeOK, States
  <2>2. PlanBar' \in Seq({-1, 1}) /\ (prims' = <<>> <=> PlanBar' = <<>>)
    BY PlanBarTyping DEF TypeOK, PlanBar
  <2>3. OutcomeBar' = IF PlanBar' = <<>> THEN "done" ELSE "under_way"
    BY <1>2, <2>2 DEF Start, OutcomeBar
  <2>4. idx' - 1 = 0 /\ motor' = motor
    BY <1>2 DEF Start
  <2>5. QED
    BY <2>1, <2>2, <2>3, <2>4 DEF M!Begin, OutcomeBar, PlanBar
<1>3. CASE Abort
  <2>1. OutcomeBar = "under_way" /\ OutcomeBar' = "failed" /\ Sign(motor'.speed) = 0
    BY <1>3 DEF Abort, Active, OutcomeBar, Publish, Sign
  <2>2. QED
    BY <1>3, <2>1 DEF Abort, M!Next, M!GiveUp, OutcomeBar
<1>4. CASE OdomArrives \/ UNCHANGED execVars
  BY <1>4 DEF OdomArrives, execVars, M!maneuverVars
<1>5. QED
  BY <1>1, <1>2, <1>3, <1>4 DEF Next, M!Next

\* Segments are rolled in order, each in its own direction, with the car standing
\* still between two of them and at the end, done or failed.
THEOREM ExecutorImplementsManeuver == Spec => ImplementsManeuver
<1>1. Init => M!Init /\ StandsStill
  BY DEF Init, M!Init, Sign, StandsStill
<1>2. TypeOK /\ StandsStill /\ [Next]_execVars => StandsStill'
  BY StandingStep
<1>3. TypeOK /\ TypeOK' /\ StandsStill /\ [Next]_execVars => [M!Next]_(M!maneuverVars)
  BY StepRefines
<1>4. QED
  BY <1>1, <1>2, <1>3, ExecutorTypeCorrect, PTL DEF Spec, ImplementsManeuver, M!Spec

-----------------------------------------------------------------------------
(* The executor is bounded in ticks. *)

\* The clocks of a maneuver: no phase of a segment outlasts its time, and held time is
\* no driving time.
ClocksInTime ==
  /\ state = "PRE_STEER" => mark \in 0..PreSteerTime
  /\ state = "DRIVING" => mark \in 0..SegmentTimeout
  /\ state = "HOLD" => held <= HoldTimeout /\ mark - held \in 1..SegmentTimeout
  /\ state = "SETTLE" => mark \in 0..SettleTime

TickInv == TypeOK /\ ClocksInTime

\* The numbers the count is made of.
LEMMA TickNumbers ==
  ASSUME TickInv
  PROVE  /\ PreSteerTime \in Nat /\ SettleTime \in Nat /\ SegmentTimeout \in Nat /\ HoldTimeout \in Nat
         /\ HoldTicks \in Nat /\ HoldTicks = HoldTimeout + 2
         /\ SegmentTicks \in Nat
         /\ SegmentTicks = PreSteerTime + (SegmentTimeout + 1) * HoldTicks + SettleTime + 4
         /\ (SegmentTimeout + 1) * HoldTicks \in Nat
         /\ mark \in Int /\ held \in Nat /\ idx \in Nat \ {0} /\ Len(prims) \in Nat
         /\ Active => idx <= Len(prims)
<1>1. PreSteerTime \in Nat /\ SettleTime \in Nat /\ SegmentTimeout \in Nat /\ HoldTimeout \in Nat
  BY ExecutorAssumption
<1>2. HoldTicks \in Nat /\ HoldTicks = HoldTimeout + 2
  BY <1>1 DEF HoldTicks
<1>3. (SegmentTimeout + 1) * HoldTicks \in Nat
  BY <1>1, <1>2
<1>4. /\ SegmentTicks = PreSteerTime + (SegmentTimeout + 1) * HoldTicks + SettleTime + 4
      /\ SegmentTicks \in Nat
  BY <1>1, <1>3 DEF SegmentTicks
<1>5. mark \in Int /\ held \in Nat /\ idx \in Nat \ {0} /\ Len(prims) \in Nat /\ (Active => idx <= Len(prims))
  BY DEF TickInv, TypeOK
<1>6. QED
  BY <1>1, <1>2, <1>3, <1>4, <1>5

\* Driving time that passes makes room for a hold.
LEMMA DriveRoom ==
  ASSUME NEW n \in Nat, NEW k \in Nat, NEW h \in Nat, k < n
  PROVE  /\ k * h \in Nat /\ n * h \in Nat /\ k * h + h <= n * h
<1>1. n - (k + 1) \in Nat
  OBVIOUS
<1>2. (n - (k + 1)) * h \in Nat
  BY <1>1
<1>3. (n - (k + 1)) * h = n * h - (k * h + h)
  OBVIOUS
<1>4. k * h \in Nat /\ n * h \in Nat
  OBVIOUS
<1>5. QED
  BY <1>2, <1>3, <1>4

\* What is left of a segment is never more than a segment.
LEMMA SegmentBound == TickInv /\ Active => TicksInSegment \in 1..(SegmentTicks - 1)
<1> SUFFICES ASSUME TickInv, Active PROVE TicksInSegment \in 1..(SegmentTicks - 1)
  OBVIOUS
<1> DEFINE s == SegmentTimeout + 1
           h == HoldTicks
           w == s * h
<1>1. /\ PreSteerTime \in Nat /\ SettleTime \in Nat /\ SegmentTimeout \in Nat /\ HoldTimeout \in Nat
      /\ h \in Nat /\ h = HoldTimeout + 2 /\ w \in Nat /\ mark \in Int /\ held \in Nat
      /\ SegmentTicks = PreSteerTime + w + SettleTime + 4
  BY TickNumbers
<1>2. state \in {"PRE_STEER", "DRIVING", "HOLD", "SETTLE"}
  BY DEF TickInv, TypeOK, States, Active
<1>3. CASE state = "PRE_STEER"
  <2>1. TicksInSegment = (PreSteerTime - mark) + w + SettleTime + 3
    BY <1>3 DEF TicksInSegment
  <2>2. mark \in 0..PreSteerTime
    BY <1>3 DEF TickInv, ClocksInTime
  <2> HIDE DEF w
  <2>3. QED
    BY <1>1, <2>1, <2>2
<1>4. CASE state = "DRIVING"
  <2> DEFINE k == s - mark
  <2>1. TicksInSegment = k * h + SettleTime + 2
    BY <1>1, <1>4 DEF TicksInSegment
  <2>2. mark \in 0..SegmentTimeout
    BY <1>4 DEF TickInv, ClocksInTime
  <2>3. k \in Nat /\ s \in Nat /\ (k < s \/ k = s)
    BY <1>1, <2>2
  <2> HIDE DEF k, s, h
  <2>4. k * h \in Nat /\ k * h <= w
    BY <1>1, <2>3, DriveRoom
  <2> HIDE DEF w
  <2>5. QED
    BY <1>1, <2>1, <2>4
<1>5. CASE state = "HOLD"
  <2> DEFINE k == s - (mark - held)
  <2>1. TicksInSegment = k * h + (HoldTimeout - held) + SettleTime + 3
    BY <1>1, <1>5 DEF TicksInSegment
  <2>2. mark - held \in 1..SegmentTimeout /\ held <= HoldTimeout
    BY <1>5 DEF TickInv, ClocksInTime
  <2>3. k \in Nat /\ s \in Nat /\ k < s
    BY <1>1, <2>2
  <2> HIDE DEF k, s, h
  <2>4. k * h \in Nat /\ k * h + h <= w
    BY <1>1, <2>3, DriveRoom
  <2> HIDE DEF w
  <2>5. QED
    BY <1>1, <2>1, <2>2, <2>4
<1>6. CASE state = "SETTLE"
  <2>1. TicksInSegment = (SettleTime - mark) + 1
    BY <1>6 DEF TicksInSegment
  <2>2. mark \in 0..SettleTime
    BY <1>6 DEF TickInv, ClocksInTime
  <2> HIDE DEF w
  <2>3. QED
    BY <1>1, <2>1, <2>2
<1>7. QED
  BY <1>2, <1>3, <1>4, <1>5, <1>6

\* A tick ends the maneuver, goes on within the segment or starts the next one.
Ends == ~Active'
\* Within the segment there is less left of it.
GoesOn == Active' /\ UNCHANGED <<prims, idx>> /\ TicksInSegment' < TicksInSegment
\* The next one.
StartsNext == Active' /\ prims' = prims /\ idx' = idx + 1

\* Which of these, action by action, and that the clocks stay within their times.
LEMMA TickGoesOn ==
  ASSUME TickInv, NEW dt \in 1..MaxDelay, NEW step, NEW turn, Tick(dt, step, turn),
         mark' \in Int, held' \in Int
  PROVE  ClocksInTime' /\ (Ends \/ GoesOn \/ StartsNext)
<1> DEFINE s == SegmentTimeout + 1
           h == HoldTicks
           w == s * h
           Goal == ClocksInTime' /\ (Ends \/ GoesOn \/ StartsNext)
<1>1. /\ PreSteerTime \in Nat /\ SettleTime \in Nat /\ SegmentTimeout \in Nat /\ HoldTimeout \in Nat
      /\ h \in Nat /\ h = HoldTimeout + 2 /\ w \in Nat /\ mark \in Int /\ held \in Nat
      /\ dt \in Nat /\ dt >= 1
  BY TickNumbers, ExecutorAssumption
<1>2. /\ state = "PRE_STEER" => TicksInSegment = (PreSteerTime - mark) + w + SettleTime + 3
      /\ state = "DRIVING" => TicksInSegment = (s - mark) * h + SettleTime + 2
      /\ state = "HOLD" => TicksInSegment = (s - (mark - held)) * h + (HoldTimeout - held) + SettleTime + 3
      /\ state = "SETTLE" => TicksInSegment = (SettleTime - mark) + 1
  BY <1>1 DEF TicksInSegment
<1>3. /\ state' = "PRE_STEER" => TicksInSegment' = (PreSteerTime - mark') + w + SettleTime + 3
      /\ state' = "DRIVING" => TicksInSegment' = (s - mark') * h + SettleTime + 2
      /\ state' = "HOLD" => TicksInSegment' = (s - (mark' - held')) * h + (HoldTimeout - held') + SettleTime + 3
      /\ state' = "SETTLE" => TicksInSegment' = (SettleTime - mark') + 1
  BY <1>1 DEF TicksInSegment
<1>4. ClocksInTime
  BY DEF TickInv
<1>5. CASE PreSteerWait(dt)
  <2>1. /\ state = "PRE_STEER" /\ state' = "PRE_STEER" /\ prims' = prims /\ idx' = idx
        /\ mark' = mark + dt /\ mark' < PreSteerTime
    BY <1>5 DEF PreSteerWait
  <2>2. ClocksInTime'
    BY <1>1, <1>4, <2>1 DEF ClocksInTime
  <2> HIDE DEF w
  <2>3. TicksInSegment' < TicksInSegment
    BY <1>1, <1>2, <1>3, <2>1
  <2>4. QED
    BY <2>1, <2>2, <2>3 DEF GoesOn, Active
<1>6. CASE PreSteerDone(dt)
  <2>1. /\ state = "PRE_STEER" /\ state' = "DRIVING" /\ prims' = prims /\ idx' = idx /\ mark' = 0
    BY <1>6 DEF PreSteerDone
  <2>2. ClocksInTime'
    BY <1>1, <2>1 DEF ClocksInTime
  <2>3. TicksInSegment' = w + SettleTime + 2
    <3>1. s - 0 = s
      BY <1>1
    <3>2. QED
      BY <1>3, <2>1, <3>1
  <2>4. mark \in 0..PreSteerTime
    BY <1>4, <2>1 DEF ClocksInTime
  <2> HIDE DEF w
  <2>5. TicksInSegment' < TicksInSegment
    BY <1>1, <1>2, <2>1, <2>3, <2>4
  <2>6. QED
    BY <2>1, <2>2, <2>5 DEF GoesOn, Active
<1>7. CASE SettleWait(dt)
  <2>1. /\ state = "SETTLE" /\ state' = "SETTLE" /\ prims' = prims /\ idx' = idx
        /\ mark' = mark + dt /\ mark' < SettleTime
    BY <1>7 DEF SettleWait
  <2>2. ClocksInTime'
    BY <1>1, <1>4, <2>1 DEF ClocksInTime
  <2>3. TicksInSegment' < TicksInSegment
    BY <1>1, <1>2, <1>3, <2>1
  <2>4. QED
    BY <2>1, <2>2, <2>3 DEF GoesOn, Active
<1>8. CASE SettleNext(dt)
  <2>1. prims' = prims /\ idx' = idx + 1
    BY <1>8 DEF SettleNext
  <2>2. CASE state' = "DONE"
    BY <2>2 DEF ClocksInTime, Ends, Active
  <2>3. CASE state' = "PRE_STEER" /\ mark' = 0
    <3>1. 0 \in 0..PreSteerTime
      BY <1>1
    <3>2. ClocksInTime'
      BY <2>3, <3>1 DEF ClocksInTime
    <3>3. QED
      BY <2>1, <2>3, <3>2 DEF StartsNext, Active
  <2>4. QED
    BY <1>8, <2>2, <2>3 DEF SettleNext
<1>9. CASE DriveTimeout(dt, step, turn)
  <2>1. state' = "FAILED"
    BY <1>9 DEF DriveTimeout
  <2>2. QED
    BY <2>1 DEF ClocksInTime, Ends, Active
<1>10. ASSUME NEW v, HoldRelease(dt, v) PROVE Goal
  <2>1. /\ state = "HOLD" /\ state' = "DRIVING" /\ prims' = prims /\ idx' = idx
        /\ mark' = (mark + dt) - (held + dt)
    BY <1>10 DEF HoldRelease
  <2>2. mark' = mark - held /\ held <= HoldTimeout
    BY <1>1, <1>4, <2>1 DEF ClocksInTime
  <2>3. ClocksInTime'
    BY <1>1, <1>4, <2>1, <2>2 DEF ClocksInTime
  <2> DEFINE r == (s - (mark - held)) * h
  <2>4. TicksInSegment' = r + SettleTime + 2 /\ TicksInSegment = r + (HoldTimeout - held) + SettleTime + 3
    BY <1>2, <1>3, <2>1, <2>2
  <2>5. r \in Int
    <3>1. s - (mark - held) \in Int
      BY <1>1
    <3> HIDE DEF s, h
    <3>2. QED
      BY <1>1, <3>1
  <2> HIDE DEF r
  <2>6. TicksInSegment' < TicksInSegment
    BY <1>1, <2>2, <2>4, <2>5
  <2>7. QED
    BY <2>1, <2>3, <2>6 DEF GoesOn, Active
<1>11. ASSUME NEW v, HoldWait(dt, v) PROVE Goal
  <2>1. /\ state = "HOLD" /\ state' = "HOLD" /\ prims' = prims /\ idx' = idx
        /\ mark' = mark + dt /\ held' = held + dt /\ held' <= HoldTimeout
    BY <1>11 DEF HoldWait
  <2>2. mark' - held' = mark - held
    BY <1>1, <2>1
  <2>3. ClocksInTime'
    BY <1>1, <1>4, <2>1, <2>2 DEF ClocksInTime
  <2> DEFINE r == (s - (mark - held)) * h
  <2>4. /\ TicksInSegment' = r + (HoldTimeout - held') + SettleTime + 3
        /\ TicksInSegment = r + (HoldTimeout - held) + SettleTime + 3
    BY <1>2, <1>3, <2>1, <2>2
  <2>5. r \in Int
    <3>1. s - (mark - held) \in Int
      BY <1>1
    <3> HIDE DEF s, h
    <3>2. QED
      BY <1>1, <3>1
  <2> HIDE DEF r
  <2>6. TicksInSegment' < TicksInSegment
    BY <1>1, <2>1, <2>4, <2>5
  <2>7. QED
    BY <2>1, <2>3, <2>6 DEF GoesOn, Active
<1>12. ASSUME NEW v, HoldGiveUp(dt, v) PROVE Goal
  <2>1. state' = "FAILED"
    BY <1>12 DEF HoldGiveUp
  <2>2. QED
    BY <2>1 DEF ClocksInTime, Ends, Active
<1>13. ASSUME NEW v, DriveStop(dt, step, turn, v) PROVE Goal
  <2>1. /\ state = "DRIVING" /\ state' = "HOLD" /\ prims' = prims /\ idx' = idx
        /\ mark' = mark + dt /\ mark' <= SegmentTimeout /\ held' = 0
    BY <1>13 DEF DriveStop, InTime
  <2>2. mark \in Nat /\ mark' - held' = mark'
    BY <1>1, <1>4, <2>1 DEF ClocksInTime
  <2>3. ClocksInTime'
    BY <1>1, <1>4, <2>1, <2>2 DEF ClocksInTime
  <2> DEFINE n == s - mark
             k == s - mark'
  <2>4. n \in Nat /\ k \in Nat /\ k < n
    BY <1>1, <2>1, <2>2
  <2>5. /\ TicksInSegment' = k * h + HoldTimeout + SettleTime + 3
        /\ TicksInSegment = n * h + SettleTime + 2
    BY <1>1, <1>2, <1>3, <2>1, <2>2
  <2> HIDE DEF n, k, h
  <2>6. k * h \in Nat /\ n * h \in Nat /\ k * h + h <= n * h
    BY <1>1, <2>4, DriveRoom
  <2>7. TicksInSegment' < TicksInSegment
    BY <1>1, <2>5, <2>6
  <2>8. QED
    BY <2>1, <2>3, <2>7 DEF GoesOn, Active
<1>14. ASSUME NEW v, DriveFinish(dt, step, turn, v) PROVE Goal
  <2>1. /\ state = "DRIVING" /\ state' = "SETTLE" /\ prims' = prims /\ idx' = idx /\ mark' = 0
    BY <1>14 DEF DriveFinish, InTime
  <2>2. ClocksInTime' /\ mark \in 0..SegmentTimeout
    BY <1>1, <1>4, <2>1 DEF ClocksInTime
  <2>3. (s - mark) * h \in Nat
    <3> DEFINE k == s - mark
    <3>1. k \in Nat
      BY <1>1, <2>2
    <3> HIDE DEF k, h
    <3>2. k * h \in Nat
      BY <1>1, <3>1
    <3>3. QED
      BY <3>2 DEF k
  <2>4. TicksInSegment' < TicksInSegment
    BY <1>1, <1>2, <1>3, <2>1, <2>3
  <2>5. QED
    BY <2>1, <2>2, <2>4 DEF GoesOn, Active
<1>15. ASSUME NEW v, DriveOn(dt, step, turn, v) PROVE Goal
  <2>1. /\ state = "DRIVING" /\ state' = "DRIVING" /\ prims' = prims /\ idx' = idx
        /\ mark' = mark + dt /\ mark' <= SegmentTimeout
    BY <1>15 DEF DriveOn, InTime
  <2>2. mark \in Nat
    BY <1>1, <1>4, <2>1 DEF ClocksInTime
  <2>3. ClocksInTime'
    BY <1>1, <1>4, <2>1, <2>2 DEF ClocksInTime
  <2> DEFINE n == s - mark
             k == s - mark'
  <2>4. n \in Nat /\ k \in Nat /\ k < n
    BY <1>1, <2>1, <2>2
  <2>5. TicksInSegment' = k * h + SettleTime + 2 /\ TicksInSegment = n * h + SettleTime + 2
    BY <1>2, <1>3, <2>1
  <2> HIDE DEF n, k, h
  <2>6. k * h \in Nat /\ n * h \in Nat /\ k * h + h <= n * h
    BY <1>1, <2>4, DriveRoom
  <2>7. TicksInSegment' < TicksInSegment
    BY <1>1, <2>5, <2>6 DEF h
  <2>8. QED
    BY <2>1, <2>3, <2>7 DEF GoesOn, Active
<1>16. QED
  BY <1>5, <1>6, <1>7, <1>8, <1>9, <1>10, <1>11, <1>12, <1>13, <1>14, <1>15, TickCases

\* So a tick takes one off the ticks that are left.
LEMMA TickTakesOne ==
  ASSUME TickInv, NEW dt \in 1..MaxDelay, NEW step, NEW turn, Tick(dt, step, turn), TickInv'
  PROVE  TicksLeft' >= 0 /\ TicksLeft' < TicksLeft
<1> DEFINE a == SegmentTicks
           n == Len(prims) - idx
           t == TicksInSegment
<1>1. Active
  BY DEF Tick
<1>2. n \in Nat /\ a \in Nat /\ t \in 1..(a - 1) /\ TicksLeft = n * a + t
  <2>1. a \in Nat /\ idx \in Nat /\ Len(prims) \in Nat /\ idx <= Len(prims)
    BY <1>1, TickNumbers
  <2>2. t \in 1..(a - 1)
    BY <1>1, SegmentBound
  <2>3. QED
    BY <1>1, <2>1, <2>2 DEF TicksLeft
<1>3. ASSUME Active' PROVE t' \in 1..(a - 1) /\ TicksLeft' = (Len(prims') - idx') * a + t'
  <2>1. (TickInv /\ Active => TicksInSegment \in 1..(SegmentTicks - 1))'
    BY SegmentBound, PTL
  <2>2. SegmentTicks' = SegmentTicks
    BY DEF SegmentTicks, HoldTicks
  <2>3. QED
    BY <1>3, <2>1, <2>2 DEF TicksLeft
<1>4. Ends \/ GoesOn \/ StartsNext
  <2>1. mark' \in Int /\ held' \in Int
    BY DEF TickInv, TypeOK
  <2>2. QED
    BY <2>1, TickGoesOn
<1>5. n * a \in Nat
  <2> HIDE DEF n, a
  <2>1. QED
    BY <1>2
<1>6. CASE Ends
  <2>1. TicksLeft' = 0
    BY <1>6 DEF Ends, TicksLeft
  <2> HIDE DEF n, a, t
  <2>2. QED
    BY <1>2, <1>5, <2>1
<1>7. CASE GoesOn
  <2>1. Active' /\ t' < t /\ (Len(prims') - idx') * a = n * a
    BY <1>7 DEF GoesOn
  <2>2. TicksLeft' = n * a + t' /\ t' \in Nat
    BY <1>2, <1>3, <2>1
  <2>3. QED
    BY <1>2, <1>5, <2>1, <2>2
<1>8. CASE StartsNext
  <2>1. Active' /\ Len(prims') - idx' = Len(prims) - (idx + 1)
    BY <1>8 DEF StartsNext
  <2>2. idx \in Int /\ Len(prims) \in Int /\ Len(prims) - (idx + 1) = n - 1
    BY TickNumbers
  <2>3. n - 1 >= 0
    <3>1. idx' \in 1..Len(prims')
      BY <2>1 DEF TickInv, TypeOK
    <3>2. idx' = idx + 1 /\ prims' = prims
      BY <1>8 DEF StartsNext
    <3>3. QED
      BY <2>2, <3>1, <3>2
  <2> DEFINE b == n * a
             c == n - 1
  <2>4. c * a = b - a
    <3> HIDE DEF n, a
    <3>1. c * a = n * a - a
      BY <1>2
    <3>2. QED
      BY <3>1
  <2>5. c * a \in Nat
    <3>1. c \in Nat
      BY <1>2, <2>3
    <3> HIDE DEF c, a
    <3>2. QED
      BY <1>2, <3>1
  <2>6. TicksLeft' = c * a + t' /\ t' \in 1..(a - 1)
    BY <1>3, <2>1, <2>2
  <2> HIDE DEF n, a, t, b, c
  <2>7. TicksLeft = b + t /\ b \in Nat
    BY <1>2, <1>5 DEF b
  <2>8. QED
    BY <1>2, <2>4, <2>5, <2>6, <2>7
<1>9. QED
  BY <1>4, <1>6, <1>7, <1>8

\* The clocks stay within their times.
LEMMA TickInvStep == ASSUME TickInv, [Next]_execVars PROVE TickInv'
<1>1. TypeOK'
  BY StepTyping DEF TickInv
<1>2. PreSteerTime \in Nat
  BY ExecutorAssumption
<1>3. ASSUME NEW plan \in Plans, Start(plan) PROVE ClocksInTime'
  <2>1. state' = "DONE" \/ (state' = "PRE_STEER" /\ mark' = 0)
    BY <1>3 DEF Start
  <2>2. 0 \in 0..PreSteerTime
    BY <1>2
  <2>3. QED
    BY <2>1, <2>2 DEF ClocksInTime
<1>4. ASSUME OdomArrives \/ UNCHANGED execVars PROVE ClocksInTime'
  <2>1. state' = state /\ mark' = mark /\ held' = held
    BY <1>4 DEF OdomArrives, execVars
  <2>2. QED
    BY <2>1 DEF TickInv, ClocksInTime
<1>5. ASSUME Abort PROVE ClocksInTime'
  BY <1>5 DEF Abort, ClocksInTime
<1>6. ASSUME NEW dt \in 1..MaxDelay, NEW step \in 0..MaxStep, NEW turn \in -MaxTurn..MaxTurn,
             Tick(dt, step, turn)
      PROVE  ClocksInTime'
  <2>1. mark' \in Int /\ held' \in Int
    BY <1>1 DEF TypeOK
  <2>2. QED
    BY <1>6, <2>1, TickGoesOn
<1>7. QED
  BY <1>1, <1>3, <1>4, <1>5, <1>6 DEF Next, SomeTick, TickInv

\* A maneuver that starts has at most all its segments' ticks.
LEMMA StartHasTicks ==
  ASSUME TickInv', NEW plan \in Plans, Start(plan)
  PROVE  TicksLeft' <= Len(prims') * SegmentTicks
<1> DEFINE a == SegmentTicks
           t == TicksInSegment
<1>1. a \in Nat /\ a' = a
  <2>1. a \in Nat
    <3>1. HoldTicks \in Nat
      BY ExecutorAssumption DEF HoldTicks
    <3>2. (SegmentTimeout + 1) * HoldTicks \in Nat
      BY <3>1, ExecutorAssumption
    <3>3. QED
      BY <3>2, ExecutorAssumption DEF SegmentTicks
  <2>2. QED
    BY <2>1 DEF SegmentTicks, HoldTicks
<1>2. idx' = 1 /\ Len(prims') \in Nat
  BY DEF Start, TickInv, TypeOK
<1>3. CASE ~Active'
  <2>1. TicksLeft' = 0
    BY <1>3 DEF TicksLeft
  <2> HIDE DEF a
  <2>2. Len(prims') * a \in Nat
    BY <1>1, <1>2
  <2>3. QED
    BY <2>1, <2>2 DEF a
<1>4. CASE Active'
  <2>1. (TickInv /\ Active => TicksInSegment \in 1..(SegmentTicks - 1))'
    BY SegmentBound, PTL
  <2>2. t' \in 1..(a - 1)
    BY <1>1, <1>4, <2>1
  <2> DEFINE n == Len(prims')
             c == n - 1
  <2>3. TicksLeft' = c * a + t'
    BY <1>1, <1>2, <1>4 DEF TicksLeft
  <2>4. \A m, x, y \in Nat : y < x => (m - 1) * x + y <= m * x
    <3>1. \A m \in Nat, x \in Nat : (m - 1) * x = m * x - x /\ m * x \in Nat
      OBVIOUS
    <3>2. QED
      BY <3>1
  <2>5. n \in Nat /\ a \in Nat /\ TicksInSegment' \in Nat /\ TicksInSegment' < a
    BY <1>1, <1>2, <2>2
  <2> HIDE DEF a, n
  <2>6. (n - 1) * a + TicksInSegment' <= n * a
    BY <2>4, <2>5
  <2>7. QED
    BY <2>3, <2>6 DEF n, a, t
<1>5. QED
  BY <1>3, <1>4

\* A maneuver of n segments is over after at most n * SegmentTicks ticks, whatever its
\* segments, the delays between the ticks, the odometry and the guard (motion.py 138-264):
\* a guard that flips between stop and go for ever cannot keep it alive.
THEOREM ManeuversCountDown == Spec => TicksCountDown
<1>1. Init => TickInv
  <2> SUFFICES ASSUME Init PROVE TickInv
    OBVIOUS
  <2>1. QED
    BY InitTyping DEF TickInv, ClocksInTime, Init
<1>2. TickInv /\ [Next]_execVars => TickInv'
  BY TickInvStep
<1>3. TickInv /\ TickInv' /\ [Next]_execVars =>
        [/\ SomeTick => TicksLeft' >= 0 /\ TicksLeft' < TicksLeft
         /\ (\E plan \in Plans : Start(plan)) => TicksLeft' <= Len(prims') * SegmentTicks]_execVars
  <2>1. ASSUME TickInv, TickInv', SomeTick PROVE TicksLeft' >= 0 /\ TicksLeft' < TicksLeft
    BY <2>1, TickTakesOne DEF SomeTick
  <2>2. ASSUME TickInv', NEW plan \in Plans, Start(plan) PROVE TicksLeft' <= Len(prims') * SegmentTicks
    BY <2>2, StartHasTicks
  <2>3. QED
    BY <2>1, <2>2
<1>4. QED
  BY <1>1, <1>2, <1>3, PTL DEF Spec, TicksCountDown

-----------------------------------------------------------------------------
(* the guard *)

\* A new guard is well typed.
LEMMA GuardInitTyping == ASSUME GuardInit PROVE GuardTypeOK
<1> USE GuardAssumption DEF GuardInit
<1>1. values \in [RearChannels -> {NoEcho} \cup MinValid..MaxValid]
  BY DEF NoEcho
<1>2. age \in 0..(StaleAfter + 1) /\ bad_hits \in 0..ConfirmHits
  OBVIOUS
<1>3. good_hits \in 0..(ResumeClearHits - 1)
  OBVIOUS
<1>4. fed \in BOOLEAN /\ holding \in BOOLEAN
  OBVIOUS
<1>5. verdict \in Verdict
  BY DEF Verdict, Reasons
<1>6. QED
  BY <1>1, <1>2, <1>3, <1>4, <1>5 DEF GuardTypeOK

\* Every step of the guard keeps its variables in their types; in particular
\* the two hit counters stay below their limits.
LEMMA GuardTyping == ASSUME GuardTypeOK, [GuardNext]_guardVars PROVE GuardTypeOK'
<1> USE GuardAssumption DEF GuardTypeOK, Verdict, Reasons, NoEcho
<1>1. CASE Feed
  BY <1>1 DEF Feed, ToMeters
<1>2. ASSUME NEW dt \in 1..MaxWait, Wait(dt) PROVE GuardTypeOK'
  BY <1>2 DEF Wait, AgeAfter
<1>3. ASSUME NEW dt \in 0..MaxWait, NEW direction \in {-1, 1}, Check(direction, dt)
      PROVE  GuardTypeOK'
  <2>1. age' \in 0..(StaleAfter + 1)
    <3>1. age' = AgeAfter(dt)
      BY <1>3, Zenon DEF Check, CheckForward, CheckReverse, CheckNeverFed, CheckStale,
           CheckNoEcho, CheckConfirming, CheckNear, CheckReleasing, CheckClear, Fresh
    <3>2. QED
      BY <3>1 DEF AgeAfter
  <2>2. CASE CheckForward(dt)
    BY <2>1, <2>2 DEF CheckForward, Answer
  <2>3. CASE CheckNeverFed(dt)
    BY <2>1, <2>3 DEF CheckNeverFed, Answer
  <2>4. CASE CheckStale(dt)
    BY <2>1, <2>4 DEF CheckStale, Answer
  <2>5. CASE CheckNoEcho(dt)
    BY <2>1, <2>5 DEF CheckNoEcho, Fresh, Answer
  <2>6. CASE CheckConfirming(dt)
    BY <2>1, <2>6 DEF CheckConfirming, Fresh, Confirmed, Answer
  <2>7. CASE CheckNear(dt)
    BY <2>1, <2>7 DEF CheckNear, Fresh, Answer
  <2>8. CASE CheckReleasing(dt)
    BY <2>1, <2>8 DEF CheckReleasing, Fresh, Released, Answer
  <2>9. CASE CheckClear(dt)
    <3>1. RearWithin(SlowDistance) \in BOOLEAN
      BY DEF RearWithin
    <3>2. verdict' \in Verdict
      BY <2>9, <3>1, Zenon DEF CheckClear, Answer, Verdict, Reasons
    <3>3. values' = values /\ fed' = fed /\ bad_hits' = 0 /\ holding' = FALSE
      BY <2>9 DEF CheckClear
    <3>4. good_hits' \in 0..(ResumeClearHits - 1)
      BY <2>9 DEF CheckClear
    <3>5. bad_hits' \in 0..ConfirmHits
      BY <3>3
    <3>6. holding' \in BOOLEAN /\ fed' \in BOOLEAN
      BY <3>3, Zenon
    <3>7. QED
      BY <2>1, <3>2, <3>3, <3>4, <3>5, <3>6, Zenon
  <2>10. QED
    BY <1>3, <2>2, <2>3, <2>4, <2>5, <2>6, <2>7, <2>8, <2>9 DEF Check, CheckReverse
<1>4. CASE UNCHANGED guardVars
  BY <1>4 DEF guardVars
<1>5. QED
  BY <1>1, <1>2, <1>3, <1>4 DEF GuardNext

\* The guard on its own is well typed.
THEOREM GuardTypeCorrect == GuardSpec => []GuardTypeOK
<1>1. GuardInit => GuardTypeOK
  BY GuardInitTyping
<1>2. QED
  BY <1>1, GuardTyping, PTL DEF GuardSpec

\* The history variables only watch: each step with them is a guard step.
LEMMA GuardHistoryStep == ASSUME [HGuardNext]_guardHistoryVars PROVE [GuardNext]_guardVars
BY GuardAssumption
   DEF HGuardNext, guardHistoryVars, HFeed, HWait, HCheckForward, HCheckReverse, GuardNext, guardVars

-----------------------------------------------------------------------------
\* One reverse check moves the code's counters at least as far as the history
\* it stands for, and answers "not safe" once the history is long enough.
LEMMA ReverseCheckInv ==
  ASSUME GuardInv, GuardTypeOK', NEW dt \in 0..MaxWait, HCheckReverse(dt)
  PROVE  GuardHistoryOK' /\ CountersFollow' /\ NearMeansStop'
<1> USE GuardAssumption DEF GuardInv, GuardHistoryOK, CountersFollow, NearMeansStop,
                            ReverseVerdict, GuardTypeOK, UpTo
<1>1. CheckReverse(dt)
  BY DEF HCheckReverse, Check
<1>2. CASE CheckNeverFed(dt)
  BY <1>2 DEF HCheckReverse, CheckNeverFed, Live, Answer
<1>3. CASE CheckStale(dt)
  BY <1>3 DEF HCheckReverse, CheckStale, Live, Answer
<1>4. CASE CheckNoEcho(dt)
  <2>1. ~RearNear /\ ~RearClear
    BY <1>4 DEF CheckNoEcho, RearUnknown, RearNear, RearClear, RearWithin
  <2>2. QED
    BY <1>4, <2>1 DEF HCheckReverse, CheckNoEcho, Live, Answer
<1>5. CASE CheckConfirming(dt)
  BY <1>5 DEF HCheckReverse, CheckConfirming, Confirmed, Fresh, Live, Answer
<1>6. CASE CheckNear(dt)
  BY <1>6 DEF HCheckReverse, CheckNear, Confirmed, Fresh, Live, Answer
<1>7. CASE CheckReleasing(dt)
  BY <1>7 DEF HCheckReverse, CheckReleasing, Released, Fresh, Live, RearClear, Answer
<1>8. CASE CheckClear(dt)
  BY <1>8 DEF HCheckReverse, CheckClear, Released, Fresh, Live, RearClear, Answer
<1>9. QED
  BY <1>1, <1>2, <1>3, <1>4, <1>5, <1>6, <1>7, <1>8 DEF CheckReverse

\* A stop that has been answered is counted in full until a clear check follows it.
LEMMA ReverseCheckStop ==
  ASSUME GuardInv, GuardTypeOK', NEW dt \in 0..MaxWait, HCheckReverse(dt)
  PROVE  StopCounted'
<1> USE GuardAssumption DEF GuardInv, GuardHistoryOK, GuardTypeOK, UpTo
<1>1. CheckReverse(dt) /\ stopped' = (verdict'.reason = "near" \/ (stopped /\ ~verdict'.safe))
  BY DEF HCheckReverse, Check
<1>2. stopped' \in BOOLEAN /\ (stopped' => (verdict'.reason = "near" \/ (stopped /\ ~verdict'.safe)))
  BY <1>1, Zenon
<1>3. SUFFICES ASSUME stopped' PROVE holding' /\ (clear_run' = 0 => bad_hits' >= ConfirmHits)
  BY <1>2, Zenon DEF StopCounted
<1>4. CASE CheckNear(dt)
  BY <1>4 DEF CheckNear
<1>5. ASSUME verdict'.reason # "near", UNCHANGED <<bad_hits, holding, clear_run>>
      PROVE  holding' /\ (clear_run' = 0 => bad_hits' >= ConfirmHits)
  BY <1>2, <1>3, <1>5, Zenon DEF StopCounted
<1>6. CASE CheckNeverFed(dt)
  <2>1. ~Live'
    BY <1>6 DEF CheckNeverFed, Live
  <2>2. UNCHANGED <<bad_hits, holding, clear_run>> /\ verdict'.reason # "near"
    BY <1>6, <2>1 DEF HCheckReverse, CheckNeverFed, Answer
  <2>3. QED
    BY <1>5, <2>2
<1>7. CASE CheckStale(dt)
  <2>1. ~Live'
    BY <1>7 DEF CheckStale, Live
  <2>2. UNCHANGED <<bad_hits, holding, clear_run>> /\ verdict'.reason # "near"
    BY <1>7, <2>1 DEF HCheckReverse, CheckStale, Answer
  <2>3. QED
    BY <1>5, <2>2
<1>8. CASE CheckReleasing(dt)
  <2>1. Live' /\ RearClear /\ ~RearNear
    BY <1>8 DEF CheckReleasing, Fresh, Live, RearClear
  <2>2. clear_run' = UpTo(ResumeClearHits, clear_run + 1) /\ holding'
    BY <1>8, <2>1 DEF HCheckReverse, CheckReleasing
  <2>3. QED
    BY <2>2
<1>9. CASE CheckNoEcho(dt) \/ CheckConfirming(dt) \/ CheckClear(dt)
  <2>1. verdict'.safe /\ verdict'.reason # "near"
    BY <1>9 DEF CheckNoEcho, CheckConfirming, CheckClear, Answer
  <2>2. QED
    BY <1>2, <1>3, <2>1, Zenon
<1>10. QED
  BY <1>1, <1>4, <1>6, <1>7, <1>8, <1>9, Zenon DEF CheckReverse

LEMMA GuardInvStep == ASSUME GuardInv, [HGuardNext]_guardHistoryVars PROVE GuardInv'
<1> USE GuardAssumption
<1>1. GuardTypeOK'
  BY GuardHistoryStep, GuardTyping DEF GuardInv
<1>2. CASE HFeed
  BY <1>1, <1>2 DEF HFeed, Feed, historyVars, GuardInv, GuardHistoryOK, CountersFollow,
       NearMeansStop, StopCounted, ReverseVerdict
<1>3. ASSUME NEW dt \in 1..MaxWait, HWait(dt) PROVE GuardInv'
  BY <1>1, <1>3 DEF HWait, Wait, historyVars, GuardInv, GuardHistoryOK,
       CountersFollow, NearMeansStop, StopCounted, ReverseVerdict
<1>4. ASSUME NEW dt \in 0..MaxWait, HCheckForward(dt) PROVE GuardInv'
  <2>1. CheckForward(dt)
    BY <1>4 DEF HCheckForward, Check
  <2>2. QED
    BY <1>1, <1>4, <2>1 DEF HCheckForward, CheckForward, Answer, historyVars,
         GuardInv, GuardHistoryOK, CountersFollow, NearMeansStop, StopCounted, ReverseVerdict
<1>5. ASSUME NEW dt \in 0..MaxWait, HCheckReverse(dt) PROVE GuardInv'
  BY <1>1, <1>5, ReverseCheckInv, ReverseCheckStop DEF GuardInv
<1>6. CASE UNCHANGED guardHistoryVars
  BY <1>6 DEF guardHistoryVars, GuardInv, GuardTypeOK, GuardHistoryOK, CountersFollow, NearMeansStop,
       StopCounted, ReverseVerdict
<1>7. QED
  BY <1>2, <1>3, <1>4, <1>5, <1>6 DEF HGuardNext

\* The inductive invariant holds throughout.
THEOREM GuardInvariant == HGuardSpec => []GuardInv
<1>1. HGuardInit => GuardInv
  <2> SUFFICES ASSUME HGuardInit PROVE GuardInv
    OBVIOUS
  <2>1. GuardTypeOK
    BY GuardInitTyping DEF HGuardInit
  <2>2. GuardHistoryOK
    BY GuardAssumption DEF HGuardInit, GuardHistoryOK
  <2>3. CountersFollow /\ NearMeansStop
    BY GuardAssumption DEF HGuardInit, GuardInit, CountersFollow, NearMeansStop
  <2>4. StopCounted
    BY DEF HGuardInit, StopCounted
  <2>5. QED
    BY <2>1, <2>2, <2>3, <2>4 DEF GuardInv
<1>2. QED
  BY <1>1, GuardInvStep, PTL DEF HGuardSpec

\* A rear that stays near for ConfirmHits reverse checks is always answered with
\* "not safe", for any thresholds, any rates and any earlier history.
THEOREM NearAlwaysStops == HGuardSpec => []NearMeansStop
BY GuardInvariant, PTL DEF GuardInv

\* The counters never lag behind what the guard has been shown.
THEOREM CountersAlwaysFollow == HGuardSpec => []CountersFollow
BY GuardInvariant, PTL DEF GuardInv

\* A stop is answered safe again after ResumeClearHits clear checks since the last near
\* one, on an array without an echo, or on a near array after a clear one, and in no
\* other way, for any thresholds, any rates and any earlier history; the hold behind it
\* is given up only after the clear checks (check, 243-277).
THEOREM ReleasesAreEarned == HGuardSpec => ReleaseNeedsClears
<1> USE GuardAssumption
<1>1. ASSUME GuardInv, [HGuardNext]_guardHistoryVars
      PROVE  [/\ stopped /\ ~stopped' => SafeAgain
              /\ holding /\ ~holding' => clear_run' >= ResumeClearHits]_guardHistoryVars
  <2> SUFFICES ASSUME (stopped /\ ~stopped') \/ (holding /\ ~holding')
               PROVE  /\ stopped /\ ~stopped' => SafeAgain
                      /\ holding /\ ~holding' => clear_run' >= ResumeClearHits
    BY Zenon
  <2>1. PICK dt \in 0..MaxWait : HCheckReverse(dt)
    <3>1. ~HFeed
      BY DEF HFeed, Feed, historyVars
    <3>2. ASSUME NEW d \in 1..MaxWait PROVE ~HWait(d)
      BY DEF HWait, Wait, historyVars
    <3>3. ASSUME NEW d \in 0..MaxWait, HCheckForward(d) PROVE FALSE
      <4>1. CheckForward(d) /\ UNCHANGED historyVars
        BY <3>3 DEF HCheckForward, Check
      <4>2. stopped' = stopped /\ holding' = holding
        BY <4>1 DEF CheckForward, historyVars
      <4>3. QED
        BY <4>2, Zenon
    <3>4. ~UNCHANGED guardHistoryVars
      BY DEF guardHistoryVars
    <3>5. QED
      BY <1>1, <3>1, <3>2, <3>3, <3>4, Zenon DEF HGuardNext
  <2>2. CheckReverse(dt)
    BY <2>1 DEF HCheckReverse, Check
  <2>3. CASE CheckClear(dt)
    <3>1. Live' /\ RearClear /\ ~RearNear
      BY <2>3 DEF CheckClear, Fresh, Live, RearClear
    <3>2. clear_run' = UpTo(ResumeClearHits, clear_run + 1)
      BY <2>1, <3>1 DEF HCheckReverse
    <3>3. holding
      BY <1>1 DEF GuardInv, StopCounted
    <3>4. clear_run' >= ResumeClearHits
      BY <1>1, <2>3, <3>2, <3>3
         DEF CheckClear, Released, UpTo, GuardInv, GuardTypeOK, GuardHistoryOK, CountersFollow
    <3>5. QED
      BY <3>1, <3>4 DEF SafeAgain
  <2>4. CASE ~CheckClear(dt)
    <3>1. holding' \/ ~holding
      BY <2>2, <2>4, Zenon DEF CheckReverse, CheckNeverFed, CheckStale, CheckNoEcho,
           CheckConfirming, CheckNear, CheckReleasing
    <3>2. stopped /\ ~stopped' /\ verdict'.safe
      BY <2>1, <3>1 DEF HCheckReverse
    <3>3. CASE CheckNoEcho(dt)
      BY <3>1, <3>3 DEF CheckNoEcho, SafeAgain
    <3>4. CASE CheckConfirming(dt)
      <4>1. RearNear /\ ~(bad_hits + 1 >= ConfirmHits)
        BY <3>4 DEF CheckConfirming, Confirmed
      <4>2. clear_run # 0
        BY <1>1, <3>2, <4>1 DEF GuardInv, GuardTypeOK, StopCounted
      <4>3. clear_run >= 1
        BY <1>1, <4>2 DEF GuardInv, GuardHistoryOK
      <4>4. QED
        BY <3>1, <4>1, <4>3 DEF SafeAgain
    <3>5. ~verdict'.safe \/ CheckNoEcho(dt) \/ CheckConfirming(dt)
      BY <2>2, <2>4 DEF CheckReverse, CheckNeverFed, CheckStale, CheckNear, CheckReleasing, Answer
    <3>6. QED
      BY <3>2, <3>3, <3>4, <3>5, Zenon
  <2>5. QED
    BY <2>3, <2>4
<1>2. QED
  BY <1>1, GuardInvariant, PTL DEF HGuardSpec, ReleaseNeedsClears

-----------------------------------------------------------------------------
(***************************************************************************)
(* The guard does not stay latched behind a clear rear.                    *)
(***************************************************************************)
\* While the guard holds the car, it has counted just the clear checks there were.
ClearsCounted == holding => good_hits = clear_run

LEMMA ReverseCheckCounts ==
  ASSUME GuardInv, GuardTypeOK', ClearsCounted, NEW dt \in 0..MaxWait, HCheckReverse(dt)
  PROVE  ClearsCounted'
<1> USE GuardAssumption DEF GuardInv, GuardHistoryOK, GuardTypeOK, ClearsCounted, UpTo
<1>1. CheckReverse(dt)
  BY DEF HCheckReverse, Check
<1>2. CASE CheckNeverFed(dt)
  BY <1>2 DEF HCheckReverse, CheckNeverFed, Live
<1>3. CASE CheckStale(dt)
  BY <1>3 DEF HCheckReverse, CheckStale, Live
<1>4. CASE CheckNoEcho(dt)
  <2>1. ~RearNear /\ ~RearClear
    BY <1>4 DEF CheckNoEcho, RearUnknown, RearNear, RearClear, RearWithin
  <2>2. QED
    BY <1>4, <2>1 DEF HCheckReverse, CheckNoEcho, Live
<1>5. CASE CheckConfirming(dt)
  <2>1. Live' /\ RearNear
    BY <1>5 DEF CheckConfirming, Fresh, Live
  <2>2. clear_run' = 0
    BY <2>1 DEF HCheckReverse, RearClear
  <2>3. good_hits' = 0
    BY <1>5, Zenon DEF CheckConfirming
  <2>4. QED
    BY <2>2, <2>3, Zenon DEF ClearsCounted
<1>6. CASE CheckNear(dt)
  <2>1. Live' /\ RearNear
    BY <1>6 DEF CheckNear, Fresh, Live
  <2>2. clear_run' = 0
    BY <2>1 DEF HCheckReverse, RearClear
  <2>3. good_hits' = 0
    BY <1>6, Zenon DEF CheckNear
  <2>4. QED
    BY <2>2, <2>3, Zenon DEF ClearsCounted
<1>7. CASE CheckReleasing(dt)
  <2>1. Live' /\ RearClear /\ ~RearNear
    BY <1>7 DEF CheckReleasing, Fresh, Live, RearClear
  <2>2. clear_run' = UpTo(ResumeClearHits, clear_run + 1)
    BY <2>1 DEF HCheckReverse
  <2>3. good_hits' = good_hits + 1 /\ holding
    BY <1>7 DEF CheckReleasing
  <2>4. good_hits' \in 0..(ResumeClearHits - 1)
    OBVIOUS
  <2>5. QED
    BY <2>2, <2>3, <2>4
<1>8. CASE CheckClear(dt)
  BY <1>8 DEF CheckClear
<1>9. QED
  BY <1>1, <1>2, <1>3, <1>4, <1>5, <1>6, <1>7, <1>8, Zenon DEF CheckReverse

\* A confirmed stop is over with the ResumeClearHits-th clear check since the last near
\* one, for any thresholds, any rates and whatever else was asked or heard in between: the
\* guard cannot stay latched behind a rear that is seen to be clear (check, 265-277).
THEOREM ClearsAlwaysRelease == HGuardSpec => []ClearsRelease
<1>1. HGuardInit => ClearsCounted
  BY DEF HGuardInit, GuardInit, ClearsCounted
<1>2. GuardInv /\ GuardInv' /\ ClearsCounted /\ [HGuardNext]_guardHistoryVars => ClearsCounted'
  <2> SUFFICES ASSUME GuardInv, GuardInv', ClearsCounted, [HGuardNext]_guardHistoryVars
               PROVE  ClearsCounted'
    OBVIOUS
  <2>1. CASE HFeed
    BY <2>1 DEF HFeed, Feed, historyVars, ClearsCounted
  <2>2. ASSUME NEW dt \in 1..MaxWait, HWait(dt) PROVE ClearsCounted'
    BY <2>2 DEF HWait, Wait, historyVars, ClearsCounted
  <2>3. ASSUME NEW dt \in 0..MaxWait, HCheckForward(dt) PROVE ClearsCounted'
    <3>1. CheckForward(dt)
      BY <2>3 DEF HCheckForward, Check
    <3>2. QED
      BY <2>3, <3>1 DEF HCheckForward, CheckForward, historyVars, ClearsCounted
  <2>4. ASSUME NEW dt \in 0..MaxWait, HCheckReverse(dt) PROVE ClearsCounted'
    BY <2>4, ReverseCheckCounts DEF GuardInv
  <2>5. CASE UNCHANGED guardHistoryVars
    BY <2>5 DEF guardHistoryVars, ClearsCounted
  <2>6. QED
    BY <2>1, <2>2, <2>3, <2>4, <2>5 DEF HGuardNext
<1>3. GuardInv /\ ClearsCounted => ClearsRelease
  BY GuardAssumption DEF GuardInv, GuardTypeOK, ClearsCounted, ClearsRelease
<1>4. QED
  BY <1>1, <1>2, <1>3, GuardInvariant, PTL DEF HGuardSpec
=============================================================================
