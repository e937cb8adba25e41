-------------------------- MODULE ManeuverHistory ---------------------------
(***************************************************************************)
(* ManeuverExecutor with history variables that measure time on their own, *)
(* and the properties stated over them.                                    *)
(***************************************************************************)
EXTENDS ManeuverExecutor

VARIABLES
  steady,   \* clock units since the published steering angle last changed
  rolled    \* clock units of the driving ticks of this segment, holds left out

vars == <<state, prims, idx, mark, held, seen, dist, yaw, motor, odom,
          steady, rolled>>

HistoryOK == steady \in 0..PreSteerTime /\ rolled \in Nat

HInit == Init /\ steady = 0 /\ rolled = 0

SteadyAfter(dt) ==
  steady' = IF motor'.steer = motor.steer THEN AtMost(PreSteerTime, steady + dt) ELSE 0

HTick(dt, step, turn) ==
  /\ Tick(dt, step, turn)
  /\ SteadyAfter(dt)
  /\ rolled' = CASE state = "DRIVING"   -> rolled + dt
                 [] state = "PRE_STEER" -> 0
                 [] OTHER               -> rolled

SomeHTick ==
  \E dt \in 1..MaxDelay, step \in 0..MaxStep, turn \in -MaxTurn..MaxTurn :
    HTick(dt, step, turn)

HAbort == Abort /\ SteadyAfter(0) /\ UNCHANGED rolled

HNext ==
  \/ \E plan \in Plans : Start(plan) /\ UNCHANGED <<steady, rolled>>
  \/ OdomArrives /\ UNCHANGED <<steady, rolled>>
  \/ HAbort
  \/ SomeHTick

HSpec == HInit /\ [][HNext]_vars
HFairSpec == HSpec /\ WF_vars(SomeHTick \/ HAbort)

-----------------------------------------------------------------------------
\* The wheels are turned before the car rolls (module header of motion.py): by
\* the time a speed is published, the steering angle published with it has been
\* commanded for pre_steer_time, give or take the delay of one tick.  It holds
\* across holds and across segments that steer the other way.
SteerBeforeRoll ==
  motor.speed # 0 => steady + MaxDelay > PreSteerTime

\* Only driving uses up a segment's time (tick, 212-214): a segment that times
\* out has really been driven for longer than segment_timeout, however often the
\* guard stopped it on the way.
TimeoutIsDriving ==
  [][state = "DRIVING" /\ state' = "FAILED" => rolled' > SegmentTimeout]_vars

\* And no segment is driven for longer than segment_timeout and one tick.
DrivingBounded == rolled <= SegmentTimeout + MaxDelay

-----------------------------------------------------------------------------
(***************************************************************************)
(* The inductive invariant: the segment's clock is the driving time, plus  *)
(* the hold that is going on; and the steering clock of a standing car     *)
(* runs with the pre-steer clock from the first tick on.                   *)
(***************************************************************************)
ClockCountsDriving ==
  /\ state = "DRIVING" => mark = rolled
  /\ state = "HOLD" => mark = rolled + held
  /\ state \in {"DRIVING", "HOLD"} => rolled <= SegmentTimeout

Steering == motor.steer = SteerFor(prim)

SteeringHeld ==
  /\ state = "PRE_STEER" /\ mark > 0 => Steering /\ steady + MaxDelay >= AtMost(PreSteerTime, mark)
  /\ state \in {"DRIVING", "HOLD"} => Steering /\ steady + MaxDelay >= PreSteerTime

StandsStill == state # "DRIVING" => motor.speed = 0

\* Past its first pre-steer a maneuver has odometry, so only a maneuver that has
\* not moved yet is ever aborted for the lack of it.
MovesOnOdometry == state \in {"DRIVING", "HOLD", "SETTLE"} => odom

ExecInv ==
  /\ TypeOK /\ HistoryOK
  /\ ClockCountsDriving
  /\ DrivingBounded
  /\ SteeringHeld
  /\ StandsStill
  /\ MovesOnOdometry
  /\ SteerBeforeRoll
=============================================================================
