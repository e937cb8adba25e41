-------------------------- MODULE ManeuverExecutor --------------------------
(***************************************************************************)
(* The closed-loop executor of parking_mission/motion.py: class            *)
(* ManeuverExecutor.  start() takes a plan, a sequence of arcs and straight *)
(* lines; every timer tick samples the odometry, asks the safety callable  *)
(* and publishes one motor command.                                        *)
(*                                                                         *)
(* Time is counted in clock units.  A tick comes dt units after the        *)
(* previous one, dt in 1..MaxDelay.  `mark' stands for now - _t_mark and   *)
(* `held' for now - _hold_since, at the time of the latest tick.           *)
(* Distances and yaw are counted in odometry steps; MaxStep and MaxTurn    *)
(* bound what one sample adds.  Speeds are integers, in thousandths of the *)
(* motor's unit.                                                           *)
(***************************************************************************)
EXTENDS Integers, Sequences

CONSTANTS
  Prims,           \* the segments plans are made of (geometry.Prim)
  Plans,           \* what callers hand to start()
  SteerLimit,      \* steer_limit_deg
  Cruise,          \* park_speed * speed_gain
  MinMoveSpeed,    \* min_move_speed
  SlowPercent,     \* slow_factor
  PreSteerTime,    \* pre_steer_time
  SettleTime,      \* settle_time
  SegmentTimeout,  \* segment_timeout
  HoldTimeout,     \* hold_timeout
  MaxDelay,        \* bound: clock units between two ticks
  MaxStep,         \* bound: distance one odometry sample adds
  MaxTurn          \* bound: yaw one odometry sample adds

Prim == [kind : {"C", "S"}, length : Nat, direction : {-1, 1},
         turn : {-1, 0, 1}, deg : Nat, yaw : Nat]

\* start() drops the segments that are too short to roll.
Runnable(plan) == SelectSeq(plan, LAMBDA p : p.length > 0)

ASSUME ExecutorAssumption ==
  /\ Prims \subseteq Prim
  /\ \A plan \in Plans : Runnable(plan) \in Seq(Prims)
  /\ SteerLimit \in Nat
  /\ Cruise \in Nat /\ MinMoveSpeed \in Nat \ {0} /\ SlowPercent \in 0..100
  /\ PreSteerTime \in Nat /\ SettleTime \in Nat
  /\ SegmentTimeout \in Nat /\ HoldTimeout \in Nat
  /\ MaxDelay \in Nat \ {0} /\ MaxStep \in Nat /\ MaxTurn \in Nat

VARIABLES
  state,   \* IDLE, PRE_STEER, DRIVING, HOLD, SETTLE, DONE or FAILED
  prims,   \* _prims
  idx,     \* _idx, counted from 1
  mark,    \* now - _t_mark
  held,    \* now - _hold_since
  seen,    \* _last_xy is not None
  dist,    \* _dist
  yaw,     \* _yaw_accum
  motor,   \* the latest command given to publish_motor
  odom     \* an odometry message has arrived (the mission's _odom)

execVars == <<state, prims, idx, mark, held, seen, dist, yaw, motor, odom>>

States == {"IDLE", "PRE_STEER", "DRIVING", "HOLD", "SETTLE", "DONE", "FAILED"}
Active == state \notin {"IDLE", "DONE", "FAILED"}

TypeOK ==
  /\ state \in States
  /\ prims \in Seq(Prims)
  /\ idx \in Nat \ {0}
  /\ Active => idx \in 1..Len(prims)
  /\ mark \in Int /\ held \in Nat
  /\ seen \in BOOLEAN /\ dist \in Nat /\ yaw \in Int
  /\ motor \in [steer : -SteerLimit..SteerLimit, speed : Int]
  /\ odom \in BOOLEAN

-----------------------------------------------------------------------------
prim == prims[idx]

AtMost(bound, n) == IF n > bound THEN bound ELSE n
AtLeast(bound, n) == IF n < bound THEN bound ELSE n

\* `deg' is the angle atan(wheelbase / radius) the segment's own radius, or the
\* configured one, calls for.
SteerFor(p) == IF p.kind = "S" THEN 0 ELSE p.turn * AtMost(SteerLimit, p.deg)

SpeedUnits == AtLeast(MinMoveSpeed, Cruise)
SlowUnits  == AtLeast(MinMoveSpeed, (SpeedUnits * SlowPercent) \div 100)

Publish(steer, speed) == motor' = [steer |-> steer, speed |-> speed]

ResetSeg == seen' = FALSE /\ dist' = 0 /\ yaw' = 0

Accumulate(step, turn) ==
  /\ seen' = TRUE
  /\ dist' = IF seen THEN dist + step ELSE dist
  /\ yaw'  = IF seen THEN yaw + turn ELSE yaw

Turned(angle) == IF angle < 0 THEN -angle ELSE angle

\* _segment_finished: an arc ends at its yaw, or at 1.6 times its length.
SegmentFinished(p, d, y) ==
  \/ p.kind = "C" /\ 10 * d > 16 * p.length
  \/ p.kind = "C" /\ Turned(y) >= p.yaw
  \/ p.kind = "S" /\ d >= p.length

-----------------------------------------------------------------------------
Init ==
  /\ state = "IDLE"
  /\ prims = <<>>
  /\ idx = 1
  /\ mark = 0 /\ held = 0
  /\ seen = FALSE /\ dist = 0 /\ yaw = 0
  /\ motor = [steer |-> 0, speed |-> 0]
  /\ odom = FALSE

OdomArrives ==
  /\ ~odom
  /\ odom' = TRUE
  /\ UNCHANGED <<state, prims, idx, mark, held, seen, dist, yaw, motor>>

\* The callers start a maneuver only when none is under way (ParkStep, ExitStep,
\* HomeStep and LegStep all wait for DONE or FAILED first).
Start(plan) ==
  /\ ~Active
  /\ prims' = Runnable(plan)
  /\ idx' = 1
  /\ ResetSeg
  /\ \/ prims' = <<>> /\ state' = "DONE" /\ UNCHANGED mark
     \/ prims' # <<>> /\ state' = "PRE_STEER" /\ mark' = 0
  /\ UNCHANGED <<held, motor, odom>>

\* abort(): the mission's tick calls it while no odometry has arrived.
Abort ==
  /\ Active
  /\ ~odom
  /\ state' = "FAILED"
  /\ Publish(0, 0)
  /\ UNCHANGED <<prims, idx, mark, held, seen, dist, yaw, odom>>

-----------------------------------------------------------------------------
(* tick() in PRE_STEER: the wheels turn while the car stands. *)
PreSteerWait(dt) ==
  /\ state = "PRE_STEER"
  /\ mark + dt < PreSteerTime
  /\ mark' = mark + dt
  /\ Publish(SteerFor(prim), 0)
  /\ UNCHANGED <<state, prims, idx, held, seen, dist, yaw, odom>>

PreSteerDone(dt) ==
  /\ state = "PRE_STEER"
  /\ mark + dt >= PreSteerTime
  /\ state' = "DRIVING"
  /\ mark' = 0
  /\ ResetSeg
  /\ Publish(SteerFor(prim), 0)
  /\ UNCHANGED <<prims, idx, held, odom>>

\* Mutant: a release leaves the time held on the segment's clock.
HoldReleaseUncredited(dt, v) ==
  /\ state = "HOLD"
  /\ v.safe
  /\ state' = "DRIVING"
  /\ mark' = mark + dt
  /\ held' = held + dt
  /\ Publish(SteerFor(prim), 0)
  /\ UNCHANGED <<prims, idx, seen, dist, yaw, odom>>

\* Mutant: a release starts the segment's clock anew.
HoldReleaseAnew(dt, v) ==
  /\ state = "HOLD"
  /\ v.safe
  /\ state' = "DRIVING"
  /\ mark' = 0
  /\ held' = held + dt
  /\ Publish(SteerFor(prim), 0)
  /\ UNCHANGED <<prims, idx, seen, dist, yaw, odom>>

(* tick() in HOLD, the safety callable answering v. *)
HoldRelease(dt, v) ==
  /\ state = "HOLD"
  /\ v.safe
  /\ state' = "DRIVING"
  /\ mark' = (mark + dt) - (held + dt)
  /\ held' = held + dt
  /\ Publish(SteerFor(prim), 0)
  /\ UNCHANGED <<prims, idx, seen, dist, yaw, odom>>

HoldWait(dt, v) ==
  /\ state = "HOLD"
  /\ ~v.safe
  /\ held + dt <= HoldTimeout
  /\ mark' = mark + dt
  /\ held' = held + dt
  /\ Publish(SteerFor(prim), 0)
  /\ UNCHANGED <<state, prims, idx, seen, dist, yaw, odom>>

HoldGiveUp(dt, v) ==
  /\ state = "HOLD"
  /\ ~v.safe
  /\ held + dt > HoldTimeout
  /\ state' = "FAILED"
  /\ mark' = mark + dt
  /\ held' = held + dt
  /\ Publish(0, 0)
  /\ UNCHANGED <<prims, idx, seen, dist, yaw, odom>>

(* tick() in SETTLE. *)
SettleWait(dt) ==
  /\ state = "SETTLE"
  /\ mark + dt < SettleTime
  /\ mark' = mark + dt
  /\ Publish(0, 0)
  /\ UNCHANGED <<state, prims, idx, held, seen, dist, yaw, odom>>

\* Mutant: the next segment is driven without turning the wheels first.
SettleNextDrives(dt) ==
  /\ state = "SETTLE"
  /\ mark + dt >= SettleTime
  /\ idx' = idx + 1
  /\ mark' = 0
  /\ ResetSeg
  /\ state' = IF idx' > Len(prims) THEN "DONE" ELSE "DRIVING"
  /\ Publish(0, 0)
  /\ UNCHANGED <<prims, held, odom>>

\* Mutant: the segment that has been driven is taken up again.
SettleNextAgain(dt) ==
  /\ state = "SETTLE"
  /\ mark + dt >= SettleTime
  /\ state' = "PRE_STEER" /\ mark' = 0
  /\ Publish(0, 0)
  /\ UNCHANGED <<prims, idx, held, seen, dist, yaw, odom>>

SettleNext(dt) ==
  /\ state = "SETTLE"
  /\ mark + dt >= SettleTime
  /\ idx' = idx + 1
  /\ \/ idx' > Len(prims) /\ state' = "DONE" /\ mark' = mark + dt
     \/ idx' <= Len(prims) /\ state' = "PRE_STEER" /\ mark' = 0
  /\ Publish(0, 0)
  /\ UNCHANGED <<prims, held, seen, dist, yaw, odom>>

(***************************************************************************)
(* tick() in DRIVING, the odometry having moved by step and turn since the *)
(* latest sample.  The timeout is looked at first and the guard before the *)
(* end of the segment.                                                     *)
(***************************************************************************)
\* Mutant: a timed-out segment fails without stopping the motor.
DriveTimeoutRolls(dt, step, turn) ==
  /\ state = "DRIVING"
  /\ mark + dt > SegmentTimeout
  /\ Accumulate(step, turn)
  /\ state' = "FAILED"
  /\ mark' = mark + dt
  /\ UNCHANGED <<prims, idx, held, motor, odom>>

DriveTimeout(dt, step, turn) ==
  /\ state = "DRIVING"
  /\ mark + dt > SegmentTimeout
  /\ Accumulate(step, turn)
  /\ state' = "FAILED"
  /\ mark' = mark + dt
  /\ Publish(0, 0)
  /\ UNCHANGED <<prims, idx, held, odom>>

InTime(dt) == state = "DRIVING" /\ mark + dt <= SegmentTimeout

DriveStop(dt, step, turn, v) ==
  /\ InTime(dt)
  /\ ~v.safe
  /\ Accumulate(step, turn)
  /\ state' = "HOLD"
  /\ mark' = mark + dt
  /\ held' = 0
  /\ Publish(SteerFor(prim), 0)
  /\ UNCHANGED <<prims, idx, odom>>

DriveFinish(dt, step, turn, v) ==
  /\ InTime(dt)
  /\ v.safe
  /\ Accumulate(step, turn)
  /\ SegmentFinished(prim, dist', yaw')
  /\ state' = "SETTLE"
  /\ mark' = 0
  /\ Publish(SteerFor(prim), 0)
  /\ UNCHANGED <<prims, idx, held, odom>>

DriveOn(dt, step, turn, v) ==
  /\ InTime(dt)
  /\ v.safe
  /\ Accumulate(step, turn)
  /\ ~SegmentFinished(prim, dist', yaw')
  /\ mark' = mark + dt
  /\ Publish(SteerFor(prim), prim.direction * (IF v.slow THEN SlowUnits ELSE SpeedUnits))
  /\ UNCHANGED <<state, prims, idx, held, odom>>

-----------------------------------------------------------------------------
\* The ticks that do not consult the safety callable, and those that do.
TickUnguarded(dt, step, turn) ==
  \/ PreSteerWait(dt)
  \/ PreSteerDone(dt)
  \/ SettleWait(dt)
  \/ SettleNext(dt)
  \/ DriveTimeout(dt, step, turn)

TickGuarded(dt, step, turn, v) ==
  \/ HoldRelease(dt, v)
  \/ HoldWait(dt, v)
  \/ HoldGiveUp(dt, v)
  \/ DriveStop(dt, step, turn, v)
  \/ DriveFinish(dt, step, turn, v)
  \/ DriveOn(dt, step, turn, v)

\* What the safety callable may answer: forward it is always "safe, full speed".
Answers(direction) ==
  IF direction > 0
  THEN {[safe |-> TRUE, slow |-> FALSE]}
  ELSE {[safe |-> TRUE, slow |-> FALSE], [safe |-> TRUE, slow |-> TRUE],
        [safe |-> FALSE, slow |-> FALSE]}

Tick(dt, step, turn) ==
  /\ Active
  /\ odom
  /\ \/ TickUnguarded(dt, step, turn)
     \/ \E v \in Answers(prim.direction) : TickGuarded(dt, step, turn, v)

SomeTick ==
  \E dt \in 1..MaxDelay, step \in 0..MaxStep, turn \in -MaxTurn..MaxTurn :
    Tick(dt, step, turn)

Next ==
  \/ \E plan \in Plans : Start(plan)
  \/ OdomArrives
  \/ Abort
  \/ SomeTick

Spec == Init /\ [][Next]_execVars

\* The mission's timer keeps ticking while a maneuver is under way; it aborts
\* the maneuver instead when there is no odometry.
FairSpec == Spec /\ WF_execVars(SomeTick \/ Abort)

-----------------------------------------------------------------------------
(***************************************************************************)
(* The executor implements Maneuver.                                       *)
(***************************************************************************)
Sign(n) == IF n > 0 THEN 1 ELSE IF n < 0 THEN -1 ELSE 0

M == INSTANCE Maneuver WITH
       Directions <- {-1, 1},
       plan    <- [i \in 1..Len(prims) |-> prims[i].direction],
       passed  <- idx - 1,
       rolling <- Sign(motor.speed),
       outcome <- CASE state = "IDLE"   -> "idle"
                    [] state = "DONE"   -> "done"
                    [] state = "FAILED" -> "failed"
                    [] OTHER            -> "under_way"

\* Segments in order, each in its own direction, standing still in between and
\* at the end.
ImplementsManeuver == M!Spec

\* Every maneuver that is started ends, even under a guard that flips between
\* stop and go for ever: hold time is taken off the segment's clock, but each
\* release costs at least one driving tick.
ManeuverEnds == Active ~> ~Active

\* How many ticks a maneuver can still take: a segment turns the wheels, drives and
\* settles, and every tick it drives may be followed by a hold.
HoldTicks == HoldTimeout + 2
SegmentTicks == PreSteerTime + (SegmentTimeout + 1) * HoldTicks + SettleTime + 4

TicksInSegment ==
  CASE state = "PRE_STEER" -> (PreSteerTime - mark) + (SegmentTimeout + 1) * HoldTicks + SettleTime + 3
    [] state = "DRIVING" -> (SegmentTimeout + 1 - mark) * HoldTicks + SettleTime + 2
    [] state = "HOLD" -> (SegmentTimeout + 1 - (mark - held)) * HoldTicks + (HoldTimeout - held) + SettleTime + 3
    [] state = "SETTLE" -> (SettleTime - mark) + 1

TicksLeft == IF Active THEN (Len(prims) - idx) * SegmentTicks + TicksInSegment ELSE 0

\* Every tick of a maneuver uses up one of the ticks it has left, whatever the guard
\* answers and the odometry says: a maneuver of n segments is over after at most
\* n * SegmentTicks of them (tick, 188-264).
TicksCountDown ==
  [][/\ SomeTick => TicksLeft' >= 0 /\ TicksLeft' < TicksLeft
     /\ (\E plan \in Plans : Start(plan)) => TicksLeft' <= Len(prims') * SegmentTicks]_execVars
=============================================================================
