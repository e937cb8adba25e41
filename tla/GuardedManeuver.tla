-------------------------- MODULE GuardedManeuver ---------------------------
(***************************************************************************)
(* The executor of motion.py with the guard of ultrasonic.py plugged in as *)
(* its safety callable, the way MissionManager does (mission_manager.py,   *)
(* ultra_check).  Both run in one thread: the ultrasonic callback feeds    *)
(* the guard between two timer ticks, and a tick that has to know asks the *)
(* guard and acts on that very answer.                                     *)
(***************************************************************************)
EXTENDS Integers, Sequences

CONSTANTS
  Prims, Plans, SteerLimit, Cruise, MinMoveSpeed, SlowPercent, PreSteerTime,
  SettleTime, SegmentTimeout, HoldTimeout, MaxStep, MaxTurn,
  RearChannels, RawReadings, MinValid, MaxValid, StopDistance, SlowDistance,
  ConfirmHits, ResumeClearHits, StaleAfter, MaxDelay

VARIABLES
  state, prims, idx, mark, held, seen, dist, yaw, motor, odom,      \* executor
  values, fed, age, bad_hits, good_hits, holding, verdict,          \* guard
  near_ticks   \* history: guarded reverse ticks in a row that saw a live near rear

E == INSTANCE ManeuverExecutor
G == INSTANCE UltrasonicGuard WITH MaxWait <- MaxDelay

\* What the two modules assume of their constants, as far as it is needed here.
ASSUME GuardedAssumption ==
  /\ Prims \subseteq E!Prim
  /\ \A plan \in Plans : E!Runnable(plan) \in Seq(Prims)
  /\ Cruise \in Nat /\ MinMoveSpeed \in Nat \ {0} /\ SlowPercent \in 0..100
  /\ ConfirmHits \in Nat \ {0} /\ StaleAfter \in Nat /\ MaxDelay \in Nat

execVars  == <<state, prims, idx, mark, held, seen, dist, yaw, motor, odom>>
guardVars == <<values, fed, age, bad_hits, good_hits, holding, verdict>>
vars == <<state, prims, idx, mark, held, seen, dist, yaw, motor, odom,
          values, fed, age, bad_hits, good_hits, holding, verdict, near_ticks>>

TypeOK == E!TypeOK /\ G!GuardTypeOK /\ near_ticks \in 0..ConfirmHits

Init == E!Init /\ G!GuardInit /\ near_ticks = 0

-----------------------------------------------------------------------------
\* _on_ultra
OnUltra == G!Feed /\ UNCHANGED <<execVars, near_ticks>>

\* _on_odom, the first message; later ones are the samples a tick takes.
OnOdom == E!OdomArrives /\ UNCHANGED <<guardVars, near_ticks>>

Start(plan) == E!Start(plan) /\ UNCHANGED <<guardVars, near_ticks>>

Abort == E!Abort /\ UNCHANGED <<guardVars, near_ticks>>

\* No maneuver is under way and nobody asks the guard.
Idle(dt) == ~E!Active /\ G!Wait(dt) /\ UNCHANGED <<execVars, near_ticks>>

UnguardedTick(dt, step, turn) ==
  /\ E!Active /\ odom
  /\ E!TickUnguarded(dt, step, turn)
  /\ G!Wait(dt)
  /\ UNCHANGED near_ticks

\* Mutant: the guard is asked about reversing whatever the segment's direction.
GuardedTickAlwaysRear(dt, step, turn) ==
  /\ E!Active /\ odom
  /\ G!Check(-1, dt)
  /\ E!TickGuarded(dt, step, turn, verdict')
  /\ near_ticks' = 0

\* ultra_check(prim.direction, now), and the tick that acts on its verdict.
GuardedTick(dt, step, turn) ==
  /\ E!Active /\ odom
  /\ G!Check(E!prim.direction, dt)
  /\ E!TickGuarded(dt, step, turn, verdict')
  /\ near_ticks' =
       IF E!prim.direction < 0 /\ fed /\ age' <= StaleAfter /\ G!RearNear
       THEN E!AtMost(ConfirmHits, near_ticks + 1)
       ELSE 0

Next ==
  \/ OnUltra
  \/ OnOdom
  \/ \E plan \in Plans : Start(plan)
  \/ Abort
  \/ \E dt \in 1..MaxDelay : Idle(dt)
  \/ \E dt \in 1..MaxDelay, step \in 0..MaxStep, turn \in -MaxTurn..MaxTurn :
       \/ UnguardedTick(dt, step, turn)
       \/ GuardedTick(dt, step, turn)

Spec == Init /\ [][Next]_vars

-----------------------------------------------------------------------------
\* While the motor drives backward the guard has been asked, the answer was
\* "safe", and it rests on an array no older than stale_sec: a sensor that falls
\* silent in the middle of a segment stops the car.  tick, 244-255; check, 237-243.
ReversingIsWatched ==
  motor.speed < 0 =>
    /\ verdict.safe /\ verdict.reason # "forward"
    /\ fed /\ age <= StaleAfter

\* An obstacle that stays is a standing car: after ConfirmHits reverse ticks in a
\* row that saw a near rear, no speed is published, in whatever state the
\* segment, its clocks and the guard's counters were.
NearStopsCar == near_ticks >= ConfirmHits => motor.speed = 0

\* The guard answers nothing the executor's own specification does not expect,
\* so what holds of ManeuverExecutor under any guard holds under this one.
ImplementsExecutor == E!Spec
=============================================================================
