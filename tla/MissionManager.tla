--------------------------- MODULE MissionManager ---------------------------
(***************************************************************************)
(* The mission: class MissionManager of parking_mission/mission_manager.py *)
(* and its steps ParkStep, ExitStep, HomeStep and DwellStep.  One timer    *)
(* tick runs the executor and then the step in hand; a step that is done   *)
(* enters the next one in the same call.                                   *)
(*                                                                         *)
(* A leg is modelled as far as Leg promises, which LegStep implements; the *)
(* executor by its outcome and by whether the car rolls, as Maneuver       *)
(* promises and ManeuverExecutor implements.  What the steps measure and   *)
(* plan is a choice: whether a pose is known, a maneuver is found, a sweep *)
(* is clear of walls, the slot is within tolerance.                        *)
(***************************************************************************)
EXTENDS Integers, Sequences

CONSTANTS
  Steps,               \* _build_steps(): [kind, slot, rounds], in order
  RouteCount,          \* routes of a leg
  DwellTicks           \* dwell_sec, in ticks

Kinds == {"leg", "park", "dwell", "exit", "home"}

\* rounds: the slot's max_corrections, or HOME_MAX_CORRECTIONS.
Step == [kind : Kinds, slot : Nat, rounds : Nat]

ASSUME MissionAssumption ==
  /\ Steps \in Seq(Step) /\ Steps # <<>>
  /\ RouteCount \in Nat \ {0}
  /\ DwellTicks \in Nat
  /\ \A i \in 1..Len(Steps) :
       Steps[i].kind = "exit" => i > 1 /\ Steps[i - 1].kind = "dwell"

\* An exit belongs to the slot the car was parked in before that dwell.
ASSUME OrderAssumption ==
  \A i \in 1..Len(Steps) :
    Steps[i].kind = "exit" =>
      i > 2 /\ Steps[i - 2].kind = "park" /\ Steps[i - 2].slot = Steps[i].slot

VARIABLES
  idx,          \* _idx, counted from 1; 0 before start()
  finished,     \* "no", "ok" or "failed"
  phase,        \* what the step in hand is at: see Phases
  route,        \* a leg's route in hand
  aligned,      \* ParkStep._aligned
  corrections,  \* _corrections
  clock,        \* DwellStep: ticks since _t0
  exec,         \* the executor's state: "idle", "active", "done" or "failed"
  plan,         \* the maneuver the executor was started with, by its tag
  gate,         \* set_nav_enabled
  motor,        \* "stands" or "rolls", by the latest motor command
  last_park     \* the slot last_park_prims was planned for, 0 when it is None

vars == <<idx, finished, phase, route, aligned, corrections, clock, exec, plan,
          gate, motor, last_park>>
local == <<phase, route, aligned, corrections, clock>>

\* nav, retreat: a leg.  align, park: ParkStep._phase.  exit, home, dwell: the
\* step.  settled: HomeStep._done.  doomed: _failed, or a leg's _entered FAILED.
Phases == {"none", "nav", "retreat", "align", "park", "exit", "home", "dwell",
           "settled", "doomed"}

TypeOK ==
  /\ idx \in 0..(Len(Steps) + 1)
  /\ finished \in {"no", "ok", "failed"}
  /\ phase \in Phases
  /\ route \in 0..(RouteCount + 1)
  /\ aligned \in BOOLEAN
  /\ corrections \in Nat
  /\ clock \in 0..DwellTicks
  /\ exec \in {"idle", "active", "done", "failed"}
  /\ plan \in [step : 0..Len(Steps), kind : Phases, round : Nat]
  /\ gate \in BOOLEAN
  /\ motor \in {"stands", "rolls"}
  /\ last_park \in {0} \cup {Steps[i].slot : i \in 1..Len(Steps)}

-----------------------------------------------------------------------------
Running == idx \in 1..Len(Steps) /\ finished = "no"
InHand  == Steps[idx]

Init ==
  /\ idx = 0 /\ finished = "no"
  /\ phase = "none" /\ route = 0 /\ aligned = FALSE /\ corrections = 0 /\ clock = 0
  /\ exec = "idle" /\ plan = [step |-> 0, kind |-> "none", round |-> 0]
  /\ gate = FALSE
  /\ motor = "stands"
  /\ last_park = 0

\* The part of a tick before update(): the executor, if it is at work, ticks; x is
\* what it leaves behind.  An ended maneuver leaves the car standing.
AfterExecutor ==
  IF exec = "active"
  THEN {[exec |-> "active", motor |-> m] : m \in {"stands", "rolls"}}
       \cup {[exec |-> e, motor |-> "stands"] : e \in {"done", "failed"}}
  ELSE {[exec |-> exec, motor |-> motor]}

Ended(x) == x.exec \in {"done", "failed"}

\* executor_.start(): it publishes nothing yet, and a plan whose segments are all
\* too short to roll is done at once.
StartManeuver(i, kind, round) ==
  /\ exec' \in {"active", "done"}
  /\ plan' = [step |-> i, kind |-> kind, round |-> round]

NoManeuver(x) == exec' = x.exec /\ UNCHANGED plan

\* set_nav_enabled(False) and publish_motor(0, 0).
TakeTheWheel == gate' = FALSE /\ motor' = "stands"

-----------------------------------------------------------------------------
(***************************************************************************)
(* What enter() of each kind of step does, for step i.                     *)
(***************************************************************************)
EnterLeg(i, x) ==
  /\ gate' = TRUE /\ motor' = x.motor
  /\ \E r \in 1..(RouteCount + 1) :
       /\ route' = r
       /\ phase' = IF r > RouteCount THEN "doomed" ELSE "nav"
  /\ NoManeuver(x)
  /\ UNCHANGED <<aligned, corrections, clock, last_park>>

\* Mutant: the maneuver planned after an alignment is not kept for the exit.
PlanParkForgets(i, tried) ==
  /\ phase' = "park" /\ aligned' = tried
  /\ last_park' = IF tried THEN last_park ELSE Steps[i].slot
  /\ StartManeuver(i, "park", 0)

\* _plan_and_start(), an alignment having been tried before or not: a parking
\* maneuver or an aligning one; the third outcome, neither, is the caller's.
PlanPark(i, tried) ==
  /\ phase' = "park" /\ aligned' = tried
  /\ last_park' = Steps[i].slot
  /\ StartManeuver(i, "park", 0)

\* Mutant: an alignment may follow an alignment.
PlanAlignAgain(i, tried) ==
  /\ phase' = "align" /\ aligned' = TRUE
  /\ UNCHANGED last_park
  /\ StartManeuver(i, "align", 0)

PlanAlign(i, tried) ==
  /\ ~tried
  /\ phase' = "align" /\ aligned' = TRUE
  /\ UNCHANGED last_park
  /\ StartManeuver(i, "align", 0)

EnterPark(i, x) ==
  /\ TakeTheWheel
  /\ corrections' = 0
  /\ \/ PlanPark(i, FALSE) \/ PlanAlign(i, FALSE)
     \/ phase' = "doomed" /\ aligned' = FALSE /\ NoManeuver(x) /\ UNCHANGED last_park
  /\ UNCHANGED <<route, clock>>

EnterExit(i, x) ==
  /\ gate' = FALSE /\ motor' = x.motor
  /\ \/ last_park = 0 /\ phase' = "doomed" /\ NoManeuver(x)
     \/ last_park # 0 /\ phase' = "exit" /\ StartManeuver(i, "exit", 0)
  /\ UNCHANGED <<route, aligned, corrections, clock, last_park>>

\* Mutant: _done is not set when there is nothing to do.
EnterHomeUnsettled(i, x) ==
  /\ TakeTheWheel
  /\ phase' = "home" /\ corrections' = 0
  /\ StartManeuver(i, "home", 0) \/ NoManeuver(x)
  /\ UNCHANGED <<route, aligned, clock, last_park>>

\* _align(): a maneuver, or nothing left to do.
EnterHome(i, x) ==
  /\ TakeTheWheel
  /\ \/ phase' = "home" /\ corrections' = 0 /\ StartManeuver(i, "home", 0)
     \/ phase' = "settled" /\ corrections' = 0 /\ NoManeuver(x)
  /\ UNCHANGED <<route, aligned, clock, last_park>>

EnterDwell(i, x) ==
  /\ TakeTheWheel
  /\ phase' = "dwell" /\ clock' = 0
  /\ NoManeuver(x)
  /\ UNCHANGED <<route, aligned, corrections, last_park>>

Enter(i, x) ==
  /\ idx' = i
  /\ UNCHANGED finished
  /\ CASE Steps[i].kind = "leg"   -> EnterLeg(i, x)
       [] Steps[i].kind = "park"  -> EnterPark(i, x)
       [] Steps[i].kind = "exit"  -> EnterExit(i, x)
       [] Steps[i].kind = "home"  -> EnterHome(i, x)
       [] Steps[i].kind = "dwell" -> EnterDwell(i, x)

\* Mutant: the end of the mission leaves the gate as it is.
FinishGateOpen(result, x) ==
  /\ finished' = result
  /\ motor' = "stands"
  /\ NoManeuver(x)
  /\ UNCHANGED <<local, gate, last_park>>

\* _finish()
Finish(result, x) ==
  /\ finished' = result
  /\ TakeTheWheel
  /\ NoManeuver(x)
  /\ UNCHANGED <<local, last_park>>

\* update() returned DONE: _advance().
StepDone(x) ==
  \/ idx < Len(Steps) /\ Enter(idx + 1, x)
  \/ idx = Len(Steps) /\ idx' = idx + 1 /\ Finish("ok", x)

\* update() returned FAILED.
StepFailed(x) == UNCHANGED idx /\ Finish("failed", x)

\* update() returned RUNNING.
StepRuns == UNCHANGED <<idx, finished>>

-----------------------------------------------------------------------------
(* start(), by the topic or by autostart; a second one changes nothing. *)
Start ==
  /\ idx = 0
  /\ Enter(1, [exec |-> exec, motor |-> motor])

(***************************************************************************)
(* _tick(), by the step in hand and what update() decides.  x is what the  *)
(* executor has left behind.                                               *)
(***************************************************************************)
\* A step that could not begin, and a HomeStep with nothing left to do.
TickDoomed(x) == phase = "doomed" /\ StepFailed(x)

TickSettled(x) == phase = "settled" /\ StepDone(x)

\* LegStep, as Leg promises: on to a later route, back out first, or through.
LegFree(x) == phase = "nav" \/ (phase = "retreat" /\ Ended(x))

LegSwitches(x) ==
  /\ LegFree(x)
  /\ \E r \in (route + 1)..RouteCount : route' = r
  /\ phase' = "nav"
  /\ gate' = TRUE /\ motor' = x.motor
  /\ NoManeuver(x)
  /\ StepRuns /\ UNCHANGED <<aligned, corrections, clock, last_park>>

\* Mutant: the gate stays open during a retreat.
LegBacksOutGateOpen(x) ==
  /\ phase = "nav"
  /\ phase' = "retreat"
  /\ motor' = "stands"
  /\ StartManeuver(idx, "retreat", route)
  /\ StepRuns /\ UNCHANGED <<route, aligned, corrections, clock, gate, last_park>>

\* Mutant: the car is not stopped before a retreat.
LegBacksOutRolling(x) ==
  /\ phase = "nav"
  /\ phase' = "retreat"
  /\ gate' = FALSE /\ motor' = x.motor
  /\ StartManeuver(idx, "retreat", route)
  /\ StepRuns /\ UNCHANGED <<route, aligned, corrections, clock, last_park>>

LegBacksOut(x) ==
  /\ phase = "nav"
  /\ phase' = "retreat"
  /\ TakeTheWheel
  /\ StartManeuver(idx, "retreat", route)
  /\ StepRuns /\ UNCHANGED <<route, aligned, corrections, clock, last_park>>

LegRetreats(x) ==
  /\ phase = "retreat" /\ ~Ended(x)
  /\ motor' = x.motor /\ NoManeuver(x)
  /\ StepRuns /\ UNCHANGED <<local, gate, last_park>>

LegArrives(x) == phase = "nav" /\ StepDone(x)

LegFails(x) == LegFree(x) /\ StepFailed(x)

\* ParkStep: an alignment that has ended, done or not, is followed by a new plan.
AlignmentEnds(x) ==
  /\ phase = "align" /\ Ended(x)
  /\ motor' = x.motor
  /\ PlanPark(idx, aligned) \/ PlanAlign(idx, aligned)
  /\ StepRuns /\ UNCHANGED <<route, corrections, clock, gate>>

AlignmentInVain(x) == phase = "align" /\ Ended(x) /\ StepFailed(x)

\* The parking maneuver was broken off before park_min_progress.
ParkBrokenOff(x) ==
  phase = "park" /\ x.exec = "failed" /\ corrections = 0 /\ StepFailed(x)

\* Within tolerance, no correction found or free of walls, or none left; a
\* correction that was broken off always ends here.
Parked(x) == phase = "park" /\ Ended(x) /\ StepDone(x)

\* Mutant: one correction too many.
CorrectOnceMore(x) ==
  /\ phase = "park"
  /\ x.exec = "done" \/ (x.exec = "failed" /\ corrections = 0)
  /\ corrections <= InHand.rounds
  /\ corrections' = corrections + 1
  /\ StartManeuver(idx, "park", corrections + 1)
  /\ motor' = x.motor
  /\ StepRuns /\ UNCHANGED <<phase, route, aligned, clock, gate, last_park>>

Correct(x) ==
  /\ phase = "park"
  /\ x.exec = "done" \/ (x.exec = "failed" /\ corrections = 0)
  /\ corrections < InHand.rounds
  /\ corrections' = corrections + 1
  /\ StartManeuver(idx, "park", corrections + 1)
  /\ motor' = x.motor
  /\ StepRuns /\ UNCHANGED <<phase, route, aligned, clock, gate, last_park>>

ManeuverGoesOn(x) ==
  /\ phase \in {"align", "park", "exit", "home"} /\ ~Ended(x)
  /\ motor' = x.motor /\ NoManeuver(x)
  /\ StepRuns /\ UNCHANGED <<local, gate, last_park>>

ExitEnds(x) ==
  \/ phase = "exit" /\ x.exec = "done" /\ StepDone(x)
  \/ phase = "exit" /\ x.exec = "failed" /\ StepFailed(x)

\* HomeStep: done when the maneuver was broken off, or nothing is left to do.
HomeEnds(x) == phase = "home" /\ Ended(x) /\ StepDone(x)

HomeAgain(x) ==
  /\ phase = "home" /\ x.exec = "done"
  /\ corrections < InHand.rounds
  /\ corrections' = corrections + 1
  /\ StartManeuver(idx, "home", corrections + 1)
  /\ motor' = x.motor
  /\ StepRuns /\ UNCHANGED <<phase, route, aligned, clock, gate, last_park>>

DwellGoesOn(x) ==
  /\ phase = "dwell" /\ clock < DwellTicks
  /\ clock' = clock + 1
  /\ motor' = "stands" /\ NoManeuver(x)
  /\ StepRuns /\ UNCHANGED <<phase, route, aligned, corrections, gate, last_park>>

DwellEnds(x) == phase = "dwell" /\ clock >= DwellTicks /\ StepDone(x)

LegTick(x) ==
  LegSwitches(x) \/ LegBacksOut(x) \/ LegRetreats(x) \/ LegArrives(x) \/ LegFails(x)

ParkTick(x) ==
  AlignmentEnds(x) \/ AlignmentInVain(x) \/ ParkBrokenOff(x) \/ Parked(x) \/ Correct(x)

OtherTick(x) ==
  \/ TickDoomed(x) \/ TickSettled(x) \/ ManeuverGoesOn(x) \/ ExitEnds(x)
  \/ HomeEnds(x) \/ HomeAgain(x) \/ DwellGoesOn(x) \/ DwellEnds(x)

Tick(x) == Running /\ (LegTick(x) \/ ParkTick(x) \/ OtherTick(x))

\* Nav2's commands reach the motor while the gate is open.
NavDrives ==
  /\ gate
  /\ motor' \in {"stands", "rolls"}
  /\ UNCHANGED <<idx, finished, local, exec, plan, gate, last_park>>

Next == Start \/ NavDrives \/ \E x \in AfterExecutor : Tick(x)

Spec == Init /\ [][Next]_vars
=============================================================================
