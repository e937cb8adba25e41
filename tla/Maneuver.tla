------------------------------ MODULE Maneuver ------------------------------
(***************************************************************************)
(* What the maneuver executor promises to the mission steps that start it: *)
(* the segments of the plan are rolled one after the other, each in its    *)
(* own direction, the car stands still between two of them, and a maneuver *)
(* that has ended, done or failed, leaves the car standing.                *)
(***************************************************************************)
EXTENDS Integers, Sequences

CONSTANT Directions   \* what a segment of a plan is, as far as the promise goes

VARIABLES
  plan,      \* the direction of each segment
  passed,    \* how many segments lie behind the car
  rolling,   \* the direction the motor drives in, 0 when it stands
  outcome    \* "idle", "under_way", "done" or "failed"

maneuverVars == <<plan, passed, rolling, outcome>>

Init == plan = <<>> /\ passed = 0 /\ rolling = 0 /\ outcome = "idle"

Begin ==
  /\ outcome # "under_way"
  /\ plan' \in Seq(Directions)
  /\ passed' = 0
  /\ outcome' = IF plan' = <<>> THEN "done" ELSE "under_way"
  /\ UNCHANGED rolling

Roll ==
  /\ outcome = "under_way"
  /\ rolling' = plan[passed + 1]
  /\ UNCHANGED <<plan, passed, outcome>>

Halt ==
  /\ outcome = "under_way"
  /\ rolling' = 0
  /\ UNCHANGED <<plan, passed, outcome>>

Pass ==
  /\ outcome = "under_way"
  /\ rolling = 0
  /\ passed' = passed + 1
  /\ outcome' = IF passed' = Len(plan) THEN "done" ELSE "under_way"
  /\ UNCHANGED <<plan, rolling>>

GiveUp ==
  /\ outcome = "under_way"
  /\ outcome' = "failed"
  /\ rolling' = 0
  /\ UNCHANGED <<plan, passed>>

Next == Begin \/ Roll \/ Halt \/ Pass \/ GiveUp

Spec == Init /\ [][Next]_maneuverVars

\* What the rest of the mission relies on: an ended maneuver leaves the car
\* standing.
StandsAtEnd == outcome # "under_way" => rolling = 0
=============================================================================
