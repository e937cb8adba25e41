---------------------------- MODULE MissionProofs ----------------------------
(***************************************************************************)
(* Theorems about MissionHistory, for every list of steps in which an exit *)
(* follows a dwell: type correctness, one driver, no step reads another    *)
(* step's maneuver, every maneuver starts and every mission ends with the  *)
(* car standing and the gate shut.                                         *)
(***************************************************************************)
EXTENDS MissionHistory, TLAPS

\* The phases in which a step waits for a maneuver of its own.
Maneuvering == {"retreat", "align", "park", "exit", "home"}

\* A step that has the executor work has shut the gate, and the car stands as
\* soon as the executor has ended.
StepInv ==
  /\ exec = "active" => phase \in Maneuvering
  /\ phase \in Maneuvering =>
       /\ ~gate
       /\ exec # "active" => motor = "stands"
  /\ phase \in {"none", "dwell"} => ~gate /\ motor = "stands"

\* While the mission runs, the maneuver in the executor is that of the step in
\* hand, and a step that dwells is a dwell.
HandInv ==
  Running =>
    /\ phase # "none"
    /\ phase \in Maneuvering => plan.step = idx /\ plan.kind = phase
    /\ InHand.kind = "dwell" => phase = "dwell"

EndInv ==
  /\ idx = 0 => phase = "none" /\ finished = "no"
  /\ finished # "no" => ~gate /\ motor = "stands" /\ exec # "active"

MissionInv == TypeOK /\ StepInv /\ HandInv /\ EndInv

\* What the executor may leave behind.
Leavings == [exec : {"idle", "active", "done", "failed"}, motor : {"stands", "rolls"}]

\* What it leaves behind when it was found in a state of the invariant.
Consistent(x) ==
  /\ x \in Leavings
  /\ x.exec = "active" => exec = "active"
  /\ x.exec # "active" /\ exec = "active" => x.motor = "stands"
  /\ exec # "active" => x.exec = exec /\ x.motor = motor

-----------------------------------------------------------------------------
LEMMA StepTyping == ASSUME NEW i \in 1..Len(Steps) PROVE Steps[i] \in Step
BY MissionAssumption

LEMMA LeavingsTyping ==
  ASSUME TypeOK, NEW x \in AfterExecutor PROVE Consistent(x)
<1>1. CASE exec = "active"
  BY <1>1 DEF AfterExecutor, Consistent, Leavings
<1>2. CASE exec # "active"
  BY <1>2 DEF AfterExecutor, Consistent, Leavings, TypeOK
<1>3. QED
  BY <1>1, <1>2

\* The initial states satisfy the invariant.
LEMMA InitInv == ASSUME Init PROVE MissionInv
<1>1. TypeOK
  <2>1. aligned \in BOOLEAN /\ gate \in BOOLEAN
    BY Zenon DEF Init
  <2>2. /\ idx = 0 /\ finished = "no" /\ phase = "none" /\ route = 0 /\ corrections = 0
        /\ clock = 0 /\ exec = "idle" /\ motor = "stands" /\ last_park = 0
        /\ plan = [step |-> 0, kind |-> "none", round |-> 0]
    BY DEF Init
  <2>3. Len(Steps) \in Nat
    BY MissionAssumption
  <2>4. plan \in [step : 0..Len(Steps), kind : Phases, round : Nat]
    BY <2>2, <2>3 DEF Phases
  <2>5. QED
    BY <2>1, <2>2, <2>3, <2>4, MissionAssumption DEF TypeOK, Phases
<1>2. StepInv /\ HandInv /\ EndInv
  BY DEF Init, StepInv, HandInv, EndInv, Maneuvering, Running
<1>3. QED
  BY <1>1, <1>2 DEF MissionInv

\* start() of the executor: at work or done at once, with the plan of this step.
LEMMA StartTyping ==
  ASSUME NEW i \in 1..Len(Steps), NEW kind \in Phases, NEW round \in Nat,
         StartManeuver(i, kind, round)
  PROVE  /\ exec' \in {"active", "done"}
         /\ plan' \in [step : 0..Len(Steps), kind : Phases, round : Nat]
         /\ plan'.step = i /\ plan'.kind = kind
<1>1. Len(Steps) \in Nat
  BY MissionAssumption
<1>2. QED
  BY <1>1 DEF StartManeuver

\* The types, but for the two variables every step decides about itself.
LocalTyped ==
  /\ phase \in Phases /\ route \in 0..(RouteCount + 1) /\ aligned \in BOOLEAN
  /\ corrections \in Nat /\ clock \in 0..DwellTicks

WheelTyped ==
  /\ exec \in {"idle", "active", "done", "failed"}
  /\ plan \in [step : 0..Len(Steps), kind : Phases, round : Nat]
  /\ gate \in BOOLEAN /\ motor \in {"stands", "rolls"}
  /\ last_park \in {0} \cup {Steps[i].slot : i \in 1..Len(Steps)}

\* What enter() of step i establishes.
Entered(i) ==
  /\ LocalTyped /\ WheelTyped /\ StepInv
  /\ phase # "none"
  /\ phase \in Maneuvering => plan.step = i /\ plan.kind = phase

-----------------------------------------------------------------------------
LEMMA EnterLegInv ==
  ASSUME TypeOK, NEW i \in 1..Len(Steps), NEW x \in Leavings, x.exec # "active", EnterLeg(i, x)
  PROVE  Entered(i)'
<1>1. PICK r \in 1..(RouteCount + 1) :
        route' = r /\ phase' = IF r > RouteCount THEN "doomed" ELSE "nav"
  BY DEF EnterLeg
<1>2. LocalTyped'
  BY <1>1, MissionAssumption DEF EnterLeg, LocalTyped, TypeOK, Phases
<1>3. WheelTyped'
  BY DEF EnterLeg, NoManeuver, WheelTyped, TypeOK, Leavings
<1>4. exec' # "active" /\ phase' \in {"doomed", "nav"}
  BY <1>1 DEF EnterLeg, NoManeuver
<1>5. QED
  BY <1>2, <1>3, <1>4 DEF Entered, StepInv, Maneuvering

\* A plan for a slot, made in _plan_and_start().
LEMMA PlanTyping ==
  ASSUME TypeOK, NEW i \in 1..Len(Steps), NEW tried \in BOOLEAN,
         PlanPark(i, tried) \/ PlanAlign(i, tried)
  PROVE  /\ phase' \in {"park", "align"} /\ aligned' \in BOOLEAN
         /\ last_park' \in {0} \cup {Steps[j].slot : j \in 1..Len(Steps)}
         /\ exec' \in {"active", "done"}
         /\ plan' \in [step : 0..Len(Steps), kind : Phases, round : Nat]
         /\ plan'.step = i /\ plan'.kind = phase'
<1>1. "park" \in Phases /\ "align" \in Phases /\ 0 \in Nat
  BY DEF Phases
<1>2. CASE PlanPark(i, tried)
  BY <1>1, <1>2, StartTyping DEF PlanPark
<1>3. CASE PlanAlign(i, tried)
  BY <1>1, <1>3, StartTyping DEF PlanAlign, TypeOK
<1>4. QED
  BY <1>2, <1>3

LEMMA EnterParkInv ==
  ASSUME TypeOK, NEW i \in 1..Len(Steps), NEW x \in Leavings, x.exec # "active", EnterPark(i, x)
  PROVE  Entered(i)'
<1>1. /\ gate' = FALSE /\ motor' = "stands" /\ corrections' = 0
      /\ UNCHANGED <<route, clock>>
  BY DEF EnterPark, TakeTheWheel
<1>2. CASE PlanPark(i, FALSE) \/ PlanAlign(i, FALSE)
  BY <1>1, <1>2, PlanTyping
     DEF Entered, LocalTyped, WheelTyped, StepInv, Maneuvering, TypeOK, Phases
<1>3. CASE phase' = "doomed" /\ aligned' = FALSE /\ NoManeuver(x) /\ UNCHANGED last_park
  BY <1>1, <1>3
     DEF Entered, LocalTyped, WheelTyped, StepInv, Maneuvering, TypeOK, Phases, NoManeuver, Leavings
<1>4. QED
  BY <1>2, <1>3 DEF EnterPark

LEMMA EnterExitInv ==
  ASSUME TypeOK, NEW i \in 1..Len(Steps), NEW x \in Leavings, x.exec # "active",
         x.motor = "stands", EnterExit(i, x)
  PROVE  Entered(i)'
<1>1. /\ gate' = FALSE /\ motor' = "stands"
      /\ UNCHANGED <<route, aligned, corrections, clock, last_park>>
  BY DEF EnterExit
<1>2. CASE phase' = "doomed" /\ NoManeuver(x)
  BY <1>1, <1>2
     DEF Entered, LocalTyped, WheelTyped, StepInv, Maneuvering, TypeOK, Phases, NoManeuver, Leavings
<1>3. CASE phase' = "exit" /\ StartManeuver(i, "exit", 0)
  <2>1. "exit" \in Phases
    BY DEF Phases
  <2>2. QED
    BY <1>1, <1>3, <2>1, StartTyping
       DEF Entered, LocalTyped, WheelTyped, StepInv, Maneuvering, TypeOK
<1>4. QED
  BY <1>2, <1>3 DEF EnterExit

LEMMA EnterHomeInv ==
  ASSUME TypeOK, NEW i \in 1..Len(Steps), NEW x \in Leavings, x.exec # "active", EnterHome(i, x)
  PROVE  Entered(i)'
<1>1. /\ gate' = FALSE /\ motor' = "stands" /\ corrections' = 0
      /\ UNCHANGED <<route, aligned, clock, last_park>>
  BY DEF EnterHome, TakeTheWheel
<1>2. CASE phase' = "settled" /\ NoManeuver(x)
  BY <1>1, <1>2
     DEF Entered, LocalTyped, WheelTyped, StepInv, Maneuvering, TypeOK, Phases, NoManeuver, Leavings
<1>3. CASE phase' = "home" /\ StartManeuver(i, "home", 0)
  <2>1. "home" \in Phases
    BY DEF Phases
  <2>2. QED
    BY <1>1, <1>3, <2>1, StartTyping
       DEF Entered, LocalTyped, WheelTyped, StepInv, Maneuvering, TypeOK
<1>4. QED
  BY <1>2, <1>3 DEF EnterHome

LEMMA EnterDwellInv ==
  ASSUME TypeOK, NEW i \in 1..Len(Steps), NEW x \in Leavings, x.exec # "active", EnterDwell(i, x)
  PROVE  Entered(i)' /\ phase' = "dwell"
<1>1. /\ gate' = FALSE /\ motor' = "stands" /\ phase' = "dwell" /\ clock' = 0
      /\ exec' = x.exec
      /\ UNCHANGED <<route, aligned, corrections, last_park, plan>>
  BY DEF EnterDwell, TakeTheWheel, NoManeuver
<1>2. LocalTyped'
  BY <1>1, MissionAssumption DEF LocalTyped, TypeOK, Phases
<1>3. WheelTyped'
  BY <1>1 DEF WheelTyped, TypeOK, Leavings
<1>4. QED
  BY <1>1, <1>2, <1>3 DEF Entered, StepInv, Maneuvering

\* Whatever step is entered, with the executor at rest, the invariant holds.
LEMMA EnterInv ==
  ASSUME TypeOK, finished = "no", NEW i \in 1..Len(Steps), NEW x \in Leavings,
         x.exec # "active", Steps[i].kind = "exit" => x.motor = "stands", Enter(i, x)
  PROVE  MissionInv'
<1>1. Steps[i].kind \in Kinds
  BY StepTyping DEF Step
<1>2. Entered(i)' /\ (Steps[i].kind = "dwell" => phase' = "dwell")
  <2>1. CASE Steps[i].kind = "leg"
    BY <2>1, EnterLegInv DEF Enter
  <2>2. CASE Steps[i].kind = "park"
    BY <2>2, EnterParkInv DEF Enter
  <2>3. CASE Steps[i].kind = "exit"
    BY <2>3, EnterExitInv DEF Enter
  <2>4. CASE Steps[i].kind = "home"
    BY <2>4, EnterHomeInv DEF Enter
  <2>5. CASE Steps[i].kind = "dwell"
    BY <2>5, EnterDwellInv DEF Enter
  <2>6. QED
    BY <1>1, <2>1, <2>2, <2>3, <2>4, <2>5 DEF Kinds
<1>3. idx' = i /\ finished' = "no" /\ i # 0 /\ i \in 0..(Len(Steps) + 1)
  BY MissionAssumption DEF Enter
<1>4. TypeOK'
  BY <1>2, <1>3 DEF Entered, LocalTyped, WheelTyped, TypeOK
<1>5. HandInv' /\ EndInv' /\ StepInv'
  BY <1>2, <1>3 DEF Entered, HandInv, EndInv, InHand
<1>6. QED
  BY <1>4, <1>5 DEF MissionInv

-----------------------------------------------------------------------------
\* The end of the mission, with the executor at rest.
LEMMA FinishInv ==
  ASSUME TypeOK, NEW x \in Leavings, x.exec # "active", NEW result \in {"ok", "failed"},
         phase # "none", phase \in Maneuvering => ~gate, idx # 0,
         idx' \in 1..(Len(Steps) + 1), Finish(result, x)
  PROVE  MissionInv'
<1>1. /\ finished' = result /\ finished' # "no" /\ gate' = FALSE /\ motor' = "stands"
      /\ exec' = x.exec /\ idx' # 0
      /\ UNCHANGED <<phase, route, aligned, corrections, clock, plan, last_park>>
  BY DEF Finish, TakeTheWheel, NoManeuver, local
<1>2. TypeOK'
  <2>1. exec' \in {"idle", "active", "done", "failed"}
    BY <1>1 DEF Leavings
  <2>2. idx' \in 0..(Len(Steps) + 1)
    BY MissionAssumption
  <2>3. QED
    BY <1>1, <2>1, <2>2 DEF TypeOK
<1>3. StepInv' /\ HandInv' /\ EndInv'
  BY <1>1 DEF StepInv, HandInv, EndInv, Running
<1>4. QED
  BY <1>2, <1>3 DEF MissionInv

\* A step that is done hands over to the next one or ends the mission.
LEMMA StepDoneInv ==
  ASSUME MissionInv, Running, NEW x, Consistent(x), x.exec # "active", StepDone(x)
  PROVE  MissionInv'
<1>1. TypeOK /\ x \in Leavings /\ finished = "no" /\ idx \in 1..Len(Steps) /\ Len(Steps) \in Nat
  BY MissionAssumption DEF MissionInv, Consistent, Running
<1>2. phase # "none" /\ (phase \in Maneuvering => ~gate)
  BY DEF MissionInv, HandInv, StepInv
<1>3. CASE idx < Len(Steps) /\ Enter(idx + 1, x)
  <2>1. idx + 1 \in 1..Len(Steps)
    BY <1>1, <1>3
  <2>2. ASSUME Steps[idx + 1].kind = "exit" PROVE x.motor = "stands"
    <3>1. InHand.kind = "dwell"
      BY <1>1, <2>1, <2>2, MissionAssumption DEF InHand
    <3>2. phase = "dwell" /\ motor = "stands" /\ exec # "active"
      BY <3>1 DEF MissionInv, HandInv, StepInv, Maneuvering
    <3>3. QED
      BY <3>2 DEF Consistent
  <2>3. QED
    BY <1>1, <1>3, <2>1, <2>2, EnterInv
<1>4. CASE idx = Len(Steps) /\ idx' = idx + 1 /\ Finish("ok", x)
  <2>1. idx # 0 /\ idx' \in 1..(Len(Steps) + 1)
    BY <1>1, <1>4
  <2>2. QED
    BY <1>1, <1>2, <1>4, <2>1, FinishInv
<1>5. QED
  BY <1>3, <1>4 DEF StepDone

LEMMA StepFailedInv ==
  ASSUME MissionInv, Running, NEW x, Consistent(x), x.exec # "active", StepFailed(x)
  PROVE  MissionInv'
<1>1. TypeOK /\ x \in Leavings /\ idx \in 1..Len(Steps) /\ Len(Steps) \in Nat
  BY MissionAssumption DEF MissionInv, Consistent, Running
<1>2. phase # "none" /\ (phase \in Maneuvering => ~gate)
  BY DEF MissionInv, HandInv, StepInv
<1>3. idx # 0 /\ idx' \in 1..(Len(Steps) + 1)
  BY <1>1 DEF StepFailed
<1>4. QED
  BY <1>1, <1>2, <1>3, FinishInv DEF StepFailed

\* A step that goes on stays within the types of its own state.
LEMMA StepRunsInv ==
  ASSUME MissionInv, Running, StepRuns, LocalTyped', WheelTyped', StepInv',
         phase' # "none", phase' \in Maneuvering => plan'.step = idx /\ plan'.kind = phase',
         InHand.kind = "dwell" => phase' = "dwell"
  PROVE  MissionInv'
<1>1. idx' = idx /\ finished' = "no" /\ idx # 0
  BY MissionAssumption DEF StepRuns, Running
<1>2. TypeOK'
  BY <1>1 DEF MissionInv, TypeOK, LocalTyped, WheelTyped, Running
<1>3. HandInv' /\ EndInv'
  BY <1>1 DEF HandInv, EndInv, InHand, Running
<1>4. QED
  BY <1>2, <1>3 DEF MissionInv

-----------------------------------------------------------------------------
(***************************************************************************)
(* A tick that goes on, by what update() does.                             *)
(***************************************************************************)
\* A step hands the executor a maneuver of its own, the gate being shut and the
\* car standing: a retreat, a correction or a new plan.
LEMMA ManeuverInv ==
  ASSUME MissionInv, Running, StepRuns, NEW kind \in Maneuvering, InHand.kind # "dwell",
         phase' = kind, gate' = FALSE, motor' = "stands",
         exec' \in {"active", "done"},
         plan' \in [step : 0..Len(Steps), kind : Phases, round : Nat],
         plan'.step = idx, plan'.kind = kind,
         aligned' \in BOOLEAN, corrections' \in Nat, UNCHANGED <<route, clock>>,
         last_park' \in {0} \cup {Steps[i].slot : i \in 1..Len(Steps)}
  PROVE  MissionInv'
<1>1. LocalTyped' /\ WheelTyped'
  BY DEF MissionInv, TypeOK, LocalTyped, WheelTyped, Maneuvering, Phases
<1>2. StepInv'
  BY DEF StepInv, Maneuvering
<1>3. QED
  BY <1>1, <1>2, StepRunsInv DEF Maneuvering

\* Nothing but the executor has moved.
LEMMA WaitInv ==
  ASSUME MissionInv, Running, NEW x, Consistent(x), StepRuns, phase \in Maneuvering,
         motor' = x.motor, NoManeuver(x), UNCHANGED <<local, gate, last_park>>
  PROVE  MissionInv'
<1>1. x \in Leavings /\ TypeOK
  BY DEF Consistent, MissionInv
<1>2. LocalTyped' /\ WheelTyped'
  BY <1>1 DEF TypeOK, LocalTyped, WheelTyped, local, NoManeuver, Leavings
<1>3. StepInv'
  BY DEF MissionInv, StepInv, Consistent, Maneuvering, local, NoManeuver
<1>4. QED
  BY <1>2, <1>3, StepRunsInv DEF MissionInv, HandInv, Maneuvering, local, NoManeuver

\* Where the car stands when a maneuver has ended.
LEMMA EndedStands ==
  ASSUME MissionInv, NEW x, Consistent(x), Ended(x), phase \in Maneuvering
  PROVE  x.exec # "active" /\ x.motor = "stands" /\ gate = FALSE
BY DEF MissionInv, TypeOK, StepInv, Consistent, Ended

\* And a step without a maneuver finds the executor at rest.
LEMMA AtRest ==
  ASSUME MissionInv, NEW x, Consistent(x), phase \notin Maneuvering
  PROVE  x.exec # "active" /\ x.exec = exec /\ x.motor = motor
BY DEF MissionInv, StepInv, Consistent

LEMMA LegTickInv ==
  ASSUME MissionInv, Running, NEW x, Consistent(x), LegTick(x) PROVE MissionInv'
<1>1. x \in Leavings /\ TypeOK /\ idx \in 1..Len(Steps) /\ RouteCount \in Nat
  BY MissionAssumption DEF Consistent, MissionInv, Running
<1>2. ASSUME LegFree(x) PROVE x.exec # "active"
  BY <1>2, AtRest, EndedStands DEF LegFree, Maneuvering
<1>3. CASE LegSwitches(x)
  <2>1. phase # "dwell" /\ x.exec # "active"
    BY <1>2, <1>3 DEF LegSwitches, LegFree
  <2>2. route' \in 0..(RouteCount + 1)
    BY <1>1, <1>3 DEF LegSwitches, TypeOK
  <2>3. LocalTyped' /\ WheelTyped'
    BY <1>1, <1>3, <2>2 DEF LegSwitches, TypeOK, LocalTyped, WheelTyped, Phases, NoManeuver, Leavings
  <2>4. StepInv' /\ phase' = "nav" /\ StepRuns
    BY <1>3, <2>1 DEF LegSwitches, StepInv, Maneuvering, NoManeuver
  <2>5. InHand.kind # "dwell"
    BY <2>1 DEF MissionInv, HandInv
  <2>6. QED
    BY <2>3, <2>4, <2>5, StepRunsInv DEF Maneuvering
<1>4. CASE LegBacksOut(x)
  <2>1. "retreat" \in Phases /\ "retreat" \in Maneuvering /\ route \in Nat /\ InHand.kind # "dwell"
    BY <1>1, <1>4 DEF LegBacksOut, Phases, Maneuvering, TypeOK, MissionInv, HandInv
  <2>2. /\ exec' \in {"active", "done"}
        /\ plan' \in [step : 0..Len(Steps), kind : Phases, round : Nat]
        /\ plan'.step = idx /\ plan'.kind = "retreat"
    BY <1>1, <1>4, <2>1, StartTyping DEF LegBacksOut
  <2>3. QED
    BY <1>1, <1>4, <2>1, <2>2, ManeuverInv DEF LegBacksOut, TakeTheWheel, TypeOK
<1>5. CASE LegRetreats(x)
  BY <1>5, WaitInv DEF LegRetreats, Maneuvering
<1>6. CASE LegArrives(x)
  BY <1>2, <1>6, StepDoneInv DEF LegArrives, LegFree
<1>7. CASE LegFails(x)
  BY <1>2, <1>7, StepFailedInv DEF LegFails
<1>8. QED
  BY <1>3, <1>4, <1>5, <1>6, <1>7 DEF LegTick

LEMMA ParkTickInv ==
  ASSUME MissionInv, Running, NEW x, Consistent(x), ParkTick(x) PROVE MissionInv'
<1>1. x \in Leavings /\ TypeOK /\ idx \in 1..Len(Steps)
  BY DEF Consistent, MissionInv, Running
<1>2. ASSUME phase \in {"align", "park"}, Ended(x)
      PROVE  x.exec # "active" /\ x.motor = "stands" /\ gate = FALSE /\ InHand.kind # "dwell"
  BY <1>2, EndedStands DEF Maneuvering, MissionInv, HandInv
<1>3. CASE AlignmentEnds(x)
  <2>1. phase = "align" /\ Ended(x) /\ motor' = x.motor /\ StepRuns
    BY <1>3 DEF AlignmentEnds
  <2>2. /\ phase' \in {"park", "align"} /\ aligned' \in BOOLEAN
        /\ last_park' \in {0} \cup {Steps[j].slot : j \in 1..Len(Steps)}
        /\ exec' \in {"active", "done"}
        /\ plan' \in [step : 0..Len(Steps), kind : Phases, round : Nat]
        /\ plan'.step = idx /\ plan'.kind = phase'
    BY <1>1, <1>3, PlanTyping DEF AlignmentEnds, TypeOK
  <2>3. UNCHANGED <<route, corrections, clock, gate>> /\ corrections \in Nat
    BY <1>1, <1>3 DEF AlignmentEnds, TypeOK
  <2>4. CASE phase' = "park"
    BY <1>2, <2>1, <2>2, <2>3, <2>4, ManeuverInv DEF Maneuvering
  <2>5. CASE phase' = "align"
    BY <1>2, <2>1, <2>2, <2>3, <2>5, ManeuverInv DEF Maneuvering
  <2>6. QED
    BY <2>2, <2>4, <2>5
<1>4. CASE AlignmentInVain(x)
  BY <1>2, <1>4, StepFailedInv DEF AlignmentInVain
<1>5. CASE ParkBrokenOff(x)
  BY <1>2, <1>5, StepFailedInv DEF ParkBrokenOff, Ended
<1>6. CASE Parked(x)
  BY <1>2, <1>6, StepDoneInv DEF Parked
<1>7. CASE Correct(x)
  <2>1. phase = "park" /\ Ended(x) /\ motor' = x.motor /\ StepRuns
    BY <1>7 DEF Correct, Ended
  <2>2. "park" \in Phases /\ corrections \in Nat /\ corrections + 1 \in Nat
    BY <1>1 DEF Phases, TypeOK
  <2>3. /\ exec' \in {"active", "done"}
        /\ plan' \in [step : 0..Len(Steps), kind : Phases, round : Nat]
        /\ plan'.step = idx /\ plan'.kind = "park"
    BY <1>1, <1>7, <2>2, StartTyping DEF Correct
  <2>4. QED
    BY <1>1, <1>2, <1>7, <2>1, <2>2, <2>3, ManeuverInv DEF Correct, Maneuvering, TypeOK
<1>8. QED
  BY <1>3, <1>4, <1>5, <1>6, <1>7 DEF ParkTick

LEMMA HomeTickInv ==
  ASSUME MissionInv, Running, NEW x, Consistent(x), HomeEnds(x) \/ HomeAgain(x) PROVE MissionInv'
<1>1. x \in Leavings /\ TypeOK /\ idx \in 1..Len(Steps)
  BY DEF Consistent, MissionInv, Running
<1>2. phase = "home" /\ Ended(x)
  BY DEF HomeEnds, HomeAgain, Ended
<1>3. x.exec # "active" /\ x.motor = "stands" /\ gate = FALSE /\ InHand.kind # "dwell"
  BY <1>2, EndedStands DEF Maneuvering, MissionInv, HandInv
<1>4. CASE HomeEnds(x)
  BY <1>3, <1>4, StepDoneInv DEF HomeEnds
<1>5. CASE HomeAgain(x)
  <2>1. "home" \in Phases /\ corrections \in Nat /\ corrections + 1 \in Nat
    BY <1>1 DEF Phases, TypeOK
  <2>2. /\ exec' \in {"active", "done"}
        /\ plan' \in [step : 0..Len(Steps), kind : Phases, round : Nat]
        /\ plan'.step = idx /\ plan'.kind = "home"
    BY <1>1, <1>5, <2>1, StartTyping DEF HomeAgain
  <2>3. QED
    BY <1>1, <1>2, <1>3, <1>5, <2>1, <2>2, ManeuverInv DEF HomeAgain, Maneuvering, TypeOK
<1>6. QED
  BY <1>4, <1>5

LEMMA OtherTickInv ==
  ASSUME MissionInv, Running, NEW x, Consistent(x), OtherTick(x) PROVE MissionInv'
<1>1. CASE TickDoomed(x)
  BY <1>1, AtRest, StepFailedInv DEF TickDoomed, Maneuvering
<1>2. CASE TickSettled(x)
  BY <1>2, AtRest, StepDoneInv DEF TickSettled, Maneuvering
<1>3. CASE ManeuverGoesOn(x)
  BY <1>3, WaitInv DEF ManeuverGoesOn, Maneuvering
<1>4. CASE ExitEnds(x)
  BY <1>4, StepDoneInv, StepFailedInv DEF ExitEnds
<1>5. CASE HomeEnds(x) \/ HomeAgain(x)
  BY <1>5, HomeTickInv
<1>6. CASE DwellGoesOn(x)
  <2>1. /\ StepRuns /\ phase = "dwell" /\ phase' = "dwell" /\ motor' = "stands"
        /\ exec' = x.exec /\ clock < DwellTicks /\ clock' = clock + 1
        /\ UNCHANGED <<plan, route, aligned, corrections, gate, last_park>>
    BY <1>6 DEF DwellGoesOn, NoManeuver
  <2>2. x.exec = exec /\ exec # "active" /\ gate = FALSE
    BY <2>1, AtRest DEF MissionInv, StepInv, TypeOK, Maneuvering
  <2>3. LocalTyped' /\ WheelTyped'
    BY <2>1, <2>2, MissionAssumption DEF MissionInv, TypeOK, LocalTyped, WheelTyped
  <2>4. StepInv'
    BY <2>1, <2>2 DEF StepInv, Maneuvering
  <2>5. QED
    BY <2>1, <2>3, <2>4, StepRunsInv DEF Maneuvering
<1>7. CASE DwellEnds(x)
  BY <1>7, AtRest, StepDoneInv DEF DwellEnds, Maneuvering
<1>8. QED
  BY <1>1, <1>2, <1>3, <1>4, <1>5, <1>6, <1>7 DEF OtherTick

\* The first step is entered with the car standing.
LEMMA StartInv == ASSUME MissionInv, Start PROVE MissionInv'
<1> DEFINE x == [exec |-> exec, motor |-> motor]
<1>1. TypeOK /\ finished = "no" /\ exec # "active" /\ motor = "stands"
  BY DEF Start, MissionInv, EndInv, StepInv, Maneuvering
<1>2. 1 \in 1..Len(Steps)
  BY MissionAssumption
<1>3. x \in Leavings /\ x.exec # "active" /\ x.motor = "stands"
  BY <1>1 DEF Leavings, TypeOK
<1>4. Enter(1, x)
  BY DEF Start
<1>5. QED
  BY <1>1, <1>2, <1>3, <1>4, EnterInv

LEMMA NavDrivesInv == ASSUME MissionInv, NavDrives PROVE MissionInv'
<1>1. /\ gate /\ motor' \in {"stands", "rolls"}
      /\ UNCHANGED <<idx, finished, local, exec, plan, gate, last_park>>
  BY DEF NavDrives
<1>2. TypeOK'
  BY <1>1 DEF MissionInv, TypeOK, local
<1>3. StepInv' /\ HandInv' /\ EndInv'
  BY <1>1 DEF MissionInv, StepInv, HandInv, EndInv, Running, InHand, local
<1>4. QED
  BY <1>2, <1>3 DEF MissionInv

LEMMA MissionInvStep == ASSUME MissionInv, [HNext]_hvars PROVE MissionInv'
<1>1. CASE Start
  BY <1>1, StartInv
<1>2. CASE NavDrives
  BY <1>2, NavDrivesInv
<1>3. ASSUME NEW x \in AfterExecutor, Tick(x) PROVE MissionInv'
  <2>1. Consistent(x)
    BY LeavingsTyping DEF MissionInv
  <2>2. QED
    BY <1>3, <2>1, LegTickInv, ParkTickInv, OtherTickInv DEF Tick
<1>4. CASE UNCHANGED hvars
  <2>1. UNCHANGED vars
    BY <1>4 DEF hvars, vars, local
  <2>2. QED
    BY <2>1 DEF vars, local, MissionInv, TypeOK, StepInv, HandInv, EndInv, Running, InHand
<1>5. QED
  BY <1>1, <1>2, <1>3, <1>4 DEF HNext, Next

-----------------------------------------------------------------------------
\* The invariant holds in every state of a mission.
THEOREM MissionInvariant == HSpec => []MissionInv
<1>1. HInit => MissionInv
  BY InitInv DEF HInit
<1>2. QED
  BY <1>1, MissionInvStep, PTL DEF HSpec

\* Step index, counters and the executor's plan stay within their types.
THEOREM MissionTypeCorrect == HSpec => []TypeOK
BY MissionInvariant, PTL DEF MissionInv

\* The executor never drives while the gate lets Nav2's commands through.
THEOREM MissionHasOneDriver == HSpec => []OneDriver
<1>1. MissionInv => OneDriver
  BY DEF MissionInv, StepInv, OneDriver
<1>2. QED
  BY <1>1, MissionInvariant, PTL

\* A mission that has ended leaves a standing car and a shut gate, whichever step
\* it ended in and however.
THEOREM MissionEndsStanding == HSpec => []EndsStanding
<1>1. MissionInv => EndsStanding
  BY DEF MissionInv, EndInv, EndsStanding
<1>2. QED
  BY <1>1, MissionInvariant, PTL

\* No step takes the end of an earlier step's maneuver for that of its own.
THEOREM StepsOwnManeuvers == HSpec => []OwnManeuver
<1>1. MissionInv => OwnManeuver
  BY DEF MissionInv, HandInv, OwnManeuver, Maneuvering
<1>2. QED
  BY <1>1, MissionInvariant, PTL

-----------------------------------------------------------------------------
(***************************************************************************)
(* Every maneuver starts with the car standing and the gate shut.          *)
(***************************************************************************)
Standing == gate = FALSE /\ motor = "stands"

\* No enter() starts a maneuver before it has stopped the car, but ExitStep's.
LEMMA EnterStartsStanding ==
  ASSUME NEW i \in 1..Len(Steps), NEW x, Steps[i].kind = "exit" => x.motor = "stands",
         Enter(i, x), plan' # plan
  PROVE  Standing'
<1>1. Steps[i].kind \in Kinds
  BY StepTyping DEF Step
<1>2. CASE Steps[i].kind = "leg"
  BY <1>2 DEF Enter, EnterLeg, NoManeuver
<1>3. CASE Steps[i].kind = "park"
  BY <1>3 DEF Enter, EnterPark, TakeTheWheel, Standing
<1>4. CASE Steps[i].kind = "exit"
  BY <1>4 DEF Enter, EnterExit, Standing
<1>5. CASE Steps[i].kind = "home"
  BY <1>5 DEF Enter, EnterHome, TakeTheWheel, Standing
<1>6. CASE Steps[i].kind = "dwell"
  BY <1>6 DEF Enter, EnterDwell, NoManeuver
<1>7. QED
  BY <1>1, <1>2, <1>3, <1>4, <1>5, <1>6 DEF Kinds

LEMMA StepDoneStartsStanding ==
  ASSUME MissionInv, Running, NEW x, Consistent(x), StepDone(x), plan' # plan
  PROVE  Standing'
<1>1. idx < Len(Steps) /\ Enter(idx + 1, x)
  BY DEF StepDone, Finish, NoManeuver
<1>2. idx \in 1..Len(Steps) /\ idx + 1 \in 1..Len(Steps)
  BY <1>1, MissionAssumption DEF Running
<1>3. ASSUME Steps[idx + 1].kind = "exit" PROVE x.motor = "stands"
  <2>1. InHand.kind = "dwell"
    BY <1>2, <1>3, MissionAssumption DEF InHand
  <2>2. phase = "dwell" /\ motor = "stands" /\ exec # "active"
    BY <2>1 DEF MissionInv, HandInv, StepInv, Maneuvering
  <2>3. QED
    BY <2>2 DEF Consistent
<1>4. QED
  BY <1>1, <1>2, <1>3, EnterStartsStanding

LEMMA TickStartsStanding ==
  ASSUME MissionInv, Running, NEW x, Consistent(x), Tick(x), plan' # plan
  PROVE  Standing'
<1>1. CASE StepDone(x)
  BY <1>1, StepDoneStartsStanding
<1>2. CASE LegBacksOut(x)
  BY <1>2 DEF LegBacksOut, TakeTheWheel, Standing
<1>3. CASE AlignmentEnds(x) \/ Correct(x) \/ HomeAgain(x)
  <2>1. Ended(x) /\ phase \in Maneuvering
    BY <1>3 DEF AlignmentEnds, Correct, HomeAgain, Ended, Maneuvering
  <2>2. x.motor = "stands" /\ gate = FALSE
    BY <2>1, EndedStands
  <2>3. QED
    BY <1>3, <2>2 DEF AlignmentEnds, Correct, HomeAgain, Standing
<1>4. \/ StepDone(x) \/ LegBacksOut(x) \/ AlignmentEnds(x) \/ Correct(x) \/ HomeAgain(x)
      \/ StepFailed(x) \/ NoManeuver(x)
  <2>1. CASE LegTick(x)
    BY <2>1 DEF LegTick, LegSwitches, LegRetreats, LegArrives, LegFails
  <2>2. CASE ParkTick(x)
    BY <2>2 DEF ParkTick, AlignmentInVain, ParkBrokenOff, Parked
  <2>3. CASE OtherTick(x)
    BY <2>3 DEF OtherTick, TickDoomed, TickSettled, ManeuverGoesOn, ExitEnds, HomeEnds,
                DwellGoesOn, DwellEnds
  <2>4. QED
    BY <2>1, <2>2, <2>3 DEF Tick
<1>5. QED
  BY <1>1, <1>2, <1>3, <1>4 DEF StepFailed, Finish, NoManeuver

LEMMA StepStartsStanding ==
  ASSUME MissionInv, HNext, plan' # plan PROVE ~gate' /\ motor' = "stands"
<1>1. CASE Start
  <2>1. motor = "stands" /\ 1 \in 1..Len(Steps)
    BY <1>1, MissionAssumption DEF Start, MissionInv, EndInv, StepInv
  <2>2. QED
    BY <1>1, <2>1, EnterStartsStanding DEF Start, Standing
<1>2. CASE NavDrives
  BY <1>2 DEF NavDrives
<1>3. ASSUME NEW x \in AfterExecutor, Tick(x) PROVE Standing'
  <2>1. Consistent(x)
    BY LeavingsTyping DEF MissionInv
  <2>2. QED
    BY <1>3, <2>1, TickStartsStanding DEF Tick
<1>4. QED
  BY <1>1, <1>2, <1>3 DEF HNext, Next, Standing

\* A maneuver starts with a standing car and a shut gate, for every list of steps
\* in which an exit follows a dwell: ExitStep itself stops nothing.
THEOREM ManeuversStartStanding == HSpec => StartsStanding
<1>1. ASSUME MissionInv, [HNext]_hvars
      PROVE  [plan' # plan => ~gate' /\ motor' = "stands"]_hvars
  BY <1>1, StepStartsStanding
<1>2. QED
  BY <1>1, MissionInvariant, PTL DEF HSpec, StartsStanding

-----------------------------------------------------------------------------
(***************************************************************************)
(* The maneuvers a step has started are counted out by where it stands,    *)
(* and the slot an exit retraces is that of the parking before the dwell.  *)
(***************************************************************************)
PhasesOf(kind) ==
  CASE kind = "leg"   -> {"nav", "retreat", "doomed"}
    [] kind = "park"  -> {"align", "park", "doomed"}
    [] kind = "exit"  -> {"exit", "doomed"}
    [] kind = "home"  -> {"home", "settled"}
    [] kind = "dwell" -> {"dwell"}

WorkOf(i) ==
  /\ phase \in PhasesOf(Steps[i].kind)
  /\ phase \in {"doomed", "settled", "dwell"} => starts = 0
  /\ phase = "nav" => route \in 1..RouteCount /\ starts < route
  /\ phase = "retreat" => route \in 1..RouteCount /\ starts <= route
  /\ phase = "align" => aligned /\ starts <= 1 /\ corrections = 0
  /\ phase = "park" => starts <= 2 + corrections /\ corrections <= Steps[i].rounds
  /\ phase = "exit" => starts <= 1
  /\ phase = "home" => starts <= 1 + corrections /\ corrections <= Steps[i].rounds

SlotOf(i) ==
  /\ phase \in {"park", "exit"} => last_park = Steps[i].slot
  /\ i > 1 /\ Steps[i].kind = "dwell" /\ Steps[i - 1].kind = "park" =>
       last_park = Steps[i - 1].slot

WorkInv ==
  /\ starts \in Nat
  /\ Running => WorkOf(idx) /\ SlotOf(idx)
  /\ WorkBounded

\* Where a step stands bounds the maneuvers it has started.
LEMMA WorkIsBounded ==
  ASSUME TypeOK', idx' \in 1..Len(Steps), starts' \in Nat, WorkOf(idx)' PROVE WorkBounded'
<1> DEFINE hand == Steps[idx']
<1>1. hand \in Step /\ InHand' = hand /\ RouteCount \in Nat \ {0} /\ corrections' \in Nat
  BY StepTyping, MissionAssumption DEF InHand, TypeOK
<1>2. hand.kind \in Kinds /\ hand.rounds \in Nat
  BY <1>1 DEF Step
<1>3. CASE hand.kind = "leg"
  BY <1>1, <1>2, <1>3 DEF WorkOf, PhasesOf, WorkBounded, MostStarts
<1>4. CASE hand.kind = "park"
  BY <1>1, <1>2, <1>4 DEF WorkOf, PhasesOf, WorkBounded, MostStarts
<1>5. CASE hand.kind = "exit"
  BY <1>1, <1>2, <1>5 DEF WorkOf, PhasesOf, WorkBounded, MostStarts
<1>6. CASE hand.kind = "home"
  BY <1>1, <1>2, <1>6 DEF WorkOf, PhasesOf, WorkBounded, MostStarts
<1>7. CASE hand.kind = "dwell"
  BY <1>1, <1>2, <1>7 DEF WorkOf, PhasesOf, WorkBounded, MostStarts
<1>8. QED
  BY <1>2, <1>3, <1>4, <1>5, <1>6, <1>7 DEF Kinds

\* One more maneuver is one more plan.
LEMMA StartsCounted ==
  ASSUME starts \in Nat, CountStarts
  PROVE  /\ starts' \in Nat
         /\ idx' = idx => starts' <= starts + 1 /\ (plan' = plan => starts' = starts)
         /\ idx' # idx => starts' <= 1 /\ (plan' = plan => starts' = 0)
BY DEF CountStarts

\* What enter() of step i leaves counted.
LEMMA EnterWork ==
  ASSUME TypeOK, starts \in Nat, CountStarts, NEW i \in 1..Len(Steps), i # idx, NEW x, Enter(i, x)
  PROVE  WorkOf(i)'
<1>1. Steps[i].kind \in Kinds /\ Steps[i].rounds \in Nat /\ RouteCount \in Nat \ {0}
  BY StepTyping, MissionAssumption DEF Step
<1>2. starts' \in Nat /\ starts' <= 1 /\ (plan' = plan => starts' = 0)
  BY StartsCounted DEF Enter
<1>3. CASE Steps[i].kind = "leg"
  <2>1. EnterLeg(i, x)
    BY <1>3 DEF Enter
  <2>2. PICK r \in 1..(RouteCount + 1) :
          route' = r /\ phase' = IF r > RouteCount THEN "doomed" ELSE "nav"
    BY <2>1 DEF EnterLeg
  <2>3. starts' = 0
    BY <1>2, <2>1 DEF EnterLeg, NoManeuver
  <2>4. QED
    BY <1>1, <1>3, <2>2, <2>3 DEF WorkOf, PhasesOf
<1>4. CASE Steps[i].kind = "park"
  <2>1. corrections' = 0 /\ EnterPark(i, x)
    BY <1>4 DEF Enter, EnterPark
  <2>2. \/ phase' = "park"
        \/ phase' = "align" /\ aligned' = TRUE
        \/ phase' = "doomed" /\ plan' = plan
    BY <2>1 DEF EnterPark, PlanPark, PlanAlign, NoManeuver
  <2>3. QED
    BY <1>1, <1>2, <1>4, <2>1, <2>2 DEF WorkOf, PhasesOf
<1>5. CASE Steps[i].kind = "exit"
  <2>1. phase' = "exit" \/ (phase' = "doomed" /\ plan' = plan)
    BY <1>5 DEF Enter, EnterExit, NoManeuver
  <2>2. QED
    BY <1>2, <1>5, <2>1 DEF WorkOf, PhasesOf
<1>6. CASE Steps[i].kind = "home"
  <2>1. corrections' = 0 /\ (phase' = "home" \/ (phase' = "settled" /\ plan' = plan))
    BY <1>6 DEF Enter, EnterHome, NoManeuver
  <2>2. QED
    BY <1>1, <1>2, <1>6, <2>1 DEF WorkOf, PhasesOf
<1>7. CASE Steps[i].kind = "dwell"
  <2>1. phase' = "dwell" /\ plan' = plan
    BY <1>7 DEF Enter, EnterDwell, NoManeuver
  <2>2. QED
    BY <1>2, <1>7, <2>1 DEF WorkOf, PhasesOf
<1>8. QED
  BY <1>1, <1>3, <1>4, <1>5, <1>6, <1>7 DEF Kinds

\* Entering a step keeps the slot the car was parked in, or takes the step's own.
LEMMA EnterSlot ==
  ASSUME NEW i \in 1..Len(Steps), NEW x, Enter(i, x),
         Steps[i].kind = "exit" => last_park = Steps[i].slot,
         i > 1 /\ Steps[i].kind = "dwell" /\ Steps[i - 1].kind = "park" =>
           last_park = Steps[i - 1].slot
  PROVE  SlotOf(i)'
<1>1. Steps[i].kind \in Kinds
  BY StepTyping DEF Step
<1>2. CASE Steps[i].kind = "leg"
  BY <1>2 DEF Enter, EnterLeg, SlotOf
<1>3. CASE Steps[i].kind = "park"
  BY <1>3 DEF Enter, EnterPark, PlanPark, PlanAlign, SlotOf
<1>4. CASE Steps[i].kind = "exit"
  BY <1>4 DEF Enter, EnterExit, SlotOf
<1>5. CASE Steps[i].kind = "home"
  BY <1>5 DEF Enter, EnterHome, SlotOf
<1>6. CASE Steps[i].kind = "dwell"
  BY <1>6 DEF Enter, EnterDwell, SlotOf
<1>7. QED
  BY <1>1, <1>2, <1>3, <1>4, <1>5, <1>6 DEF Kinds

\* A step that is done hands over with everything counted out.
LEMMA StepDoneWork ==
  ASSUME MissionInv, MissionInv', WorkInv, Running, CountStarts, NEW x, StepDone(x),
         InHand.kind = "park" => phase = "park"
  PROVE  WorkInv'
<1>1. TypeOK /\ idx \in 1..Len(Steps) /\ Len(Steps) \in Nat /\ starts \in Nat /\ SlotOf(idx)
  BY MissionAssumption DEF MissionInv, Running, WorkInv
<1>2. starts' \in Nat
  BY <1>1, StartsCounted
<1>3. CASE idx < Len(Steps) /\ Enter(idx + 1, x)
  <2>1. PICK i \in 1..Len(Steps) : i = idx + 1
    BY <1>1, <1>3
  <2>2. Enter(i, x) /\ i # idx /\ i - 1 = idx /\ idx' = i
    <3>1. Enter(i, x)
      BY <1>3, <2>1
    <3>2. i # idx /\ i - 1 = idx
      BY <1>1, <2>1
    <3>3. idx' = i
      BY <3>1, Zenon DEF Enter
    <3>4. QED
      BY <3>1, <3>2, <3>3
  <2>3. ASSUME Steps[i].kind = "exit" PROVE last_park = Steps[i].slot
    <3>1. i - 2 = idx - 1 /\ i > 2
      BY <1>1, <2>1, <2>3, OrderAssumption
    <3>2. /\ Steps[idx].kind = "dwell" /\ idx > 1
          /\ Steps[idx - 1].kind = "park" /\ Steps[idx - 1].slot = Steps[i].slot
      BY <1>1, <2>1, <2>2, <2>3, <3>1, MissionAssumption, OrderAssumption
    <3>3. QED
      BY <1>1, <3>2 DEF SlotOf
  <2>4. ASSUME Steps[idx].kind = "park" PROVE last_park = Steps[idx].slot
    <3>1. phase = "park"
      BY <2>4 DEF InHand
    <3>2. QED
      BY <1>1, <3>1 DEF SlotOf
  <2>5. WorkOf(i)'
    BY <1>1, <2>2, EnterWork
  <2>6. SlotOf(i)'
    BY <2>2, <2>3, <2>4, EnterSlot
  <2>7. WorkOf(idx)' /\ SlotOf(idx)' /\ idx' \in 1..Len(Steps)
    BY <2>2, <2>5, <2>6 DEF WorkOf, SlotOf
  <2>8. WorkBounded'
    BY <1>2, <2>7, WorkIsBounded DEF MissionInv
  <2>9. QED
    BY <1>2, <2>7, <2>8 DEF WorkInv
<1>4. CASE idx = Len(Steps) /\ idx' = idx + 1 /\ Finish("ok", x)
  <2>1. finished' # "no" /\ idx' \notin 1..Len(Steps)
    BY <1>1, <1>4 DEF Finish
  <2>2. QED
    BY <1>2, <2>1 DEF WorkInv, Running, WorkBounded
<1>5. QED
  BY <1>3, <1>4 DEF StepDone

\* A step that fails leaves the count alone.
LEMMA StepFailedWork ==
  ASSUME WorkInv, Running, CountStarts, NEW x, StepFailed(x) PROVE WorkInv'
<1>1. idx' = idx /\ plan' = plan /\ finished' # "no" /\ starts \in Nat
  BY DEF StepFailed, Finish, NoManeuver, WorkInv
<1>2. starts' = starts
  BY <1>1, StartsCounted
<1>3. QED
  BY <1>1, <1>2 DEF WorkInv, Running, WorkBounded, MostStarts, InHand

\* A step that goes on keeps its own count and slot.
LEMMA StepRunsWork ==
  ASSUME MissionInv', WorkInv, Running, CountStarts, StepRuns, WorkOf(idx)', SlotOf(idx)'
  PROVE  WorkInv'
<1>1. starts' \in Nat /\ idx' \in 1..Len(Steps) /\ TypeOK'
  <2>1. TypeOK'
    BY DEF MissionInv
  <2>2. QED
    BY <2>1, StartsCounted DEF WorkInv, Running, StepRuns
<1>2. WorkBounded'
  BY <1>1, WorkIsBounded
<1>3. QED
  BY <1>1, <1>2 DEF WorkInv

\* A step that only waits keeps both as they are.
LEMMA WaitWork ==
  ASSUME MissionInv', WorkInv, Running, CountStarts, StepRuns, plan' = plan,
         UNCHANGED <<phase, route, aligned, corrections, last_park>>
  PROVE  WorkInv'
<1>1. idx' = idx /\ starts' = starts
  BY StartsCounted DEF StepRuns, WorkInv
<1>2. WorkOf(idx)' /\ SlotOf(idx)'
  BY <1>1 DEF WorkInv, WorkOf, SlotOf
<1>3. QED
  BY <1>2, StepRunsWork

\* A phase belongs to one kind of step.
LEMMA PhaseKinds ==
  ASSUME WorkInv, Running
  PROVE  /\ phase \in {"nav", "retreat"} => InHand.kind = "leg"
         /\ phase \in {"align", "park"} => InHand.kind = "park"
         /\ phase = "exit" => InHand.kind = "exit"
         /\ phase \in {"home", "settled"} => InHand.kind = "home"
         /\ phase = "dwell" => InHand.kind = "dwell"
<1>1. InHand.kind \in Kinds /\ phase \in PhasesOf(InHand.kind)
  BY StepTyping DEF WorkInv, WorkOf, Running, InHand, Step
<1>2. QED
  BY <1>1 DEF Kinds, PhasesOf

LEMMA LegTickWork ==
  ASSUME MissionInv, MissionInv', WorkInv, Running, CountStarts, NEW x, LegTick(x) PROVE WorkInv'
<1>1. /\ starts \in Nat /\ RouteCount \in Nat /\ WorkOf(idx) /\ SlotOf(idx) /\ route \in Nat
      /\ idx \in Nat
  BY MissionAssumption DEF WorkInv, MissionInv, TypeOK, Running
<1>2. phase \in {"nav", "retreat"} /\ InHand.kind = "leg"
  BY PhaseKinds DEF LegTick, LegSwitches, LegBacksOut, LegRetreats, LegArrives, LegFails, LegFree
<1>3. "nav" \in PhasesOf(Steps[idx].kind) /\ "retreat" \in PhasesOf(Steps[idx].kind)
      /\ Steps[idx].kind = "leg"
  BY <1>2 DEF PhasesOf, InHand
<1>4. CASE LegSwitches(x)
  <2>1. /\ idx' = idx /\ plan' = plan /\ phase' = "nav" /\ route' \in (route + 1)..RouteCount
        /\ StepRuns
    BY <1>4 DEF LegSwitches, NoManeuver, StepRuns
  <2>2. starts' = starts /\ starts <= route
    BY <1>1, <1>2, <2>1, StartsCounted DEF WorkOf
  <2>3. WorkOf(idx)'
    BY <1>1, <1>3, <2>1, <2>2 DEF WorkOf
  <2>4. SlotOf(idx)'
    BY <1>3, <2>1 DEF SlotOf
  <2>5. QED
    BY <2>1, <2>3, <2>4, StepRunsWork
<1>5. CASE LegBacksOut(x)
  <2>1. idx' = idx /\ phase = "nav" /\ phase' = "retreat" /\ route' = route /\ StepRuns
    BY <1>5 DEF LegBacksOut, StepRuns
  <2>2. starts' <= starts + 1 /\ starts' \in Nat /\ starts < route /\ route \in 1..RouteCount
    BY <1>1, <2>1, StartsCounted DEF WorkOf
  <2>3. WorkOf(idx)'
    BY <1>1, <1>3, <2>1, <2>2 DEF WorkOf
  <2>4. SlotOf(idx)'
    BY <1>3, <2>1 DEF SlotOf
  <2>5. QED
    BY <2>1, <2>3, <2>4, StepRunsWork
<1>6. CASE LegRetreats(x)
  BY <1>6, WaitWork DEF LegRetreats, NoManeuver, local
<1>7. CASE LegArrives(x)
  BY <1>2, <1>7, StepDoneWork DEF LegArrives
<1>8. CASE LegFails(x)
  BY <1>8, StepFailedWork DEF LegFails
<1>9. QED
  BY <1>4, <1>5, <1>6, <1>7, <1>8 DEF LegTick

LEMMA ParkTickWork ==
  ASSUME MissionInv, MissionInv', WorkInv, Running, CountStarts, NEW x, ParkTick(x) PROVE WorkInv'
<1>1. starts \in Nat /\ corrections \in Nat /\ WorkOf(idx) /\ SlotOf(idx) /\ idx \in Nat
  BY DEF WorkInv, MissionInv, TypeOK, Running
<1>2. phase \in {"align", "park"} /\ InHand.kind = "park"
  BY PhaseKinds DEF ParkTick, AlignmentEnds, AlignmentInVain, ParkBrokenOff, Parked, Correct
<1>3. Steps[idx].kind = "park" /\ "park" \in PhasesOf(Steps[idx].kind)
      /\ Steps[idx].rounds \in Nat
  BY <1>2, StepTyping DEF PhasesOf, InHand, Running, Step
<1>4. CASE AlignmentEnds(x)
  <2>1. aligned /\ starts <= 1 /\ corrections = 0
    BY <1>1, <1>4 DEF AlignmentEnds, WorkOf
  <2>2. /\ phase' = "park" /\ last_park' = Steps[idx].slot /\ corrections' = corrections
        /\ StepRuns /\ idx' = idx
    BY <1>4, <2>1 DEF AlignmentEnds, PlanPark, PlanAlign, StepRuns
  <2>3. starts' <= 2 /\ starts' \in Nat
    BY <1>1, <2>1, <2>2, StartsCounted
  <2>4. WorkOf(idx)'
    BY <1>3, <2>1, <2>2, <2>3 DEF WorkOf
  <2>5. SlotOf(idx)'
    BY <1>3, <2>2 DEF SlotOf
  <2>6. QED
    BY <2>2, <2>4, <2>5, StepRunsWork
<1>5. CASE AlignmentInVain(x)
  BY <1>5, StepFailedWork DEF AlignmentInVain
<1>6. CASE ParkBrokenOff(x)
  BY <1>6, StepFailedWork DEF ParkBrokenOff
<1>7. CASE Parked(x)
  BY <1>7, StepDoneWork DEF Parked
<1>8. CASE Correct(x)
  <2>1. /\ phase = "park" /\ phase' = "park" /\ last_park' = last_park /\ StepRuns /\ idx' = idx
        /\ corrections < Steps[idx].rounds /\ corrections' = corrections + 1
    BY <1>8 DEF Correct, StepRuns, InHand
  <2>2. starts' <= starts + 1 /\ starts' \in Nat /\ starts <= 2 + corrections
    BY <1>1, <2>1, StartsCounted DEF WorkOf
  <2>3. WorkOf(idx)'
    BY <1>1, <1>3, <2>1, <2>2 DEF WorkOf
  <2>4. SlotOf(idx)'
    BY <1>1, <1>3, <2>1 DEF SlotOf
  <2>5. QED
    BY <2>1, <2>3, <2>4, StepRunsWork
<1>9. QED
  BY <1>4, <1>5, <1>6, <1>7, <1>8 DEF ParkTick

LEMMA OtherTickWork ==
  ASSUME MissionInv, MissionInv', WorkInv, Running, CountStarts, NEW x, OtherTick(x) PROVE WorkInv'
<1>1. starts \in Nat /\ corrections \in Nat /\ WorkOf(idx) /\ SlotOf(idx) /\ idx \in Nat
  BY DEF WorkInv, MissionInv, TypeOK, Running
<1>2. ASSUME phase \in {"exit", "home", "settled", "dwell"} PROVE InHand.kind # "park"
  BY <1>2, PhaseKinds
<1>3. CASE TickDoomed(x)
  BY <1>3, StepFailedWork DEF TickDoomed
<1>4. CASE TickSettled(x)
  BY <1>2, <1>4, StepDoneWork DEF TickSettled
<1>5. CASE ManeuverGoesOn(x)
  BY <1>5, WaitWork DEF ManeuverGoesOn, NoManeuver, local
<1>6. CASE ExitEnds(x)
  BY <1>2, <1>6, StepDoneWork, StepFailedWork DEF ExitEnds
<1>7. CASE HomeEnds(x)
  BY <1>2, <1>7, StepDoneWork DEF HomeEnds
<1>8. CASE HomeAgain(x)
  <2>1. /\ phase = "home" /\ phase' = "home" /\ last_park' = last_park /\ StepRuns /\ idx' = idx
        /\ corrections < Steps[idx].rounds /\ corrections' = corrections + 1
    BY <1>8 DEF HomeAgain, StepRuns, InHand
  <2>2. Steps[idx].kind = "home" /\ Steps[idx].rounds \in Nat
    BY <2>1, PhaseKinds, StepTyping DEF InHand, Running, Step
  <2>3. starts' <= starts + 1 /\ starts' \in Nat /\ starts <= 1 + corrections
    BY <1>1, <2>1, StartsCounted DEF WorkOf
  <2>4. WorkOf(idx)'
    BY <1>1, <2>1, <2>2, <2>3 DEF WorkOf, PhasesOf
  <2>5. SlotOf(idx)'
    BY <2>1, <2>2 DEF SlotOf
  <2>6. QED
    BY <2>1, <2>4, <2>5, StepRunsWork
<1>9. CASE DwellGoesOn(x)
  BY <1>9, WaitWork DEF DwellGoesOn, NoManeuver
<1>10. CASE DwellEnds(x)
  BY <1>2, <1>10, StepDoneWork DEF DwellEnds
<1>11. QED
  BY <1>3, <1>4, <1>5, <1>6, <1>7, <1>8, <1>9, <1>10 DEF OtherTick

LEMMA WorkInvStep == ASSUME MissionInv, WorkInv, [HNext]_hvars PROVE WorkInv'
<1>1. MissionInv'
  BY MissionInvStep
<1>2. CASE Start /\ CountStarts
  <2>1. idx = 0 /\ 1 \in 1..Len(Steps) /\ 1 # idx /\ TypeOK /\ starts \in Nat
    BY <1>2, MissionAssumption DEF Start, MissionInv, WorkInv
  <2>2. PICK x : Enter(1, x)
    BY <1>2 DEF Start
  <2>3. Steps[1].kind # "exit"
    BY <2>1, MissionAssumption
  <2>4. WorkOf(1)'
    BY <1>2, <2>1, <2>2, EnterWork
  <2>5. SlotOf(1)'
    BY <2>1, <2>2, <2>3, EnterSlot
  <2>6. idx' = 1 /\ starts' \in Nat /\ TypeOK'
    BY <1>1, <1>2, <2>1, <2>2, StartsCounted DEF Enter, MissionInv
  <2>7. WorkOf(idx)' /\ SlotOf(idx)' /\ idx' \in 1..Len(Steps)
    BY <2>1, <2>4, <2>5, <2>6 DEF WorkOf, SlotOf
  <2>8. WorkBounded'
    BY <2>6, <2>7, WorkIsBounded
  <2>9. QED
    BY <2>6, <2>7, <2>8 DEF WorkInv
<1>3. ASSUME UNCHANGED <<idx, finished, local, plan, last_park, starts>> PROVE WorkInv'
  BY <1>3 DEF WorkInv, WorkOf, SlotOf, Running, WorkBounded, MostStarts, InHand, local
<1>4. CASE NavDrives /\ CountStarts
  <2>1. UNCHANGED <<idx, finished, local, plan, last_park>>
    BY <1>4 DEF NavDrives
  <2>2. starts' = starts
    BY <1>4, <2>1, StartsCounted DEF WorkInv
  <2>3. QED
    BY <1>3, <2>1, <2>2
<1>5. ASSUME NEW x \in AfterExecutor, Tick(x), CountStarts PROVE WorkInv'
  BY <1>1, <1>5, LegTickWork, ParkTickWork, OtherTickWork DEF Tick
<1>6. CASE UNCHANGED hvars
  BY <1>3, <1>6 DEF hvars, local
<1>7. QED
  BY <1>2, <1>4, <1>5, <1>6 DEF HNext, Next

THEOREM MissionWork == HSpec => []WorkInv
<1>1. HInit => WorkInv
  <2>1. HInit => idx = 0 /\ starts = 0
    BY DEF HInit, Init
  <2>2. QED
    BY <2>1, MissionAssumption DEF WorkInv, Running, WorkBounded
<1>2. MissionInv /\ WorkInv /\ [HNext]_hvars => WorkInv'
  BY WorkInvStep
<1>3. QED
  BY <1>1, <1>2, MissionInvariant, PTL DEF HSpec

\* ExitStep retraces the way into the slot the car stands in, for every list of steps
\* in which an exit follows the parking it belongs to.
THEOREM ExitsOwnSlot == HSpec => []ExitReplaysOwnPark
<1>1. WorkInv => ExitReplaysOwnPark
  BY DEF WorkInv, SlotOf, ExitReplaysOwnPark, InHand
<1>2. QED
  BY <1>1, MissionWork, PTL

\* No step maneuvers without end, however its maneuvers, plans and tolerances end.
THEOREM StepsWorkBounded == HSpec => []WorkBounded
<1>1. WorkInv => WorkBounded
  BY DEF WorkInv
<1>2. QED
  BY <1>1, MissionWork, PTL

-----------------------------------------------------------------------------
(***************************************************************************)
(* No step of a mission leads back.                                        *)
(***************************************************************************)
\* What is ahead of a mission is counted in natural numbers.
LEMMA AheadTyping ==
  MissionInv /\ WorkInv => StepsAhead \in Nat /\ CourseAhead \in Nat /\ RoundsAhead \in Nat
<1> SUFFICES ASSUME MissionInv, WorkInv
             PROVE  StepsAhead \in Nat /\ CourseAhead \in Nat /\ RoundsAhead \in Nat
  OBVIOUS
<1>1. TypeOK /\ Len(Steps) \in Nat /\ RouteCount \in Nat /\ DwellTicks \in Nat
  BY MissionAssumption DEF MissionInv
<1>2. StepsAhead \in Nat
  BY <1>1 DEF StepsAhead, TypeOK
<1>3. CourseAhead \in Nat
  BY <1>1 DEF CourseAhead, TypeOK
<1>4. RoundsAhead \in Nat
  <2>1. ASSUME Running, phase \in {"park", "home"} PROVE InHand.rounds - corrections \in Nat
    <3>1. corrections <= Steps[idx].rounds /\ corrections \in Nat
      BY <1>1, <2>1 DEF WorkInv, WorkOf, TypeOK
    <3>2. Steps[idx].rounds \in Nat
      BY <2>1, StepTyping DEF Running, Step
    <3>3. QED
      BY <3>1, <3>2 DEF InHand
  <2>2. DwellTicks - clock \in Nat
    BY <1>1 DEF TypeOK
  <2>3. QED
    BY <2>1, <2>2 DEF RoundsAhead
<1>5. QED
  BY <1>2, <1>3, <1>4

\* Which of the numbers a step lowers.
FewerSteps  == StepsAhead' < StepsAhead
LessCourse  == StepsAhead' = StepsAhead /\ CourseAhead' < CourseAhead
FewerRounds == StepsAhead' = StepsAhead /\ CourseAhead' = CourseAhead /\ RoundsAhead' < RoundsAhead

Nearer == FewerSteps \/ LessCourse \/ FewerRounds

LEMMA NearerIsBelow == ASSUME Nearer PROVE Below(Ahead', Ahead)
<1>1. /\ Ahead[1] = StepsAhead /\ Ahead[2] = CourseAhead /\ Ahead[3] = RoundsAhead
      /\ Ahead'[1] = StepsAhead' /\ Ahead'[2] = CourseAhead' /\ Ahead'[3] = RoundsAhead'
  BY DEF Ahead
<1>2. ASSUME NEW i \in 1..3, Ahead'[i] < Ahead[i], \A j \in 1..(i - 1) : Ahead'[j] = Ahead[j]
      PROVE  Below(Ahead', Ahead)
  BY <1>2 DEF Below
<1>3. CASE FewerSteps
  BY <1>1, <1>2, <1>3 DEF FewerSteps
<1>4. CASE LessCourse
  <2>1. \A j \in 1..(2 - 1) : j = 1
    OBVIOUS
  <2>2. QED
    BY <1>1, <1>2, <1>4, <2>1 DEF LessCourse
<1>5. CASE FewerRounds
  <2>1. \A j \in 1..(3 - 1) : j = 1 \/ j = 2
    OBVIOUS
  <2>2. QED
    BY <1>1, <1>2, <1>5, <2>1 DEF FewerRounds
<1>6. QED
  BY <1>3, <1>4, <1>5 DEF Nearer

\* A step that is done or has failed is a step less.
LEMMA StepDoneNearer ==
  ASSUME TypeOK, Running, NEW x, StepDone(x) PROVE FewerSteps
<1>1. Len(Steps) \in Nat /\ idx \in 1..Len(Steps) /\ finished = "no"
  BY MissionAssumption DEF Running
<1>2. idx' = idx + 1
  BY DEF StepDone, Enter
<1>3. StepsAhead' = 0 \/ StepsAhead' = Len(Steps) + 2 - (idx + 1)
  BY <1>2 DEF StepsAhead
<1>4. StepsAhead = Len(Steps) + 2 - idx
  BY <1>1 DEF StepsAhead
<1>5. QED
  BY <1>1, <1>3, <1>4 DEF FewerSteps

LEMMA StepFailedNearer ==
  ASSUME TypeOK, Running, NEW x, StepFailed(x) PROVE FewerSteps
<1>1. Len(Steps) \in Nat /\ idx \in 1..Len(Steps) /\ finished = "no"
  BY MissionAssumption DEF Running
<1>2. StepsAhead' = 0
  BY DEF StepFailed, Finish, StepsAhead
<1>3. QED
  BY <1>1, <1>2 DEF StepsAhead, FewerSteps

\* A step that goes on stays in hand.
LEMMA StepRunsHere ==
  ASSUME Running, StepRuns
  PROVE  StepsAhead' = StepsAhead /\ Running' /\ InHand' = InHand
BY DEF StepRuns, StepsAhead, Running, InHand

LEMMA LegTickNearer ==
  ASSUME MissionInv, WorkInv, Running, NEW x, LegTick(x), ~LegRetreats(x) PROVE Nearer
<1>1. TypeOK /\ RouteCount \in Nat
  BY MissionAssumption DEF MissionInv
<1>2. CASE LegSwitches(x)
  <2>1. /\ StepRuns /\ phase \in {"nav", "retreat"} /\ phase' = "nav"
        /\ route' \in (route + 1)..RouteCount
    BY <1>2 DEF LegSwitches, LegFree
  <2>2. StepsAhead' = StepsAhead /\ Running'
    BY <2>1, StepRunsHere
  <2>3. CourseAhead = RouteCount + 1 - route /\ CourseAhead' = RouteCount + 1 - route'
    BY <2>1, <2>2 DEF CourseAhead
  <2>4. route \in Nat /\ route' \in Int /\ route' > route
    BY <1>1, <2>1 DEF TypeOK
  <2>5. RouteCount + 1 - route' < RouteCount + 1 - route
    <3>1. \A n, a, b \in Int : a > b => n + 1 - a < n + 1 - b
      OBVIOUS
    <3>2. RouteCount \in Int /\ route' \in Int /\ route \in Int
      BY <1>1, <2>4
    <3>3. QED
      BY <2>4, <3>1, <3>2
  <2>6. QED
    BY <2>2, <2>3, <2>5, Zenon DEF Nearer, LessCourse
<1>3. CASE LegBacksOut(x)
  <2>1. StepRuns /\ phase = "nav" /\ phase' = "retreat" /\ route' = route
    BY <1>3 DEF LegBacksOut
  <2>2. StepsAhead' = StepsAhead /\ Running'
    BY <2>1, StepRunsHere
  <2>3. CourseAhead' = CourseAhead /\ RoundsAhead = 1 /\ RoundsAhead' = 0
    BY <2>1, <2>2 DEF CourseAhead, RoundsAhead
  <2>4. QED
    BY <2>2, <2>3 DEF Nearer, FewerRounds
<1>4. CASE LegArrives(x)
  BY <1>1, <1>4, StepDoneNearer DEF LegArrives, Nearer
<1>5. CASE LegFails(x)
  BY <1>1, <1>5, StepFailedNearer DEF LegFails, Nearer
<1>6. QED
  BY <1>2, <1>3, <1>4, <1>5 DEF LegTick

\* One more correction is one less to come.
LEMMA CorrectionNearer ==
  ASSUME TypeOK, Running, StepRuns, phase \in {"park", "home"}, phase' = phase,
         corrections < InHand.rounds, corrections' = corrections + 1
  PROVE  Nearer
<1>1. StepsAhead' = StepsAhead /\ Running' /\ InHand' = InHand
  BY StepRunsHere
<1>2. CourseAhead' = CourseAhead
  BY <1>1 DEF CourseAhead
<1>3. InHand.rounds \in Nat /\ corrections \in Nat
  BY StepTyping DEF InHand, Running, Step, TypeOK
<1>4. RoundsAhead = InHand.rounds - corrections /\ RoundsAhead' = InHand.rounds - (corrections + 1)
  BY <1>1 DEF RoundsAhead
<1>5. QED
  BY <1>1, <1>2, <1>3, <1>4 DEF Nearer, FewerRounds

LEMMA ParkTickNearer ==
  ASSUME MissionInv, WorkInv, Running, NEW x, ParkTick(x) PROVE Nearer
<1>1. TypeOK
  BY DEF MissionInv
<1>2. CASE AlignmentEnds(x)
  <2>1. aligned
    BY <1>2 DEF AlignmentEnds, WorkInv, WorkOf
  <2>2. StepRuns /\ phase = "align" /\ phase' = "park"
    BY <1>2, <2>1 DEF AlignmentEnds, PlanPark, PlanAlign
  <2>3. StepsAhead' = StepsAhead /\ Running'
    BY <2>2, StepRunsHere
  <2>4. CourseAhead = 1 /\ CourseAhead' = 0
    BY <2>2, <2>3 DEF CourseAhead
  <2>5. QED
    BY <2>3, <2>4 DEF Nearer, LessCourse
<1>3. CASE AlignmentInVain(x)
  BY <1>1, <1>3, StepFailedNearer DEF AlignmentInVain, Nearer
<1>4. CASE ParkBrokenOff(x)
  BY <1>1, <1>4, StepFailedNearer DEF ParkBrokenOff, Nearer
<1>5. CASE Parked(x)
  BY <1>1, <1>5, StepDoneNearer DEF Parked, Nearer
<1>6. CASE Correct(x)
  BY <1>1, <1>6, CorrectionNearer DEF Correct
<1>7. QED
  BY <1>2, <1>3, <1>4, <1>5, <1>6 DEF ParkTick

LEMMA OtherTickNearer ==
  ASSUME MissionInv, WorkInv, Running, NEW x, OtherTick(x), ~ManeuverGoesOn(x) PROVE Nearer
<1>1. TypeOK
  BY DEF MissionInv
<1>2. CASE TickDoomed(x)
  BY <1>1, <1>2, StepFailedNearer DEF TickDoomed, Nearer
<1>3. CASE TickSettled(x)
  BY <1>1, <1>3, StepDoneNearer DEF TickSettled, Nearer
<1>4. CASE ExitEnds(x)
  BY <1>1, <1>4, StepDoneNearer, StepFailedNearer DEF ExitEnds, Nearer
<1>5. CASE HomeEnds(x)
  BY <1>1, <1>5, StepDoneNearer DEF HomeEnds, Nearer
<1>6. CASE HomeAgain(x)
  BY <1>1, <1>6, CorrectionNearer DEF HomeAgain
<1>7. CASE DwellGoesOn(x)
  <2>1. StepRuns /\ phase = "dwell" /\ phase' = phase /\ clock' = clock + 1
    BY <1>7 DEF DwellGoesOn
  <2>2. StepsAhead' = StepsAhead /\ Running'
    BY <2>1, StepRunsHere
  <2>3. CourseAhead' = CourseAhead
    BY <2>1, <2>2 DEF CourseAhead
  <2>4. RoundsAhead = DwellTicks - clock /\ RoundsAhead' = DwellTicks - (clock + 1)
    BY <2>1, <2>2 DEF RoundsAhead
  <2>5. DwellTicks \in Nat /\ clock \in Nat
    BY <1>1, MissionAssumption DEF TypeOK
  <2>6. QED
    BY <2>2, <2>3, <2>4, <2>5 DEF Nearer, FewerRounds
<1>8. CASE DwellEnds(x)
  BY <1>1, <1>8, StepDoneNearer DEF DwellEnds, Nearer
<1>9. QED
  BY <1>2, <1>3, <1>4, <1>5, <1>6, <1>7, <1>8 DEF OtherTick

\* A mission that is started has one beginning less ahead of it.
LEMMA StartNearer == ASSUME MissionInv, Start PROVE Nearer
<1>1. idx = 0 /\ finished = "no" /\ Len(Steps) \in Nat
  BY MissionAssumption DEF Start, MissionInv, EndInv
<1>2. idx' = 1 /\ finished' = finished
  BY DEF Start, Enter
<1>3. StepsAhead = Len(Steps) + 2 - 0 /\ StepsAhead' = Len(Steps) + 2 - 1
  BY <1>1, <1>2 DEF StepsAhead
<1>4. QED
  BY <1>1, <1>3 DEF Nearer, FewerSteps

\* A step that only waits leaves all of it as it was.
LEMMA WaitsKeepAhead == ASSUME Waits PROVE UNCHANGED Ahead
<1>1. UNCHANGED <<idx, finished, local>>
  BY DEF Waits, NavDrives, ManeuverGoesOn, LegRetreats, StepRuns
<1>2. QED
  BY <1>1 DEF local, Ahead, StepsAhead, CourseAhead, RoundsAhead, Running, InHand

\* No step of a mission leads back, for any list of steps, and however its legs, plans
\* and maneuvers turn out (_tick, _advance): three natural numbers, compared from the left,
\* get smaller with every step but waiting, so that a mission that does not end waits for
\* a maneuver or for Nav2 for ever.  This is MissionEnds without its fairness.
THEOREM MissionNeverTurnsBack == HSpec => NeverTurnsBack
<1>1. MissionInv /\ MissionInv' /\ WorkInv /\ WorkInv' /\ [HNext]_hvars =>
        [IF Waits THEN UNCHANGED Ahead ELSE Ahead' \in [1..3 -> Nat] /\ Below(Ahead', Ahead)]_hvars
  <2> SUFFICES ASSUME MissionInv, MissionInv', WorkInv, WorkInv', HNext
               PROVE  IF Waits THEN UNCHANGED Ahead
                      ELSE Ahead' \in [1..3 -> Nat] /\ Below(Ahead', Ahead)
    OBVIOUS
  <2>1. CASE Waits
    BY <2>1, WaitsKeepAhead
  <2>2. CASE ~Waits
    <3>1. Nearer
      <4>1. CASE Start
        BY <4>1, StartNearer
      <4>2. CASE NavDrives
        BY <2>2, <4>2 DEF Waits
      <4>3. ASSUME NEW x \in AfterExecutor, Tick(x) PROVE Nearer
        <5>1. Running /\ ~ManeuverGoesOn(x) /\ ~LegRetreats(x)
          BY <2>2, <4>3 DEF Tick, Waits
        <5>2. QED
          BY <4>3, <5>1, LegTickNearer, ParkTickNearer, OtherTickNearer DEF Tick
      <4>4. QED
        BY <4>1, <4>2, <4>3 DEF HNext, Next
    <3>2. StepsAhead' \in Nat /\ CourseAhead' \in Nat /\ RoundsAhead' \in Nat
      <4>1. (MissionInv /\ WorkInv => StepsAhead \in Nat /\ CourseAhead \in Nat /\ RoundsAhead \in Nat)'
        BY AheadTyping, PTL
      <4>2. QED
        BY <4>1
    <3>3. Ahead' \in [1..3 -> Nat]
      <4>1. Ahead' = <<StepsAhead', CourseAhead', RoundsAhead'>>
        BY DEF Ahead
      <4>2. QED
        BY <3>2, <4>1
    <3>4. QED
      BY <2>2, <3>1, <3>3, NearerIsBelow
  <2>3. QED
    BY <2>1, <2>2
<1>2. QED
  BY <1>1, MissionInvariant, MissionWork, PTL DEF HSpec, NeverTurnsBack
=============================================================================
