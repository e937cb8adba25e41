--------------------------- MODULE MissionHistory ---------------------------
(***************************************************************************)
(* MissionManager with a count of the maneuvers each step has started, and *)
(* the properties of the mission.                                          *)
(***************************************************************************)
EXTENDS MissionManager

VARIABLE starts   \* maneuvers the step in hand has started

hvars == <<idx, finished, phase, route, aligned, corrections, clock, exec, plan,
           gate, motor, last_park, starts>>

CountStarts ==
  starts' = (IF plan' # plan THEN 1 ELSE 0) + (IF idx' # idx THEN 0 ELSE starts)

HInit == Init /\ starts = 0
HNext == Next /\ CountStarts
HSpec == HInit /\ [][HNext]_hvars

\* Ticks that only wait for a maneuver do not go on for ever: every maneuver ends
\* (ManeuverEnds).  A leg in "nav" waits by taking no step; every leg ends
\* (LegEnds), provided Nav2 answers.
Progress ==
  \E x \in AfterExecutor :
    /\ Tick(x) /\ ~ManeuverGoesOn(x) /\ ~LegRetreats(x)
    /\ CountStarts

HFairSpec == HSpec /\ WF_hvars(Progress)

-----------------------------------------------------------------------------
\* While the executor drives, Nav2's gate is shut, in every step that starts one.
OneDriver == exec = "active" => ~gate

\* A mission that has ended, however it ended, leaves nothing that could move the
\* car: no maneuver that would need ticks, no open gate, no speed.  _finish, 1121.
EndsStanding == finished # "no" => ~gate /\ motor = "stands" /\ exec # "active"

\* A maneuver begins with a standing car and a shut gate, even ExitStep, which
\* stops nothing itself and relies on the dwell before it.
StartsStanding == [][plan' # plan => ~gate' /\ motor' = "stands"]_hvars

\* The executor outlives the steps, and its state still says how the maneuver of
\* an earlier step ended.  A step that reads it reads the end of its own.
OwnManeuver ==
  Running /\ phase \in {"retreat", "align", "park", "exit", "home"} =>
    plan.step = idx /\ plan.kind = phase

\* What ExitStep retraces is the way into the slot the car stands in.
ExitReplaysOwnPark == Running /\ phase = "exit" => last_park = InHand.slot

\* No step maneuvers without end: a leg retreats once per route, parking is one
\* alignment, one maneuver and its corrections, coming home one alignment and its
\* corrections.
MostStarts ==
  CASE InHand.kind = "leg"  -> RouteCount
    [] InHand.kind = "park" -> 2 + InHand.rounds
    [] InHand.kind = "home" -> 1 + InHand.rounds
    [] OTHER -> 1

WorkBounded == idx \in 1..Len(Steps) => starts <= MostStarts

\* Every mission that is started ends, provided Nav2 answers.
MissionEnds == idx # 0 ~> finished # "no"

\* What a mission has ahead of it, the weightier first: steps, then of a leg its routes
\* and of a parking its alignment, then the retreat of a route, the corrections, the
\* ticks of a dwell.
StepsAhead == IF finished = "no" THEN Len(Steps) + 2 - idx ELSE 0

CourseAhead ==
  IF ~Running THEN 0
  ELSE CASE phase \in {"nav", "retreat"} -> RouteCount + 1 - route
         [] phase = "align" -> 1
         [] OTHER -> 0

RoundsAhead ==
  IF ~Running THEN 0
  ELSE CASE phase = "nav" -> 1
         [] phase \in {"park", "home"} -> InHand.rounds - corrections
         [] phase = "dwell" -> DwellTicks - clock
         [] OTHER -> 0

Ahead == <<StepsAhead, CourseAhead, RoundsAhead>>

\* m comes before n in the order of the first number they differ in.
Below(m, n) == \E i \in 1..3 : m[i] < n[i] /\ \A j \in 1..(i - 1) : m[j] = n[j]

\* The steps that only wait: for the executor, or with Nav2 at the wheel.
Waits ==
  \/ NavDrives
  \/ \E x \in AfterExecutor : Running /\ (ManeuverGoesOn(x) \/ LegRetreats(x))

\* However its legs, maneuvers and plans turn out, no step of a mission leads back: all
\* but waiting brings it nearer to its end, in an order in which nothing can get nearer
\* for ever (_tick, 1127).
NeverTurnsBack ==
  [][IF Waits THEN UNCHANGED Ahead ELSE Ahead' \in [1..3 -> Nat] /\ Below(Ahead', Ahead)]_hvars
=============================================================================
