------------------------------ MODULE LegProofs ------------------------------
(***************************************************************************)
(* Theorems about LegStep, for every list of routes and every confirmation *)
(* count: it is type correct, the car has one driver, the leg does what    *)
(* Leg promises, no waypoint is tried more often than its route allows and *)
(* no drive is broken off on verdicts of another waypoint.                 *)
(***************************************************************************)
EXTENDS LegHistory, TLAPS

\* Who holds the wheel is settled by the mode; a goal that Nav2 may still work on
\* is only found with the gate open.
WheelInv ==
  /\ exec = "active" => mode = "retreating"
  /\ mode \in {"driving", "cancelling"} => gate
  /\ mode \in {"idle", "retreating"} => ~gate /\ goal = "unsent"
  /\ goal \in {"sent", "granted", "running"} => gate

\* While the car drives, one more verdict and one more attempt are to be had.
CountInv ==
  mode = "driving" => hits < BlockedConfirm /\ tries < RouteInHand.max_attempts

LegInv == TypeOK /\ WheelInv /\ CountInv

\* What an update may hand to _switch_route().
Tallies == [trail : 0..2, hits : 0..BlockedConfirm, tries : Nat, goal : Goals]

-----------------------------------------------------------------------------
\* The initial states satisfy the invariant.
LEMMA InitInv == ASSUME Init PROVE LegInv
<1> USE LegAssumption
<1>1. Len(Routes) \in Nat
  OBVIOUS
<1>2. TypeOK
  <2>1. ri \in 1..(Len(Routes) + 1) /\ hits \in 0..BlockedConfirm
    BY <1>1 DEF Init
  <2>2. server \in BOOLEAN /\ gate \in BOOLEAN
    BY Zenon DEF Init
  <2>3. mode = "idle" /\ wi = 1 /\ tries = 0 /\ trail = 0 /\ goal = "unsent" /\ exec = "idle"
    BY DEF Init
  <2>4. QED
    BY <2>1, <2>2, <2>3 DEF TypeOK, Modes, Goals
<1>3. WheelInv /\ CountInv
  BY DEF Init, WheelInv, CountInv
<1>4. QED
  BY <1>2, <1>3 DEF LegInv

\* A route in hand is a route.
LEMMA RouteTyping ==
  ASSUME NEW r \in 1..Len(Routes)
  PROVE  /\ Routes[r] \in Route
         /\ Routes[r].waypoints \in Nat \ {0} /\ Routes[r].max_attempts \in Nat \ {0}
<1>1. Routes[r] \in Route
  BY LegAssumption
<1>2. QED
  BY <1>1 DEF Route

\* _start_route() establishes the invariant, whatever it was called from.
LEMMA StartRouteInv ==
  ASSUME TypeOK, exec # "active", NEW first \in 1..(Len(Routes) + 1), NEW s \in Tallies,
         StartRoute(first, s)
  PROVE  LegInv'
<1> USE LegAssumption
<1>1. PICK r \in first..(Len(Routes) + 1) :
        /\ gate' = TRUE
        /\ ri' = r /\ wi' = 1 /\ tries' = 0 /\ hits' = 0 /\ trail' = 0
        /\ \/ r <= Len(Routes) /\ mode' = "driving" /\ Send
           \/ r > Len(Routes) /\ mode' = "failed" /\ goal' = s.goal
        /\ UNCHANGED <<server, exec>>
  BY DEF StartRoute
<1>2. r \in 1..(Len(Routes) + 1)
  OBVIOUS
<1>3. goal' \in Goals
  BY <1>1 DEF Send, Goals, Tallies
<1>4. WheelInv'
  BY <1>1 DEF WheelInv
<1>5. CASE r <= Len(Routes) /\ mode' = "driving"
  <2>1. Routes[r].waypoints \in Nat \ {0} /\ Routes[r].max_attempts \in Nat \ {0}
    BY <1>2, <1>5, RouteTyping
  <2>2. TypeOK'
    BY <1>1, <1>2, <1>3, <1>5, <2>1 DEF TypeOK, Modes
  <2>3. CountInv'
    BY <1>1, <1>5, <2>1 DEF CountInv, RouteInHand
  <2>4. QED
    BY <1>4, <2>2, <2>3 DEF LegInv
<1>6. CASE r > Len(Routes) /\ mode' = "failed"
  <2>1. TypeOK'
    BY <1>1, <1>2, <1>3, <1>6 DEF TypeOK, Modes
  <2>2. QED
    BY <1>4, <1>6, <2>1 DEF LegInv, CountInv
<1>7. QED
  BY <1>1, <1>5, <1>6

\* _switch_route() without a retreat keeps it.
LEMMA NextRouteInv ==
  ASSUME TypeOK, ri \in 1..Len(Routes), exec # "active", NEW s \in Tallies,
         gate \/ s.goal = "unsent", NextRoute(s)
  PROVE  LegInv'
<1> USE LegAssumption
<1>1. CASE ri < Len(Routes) /\ StartRoute(ri + 1, s)
  BY <1>1, StartRouteInv
<1>2. CASE /\ ri = Len(Routes)
           /\ mode' = "failed"
           /\ ri' = ri + 1
           /\ Keep(s) /\ goal' = s.goal
           /\ UNCHANGED <<wi, server, gate, exec>>
  <2>1. TypeOK'
    BY <1>2 DEF TypeOK, Keep, Tallies, Modes
  <2>2. WheelInv' /\ CountInv'
    BY <1>2 DEF WheelInv, CountInv
  <2>3. QED
    BY <2>1, <2>2 DEF LegInv
<1>3. QED
  BY <1>1, <1>2 DEF NextRoute

\* And so does a retreat.
LEMMA RetreatInv ==
  ASSUME LegInv, mode \in {"driving", "cancelling"}, NEW s \in Tallies,
         s.tries <= RouteInHand.max_attempts, Retreat(s)
  PROVE  LegInv'
<1> USE LegAssumption
<1>1. TypeOK'
  BY DEF LegInv, TypeOK, Retreat, Keep, Tallies, Modes, Goals, RouteInHand
<1>2. WheelInv' /\ CountInv'
  BY DEF WheelInv, CountInv, Retreat
<1>3. QED
  BY <1>1, <1>2 DEF LegInv

LEMMA SwitchRouteInv ==
  ASSUME LegInv, mode \in {"driving", "cancelling"}, NEW s \in Tallies,
         s.tries <= RouteInHand.max_attempts, SwitchRoute(s)
  PROVE  LegInv'
<1>1. ri \in 1..Len(Routes) /\ exec # "active" /\ gate
  BY LegAssumption DEF LegInv, TypeOK, WheelInv
<1>2. QED
  BY <1>1, NextRouteInv, RetreatInv DEF SwitchRoute, LegInv

-----------------------------------------------------------------------------
\* What a tick of update() has counted is a tally.
LEMMA TallyTyping ==
  ASSUME NEW t \in 0..2, NEW h \in 0..BlockedConfirm, NEW n \in Nat, NEW g \in Goals
  PROVE  /\ Tally(t, h, n, g) \in Tallies
         /\ Tally(t, h, n, g).tries = n /\ Tally(t, h, n, g).goal = g
BY DEF Tally, Tallies

\* The trail grows by at most one pose, and no further than counts.
LEMMA TrailTyping == ASSUME TypeOK, NEW t \in TrailAfter PROVE t \in 0..2
BY DEF TypeOK, TrailAfter

\* A verdict that confirms nothing leaves room for another one.
LEMMA HitsTyping ==
  ASSUME LegInv, mode = "driving", NEW v \in Verdicts
  PROVE  /\ HitsAfter(v) \in 0..BlockedConfirm
         /\ ~Confirms(v) => HitsAfter(v) < BlockedConfirm
BY LegAssumption DEF LegInv, TypeOK, CountInv, Verdicts, HitsAfter, Confirms

\* _on_waypoint_reached() keeps the invariant.
LEMMA WaypointReachedInv ==
  ASSUME LegInv, mode = "driving", NEW t \in 0..2, NEW h \in 0..BlockedConfirm,
         WaypointReached(t, h)
  PROVE  LegInv'
<1> USE LegAssumption
<1>1. ri \in 1..Len(Routes) /\ RouteInHand = Routes[ri]
  BY DEF LegInv, TypeOK, RouteInHand
<1>2. Routes[ri].waypoints \in Nat \ {0} /\ Routes[ri].max_attempts \in Nat \ {0}
  BY <1>1, RouteTyping
<1>3. gate /\ exec # "active"
  BY DEF LegInv, WheelInv
<1>4. goal' \in Goals /\ mode' \in {"driving", "done"}
  BY DEF LegInv, TypeOK, WaypointReached, Send, Goals
<1>5. TypeOK'
  <2>1. CASE wi = RouteInHand.waypoints /\ mode' = "done" /\ hits' = h /\ UNCHANGED <<tries, goal>>
    BY <1>1, <1>2, <1>4, <2>1 DEF LegInv, TypeOK, WaypointReached, Modes
  <2>2. CASE wi < RouteInHand.waypoints /\ mode' = "driving" /\ tries' = 0 /\ hits' = 0 /\ Send
    BY <1>1, <1>2, <1>4, <2>2 DEF LegInv, TypeOK, WaypointReached, Modes
  <2>3. QED
    BY <2>1, <2>2 DEF WaypointReached
<1>6. WheelInv'
  BY <1>3, <1>4 DEF WheelInv, WaypointReached
<1>7. CountInv'
  BY <1>1, <1>2 DEF CountInv, WaypointReached, RouteInHand
<1>8. QED
  BY <1>5, <1>6, <1>7 DEF LegInv

\* _on_waypoint_failed() keeps the invariant.
LEMMA WaypointFailedInv ==
  ASSUME LegInv, mode = "driving", NEW t \in 0..2, NEW h \in 0..BlockedConfirm,
         h < BlockedConfirm, WaypointFailed(t, h)
  PROVE  LegInv'
<1> USE LegAssumption
<1>1. ri \in 1..Len(Routes) /\ RouteInHand = Routes[ri]
  BY DEF LegInv, TypeOK, RouteInHand
<1>2. Routes[ri].waypoints \in Nat \ {0} /\ Routes[ri].max_attempts \in Nat \ {0}
  BY <1>1, RouteTyping
<1>3. tries \in Nat /\ tries < Routes[ri].max_attempts /\ goal \in Goals
  BY <1>1 DEF LegInv, TypeOK, CountInv
<1>4. CASE tries + 1 < RouteInHand.max_attempts /\ Retry(t, h)
  <2>1. goal' \in Goals
    BY <1>4 DEF Retry, Send, Goals
  <2>2. TypeOK'
    BY <1>1, <1>2, <1>3, <1>4, <2>1 DEF LegInv, TypeOK, Retry, Modes
  <2>3. WheelInv'
    BY <1>4 DEF LegInv, WheelInv, Retry
  <2>4. CountInv'
    BY <1>1, <1>2, <1>3, <1>4 DEF CountInv, Retry, RouteInHand
  <2>5. QED
    BY <2>2, <2>3, <2>4 DEF LegInv
<1>5. CASE tries + 1 >= RouteInHand.max_attempts /\ SwitchRoute(Tally(t, h, tries + 1, goal))
  <2>1. /\ Tally(t, h, tries + 1, goal) \in Tallies
        /\ Tally(t, h, tries + 1, goal).tries <= RouteInHand.max_attempts
    BY <1>1, <1>2, <1>3, TallyTyping
  <2>2. QED
    BY <1>5, <2>1, SwitchRouteInv
<1>6. QED
  BY <1>4, <1>5 DEF WaypointFailed

-----------------------------------------------------------------------------
\* A driving tick that only records and counts keeps the invariant.
LEMMA DrivingTickInv ==
  ASSUME LegInv, mode = "driving", NEW t \in 0..2, NEW h \in 0..BlockedConfirm,
         mode' \in {"driving", "cancelling"}, mode' = "driving" => h < BlockedConfirm,
         trail' = t, hits' = h, goal' \in Goals,
         UNCHANGED <<ri, wi, tries, server, gate, exec>>
  PROVE  LegInv'
<1> USE LegAssumption
<1>1. TypeOK'
  BY DEF LegInv, TypeOK, Modes
<1>2. WheelInv' /\ CountInv'
  BY DEF LegInv, WheelInv, CountInv, RouteInHand
<1>3. QED
  BY <1>1, <1>2 DEF LegInv

\* A tick of update() keeps the invariant.
LEMMA UpdateInv == ASSUME LegInv, NEW v \in Verdicts, Update(v) PROVE LegInv'
<1> USE LegAssumption
<1>1. TypeOK /\ ri \in 1..(Len(Routes) + 1) /\ hits \in 0..BlockedConfirm /\ tries \in Nat
  BY DEF LegInv, TypeOK
<1>2. CASE RetreatEnds
  <2>1. ri \in 1..Len(Routes) /\ trail \in 0..2 /\ goal \in Goals /\ goal = "unsent"
    BY <1>2 DEF RetreatEnds, LegInv, TypeOK, WheelInv
  <2>2. Tally(trail, hits, tries, goal) \in Tallies /\ Tally(trail, hits, tries, goal).goal = "unsent"
    BY <1>1, <2>1, TallyTyping
  <2>3. QED
    BY <1>1, <1>2, <2>1, <2>2, NextRouteInv DEF RetreatEnds
<1>3. ASSUME NEW t \in TrailAfter,
             \/ CancelEnds(t) \/ PassWaypoint(t)
             \/ Resend(t) \/ TakeHandle(t) \/ GoalRejected(t)
             \/ ConfirmBlocked(t, v)
             \/ GoalRuns(t, v) \/ GoalSucceeded(t, v) \/ GoalEnded(t, v)
      PROVE  LegInv'
  <2>1. t \in 0..2
    BY <1>1, TrailTyping
  <2>2. CASE CancelEnds(t)
    <3>1. tries <= RouteInHand.max_attempts
      BY <2>2 DEF CancelEnds, LegInv, TypeOK, RouteInHand
    <3>2. "unsent" \in Goals
      BY DEF Goals
    <3>3. /\ Tally(t, hits, tries, "unsent") \in Tallies
          /\ Tally(t, hits, tries, "unsent").tries <= RouteInHand.max_attempts
      BY <1>1, <2>1, <3>1, <3>2, TallyTyping
    <3>4. QED
      BY <2>2, <3>3, SwitchRouteInv DEF CancelEnds
  <2>3. CASE PassWaypoint(t)
    BY <1>1, <2>1, <2>3, WaypointReachedInv DEF PassWaypoint
  <2>4. mode = "driving" => hits < BlockedConfirm
    BY DEF LegInv, CountInv
  <2>5. CASE Resend(t)
    <3>1. goal' \in Goals
      BY <2>5 DEF Resend, Send, Goals
    <3>2. QED
      BY <1>1, <2>1, <2>4, <2>5, <3>1, DrivingTickInv DEF Resend, GoesOn
  <2>6. CASE TakeHandle(t)
    <3>1. goal' \in Goals
      BY <2>6 DEF TakeHandle, Goals
    <3>2. QED
      BY <1>1, <2>1, <2>4, <2>6, <3>1, DrivingTickInv DEF TakeHandle, GoesOn
  <2>7. CASE GoalRejected(t)
    BY <1>1, <2>1, <2>4, <2>7, WaypointFailedInv DEF GoalRejected, GoesOn
  <2>8. goal \in Goals
    BY <1>1 DEF TypeOK
  <2>9. CASE ConfirmBlocked(t, v)
    BY <1>1, <2>1, <2>8, <2>9, HitsTyping, DrivingTickInv DEF ConfirmBlocked
  <2>10. CASE GoalRuns(t, v)
    BY <1>1, <2>1, <2>8, <2>10, HitsTyping, DrivingTickInv DEF GoalRuns, GoesOn
  <2>11. CASE GoalSucceeded(t, v)
    BY <2>1, <2>11, HitsTyping, WaypointReachedInv DEF GoalSucceeded, GoesOn
  <2>12. CASE GoalEnded(t, v)
    BY <2>1, <2>12, HitsTyping, WaypointFailedInv DEF GoalEnded, GoesOn
  <2>13. QED
    BY <1>3, <2>2, <2>3, <2>5, <2>6, <2>7, <2>9, <2>10, <2>11, <2>12
<1>4. QED
  BY <1>2, <1>3 DEF Update

\* So do Nav2 and the executor.
LEMMA EnvironmentInv == ASSUME LegInv, Environment PROVE LegInv'
<1> USE LegAssumption
<1>1. CASE ServerAppears
  BY <1>1 DEF ServerAppears, LegInv, TypeOK, WheelInv, CountInv, RouteInHand
<1>2. CASE Nav2Answers
  <2>1. goal' \in Goals
    BY <1>2 DEF Nav2Answers, Goals
  <2>2. QED
    BY <1>2, <2>1 DEF Nav2Answers, LegInv, TypeOK, WheelInv, CountInv, RouteInHand
<1>3. CASE Nav2Ends
  <2>1. goal' \in Goals
    BY <1>3 DEF Nav2Ends, Goals
  <2>2. QED
    BY <1>3, <2>1 DEF Nav2Ends, LegInv, TypeOK, WheelInv, CountInv, RouteInHand
<1>4. CASE RetreatRolls
  BY <1>4 DEF RetreatRolls, LegInv, TypeOK, WheelInv, CountInv, RouteInHand
<1>5. QED
  BY <1>1, <1>2, <1>3, <1>4 DEF Environment

LEMMA LegInvStep == ASSUME LegInv, [Next]_legVars PROVE LegInv'
<1>1. CASE Enter
  <2>1. TypeOK /\ exec # "active" /\ 1 \in 1..(Len(Routes) + 1)
    BY <1>1, LegAssumption DEF Enter, LegInv, WheelInv
  <2>2. Tally(trail, hits, tries, goal) \in Tallies
    BY <2>1, TallyTyping DEF TypeOK
  <2>3. QED
    BY <1>1, <2>1, <2>2, StartRouteInv DEF Enter
<1>2. ASSUME NEW v \in Verdicts, Update(v) PROVE LegInv'
  BY <1>2, UpdateInv
<1>3. CASE Environment
  BY <1>3, EnvironmentInv
<1>4. CASE UNCHANGED legVars
  BY <1>4 DEF legVars, LegInv, TypeOK, WheelInv, CountInv, RouteInHand
<1>5. QED
  BY <1>1, <1>2, <1>3, <1>4 DEF Next

\* The invariant holds in every state of a leg.
THEOREM LegInvariant == Spec => []LegInv
<1>1. Init => LegInv
  BY InitInv
<1>2. QED
  BY <1>1, LegInvStep, PTL DEF Spec

\* The indices, counters and futures of a leg stay within their types: no update
\* looks for a route or a waypoint that is not there.
THEOREM LegTypeCorrect == Spec => []TypeOK
BY LegInvariant, PTL DEF LegInv

\* Nav2 and the executor never drive together, and Nav2 never works on a goal
\* while its commands are shut off.
THEOREM LegHasOneDriver == Spec => []OneDriver
<1>1. LegInv => OneDriver
  BY DEF LegInv, WheelInv, OneDriver
<1>2. QED
  BY <1>1, LegInvariant, PTL

-----------------------------------------------------------------------------
(***************************************************************************)
(* LegStep implements Leg.  Step simulation under the invariant: starting  *)
(* a route is Leg's SetOut or Switch, a retreat its BackOut and            *)
(* Standstill, the last waypoint its Arrive, and everything else leaves    *)
(* the phase, the route and the wheel alone.                               *)
(***************************************************************************)
\* What the refinement mapping shows of a state.
Phase == IF mode \in {"driving", "cancelling"} THEN "nav"
         ELSE IF mode = "retreating" THEN "retreat" ELSE mode
RouteNo == IF mode = "idle" THEN 0 ELSE ri
Wheel == IF exec = "active" THEN "executor" ELSE IF gate THEN "nav" ELSE "nobody"

\* _start_route() takes up a later route, or none.
LEMMA StartRouteTakesUp ==
  ASSUME TypeOK, exec # "active", NEW first \in 1..(Len(Routes) + 1), RouteNo < first,
         NEW s, StartRoute(first, s)
  PROVE  \E r \in 1..L!None : L!TakeUp(r)
<1> USE LegAssumption
<1>1. PICK r \in first..(Len(Routes) + 1) :
        /\ gate' = TRUE
        /\ ri' = r
        /\ \/ r <= Len(Routes) /\ mode' = "driving"
           \/ r > Len(Routes) /\ mode' = "failed"
        /\ UNCHANGED exec
  BY DEF StartRoute
<1>2. Len(Routes) \in Nat /\ RouteNo \in Int
  BY DEF TypeOK, RouteNo
<1>3. r \in 1..(Len(Routes) + 1) /\ r \in (RouteNo + 1)..(Len(Routes) + 1)
  BY <1>2
<1>4. RouteNo' = r /\ Wheel' = "nav" /\ Phase' = IF r = Len(Routes) + 1 THEN "failed" ELSE "nav"
  BY <1>1, <1>2, <1>3 DEF RouteNo, Wheel, Phase
<1>5. L!TakeUp(r)
  BY <1>3, <1>4 DEF L!TakeUp, L!None, RouteNo, Wheel, Phase
<1>6. QED
  BY <1>3, <1>5 DEF L!None

\* And so does _switch_route() without a retreat.
LEMMA NextRouteSwitches ==
  ASSUME TypeOK, ri \in 1..Len(Routes), exec # "active",
         mode \in {"driving", "cancelling", "retreating"}, NEW s, NextRoute(s)
  PROVE  L!Switch
<1> USE LegAssumption
<1>1. \E r \in 1..L!None : L!TakeUp(r)
  <2>1. CASE ri < Len(Routes) /\ StartRoute(ri + 1, s)
    BY <2>1, StartRouteTakesUp DEF RouteNo
  <2>2. CASE /\ ri = Len(Routes)
             /\ mode' = "failed"
             /\ ri' = ri + 1
             /\ UNCHANGED <<gate, exec>>
    <3>1. Wheel' = Wheel /\ RouteNo' = Len(Routes) + 1 /\ Phase' = "failed" /\ RouteNo = ri
      BY <2>2 DEF Wheel, RouteNo, Phase
    <3>2. L!TakeUp(Len(Routes) + 1)
      BY <2>2, <3>1 DEF L!TakeUp, L!None, Wheel, RouteNo, Phase
    <3>3. QED
      BY <3>2 DEF L!None
  <2>3. QED
    BY <2>1, <2>2 DEF NextRoute
<1>2. QED
  BY <1>1 DEF L!Switch

\* A route that is given up is switched, or backed out of first.
LEMMA SwitchRouteRefines ==
  ASSUME LegInv, mode \in {"driving", "cancelling"}, NEW s, SwitchRoute(s)
  PROVE  L!Switch \/ L!BackOut
<1>1. TypeOK /\ ri \in 1..Len(Routes) /\ exec # "active"
  BY LegAssumption DEF LegInv, TypeOK, WheelInv
<1>2. CASE Retreat(s)
  BY <1>1, <1>2 DEF Retreat, L!BackOut
<1>3. CASE NextRoute(s)
  BY <1>1, <1>3, NextRouteSwitches
<1>4. QED
  BY <1>2, <1>3 DEF SwitchRoute

LEMMA WaypointReachedRefines ==
  ASSUME mode = "driving", NEW t, NEW h, WaypointReached(t, h)
  PROVE  L!Arrive \/ UNCHANGED L!legVars
<1>1. UNCHANGED <<ri, gate, exec>> /\ mode' \in {"driving", "done"}
  BY DEF WaypointReached
<1>2. CASE mode' = "done"
  BY <1>1, <1>2 DEF L!Arrive
<1>3. CASE mode' = "driving"
  BY <1>1, <1>3 DEF L!legVars
<1>4. QED
  BY <1>1, <1>2, <1>3

LEMMA WaypointFailedRefines ==
  ASSUME LegInv, mode = "driving", NEW t, NEW h, WaypointFailed(t, h)
  PROVE  L!Switch \/ L!BackOut \/ UNCHANGED L!legVars
<1>1. CASE Retry(t, h)
  BY <1>1 DEF Retry, L!legVars
<1>2. CASE SwitchRoute(Tally(t, h, tries + 1, goal))
  BY <1>2, SwitchRouteRefines
<1>3. QED
  BY <1>1, <1>2 DEF WaypointFailed

\* Every tick of update() is a step of Leg or none.
LEMMA UpdateRefines ==
  ASSUME LegInv, NEW v \in Verdicts, Update(v)
  PROVE  L!Next \/ UNCHANGED L!legVars
<1>1. CASE RetreatEnds
  <2>1. TypeOK /\ ri \in 1..Len(Routes)
    BY <1>1, LegAssumption DEF RetreatEnds, LegInv, TypeOK
  <2>2. QED
    BY <1>1, <2>1, NextRouteSwitches DEF RetreatEnds, L!Next
<1>2. ASSUME NEW t, CancelEnds(t) PROVE L!Next
  BY <1>2, SwitchRouteRefines DEF CancelEnds, L!Next
<1>3. ASSUME NEW t, PassWaypoint(t) \/ GoalSucceeded(t, v) PROVE L!Next \/ UNCHANGED L!legVars
  BY <1>3, WaypointReachedRefines DEF PassWaypoint, GoalSucceeded, GoesOn, L!Next
<1>4. ASSUME NEW t, GoalRejected(t) \/ GoalEnded(t, v) PROVE L!Next \/ UNCHANGED L!legVars
  BY <1>4, WaypointFailedRefines DEF GoalRejected, GoalEnded, GoesOn, L!Next
<1>5. ASSUME NEW t, Resend(t) \/ TakeHandle(t) \/ GoalRuns(t, v) PROVE UNCHANGED L!legVars
  BY <1>5 DEF Resend, TakeHandle, GoalRuns, L!legVars
<1>6. ASSUME NEW t, ConfirmBlocked(t, v) PROVE UNCHANGED L!legVars
  BY <1>6 DEF ConfirmBlocked, L!legVars
<1>7. QED
  BY <1>1, <1>2, <1>3, <1>4, <1>5, <1>6 DEF Update

LEMMA LegStepRefines == ASSUME LegInv, [Next]_legVars PROVE [L!Next]_(L!legVars)
<1>1. CASE Enter
  <2>1. TypeOK /\ exec # "active" /\ 1 \in 1..(Len(Routes) + 1) /\ RouteNo < 1
    BY <1>1, LegAssumption DEF Enter, LegInv, WheelInv, RouteNo
  <2>2. \E r \in 1..L!None : L!TakeUp(r)
    BY <1>1, <2>1, StartRouteTakesUp DEF Enter
  <2>3. QED
    BY <1>1, <2>2 DEF Enter, L!SetOut, L!Next
<1>2. ASSUME NEW v \in Verdicts, Update(v) PROVE [L!Next]_(L!legVars)
  BY <1>2, UpdateRefines
<1>3. CASE ServerAppears \/ Nav2Answers \/ Nav2Ends
  BY <1>3 DEF ServerAppears, Nav2Answers, Nav2Ends, L!legVars
<1>4. CASE RetreatRolls
  <2>1. mode = "retreating" /\ gate = FALSE
    BY <1>4 DEF RetreatRolls, LegInv, WheelInv, TypeOK
  <2>2. L!Standstill
    BY <1>4, <2>1 DEF RetreatRolls, L!Standstill
  <2>3. QED
    BY <2>2 DEF L!Next
<1>5. CASE UNCHANGED legVars
  BY <1>5 DEF legVars, L!legVars
<1>6. QED
  BY <1>1, <1>2, <1>3, <1>4, <1>5 DEF Next, Environment

\* Routes in order, at most one retreat between two of them with Nav2 off the
\* wheel, and failure only after the last one, for every leg.
THEOREM LegStepImplementsLeg == Spec => ImplementsLeg
<1>1. Init => L!Init
  BY DEF Init, L!Init
<1>2. QED
  BY <1>1, LegInvariant, LegStepRefines, PTL DEF Spec, ImplementsLeg, L!Spec

-----------------------------------------------------------------------------
(***************************************************************************)
(* What the counts of LegHistory say.                                      *)
(***************************************************************************)
\* Goals are counted with the attempts, near verdicts with _blocked_hits.
HistoryInv ==
  /\ sent_here \in Nat /\ near_run \in Nat
  /\ mode = "idle" => sent_here = 0
  /\ mode = "driving" =>
       /\ sent_here <= tries + (IF goal = "unsent" THEN 0 ELSE 1)
       /\ near_run >= hits
  /\ mode \in {"cancelling", "retreating", "done"} => sent_here <= RouteInHand.max_attempts

CountedInv == LegInv /\ HistoryInv

\* A goal that is sent is one more, and a new waypoint starts from none.
LEMMA CountTyping ==
  ASSUME HistoryInv, NEW v \in Verdicts, Count(v)
  PROVE  /\ sent_here' \in Nat /\ near_run' \in Nat
         /\ MovesOn => sent_here' <= NewGoal
         /\ ~MovesOn => sent_here' <= sent_here + NewGoal
         /\ NewGoal \in {0, 1} /\ (goal' # "sent" \/ goal = "sent" => NewGoal = 0)
<1> USE CountAssumption, LegAssumption
<1>1. NewGoal \in {0, 1} /\ (goal' # "sent" \/ goal = "sent" => NewGoal = 0)
  BY DEF NewGoal
<1>2. sent_here \in Nat /\ near_run \in Nat
  BY DEF HistoryInv
<1>3. sent_here' \in Nat /\ (MovesOn => sent_here' <= NewGoal)
      /\ (~MovesOn => sent_here' <= sent_here + NewGoal)
  BY <1>1, <1>2 DEF Count, UpTo
<1>4. near_run' \in Nat
  BY <1>2 DEF Count, UpTo
<1>5. QED
  BY <1>1, <1>3, <1>4

\* A route that is started from another one has nothing counted yet.
LEMMA StartRouteCounted ==
  ASSUME LegInv, HistoryInv, NEW v \in Verdicts, Count(v), NEW s, NEW first \in 1..(Len(Routes) + 1),
         first > ri \/ (mode = "idle" /\ v = "none"), StartRoute(first, s)
  PROVE  HistoryInv'
<1>1. PICK r \in first..(Len(Routes) + 1) :
        /\ ri' = r /\ wi' = 1 /\ tries' = 0 /\ hits' = 0
        /\ \/ mode' = "driving" /\ Send
           \/ mode' = "failed"
  BY Zenon DEF StartRoute
<1>2. goal' \in {"sent", "unsent"} \/ mode' = "failed"
  BY <1>1 DEF Send
<1>3. sent_here' <= NewGoal
  <2>1. CASE MovesOn
    BY <2>1, CountTyping
  <2>2. CASE ~MovesOn
    <3>1. r \in Int /\ first \in Int /\ Len(Routes) \in Nat /\ r >= first /\ ri \in Int
      BY LegAssumption DEF LegInv, TypeOK
    <3>2. mode = "idle"
      BY <1>1, <2>2, <3>1 DEF MovesOn
    <3>3. sent_here = 0
      BY <3>2 DEF HistoryInv
    <3>4. QED
      BY <2>2, <3>3, CountTyping
  <2>3. QED
    BY <2>1, <2>2
<1>4. QED
  BY <1>1, <1>2, <1>3, CountTyping DEF HistoryInv

LEMMA NextRouteCounted ==
  ASSUME LegInv, HistoryInv, NEW v \in Verdicts, Count(v), NEW s, mode # "idle", NextRoute(s)
  PROVE  HistoryInv'
<1>1. CASE ri < Len(Routes) /\ StartRoute(ri + 1, s)
  <2>1. ri + 1 \in 1..(Len(Routes) + 1) /\ ri + 1 > ri
    BY <1>1, LegAssumption DEF LegInv, TypeOK
  <2>2. QED
    BY <1>1, <2>1, StartRouteCounted
<1>2. CASE mode' = "failed"
  BY <1>2, CountTyping DEF HistoryInv
<1>3. QED
  BY <1>1, <1>2, Zenon DEF NextRoute

\* A retreat keeps the waypoint and sends nothing.
LEMMA SwitchRouteCounted ==
  ASSUME LegInv, HistoryInv, NEW v \in Verdicts, Count(v), NEW s, mode # "idle",
         sent_here <= RouteInHand.max_attempts, RouteInHand.max_attempts \in Nat, SwitchRoute(s)
  PROVE  HistoryInv'
<1>1. CASE Retreat(s)
  <2>1. mode' = "retreating" /\ goal' = "unsent" /\ UNCHANGED <<ri, wi>>
    BY <1>1, Zenon DEF Retreat
  <2>2. sent_here' <= sent_here /\ sent_here' \in Nat /\ near_run' \in Nat /\ sent_here \in Nat
    BY <2>1, CountTyping DEF MovesOn, HistoryInv
  <2>3. RouteInHand' = RouteInHand
    BY <2>1 DEF RouteInHand
  <2>4. QED
    BY <2>1, <2>2, <2>3 DEF HistoryInv
<1>2. CASE NextRoute(s)
  BY <1>2, NextRouteCounted
<1>3. QED
  BY <1>1, <1>2 DEF SwitchRoute

\* While the waypoint stays, the run of near verdicts keeps up with _blocked_hits.
LEMMA NearRunKeepsUp ==
  ASSUME LegInv, HistoryInv, NEW v \in Verdicts, Count(v), mode = "driving", ~MovesOn
  PROVE  near_run' >= HitsAfter(v)
<1>1. near_run >= hits /\ near_run \in Nat /\ hits \in 0..BlockedConfirm /\ hits < BlockedConfirm
  BY DEF HistoryInv, LegInv, TypeOK, CountInv
<1>2. CASE v = "near"
  <2>1. near_run' = UpTo(BlockedConfirm, near_run + 1) /\ HitsAfter(v) = hits + 1
    BY <1>2 DEF Count, HitsAfter
  <2>2. QED
    BY <1>1, <2>1, LegAssumption DEF UpTo
<1>3. CASE v # "near"
  BY <1>1, <1>3 DEF Count, HitsAfter
<1>4. QED
  BY <1>2, <1>3

\* The attempts a driving leg may still make.
LEMMA AttemptsLeft ==
  ASSUME LegInv, HistoryInv, mode \in {"driving", "cancelling"}
  PROVE  /\ RouteInHand.max_attempts \in Nat /\ tries \in Nat /\ sent_here \in Nat
         /\ sent_here <= RouteInHand.max_attempts
         /\ mode = "driving" =>
              /\ tries < RouteInHand.max_attempts
              /\ sent_here <= tries + (IF goal = "unsent" THEN 0 ELSE 1)
<1>1. ri \in 1..Len(Routes) /\ RouteInHand = Routes[ri] /\ tries \in Nat /\ sent_here \in Nat
  BY LegAssumption DEF LegInv, TypeOK, RouteInHand, HistoryInv
<1>2. RouteInHand.max_attempts \in Nat
  BY <1>1, RouteTyping
<1>3. mode = "driving" =>
        /\ tries < RouteInHand.max_attempts
        /\ sent_here <= tries + (IF goal = "unsent" THEN 0 ELSE 1)
  BY DEF LegInv, CountInv, HistoryInv
<1>4. mode = "cancelling" => sent_here <= RouteInHand.max_attempts
  BY DEF HistoryInv
<1>5. QED
  BY <1>1, <1>2, <1>3, <1>4

LEMMA WaypointReachedCounted ==
  ASSUME LegInv, HistoryInv, NEW v \in Verdicts, Count(v), mode = "driving",
         NEW t, NEW h, WaypointReached(t, h)
  PROVE  HistoryInv'
<1>1. wi' = wi + 1 /\ ri' = ri /\ wi \in Nat
  BY DEF WaypointReached, LegInv, TypeOK
<1>2. MovesOn
  BY <1>1 DEF MovesOn
<1>3. sent_here' \in Nat /\ near_run' \in Nat /\ sent_here' <= NewGoal
  BY <1>2, CountTyping
<1>4. CASE mode' = "done" /\ UNCHANGED goal
  <2>1. NewGoal = 0
    BY <1>4, CountTyping
  <2>2. RouteInHand' = RouteInHand /\ RouteInHand.max_attempts \in Nat
    BY <1>1, AttemptsLeft DEF RouteInHand
  <2>3. QED
    BY <1>3, <1>4, <2>1, <2>2 DEF HistoryInv
<1>5. CASE mode' = "driving" /\ tries' = 0 /\ hits' = 0 /\ Send
  <2>1. goal' = "unsent" => NewGoal = 0
    BY CountTyping
  <2>2. NewGoal \in {0, 1}
    BY CountTyping
  <2>3. QED
    BY <1>3, <1>5, <2>1, <2>2 DEF HistoryInv
<1>6. QED
  BY <1>4, <1>5, Zenon DEF WaypointReached

LEMMA WaypointFailedCounted ==
  ASSUME LegInv, HistoryInv, NEW v \in Verdicts, Count(v), mode = "driving",
         goal \in {"rejected", "ended"}, NEW t, NEW h, h = HitsAfter(v), WaypointFailed(t, h)
  PROVE  HistoryInv'
<1>1. CASE Retry(t, h)
  <2>1. tries' = tries + 1 /\ UNCHANGED <<mode, ri, wi>> /\ hits' = HitsAfter(v)
        /\ goal' \in {"sent", "unsent"}
    BY <1>1 DEF Retry, Send
  <2>2. ~MovesOn /\ sent_here <= tries + 1 /\ tries \in Nat /\ sent_here \in Nat
    BY <2>1, AttemptsLeft DEF MovesOn
  <2>3. /\ sent_here' \in Nat /\ near_run' \in Nat /\ sent_here' <= sent_here + NewGoal
        /\ NewGoal \in {0, 1} /\ (goal' = "unsent" => NewGoal = 0)
    BY <2>2, CountTyping
  <2>4. near_run' >= hits'
    BY <2>1, <2>2, NearRunKeepsUp
  <2>5. sent_here' <= tries' + (IF goal' = "unsent" THEN 0 ELSE 1)
    BY <2>1, <2>2, <2>3
  <2>6. QED
    BY <2>1, <2>3, <2>4, <2>5 DEF HistoryInv
<1>2. ASSUME NEW s, SwitchRoute(s) PROVE HistoryInv'
  BY <1>2, AttemptsLeft, SwitchRouteCounted
<1>3. QED
  BY <1>1, <1>2, Zenon DEF WaypointFailed

\* A tick that drives on, or asks for the goal to be cancelled.
LEMMA DrivingTickCounted ==
  ASSUME LegInv, HistoryInv, NEW v \in Verdicts, Count(v), mode = "driving",
         mode' \in {"driving", "cancelling"}, hits' = HitsAfter(v), UNCHANGED <<ri, wi, tries>>,
         goal' = "unsent" => goal = "unsent", goal' = "sent" => goal \in {"unsent", "sent"}
  PROVE  HistoryInv'
<1>1. ~MovesOn /\ RouteInHand' = RouteInHand
  BY DEF MovesOn, RouteInHand
<1>2. near_run' >= hits'
  BY <1>1, NearRunKeepsUp
<1>3. /\ sent_here' \in Nat /\ near_run' \in Nat /\ sent_here' <= sent_here + NewGoal
      /\ NewGoal \in {0, 1} /\ (goal' # "sent" \/ goal = "sent" => NewGoal = 0)
  BY <1>1, CountTyping
<1>4. /\ RouteInHand.max_attempts \in Nat /\ tries \in Nat /\ sent_here \in Nat
      /\ tries < RouteInHand.max_attempts
      /\ sent_here <= tries + (IF goal = "unsent" THEN 0 ELSE 1)
  BY AttemptsLeft
<1>5. sent_here' <= tries' + (IF goal' = "unsent" THEN 0 ELSE 1)
  BY <1>3, <1>4
<1>6. sent_here' <= RouteInHand'.max_attempts
  <2>1. tries' = tries /\ RouteInHand'.max_attempts = RouteInHand.max_attempts
    BY <1>1
  <2>2. sent_here' <= tries + 1
    BY <1>3, <1>4
  <2>3. QED
    BY <1>3, <1>4, <2>1, <2>2
<1>7. QED
  BY <1>2, <1>3, <1>5, <1>6 DEF HistoryInv

LEMMA UpdateCounted ==
  ASSUME LegInv, HistoryInv, NEW v \in Verdicts, HUpdate(v) PROVE HistoryInv'
<1>1. Update(v) /\ Count(v)
  BY DEF HUpdate
<1>2. CASE RetreatEnds
  <2>1. mode # "idle" /\ \E s : NextRoute(s)
    BY <1>2 DEF RetreatEnds
  <2>2. QED
    BY <1>1, <2>1, NextRouteCounted
<1>3. ASSUME NEW t, v = "none", CancelEnds(t) PROVE HistoryInv'
  BY <1>1, <1>3, AttemptsLeft, SwitchRouteCounted DEF CancelEnds
<1>4. ASSUME NEW t, PassWaypoint(t) PROVE HistoryInv'
  BY <1>1, <1>4, WaypointReachedCounted DEF PassWaypoint
<1>5. v = "none" => HitsAfter(v) = hits
  BY DEF HitsAfter
<1>6. ASSUME NEW t, v = "none", Resend(t) PROVE HistoryInv'
  BY <1>1, <1>5, <1>6, DrivingTickCounted DEF Resend, GoesOn, Send
<1>7. ASSUME NEW t, v = "none", TakeHandle(t) PROVE HistoryInv'
  BY <1>1, <1>5, <1>7, DrivingTickCounted DEF TakeHandle, GoesOn
<1>8. ASSUME NEW t, v = "none", GoalRejected(t) PROVE HistoryInv'
  BY <1>1, <1>5, <1>8, WaypointFailedCounted DEF GoalRejected, GoesOn
<1>9. ASSUME NEW t, ConfirmBlocked(t, v) PROVE HistoryInv'
  BY <1>1, <1>9, DrivingTickCounted DEF ConfirmBlocked, HandleHeld
<1>10. ASSUME NEW t, GoalRuns(t, v) PROVE HistoryInv'
  BY <1>1, <1>10, DrivingTickCounted DEF GoalRuns, GoesOn
<1>11. ASSUME NEW t, GoalSucceeded(t, v) PROVE HistoryInv'
  BY <1>1, <1>11, WaypointReachedCounted DEF GoalSucceeded, GoesOn
<1>12. ASSUME NEW t, GoalEnded(t, v) PROVE HistoryInv'
  BY <1>1, <1>12, WaypointFailedCounted DEF GoalEnded, GoesOn
<1>13. QED
  BY <1>1, <1>2, <1>3, <1>4, <1>6, <1>7, <1>8, <1>9, <1>10, <1>11, <1>12, Zenon DEF Update

LEMMA CountedInvStep == ASSUME CountedInv, [HNext]_vars PROVE CountedInv'
<1>1. [Next]_legVars
  BY Zenon DEF HNext, HUpdate, Next, vars, legVars
<1>2. LegInv'
  BY <1>1, LegInvStep DEF CountedInv
<1>3. CASE Enter /\ Count("none")
  <2>1. "none" \in Verdicts /\ mode = "idle" /\ 1 \in 1..(Len(Routes) + 1)
    BY <1>3, LegAssumption DEF Enter, Verdicts
  <2>2. QED
    BY <1>2, <1>3, <2>1, StartRouteCounted DEF Enter, CountedInv
<1>4. ASSUME NEW v \in Verdicts, HUpdate(v) PROVE CountedInv'
  BY <1>2, <1>4, UpdateCounted DEF CountedInv
<1>5. CASE Environment /\ UNCHANGED historyVars
  <2>1. UNCHANGED <<sent_here, near_run>>
    BY <1>5, Zenon DEF historyVars
  <2>2. UNCHANGED <<mode, ri, wi, tries, hits>> /\ (goal' = "unsent" => goal = "unsent")
        /\ (goal = "unsent" => goal' = "unsent")
    BY <1>5 DEF Environment, ServerAppears, Nav2Answers, Nav2Ends, RetreatRolls
  <2>3. HistoryInv'
    BY <2>1, <2>2 DEF CountedInv, HistoryInv, RouteInHand
  <2>4. QED
    BY <1>2, <2>3 DEF CountedInv
<1>6. CASE UNCHANGED vars
  <2>1. HistoryInv'
    BY <1>6 DEF vars, CountedInv, HistoryInv, RouteInHand
  <2>2. QED
    BY <1>2, <2>1 DEF CountedInv
<1>7. QED
  BY <1>3, <1>4, <1>5, <1>6, Zenon DEF HNext

\* The counts go with the leg's own in every state of a leg that is counted.
THEOREM LegCounted == HSpec => []CountedInv
<1>1. HInit => CountedInv
  <2>1. HInit => LegInv
    BY InitInv DEF HInit
  <2>2. HInit => HistoryInv
    BY DEF HInit, HistoryInv, Init
  <2>3. QED
    BY <2>1, <2>2 DEF CountedInv
<1>2. CountedInv /\ [HNext]_vars => CountedInv'
  BY CountedInvStep
<1>3. QED
  BY <1>1, <1>2, PTL DEF HSpec

\* No waypoint is sent more goals than its route's max_attempts allows.
THEOREM WaypointAttemptsBounded == HSpec => []AttemptsPerWaypoint
<1>1. CountedInv => AttemptsPerWaypoint
  <2>1. SUFFICES ASSUME CountedInv, mode \notin {"idle", "failed"}
                 PROVE  sent_here <= RouteInHand.max_attempts
    BY DEF AttemptsPerWaypoint
  <2>2. mode \in {"driving", "cancelling", "retreating", "done"}
    BY <2>1 DEF CountedInv, LegInv, TypeOK, Modes
  <2>3. QED
    BY <2>1, <2>2, AttemptsLeft DEF CountedInv, HistoryInv
<1>2. QED
  BY <1>1, LegCounted, PTL

\* A drive is only broken off on near verdicts of this very waypoint.
LEMMA BlockConfirmed ==
  ASSUME CountedInv, [HNext]_vars, mode = "driving", mode' = "cancelling"
  PROVE  near_run' >= BlockedConfirm
<1>1. PICK v \in Verdicts : HUpdate(v)
  BY DEF HNext, Enter, Environment, ServerAppears, Nav2Answers, Nav2Ends, RetreatRolls, vars
<1>2. PICK t : \/ PassWaypoint(t) \/ GoalSucceeded(t, v)
                \/ GoalRejected(t) \/ GoalEnded(t, v)
                \/ Resend(t) \/ TakeHandle(t) \/ GoalRuns(t, v)
                \/ ConfirmBlocked(t, v)
  BY <1>1, Zenon DEF HUpdate, Update, RetreatEnds, CancelEnds
<1>3. ASSUME NEW h, WaypointReached(t, h) PROVE FALSE
  BY <1>3 DEF WaypointReached
<1>4. ASSUME NEW h, WaypointFailed(t, h) PROVE FALSE
  <2>1. CASE Retry(t, h)
    BY <2>1 DEF Retry
  <2>2. ASSUME NEW s, Retreat(s) \/ NextRoute(s) PROVE FALSE
    BY <2>2 DEF Retreat, NextRoute, StartRoute
  <2>3. QED
    BY <1>4, <2>1, <2>2, Zenon DEF WaypointFailed, SwitchRoute
<1>5. ~(Resend(t) \/ TakeHandle(t) \/ GoalRuns(t, v))
  BY DEF Resend, TakeHandle, GoalRuns
<1>6. ConfirmBlocked(t, v)
  BY <1>2, <1>3, <1>4, <1>5, Zenon DEF PassWaypoint, GoalSucceeded, GoalRejected, GoalEnded
<1>7. v = "near" /\ hits + 1 >= BlockedConfirm /\ UNCHANGED <<ri, wi>>
  BY <1>6 DEF ConfirmBlocked, Confirms
<1>8. near_run >= hits /\ near_run \in Nat /\ hits \in Int
  BY DEF CountedInv, HistoryInv, LegInv, TypeOK
<1>9. near_run' = UpTo(BlockedConfirm, near_run + 1)
  BY <1>1, <1>7 DEF HUpdate, Count, MovesOn
<1>10. QED
  BY <1>7, <1>8, <1>9, LegAssumption DEF UpTo

\* The verdicts that break a drive off were found on the waypoint in hand.
THEOREM BlocksConfirmed == HSpec => ConfirmedBlock
<1>1. CountedInv /\ [HNext]_vars =>
        [mode = "driving" /\ mode' = "cancelling" => near_run' >= BlockedConfirm]_vars
  BY BlockConfirmed
<1>2. QED
  BY <1>1, LegCounted, PTL DEF HSpec, ConfirmedBlock

-----------------------------------------------------------------------------
(***************************************************************************)
(* No step of a leg leads back.                                            *)
(***************************************************************************)
StepsAhead == GoalAhead + (IF exec = "active" THEN 1 ELSE 0)

\* What is ahead of a leg is counted in natural numbers.
LEMMA AheadTyping ==
  LegInv => RoutesAhead \in Nat /\ WayAhead \in Nat /\ TriesAhead \in Nat /\ StepsAhead \in Nat
<1> SUFFICES ASSUME LegInv
             PROVE  RoutesAhead \in Nat /\ WayAhead \in Nat /\ TriesAhead \in Nat /\ StepsAhead \in Nat
  OBVIOUS
<1>1. TypeOK /\ Len(Routes) \in Nat
  BY LegAssumption DEF LegInv
<1>2. RoutesAhead \in Nat
  BY <1>1 DEF RoutesAhead, TypeOK
<1>3. StepsAhead \in Nat
  BY DEF StepsAhead, GoalAhead
<1>4. mode = "driving" => RouteInHand.waypoints - wi + 2 \in Nat /\ RouteInHand.max_attempts - tries \in Nat
  <2> SUFFICES ASSUME mode = "driving"
               PROVE  RouteInHand.waypoints - wi + 2 \in Nat /\ RouteInHand.max_attempts - tries \in Nat
    OBVIOUS
  <2>1. ri \in 1..Len(Routes) /\ RouteInHand = Routes[ri]
    BY <1>1 DEF TypeOK, RouteInHand
  <2>2. Routes[ri].waypoints \in Nat \ {0} /\ Routes[ri].max_attempts \in Nat \ {0}
    BY <2>1, RouteTyping
  <2>3. QED
    BY <1>1, <2>1, <2>2 DEF TypeOK
<1>5. WayAhead \in Nat /\ TriesAhead \in Nat
  BY <1>4 DEF WayAhead, TriesAhead
<1>6. QED
  BY <1>2, <1>3, <1>5

\* Which of the numbers a step lowers.
FewerRoutes == RoutesAhead' < RoutesAhead
LessWay     == RoutesAhead' = RoutesAhead /\ WayAhead' < WayAhead
FewerTries  == RoutesAhead' = RoutesAhead /\ WayAhead' = WayAhead /\ TriesAhead' < TriesAhead
FewerSteps  == /\ RoutesAhead' = RoutesAhead /\ WayAhead' = WayAhead /\ TriesAhead' = TriesAhead
               /\ StepsAhead' < StepsAhead

Nearer == FewerRoutes \/ LessWay \/ FewerTries \/ FewerSteps

LEMMA NearerIsBelow == ASSUME Nearer PROVE Below(Ahead', Ahead)
<1>1. /\ Ahead[1] = RoutesAhead /\ Ahead[2] = WayAhead /\ Ahead[3] = TriesAhead /\ Ahead[4] = StepsAhead
      /\ Ahead'[1] = RoutesAhead' /\ Ahead'[2] = WayAhead' /\ Ahead'[3] = TriesAhead' /\ Ahead'[4] = StepsAhead'
  BY DEF Ahead, StepsAhead
<1>2. ASSUME NEW i \in 1..4, Ahead'[i] < Ahead[i], \A j \in 1..(i - 1) : Ahead'[j] = Ahead[j]
      PROVE  Below(Ahead', Ahead)
  BY <1>2 DEF Below
<1>3. CASE FewerRoutes
  BY <1>1, <1>2, <1>3 DEF FewerRoutes
<1>4. CASE LessWay
  <2>1. \A j \in 1..(2 - 1) : j = 1
    OBVIOUS
  <2>2. QED
    BY <1>1, <1>2, <1>4, <2>1 DEF LessWay
<1>5. CASE FewerTries
  <2>1. \A j \in 1..(3 - 1) : j = 1 \/ j = 2
    OBVIOUS
  <2>2. QED
    BY <1>1, <1>2, <1>5, <2>1 DEF FewerTries
<1>6. CASE FewerSteps
  <2>1. \A j \in 1..(4 - 1) : j = 1 \/ j = 2 \/ j = 3
    OBVIOUS
  <2>2. QED
    BY <1>1, <1>2, <1>6, <2>1 DEF FewerSteps
<1>7. QED
  BY <1>3, <1>4, <1>5, <1>6 DEF Nearer

\* A route that is started is one that was ahead.
LEMMA StartRouteNearer ==
  ASSUME TypeOK, NEW s, NEW first \in 1..(Len(Routes) + 1), StartRoute(first, s),
         mode = "idle" \/ first > ri
  PROVE  FewerRoutes
<1>1. PICK r \in first..(Len(Routes) + 1) :
        ri' = r /\ mode' \in {"driving", "failed"}
  BY DEF StartRoute
<1>2. Len(Routes) \in Nat /\ ri \in 1..(Len(Routes) + 1) /\ r \in Nat
  BY LegAssumption DEF TypeOK
<1>3. RoutesAhead' = Len(Routes) + 1 - r
  BY <1>1 DEF RoutesAhead
<1>4. QED
  BY <1>1, <1>2, <1>3 DEF FewerRoutes, RoutesAhead

LEMMA NextRouteNearer ==
  ASSUME TypeOK, NEW s, NextRoute(s), mode # "idle" PROVE FewerRoutes
<1>1. Len(Routes) \in Nat /\ ri \in 1..(Len(Routes) + 1)
  BY LegAssumption DEF TypeOK
<1>2. CASE ri < Len(Routes) /\ StartRoute(ri + 1, s)
  <2>1. ri + 1 \in 1..(Len(Routes) + 1) /\ ri + 1 > ri
    BY <1>1, <1>2
  <2>2. QED
    BY <1>2, <2>1, StartRouteNearer
<1>3. CASE ri = Len(Routes) /\ mode' = "failed" /\ ri' = ri + 1
  BY <1>1, <1>3 DEF FewerRoutes, RoutesAhead
<1>4. QED
  BY <1>2, <1>3 DEF NextRoute

\* The waypoint in hand is one of the route in hand.
LEMMA WaypointInHand ==
  ASSUME LegInv, mode = "driving"
  PROVE  /\ ri \in 1..Len(Routes) /\ RouteInHand = Routes[ri]
         /\ Routes[ri].waypoints \in Nat /\ wi \in Nat /\ wi <= Routes[ri].waypoints
<1>1. /\ ri \in 1..Len(Routes) /\ wi \in Nat
      /\ wi <= Routes[ri].waypoints + (IF mode = "done" THEN 1 ELSE 0)
  BY LegAssumption DEF LegInv, TypeOK
<1>2. Routes[ri].waypoints \in Nat
  BY <1>1, RouteTyping
<1>3. wi <= Routes[ri].waypoints + 0
  BY <1>1
<1>4. QED
  BY <1>1, <1>2, <1>3 DEF RouteInHand

\* A route that is given up, with a retreat or without.
LEMMA SwitchRouteNearer ==
  ASSUME LegInv, mode \in {"driving", "cancelling"}, NEW s, SwitchRoute(s)
  PROVE  Nearer
<1>1. CASE Retreat(s)
  <2>1. mode' = "retreating" /\ ri' = ri
    BY <1>1 DEF Retreat
  <2>2. RoutesAhead' = RoutesAhead
    BY <2>1 DEF RoutesAhead
  <2>3. WayAhead' = 0 /\ WayAhead # 0
    <3>1. WayAhead' = 0
      BY <2>1 DEF WayAhead
    <3>2. mode = "driving" => RouteInHand.waypoints - wi + 2 # 0
      BY WaypointInHand
    <3>3. QED
      BY <3>1, <3>2 DEF WayAhead
  <2>4. WayAhead \in Nat
    BY AheadTyping
  <2>5. QED
    BY <2>2, <2>3, <2>4 DEF Nearer, LessWay
<1>2. CASE NextRoute(s)
  BY <1>2, NextRouteNearer DEF LegInv, Nearer
<1>3. QED
  BY <1>1, <1>2 DEF SwitchRoute

\* A waypoint reached is one waypoint less.
LEMMA WaypointReachedNearer ==
  ASSUME LegInv, mode = "driving", NEW t, NEW h, WaypointReached(t, h)
  PROVE  Nearer
<1>1. ri \in 1..Len(Routes) /\ RouteInHand = Routes[ri] /\ wi \in Nat /\ wi <= Routes[ri].waypoints
  BY WaypointInHand
<1>2. Routes[ri].waypoints \in Nat
  BY WaypointInHand
<1>3. ri' = ri /\ wi' = wi + 1 /\ mode' \in {"driving", "done"}
  BY DEF WaypointReached
<1>4. RoutesAhead' = RoutesAhead
  BY <1>3 DEF RoutesAhead
<1>5. WayAhead = Routes[ri].waypoints - wi + 2
  BY <1>1 DEF WayAhead
<1>6. WayAhead' = 0 \/ WayAhead' = Routes[ri].waypoints - (wi + 1) + 2
  BY <1>3 DEF WayAhead, RouteInHand
<1>7. WayAhead' < WayAhead
  BY <1>1, <1>2, <1>5, <1>6
<1>8. QED
  BY <1>4, <1>7 DEF Nearer, LessWay

\* A waypoint not reached is one attempt less, or the end of the route.
LEMMA WaypointFailedNearer ==
  ASSUME LegInv, mode = "driving", NEW t, NEW h, WaypointFailed(t, h)
  PROVE  Nearer
<1>1. CASE Retry(t, h)
  <2>1. ri' = ri /\ wi' = wi /\ mode' = mode /\ tries' = tries + 1
    BY <1>1 DEF Retry
  <2>2. RoutesAhead' = RoutesAhead /\ WayAhead' = WayAhead
    BY <2>1 DEF RoutesAhead, WayAhead, RouteInHand
  <2>3. ri \in 1..Len(Routes) /\ RouteInHand = Routes[ri] /\ tries \in Nat
    BY LegAssumption DEF LegInv, TypeOK, RouteInHand
  <2>4. Routes[ri].max_attempts \in Nat
    BY <2>3, RouteTyping
  <2>5. TriesAhead = Routes[ri].max_attempts - tries /\ TriesAhead' = Routes[ri].max_attempts - (tries + 1)
    BY <2>1, <2>3 DEF TriesAhead, RouteInHand
  <2>6. QED
    BY <2>2, <2>3, <2>4, <2>5 DEF Nearer, FewerTries
<1>2. ASSUME NEW s, SwitchRoute(s) PROVE Nearer
  BY <1>2, SwitchRouteNearer
<1>3. QED
  BY <1>1, <1>2 DEF WaypointFailed

\* A goal or a retreat that gets on, the rest of the leg being left alone.
LEMMA GoalNearer ==
  ASSUME UNCHANGED <<mode, ri, wi, tries>>, StepsAhead' < StepsAhead
  PROVE  Nearer
<1>1. RoutesAhead' = RoutesAhead /\ WayAhead' = WayAhead /\ TriesAhead' = TriesAhead
  BY DEF RoutesAhead, WayAhead, TriesAhead, RouteInHand
<1>2. QED
  BY <1>1 DEF Nearer, FewerSteps

\* A tick of update() that is not one more look at a goal that runs.
LEMMA UpdateNearer ==
  ASSUME LegInv, NEW v \in Verdicts, Update(v), ~Waits PROVE Nearer
<1>1. CASE RetreatEnds
  <2>1. TypeOK /\ mode # "idle"
    BY <1>1 DEF RetreatEnds, LegInv
  <2>2. QED
    BY <1>1, <2>1, NextRouteNearer DEF RetreatEnds, Nearer
<1>2. ASSUME NEW t \in TrailAfter,
             \/ CancelEnds(t) \/ PassWaypoint(t)
             \/ Resend(t) \/ TakeHandle(t) \/ GoalRejected(t)
             \/ ConfirmBlocked(t, v)
             \/ GoalRuns(t, v) \/ GoalSucceeded(t, v) \/ GoalEnded(t, v)
      PROVE  Nearer
  <2>1. CASE CancelEnds(t)
    BY <2>1, SwitchRouteNearer DEF CancelEnds
  <2>2. CASE PassWaypoint(t)
    BY <2>2, WaypointReachedNearer DEF PassWaypoint
  <2>3. CASE Resend(t)
    <3>1. UNCHANGED <<mode, ri, wi, tries, exec>> /\ goal = "unsent" /\ goal' = "sent"
      BY <2>3 DEF Resend, Send
    <3>2. StepsAhead' < StepsAhead
      BY <3>1 DEF StepsAhead, GoalAhead
    <3>3. QED
      BY <3>1, <3>2, GoalNearer
  <2>4. CASE TakeHandle(t)
    <3>1. UNCHANGED <<mode, ri, wi, tries, exec>> /\ goal = "granted" /\ goal' = "running"
      BY <2>4 DEF TakeHandle
    <3>2. StepsAhead' < StepsAhead
      BY <3>1 DEF StepsAhead, GoalAhead
    <3>3. QED
      BY <3>1, <3>2, GoalNearer
  <2>5. CASE GoalRejected(t)
    BY <2>5, WaypointFailedNearer DEF GoalRejected, GoesOn
  <2>6. CASE ConfirmBlocked(t, v)
    <3>1. mode = "driving" /\ mode' = "cancelling" /\ ri' = ri
      BY <2>6 DEF ConfirmBlocked
    <3>2. RoutesAhead' = RoutesAhead
      BY <3>1 DEF RoutesAhead
    <3>3. RouteInHand = Routes[ri] /\ wi \in Nat /\ wi <= Routes[ri].waypoints
      BY <3>1, WaypointInHand
    <3>4. Routes[ri].waypoints \in Nat
      BY <3>1, WaypointInHand
    <3>5. WayAhead = Routes[ri].waypoints - wi + 2 /\ WayAhead' = 1
      BY <3>1, <3>3 DEF WayAhead
    <3>6. QED
      BY <3>2, <3>3, <3>4, <3>5 DEF Nearer, LessWay
  <2>7. CASE GoalRuns(t, v)
    BY <2>7 DEF Waits
  <2>8. CASE GoalSucceeded(t, v)
    BY <2>8, WaypointReachedNearer DEF GoalSucceeded, GoesOn
  <2>9. CASE GoalEnded(t, v)
    BY <2>9, WaypointFailedNearer DEF GoalEnded, GoesOn
  <2>10. QED
    BY <1>2, <2>1, <2>2, <2>3, <2>4, <2>5, <2>6, <2>7, <2>8, <2>9
<1>3. QED
  BY <1>1, <1>2 DEF Update

\* Nav2 and the executor.
LEMMA EnvironmentNearer ==
  ASSUME LegInv, Environment, ~Waits PROVE Nearer
<1>1. ~ServerAppears
  BY DEF Waits
<1>2. CASE Nav2Answers
  <2>1. UNCHANGED <<mode, ri, wi, tries, exec>> /\ goal = "sent" /\ goal' \in {"granted", "rejected"}
    BY <1>2 DEF Nav2Answers
  <2>2. StepsAhead' < StepsAhead
    BY <2>1 DEF StepsAhead, GoalAhead
  <2>3. QED
    BY <2>1, <2>2, GoalNearer
<1>3. CASE Nav2Ends
  <2>1. UNCHANGED <<mode, ri, wi, tries, exec>> /\ goal = "running" /\ goal' \in {"succeeded", "ended"}
    BY <1>3 DEF Nav2Ends
  <2>2. StepsAhead' < StepsAhead
    BY <2>1 DEF StepsAhead, GoalAhead
  <2>3. QED
    BY <2>1, <2>2, GoalNearer
<1>4. CASE RetreatRolls
  <2>1. UNCHANGED <<mode, ri, wi, tries, goal>> /\ exec = "active" /\ exec' \in {"done", "failed"}
    BY <1>4 DEF RetreatRolls
  <2>2. GoalAhead' = GoalAhead /\ GoalAhead \in Nat
    BY <2>1 DEF GoalAhead
  <2>3. StepsAhead' < StepsAhead
    BY <2>1, <2>2 DEF StepsAhead
  <2>4. QED
    BY <2>1, <2>3, GoalNearer
<1>5. QED
  BY <1>1, <1>2, <1>3, <1>4 DEF Environment

\* A step that only waits leaves all of it as it was.
LEMMA WaitsKeepAhead == ASSUME TypeOK, Waits PROVE UNCHANGED Ahead
<1>1. UNCHANGED <<mode, ri, wi, tries, goal, exec>>
  BY DEF Waits, ServerAppears, GoalRuns
<1>2. QED
  BY <1>1 DEF Ahead, RoutesAhead, WayAhead, TriesAhead, GoalAhead, RouteInHand

\* No step of a leg leads back, for any routes, and however Nav2, the passage checks and
\* the retreats turn out (LegStep.update): four natural numbers, compared from the left,
\* get smaller with every step but waiting, so that a leg that does not end waits for
\* Nav2 for ever.  This is LegEnds without its fairness.
THEOREM LegNeverTurnsBack == Spec => NeverTurnsBack
<1>1. LegInv /\ LegInv' /\ [Next]_legVars =>
        [IF Waits THEN UNCHANGED Ahead ELSE Ahead' \in [1..4 -> Nat] /\ Below(Ahead', Ahead)]_legVars
  <2> SUFFICES ASSUME LegInv, LegInv', Next
               PROVE  IF Waits THEN UNCHANGED Ahead
                      ELSE Ahead' \in [1..4 -> Nat] /\ Below(Ahead', Ahead)
    OBVIOUS
  <2>1. CASE Waits
    BY <2>1, WaitsKeepAhead DEF LegInv
  <2>2. CASE ~Waits
    <3>1. Nearer
      <4>1. CASE Enter
        <5>1. mode = "idle" /\ StartRoute(1, Tally(trail, hits, tries, goal)) /\ 1 \in 1..(Len(Routes) + 1)
          BY <4>1, LegAssumption DEF Enter
        <5>2. QED
          BY <5>1, StartRouteNearer DEF LegInv, Nearer
      <4>2. ASSUME NEW v \in Verdicts, Update(v) PROVE Nearer
        BY <2>2, <4>2, UpdateNearer
      <4>3. CASE Environment
        BY <2>2, <4>3, EnvironmentNearer
      <4>4. QED
        BY <4>1, <4>2, <4>3 DEF Next
    <3>2. RoutesAhead' \in Nat /\ WayAhead' \in Nat /\ TriesAhead' \in Nat /\ StepsAhead' \in Nat
      <4>1. (LegInv => RoutesAhead \in Nat /\ WayAhead \in Nat /\ TriesAhead \in Nat /\ StepsAhead \in Nat)'
        BY AheadTyping, PTL
      <4>2. QED
        BY <4>1
    <3>3. Ahead' \in [1..4 -> Nat]
      <4>1. Ahead' = <<RoutesAhead', WayAhead', TriesAhead', StepsAhead'>>
        BY DEF Ahead, StepsAhead
      <4>2. QED
        BY <3>2, <4>1
    <3>4. QED
      BY <2>2, <3>1, <3>3, NearerIsBelow
  <2>3. QED
    BY <2>1, <2>2
<1>2. QED
  BY <1>1, LegInvariant, PTL DEF Spec, NeverTurnsBack
=============================================================================
