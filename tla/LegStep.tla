------------------------------ MODULE LegStep -------------------------------
(***************************************************************************)
(* One leg of the mission: class LegStep of                                *)
(* parking_mission/mission_manager.py, with the Nav2 action server it      *)
(* talks to.  The mission's timer calls update(); Nav2 accepts, refuses    *)
(* and ends goals in between, and the executor ends the retreats.          *)
(*                                                                         *)
(* What update() measures is a choice: whether the car is within           *)
(* wp_pass_radius of its waypoint, whether a passage check is due and what *)
(* it says, whether a pose was added to the trail, whether a retraced      *)
(* trail is free of walls.  _retreat_done is TRUE only inside the call in  *)
(* which a retreat ends, and is the difference between SwitchRoute and     *)
(* NextRoute.  mode stands for _cancelling, _retreating and the returned   *)
(* status.                                                                 *)
(***************************************************************************)
EXTENDS Integers, Sequences

CONSTANTS
  Routes,         \* leg.routes: [waypoints, max_attempts : Nat \ {0}], in order
  BlockedConfirm  \* blocked_confirm

Route == [waypoints : Nat \ {0}, max_attempts : Nat \ {0}]

ASSUME LegAssumption ==
  /\ Routes \in Seq(Route)
  /\ BlockedConfirm \in Nat \ {0}

VARIABLES
  mode,     \* "idle", "driving", "cancelling", "retreating", "done", "failed"
  ri,       \* _ri, counted from 1
  wi,       \* _wi, counted from 1
  tries,    \* _tries
  hits,     \* _blocked_hits
  trail,    \* Len(_trail), no further than 2
  goal,     \* the goal's futures and handle, and what Nav2 has answered
  server,   \* the action server is there
  gate,     \* set_nav_enabled: cmd_vel_bridge forwards Nav2's commands
  exec      \* the executor's state: "idle", "active", "done" or "failed"

legVars == <<mode, ri, wi, tries, hits, trail, goal, server, gate, exec>>

Modes == {"idle", "driving", "cancelling", "retreating", "done", "failed"}

\* unsent: no goal.  sent: _goal_future is pending.  granted, rejected: it is
\* done.  running: the handle is held.  succeeded, ended: so is the result.
Goals == {"unsent", "sent", "granted", "rejected", "running", "succeeded", "ended"}

TypeOK ==
  /\ mode \in Modes
  /\ ri \in 1..(Len(Routes) + 1)
  /\ wi \in Nat \ {0} /\ tries \in Nat /\ hits \in 0..BlockedConfirm
  /\ mode \notin {"idle", "failed"} =>
       /\ ri <= Len(Routes)
       /\ wi <= Routes[ri].waypoints + (IF mode = "done" THEN 1 ELSE 0)
       /\ tries <= Routes[ri].max_attempts
  /\ trail \in 0..2
  /\ goal \in Goals
  /\ server \in BOOLEAN /\ gate \in BOOLEAN
  /\ exec \in {"idle", "active", "done", "failed"}

-----------------------------------------------------------------------------
RouteInHand == Routes[ri]
HandleHeld  == goal \in {"running", "succeeded", "ended"}

\* check_route() and the distance of the blocked spot: "none" stands for a check
\* that is not due, "open" also for a check that cannot be made.
Verdicts == {"none", "open", "far", "near"}

\* Mutant: an open route does not reset the count of blocked verdicts.
HitsNeverReset(v) == IF v = "near" THEN hits + 1 ELSE hits

HitsAfter(v) == CASE v = "near" -> hits + 1
                  [] v = "open" -> 0
                  [] OTHER      -> hits

Confirms(v) == v = "near" /\ hits + 1 >= BlockedConfirm

\* _record_trail(), called first by every update() that is not retreating.
TrailAfter == {trail, IF trail < 2 THEN trail + 1 ELSE 2}

-----------------------------------------------------------------------------
Init ==
  /\ mode = "idle"
  /\ ri = 1 /\ wi = 1 /\ tries = 0 /\ hits = 0 /\ trail = 0
  /\ goal = "unsent"
  /\ server \in BOOLEAN
  /\ gate = FALSE
  /\ exec = "idle"

\* _send()
Send == goal' = IF server THEN "sent" ELSE "unsent"

\* What a tick has recorded and counted before it decides about the route.
Tally(t, h, n, g) == [trail |-> t, hits |-> h, tries |-> n, goal |-> g]

Keep(s) == trail' = s.trail /\ hits' = s.hits /\ tries' = s.tries

\* Mutant: the gate is opened by enter() alone, as it was before the change that
\* the comment in _start_route describes.
StartRouteGateShut(first, s) ==
  \E r \in first..(Len(Routes) + 1) :
    /\ gate' = (mode = "idle" \/ gate)
    /\ ri' = r /\ wi' = 1 /\ tries' = 0 /\ hits' = 0 /\ trail' = 0
    /\ \/ r <= Len(Routes) /\ mode' = "driving" /\ Send
       \/ r > Len(Routes) /\ mode' = "failed" /\ goal' = s.goal
    /\ UNCHANGED <<server, exec>>

\* _start_route() from route `first' on: the routes in front of r are judged
\* blocked, all that are left when r is none.
StartRoute(first, s) ==
  \E r \in first..(Len(Routes) + 1) :
    /\ gate' = TRUE
    /\ ri' = r /\ wi' = 1 /\ tries' = 0 /\ hits' = 0 /\ trail' = 0
    /\ \/ r <= Len(Routes) /\ mode' = "driving" /\ Send
       \/ r > Len(Routes) /\ mode' = "failed" /\ goal' = s.goal
    /\ UNCHANGED <<server, exec>>

\* Mutant: a route that is given up is started again.
NextRouteAgain(s) ==
  \/ StartRoute(ri, s)
  \/ ri = Len(Routes) /\ mode' = "failed" /\ ri' = ri + 1 /\ Keep(s) /\ goal' = s.goal
     /\ UNCHANGED <<wi, server, gate, exec>>

\* _switch_route() without a retreat.
NextRoute(s) ==
  \/ ri < Len(Routes) /\ StartRoute(ri + 1, s)
  \/ /\ ri = Len(Routes)
     /\ mode' = "failed"
     /\ ri' = ri + 1
     /\ Keep(s) /\ goal' = s.goal
     /\ UNCHANGED <<wi, server, gate, exec>>

\* _switch_route() that retraces the trail; a trail whose segments are all too
\* short to roll is retraced at once.
Retreat(s) ==
  /\ s.trail = 2
  /\ mode' = "retreating"
  /\ gate' = FALSE
  /\ goal' = "unsent"
  /\ exec' \in {"active", "done"}
  /\ Keep(s)
  /\ UNCHANGED <<ri, wi, server>>

SwitchRoute(s) == Retreat(s) \/ NextRoute(s)

\* _on_waypoint_reached()
WaypointReached(t, h) ==
  /\ wi' = wi + 1
  /\ trail' = t
  /\ \/ wi = RouteInHand.waypoints /\ mode' = "done" /\ hits' = h /\ UNCHANGED <<tries, goal>>
     \/ wi < RouteInHand.waypoints /\ mode' = "driving" /\ tries' = 0 /\ hits' = 0 /\ Send
  /\ UNCHANGED <<ri, server, gate, exec>>

\* Mutant: an attempt is not counted.
RetryUncounted(t, h) ==
  /\ trail' = t /\ hits' = h
  /\ Send
  /\ UNCHANGED <<mode, ri, wi, tries, server, gate, exec>>

Retry(t, h) ==
  /\ tries' = tries + 1
  /\ trail' = t /\ hits' = h
  /\ Send
  /\ UNCHANGED <<mode, ri, wi, server, gate, exec>>

\* Mutant: one attempt too many.
WaypointFailedLate(t, h) ==
  \/ tries < RouteInHand.max_attempts /\ Retry(t, h)
  \/ tries >= RouteInHand.max_attempts /\ SwitchRoute(Tally(t, h, tries, goal))

\* _on_waypoint_failed()
WaypointFailed(t, h) ==
  \/ tries + 1 < RouteInHand.max_attempts /\ Retry(t, h)
  \/ tries + 1 >= RouteInHand.max_attempts /\ SwitchRoute(Tally(t, h, tries + 1, goal))

-----------------------------------------------------------------------------
(* enter() *)
Enter ==
  /\ mode = "idle"
  /\ StartRoute(1, Tally(trail, hits, tries, goal))

\* Mutant: _retreat_done is not set when a retreat ends.
RetreatEndsAgain ==
  /\ mode = "retreating"
  /\ exec \in {"done", "failed"}
  /\ SwitchRoute(Tally(trail, hits, tries, goal))

(* update(), by what it finds first.  Ticks that only wait are left out. *)
RetreatEnds ==
  /\ mode = "retreating"
  /\ exec \in {"done", "failed"}
  /\ NextRoute(Tally(trail, hits, tries, goal))

CancelEnds(t) ==
  /\ mode = "cancelling"
  /\ goal \in {"succeeded", "ended"}
  /\ SwitchRoute(Tally(t, hits, tries, "unsent"))

\* Within wp_pass_radius of a waypoint that is not the last: its goal is dropped.
PassWaypoint(t) ==
  /\ mode = "driving"
  /\ HandleHeld
  /\ wi < RouteInHand.waypoints
  /\ WaypointReached(t, hits)

ConfirmBlocked(t, v) ==
  /\ mode = "driving"
  /\ HandleHeld
  /\ Confirms(v)
  /\ mode' = "cancelling"
  /\ trail' = t /\ hits' = HitsAfter(v)
  /\ UNCHANGED <<ri, wi, tries, goal, server, gate, exec>>

\* The rest of a driving tick, after a check that confirmed nothing.
GoesOn(v) ==
  /\ mode = "driving"
  /\ v # "none" => HandleHeld
  /\ ~Confirms(v)

Resend(t) ==
  /\ GoesOn("none")
  /\ goal = "unsent" /\ server
  /\ Send
  /\ trail' = t
  /\ UNCHANGED <<mode, ri, wi, tries, hits, server, gate, exec>>

TakeHandle(t) ==
  /\ GoesOn("none")
  /\ goal = "granted"
  /\ goal' = "running"
  /\ trail' = t
  /\ UNCHANGED <<mode, ri, wi, tries, hits, server, gate, exec>>

GoalRejected(t) ==
  /\ GoesOn("none")
  /\ goal = "rejected"
  /\ WaypointFailed(t, hits)

GoalRuns(t, v) ==
  /\ GoesOn(v)
  /\ goal = "running"
  /\ trail' = t /\ hits' = HitsAfter(v)
  /\ UNCHANGED <<mode, ri, wi, tries, goal, server, gate, exec>>

GoalSucceeded(t, v) ==
  /\ GoesOn(v)
  /\ goal = "succeeded"
  /\ WaypointReached(t, HitsAfter(v))

GoalEnded(t, v) ==
  /\ GoesOn(v)
  /\ goal = "ended"
  /\ WaypointFailed(t, HitsAfter(v))

\* A tick of update() in which v is what the passage check found.
Update(v) ==
  \/ v = "none" /\ RetreatEnds
  \/ \E t \in TrailAfter :
       \/ v = "none" /\ (CancelEnds(t) \/ PassWaypoint(t))
       \/ v = "none" /\ (Resend(t) \/ TakeHandle(t) \/ GoalRejected(t))
       \/ ConfirmBlocked(t, v)
       \/ GoalRuns(t, v) \/ GoalSucceeded(t, v) \/ GoalEnded(t, v)

-----------------------------------------------------------------------------
(* The environment: Nav2, and the executor as far as a leg sees it. *)
ServerAppears ==
  /\ ~server
  /\ server' = TRUE
  /\ UNCHANGED <<mode, ri, wi, tries, hits, trail, goal, gate, exec>>

Nav2Answers ==
  /\ goal = "sent"
  /\ goal' \in {"granted", "rejected"}
  /\ UNCHANGED <<mode, ri, wi, tries, hits, trail, server, gate, exec>>

\* A goal that was cancelled may still succeed: the cancellation is a request.
Nav2Ends ==
  /\ goal = "running"
  /\ goal' \in {"succeeded", "ended"}
  /\ UNCHANGED <<mode, ri, wi, tries, hits, trail, server, gate, exec>>

RetreatRolls ==
  /\ exec = "active"
  /\ exec' \in {"done", "failed"}
  /\ UNCHANGED <<mode, ri, wi, tries, hits, trail, goal, server, gate>>

Environment == ServerAppears \/ Nav2Answers \/ Nav2Ends \/ RetreatRolls

Next == Enter \/ (\E v \in Verdicts : Update(v)) \/ Environment

Spec == Init /\ [][Next]_legVars

-----------------------------------------------------------------------------
(***************************************************************************)
(* The step implements Leg.                                                *)
(***************************************************************************)
L == INSTANCE Leg WITH
       RouteCount <- Len(Routes),
       phase <- IF mode \in {"driving", "cancelling"} THEN "nav"
                ELSE IF mode = "retreating" THEN "retreat" ELSE mode,
       route <- IF mode = "idle" THEN 0 ELSE ri,
       wheel <- IF exec = "active" THEN "executor" ELSE IF gate THEN "nav" ELSE "nobody"

\* Routes in order, at most one retreat between two of them with the navigation
\* off the wheel, failure only after the last one.
ImplementsLeg == L!Spec

\* Nav2 and the executor never drive together, and Nav2 is never left with a
\* goal its commands cannot serve: the gate is open again on the route after a
\* retreat, which it once was not (_start_route, comment at 169-173).
OneDriver ==
  /\ exec = "active" => ~gate /\ goal = "unsent"
  /\ goal \in {"sent", "granted", "running"} => gate

\* What a leg has ahead of it, the weightier first: routes it has not begun, what it
\* has not done of the route in hand, attempts at the waypoint in hand, and what has
\* to happen to the goal or the retreat under way.
RoutesAhead == IF mode = "idle" THEN Len(Routes) + 1 ELSE Len(Routes) + 1 - ri

WayAhead == CASE mode = "driving"    -> RouteInHand.waypoints - wi + 2
              [] mode = "cancelling" -> 1
              [] OTHER -> 0

TriesAhead == IF mode = "driving" THEN RouteInHand.max_attempts - tries ELSE 0

GoalAhead == CASE goal = "unsent"  -> 4
               [] goal = "sent"    -> 3
               [] goal \in {"granted", "rejected"} -> 2
               [] goal = "running" -> 1
               [] OTHER -> 0

Ahead == <<RoutesAhead, WayAhead, TriesAhead, GoalAhead + (IF exec = "active" THEN 1 ELSE 0)>>

\* m comes before n in the order of the first number they differ in.
Below(m, n) == \E i \in 1..4 : m[i] < n[i] /\ \A j \in 1..(i - 1) : m[j] = n[j]

\* The steps that only wait: a goal that runs on, a server that comes up.
Waits == ServerAppears \/ \E t \in TrailAfter, v \in Verdicts : GoalRuns(t, v)

\* Whatever Nav2 answers, whatever the passage checks find and however the retreats
\* end, no step of a leg leads back: all but waiting brings it nearer to its end, in
\* an order in which nothing can get nearer for ever (LegStep, 138-425).  A leg that
\* does not end is a leg that waits.
NeverTurnsBack ==
  [][IF Waits THEN UNCHANGED Ahead ELSE Ahead' \in [1..4 -> Nat] /\ Below(Ahead', Ahead)]_legVars
=============================================================================
