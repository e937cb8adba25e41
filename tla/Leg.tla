-------------------------------- MODULE Leg ---------------------------------
(***************************************************************************)
(* What a leg promises to the mission that runs it: its routes are taken   *)
(* in order and none is taken twice; before it changes to another route    *)
(* the car backs out of the one in hand at most once, with the navigation  *)
(* off the wheel; the leg fails only after its last route.                 *)
(***************************************************************************)
EXTENDS Integers

CONSTANT RouteCount

VARIABLES
  phase,   \* "idle", "nav", "retreat", "done" or "failed"
  route,   \* the route in hand, RouteCount + 1 when none is left
  wheel    \* who may drive the motor: "nav", "executor" or "nobody"

legVars == <<phase, route, wheel>>

None == RouteCount + 1

Init == phase = "idle" /\ route = 0 /\ wheel = "nobody"

\* The leg goes on with a later route, or fails when there is none.
TakeUp(r) ==
  /\ r \in (route + 1)..None
  /\ route' = r
  /\ phase' = IF r = None THEN "failed" ELSE "nav"
  /\ IF r = None THEN wheel' \in {wheel, "nav"} ELSE wheel' = "nav"

SetOut == phase = "idle" /\ \E r \in 1..None : TakeUp(r)

Switch == phase \in {"nav", "retreat"} /\ wheel # "executor" /\ \E r \in 1..None : TakeUp(r)

BackOut ==
  /\ phase = "nav"
  /\ phase' = "retreat"
  /\ wheel' \in {"executor", "nobody"}
  /\ UNCHANGED route

Standstill ==
  /\ phase = "retreat" /\ wheel = "executor"
  /\ wheel' = "nobody"
  /\ UNCHANGED <<phase, route>>

Arrive ==
  /\ phase = "nav"
  /\ phase' = "done"
  /\ UNCHANGED <<route, wheel>>

Next == SetOut \/ Switch \/ BackOut \/ Standstill \/ Arrive

Spec == Init /\ [][Next]_legVars
=============================================================================
