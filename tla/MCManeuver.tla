----------------------------- MODULE MCManeuver -----------------------------
(***************************************************************************)
(* Small plans for ManeuverHistory: a reverse parallel-parking pair of     *)
(* arcs, a forward line, a plan with a segment too short to roll, and a    *)
(* plan that is empty once that segment is dropped.                        *)
(***************************************************************************)
EXTENDS ManeuverHistory

ArcLeft  == [kind |-> "C", length |-> 1, direction |-> -1, turn |-> 1, deg |-> 34, yaw |-> 1]
ArcRight == [kind |-> "C", length |-> 1, direction |-> -1, turn |-> -1, deg |-> 40, yaw |-> 2]
Line     == [kind |-> "S", length |-> 2, direction |-> 1, turn |-> 0, deg |-> 0, yaw |-> 0]
Stub     == [kind |-> "S", length |-> 0, direction |-> 1, turn |-> 0, deg |-> 0, yaw |-> 0]

MCPrims == {ArcLeft, ArcRight, Line}
MCPlans == {<<ArcLeft, ArcRight>>, <<Line, Stub, ArcLeft>>, <<Stub>>}
=============================================================================
