------------------------- MODULE MCGuardedManeuver --------------------------
(* Small plans for GuardedManeuver: out of a slot and back into one. *)
EXTENDS GuardedManeuver

ArcBack == [kind |-> "C", length |-> 1, direction |-> -1, turn |-> 1, deg |-> 34, yaw |-> 1]
LineOut == [kind |-> "S", length |-> 1, direction |-> 1, turn |-> 0, deg |-> 0, yaw |-> 0]

MCPrims == {ArcBack, LineOut}
MCPlans == {<<ArcBack>>, <<LineOut, ArcBack>>}
=============================================================================
