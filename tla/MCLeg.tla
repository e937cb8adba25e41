------------------------------- MODULE MCLeg --------------------------------
(* Three routes for LegHistory, as many as LEG_TO_A has: two with several     *)
(* waypoints and attempts, and one that is tried once.                        *)
EXTENDS LegHistory

MCRoutes == << [waypoints |-> 2, max_attempts |-> 3],
               [waypoints |-> 1, max_attempts |-> 1],
               [waypoints |-> 3, max_attempts |-> 2] >>
=============================================================================
