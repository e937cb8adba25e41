----------------------------- MODULE MCMission ------------------------------
(* The steps of _build_steps() for MissionHistory, with max_corrections and   *)
(* HOME_MAX_CORRECTIONS as configured.                                        *)
EXTENDS MissionHistory

Slot(s) == << [kind |-> "leg", slot |-> 0, rounds |-> 0],
              [kind |-> "park", slot |-> s, rounds |-> 2],
              [kind |-> "dwell", slot |-> 0, rounds |-> 0],
              [kind |-> "exit", slot |-> s, rounds |-> 0] >>

MCSteps == Slot(1) \o Slot(2) \o
           << [kind |-> "leg", slot |-> 0, rounds |-> 0],
              [kind |-> "home", slot |-> 0, rounds |-> 3],
              [kind |-> "dwell", slot |-> 0, rounds |-> 0] >>
=============================================================================
