----------------------------- MODULE LegHistory -----------------------------
(***************************************************************************)
(* LegStep with history variables that count goals and blocked verdicts on *)
(* their own, and the properties stated over them.                         *)
(***************************************************************************)
EXTENDS LegStep

CONSTANT MaxCount   \* bound of the counters, above every max_attempts

ASSUME CountAssumption == MaxCount \in Nat

VARIABLES
  sent_here,   \* goals sent for the waypoint in hand
  near_run     \* near verdicts on this waypoint with no open one in between

historyVars == <<sent_here, near_run>>
vars == <<mode, ri, wi, tries, hits, trail, goal, server, gate, exec,
          sent_here, near_run>>

UpTo(bound, n) == IF n > bound THEN bound ELSE n

NewGoal == IF goal' = "sent" /\ goal # "sent" THEN 1 ELSE 0

\* Another waypoint, or another route, is in hand.
MovesOn == ri' # ri \/ wi' # wi

HInit == Init /\ sent_here = 0 /\ near_run = 0

Count(v) ==
  /\ sent_here' = UpTo(MaxCount, NewGoal + (IF MovesOn THEN 0 ELSE sent_here))
  /\ near_run' = CASE MovesOn    -> 0
                   [] v = "near" -> UpTo(BlockedConfirm, near_run + 1)
                   [] v = "open" -> 0
                   [] OTHER      -> near_run

HUpdate(v) == Update(v) /\ Count(v)

HNext ==
  \/ Enter /\ Count("none")
  \/ \E v \in Verdicts : HUpdate(v)
  \/ Environment /\ UNCHANGED historyVars

HSpec == HInit /\ [][HNext]_vars

\* The mission's timer keeps ticking; Nav2 comes up, answers every goal and ends
\* every goal it runs; the executor ends every retreat (ManeuverEnds).  The leg
\* itself has no timeout on Nav2, so without its answers it waits for ever.
HFairSpec ==
  /\ HSpec
  /\ WF_vars(\E v \in Verdicts : HUpdate(v))
  /\ WF_vars(ServerAppears /\ UNCHANGED historyVars)
  /\ WF_vars(Nav2Answers /\ UNCHANGED historyVars)
  /\ WF_vars(Nav2Ends /\ UNCHANGED historyVars)
  /\ WF_vars(RetreatRolls /\ UNCHANGED historyVars)

-----------------------------------------------------------------------------
\* No waypoint is tried more often than max_attempts allows, resends to a server
\* that was not there included (_on_waypoint_failed, 375).
AttemptsPerWaypoint ==
  mode \notin {"idle", "failed"} => sent_here <= RouteInHand.max_attempts

\* A drive is broken off for an obstacle only on blocked_confirm near verdicts on
\* this very waypoint with no open one among them (blocked_hits is a filter for
\* spikes, 151): none is carried over from another waypoint or route.
ConfirmedBlock ==
  [][mode = "driving" /\ mode' = "cancelling" => near_run' >= BlockedConfirm]_vars

\* Every leg that is entered ends, provided Nav2 answers.
LegEnds == mode # "idle" ~> mode \in {"done", "failed"}
=============================================================================
