--------------------------- MODULE ObstacleHistory ---------------------------
(***************************************************************************)
(* ObstacleMonitor with a record of what the scans showed, and the         *)
(* properties of the chain from a scan to the mission's grid.              *)
(***************************************************************************)
EXTENDS ObstacleMonitor

VARIABLES
  streak,   \* scans in a row, of those the monitor could use, that showed the cell
  unseen    \* clock units since one showed it

vars == <<mapped, hits, age, latch, static_map, obs_grid, key, grid, streak, unseen>>

HistoryOK ==
  /\ streak \in [Cells -> 0..MinHits]
  /\ unseen \in [Cells -> 0..(ForgetAfter + 1)]

Later(c, dt) == UpTo(ForgetAfter + 1, unseen[c] + dt)

HInit ==
  /\ Init
  /\ streak = [c \in Cells |-> 0]
  /\ unseen = [c \in Cells |-> ForgetAfter + 1]

HScan(seen, dt) ==
  /\ Scan(seen, dt)
  /\ streak' = [c \in Cells |-> IF c \in seen THEN UpTo(MinHits, streak[c] + 1) ELSE 0]
  /\ unseen' = [c \in Cells |-> IF c \in seen THEN 0 ELSE Later(c, dt)]

SomeScan == \E seen \in SUBSET Cells, dt \in 1..MaxDelay : HScan(seen, dt)

HWait(dt) ==
  /\ Wait(dt)
  /\ unseen' = [c \in Cells |-> Later(c, dt)]
  /\ UNCHANGED streak

HNext ==
  \/ SomeScan
  \/ \E dt \in 1..MaxDelay : HWait(dt)
  \/ (MonitorMap \/ Mission) /\ UNCHANGED <<streak, unseen>>

HSpec == HInit /\ [][HNext]_vars

\* The lidar keeps scanning and the map server answers both nodes; the grid topic
\* is reliable, and the mission looks at the grid again and again.
HFairSpec ==
  /\ HSpec
  /\ WF_vars(SomeScan)
  /\ WF_vars(MissionMap /\ UNCHANGED <<streak, unseen>>)
  /\ WF_vars(OnObsGrid /\ UNCHANGED <<streak, unseen>>)
  /\ WF_vars(BuildGrid /\ UNCHANGED <<streak, unseen>>)

-----------------------------------------------------------------------------
Unmapped == Cells \ Walls

\* An obstacle that min_hits scans in a row have shown is on the published grid,
\* however long the scans were apart (_on_scan refreshes before it forgets).
SeenIsPublished ==
  \A c \in Unmapped : streak[c] >= MinHits => latch # NoGrid /\ c \in latch

\* A grid that is published holds nothing that no scan has shown for forget_sec,
\* however often it was seen before and however long the lidar was silent
\* (_on_scan, 195-198).
GoneIsWithdrawn ==
  [][SomeScan => \A c \in latch' : unseen'[c] <= ForgetAfter]_vars

\* What the scans keep showing is in the grid the mission plans with, and what
\* they no longer show leaves it, through the topic and the cache of build_grid.
MissionAgrees ==
  \A c \in Unmapped :
    /\ <>[](mapped /\ streak[c] >= MinHits) => <>[](grid # NoGrid /\ c \in grid)
    /\ <>[](mapped /\ streak[c] = 0) => <>[](grid # NoGrid /\ c \notin grid)
=============================================================================
