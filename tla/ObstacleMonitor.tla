--------------------------- MODULE ObstacleMonitor ---------------------------
(***************************************************************************)
(* Obstacles that are not on the map: class ObstacleMonitor of             *)
(* parking_mission/obstacle_monitor.py, the latched grid it publishes, and *)
(* what mission_manager makes of it (_on_obs_grid, build_grid).            *)
(*                                                                         *)
(* A cell is a bucket of cluster_size.  What a scan shows is a choice: the *)
(* set of cells with min_points points or more.  A scan that comes without *)
(* a map or without a transform changes nothing and is a Wait.  Time is    *)
(* counted in clock units; an age is kept no further than the first value  *)
(* that reads as outdated, and hits no further than MinHits, which they    *)
(* are compared with.  Markers are left out.                               *)
(***************************************************************************)
EXTENDS Integers

CONSTANTS
  Cells,        \* buckets of the plane
  Walls,        \* those within match_radius of an obstacle on the map
  MinHits,      \* min_hits
  ForgetAfter,  \* forget_sec, in clock units
  MaxDelay,     \* bound: clock units between two scans
  NoGrid        \* no message

ASSUME ObstacleAssumption ==
  /\ Walls \subseteq Cells
  /\ MinHits \in Nat \ {0}
  /\ ForgetAfter \in Nat
  /\ MaxDelay \in Nat \ {0}
  /\ \A S \in SUBSET Cells : NoGrid # S

VARIABLES
  mapped,       \* the monitor's _map has arrived
  hits,         \* _tracks[cell][0], 0 without a track
  age,          \* now - _tracks[cell][1], 0 without a track
  latch,        \* the monitor's latched sample on the grid topic
  static_map,   \* the mission's _static_map has arrived
  obs_grid,     \* the mission's _obs_grid
  key,          \* the message _grid_key was made of
  grid          \* _grid_cache: the unmapped obstacles in it

monitorVars == <<mapped, hits, age, latch>>
missionVars == <<static_map, obs_grid, key, grid>>
obstacleVars == <<mapped, hits, age, latch, static_map, obs_grid, key, grid>>

Messages == {NoGrid} \cup SUBSET (Cells \ Walls)

TypeOK ==
  /\ mapped \in BOOLEAN
  /\ hits \in [Cells -> 0..MinHits]
  /\ age \in [Cells -> 0..(ForgetAfter + 1)]
  /\ latch \in Messages
  /\ static_map \in BOOLEAN
  /\ obs_grid \in Messages
  /\ key \in Messages
  /\ grid \in Messages

-----------------------------------------------------------------------------
UpTo(bound, n) == IF n > bound THEN bound ELSE n

\* Cells of points that no obstacle of the map explains.
Found(seen) == seen \ Walls

Aged(c, dt) == IF hits[c] = 0 THEN 0 ELSE UpTo(ForgetAfter + 1, age[c] + dt)

\* Mutant: what has been confirmed is never forgotten.
OutdatedTentative(c, dt) == hits[c] < MinHits /\ Aged(c, dt) > ForgetAfter

Outdated(c, dt) == Aged(c, dt) > ForgetAfter

\* Mutant: old tracks are forgotten before the scan is looked at.
HitsForgetFirst(c, seen, dt) ==
  CASE c \in Found(seen) -> UpTo(MinHits, (IF Outdated(c, dt) THEN 0 ELSE hits[c]) + 1)
    [] c \notin Found(seen) /\ Outdated(c, dt) -> 0
    [] OTHER -> hits[c]

\* A cell that is seen again is refreshed first, so only one that is not seen can
\* be forgotten.
HitsAfter(c, seen, dt) ==
  CASE c \in Found(seen) -> UpTo(MinHits, hits[c] + 1)
    [] c \notin Found(seen) /\ Outdated(c, dt) -> 0
    [] OTHER -> hits[c]

AgeAfter(c, seen, dt) ==
  IF c \in Found(seen) \/ Outdated(c, dt) THEN 0 ELSE Aged(c, dt)

-----------------------------------------------------------------------------
Init ==
  /\ mapped = FALSE
  /\ hits = [c \in Cells |-> 0]
  /\ age = [c \in Cells |-> 0]
  /\ latch = NoGrid
  /\ static_map = FALSE
  /\ obs_grid = NoGrid /\ key = NoGrid /\ grid = NoGrid

(* obstacle_monitor *)
MonitorMap ==
  /\ ~mapped
  /\ mapped' = TRUE
  /\ UNCHANGED <<hits, age, latch, missionVars>>

\* _on_scan(), dt clock units after the previous event.
Scan(seen, dt) ==
  /\ mapped
  /\ hits' = [c \in Cells |-> HitsAfter(c, seen, dt)]
  /\ age' = [c \in Cells |-> AgeAfter(c, seen, dt)]
  /\ latch' = {c \in Cells : hits'[c] >= MinHits}
  /\ UNCHANGED <<mapped, missionVars>>

Wait(dt) ==
  /\ age' = [c \in Cells |-> Aged(c, dt)]
  /\ UNCHANGED <<mapped, hits, latch, missionVars>>

(* mission_manager *)
MissionMap ==
  /\ ~static_map
  /\ static_map' = TRUE
  /\ UNCHANGED <<monitorVars, obs_grid, key, grid>>

\* _on_obs_grid()
OnObsGrid ==
  /\ latch # NoGrid /\ latch # obs_grid
  /\ obs_grid' = latch
  /\ UNCHANGED <<monitorVars, static_map, key, grid>>

\* Mutant: the cache is keyed by the map alone.
BuildGridOnce ==
  /\ static_map
  /\ grid = NoGrid
  /\ key' = obs_grid
  /\ grid' = IF obs_grid = NoGrid THEN {} ELSE obs_grid
  /\ UNCHANGED <<monitorVars, static_map, obs_grid>>

\* build_grid(), called by check_route() and footprint_checker(): a grid that was
\* made of the same messages is used again.
BuildGrid ==
  /\ static_map
  /\ grid = NoGrid \/ key # obs_grid
  /\ key' = obs_grid
  /\ grid' = IF obs_grid = NoGrid THEN {} ELSE obs_grid
  /\ UNCHANGED <<monitorVars, static_map, obs_grid>>

Mission == MissionMap \/ OnObsGrid \/ BuildGrid

Next ==
  \/ MonitorMap \/ Mission
  \/ \E seen \in SUBSET Cells, dt \in 1..MaxDelay : Scan(seen, dt)
  \/ \E dt \in 1..MaxDelay : Wait(dt)

Spec == Init /\ [][Next]_obstacleVars
=============================================================================
