# TLA+ verification of kook_slam_parking

The repository drives a 1/10 scale car through a parking mission: along a map
with Nav2, into two parking slots in reverse, out again, and home. This
directory holds TLA+ models of the program's own logic, the TLC configurations
that check them on small instances, and TLAPS proofs of the results that matter
most.

- [The system](#the-system)
- [What is modelled, and how](#what-is-modelled-and-how)
- [Runs](#runs)
- [Fairness](#fairness)
- [What is proved](#what-is-proved)
- [Disagreements between code and documents](#disagreements-between-code-and-documents)
- [Not modelled](#not-modelled)
- [Plan](#plan)

To repeat the checks: `tlc -config leg.cfg MCLeg` (module and configuration of
each run are in the table below) and `tlapm LegProofs.tla` for a module of proofs.

## The system

Two ROS 2 nodes are the program: `mission_manager` and `cmd_vel_bridge`. A third,
`obstacle_monitor`, publishes a grid of obstacles that are not on the map, which
`mission_manager` consults before and during a drive. Nav2, the LiDAR odometry and the
drivers of the motor and the ultrasonic sensors are external; `fake_hardware` simulates
the last two.

| component | state it keeps | operations | talks to |
|---|---|---|---|
| `ultrasonic.UltrasonicGuard` | rear distances, stamp of the last array, two hit counters, the hold | `feed` (driver callback), `check` (asked by a tick) | the executor, through `ultra_check` |
| `motion.ManeuverExecutor` | state machine of a maneuver, its segments, clocks, odometry sums | `start`, `abort`, `tick` | motor topic; asks the guard |
| `mission_manager.LegStep` | route and waypoint in hand, attempts, blocked verdicts, the trail, a goal's futures | `enter`, `update`, called by the timer | Nav2's action server, passability, the executor, the gate |
| `ParkStep`, `ExitStep`, `HomeStep`, `DwellStep` | phase, alignment flag, corrections, a time | `enter`, `update` | the executor, the gate, the motor, `last_park_prims` |
| `MissionManager` | index of the step, finished flag, the gate as last published, latest odometry | `start`, `_tick`, `_advance`, `_finish`, callbacks | all of the above |
| `cmd_vel_bridge.CmdVelBridge` | enabled flag | `_on_enable`, `_on_cmd_vel`, shutdown | enable topic (latched), `/cmd_vel`, motor topic |
| `obstacle_monitor` | tracks (hits and last sighting of a cell of unmapped points), the map | scan callback: gather, track, forget, publish | `mission_manager`, by a latched grid |
| `passability` | the occupied cells, and every cell's distance to them, cached | clearance, adding obstacles, widest path under a scan | `LegStep.check_route`, `collision` |
| `collision` | none | candidates for a parking or an alignment swept over the grid, the best that stays clear | `ParkStep`, `HomeStep` |
| `geometry` | none | analytic plans, slot frames, the exit from a parking, the retreat from a trail | the steps, `collision` |
| `fake_hardware` | the latest motor command and its time, the pose | driver timeout and dead band, kinematics, scans, sensors | motor topic, tests |
| `mission_config` | constants | slots, routes, tolerances | all |
| `viz` | none | markers | RViz |

What is hard here:

- **Callbacks between ticks.** `mission_manager` is one thread, but its timer runs
  at 20 Hz, the ultrasonic array at 10 Hz and the odometry at a rate of its own.
  A tick acts on whatever was stored last; several ticks may see one array.
- **Two writers of one motor topic.** Mission and bridge are processes of their
  own, started by two launch files. The gate between them is itself a topic.
- **Nav2 is asynchronous.** Goals are refused, fail, are cancelled and succeed all
  the same; the server may not be there yet. A leg handles this with futures it
  polls, and has no timeout of its own.
- **State that outlives its use.** The executor keeps how the last maneuver ended,
  the guard keeps its counters between maneuvers, `last_park_prims` is kept from
  parking to exit, flags such as `_retreat_done` are set in one call and read in
  another.
- **Clocks that are pushed.** Time in HOLD is taken off a segment's clock.
- **Loops of retries** that have to run out: attempts, routes, retreats,
  alignments, corrections.

What makes each component correct:

- *guard*: an obstacle that stays is a stop, whatever came before; a stop is lifted
  only on clear readings (but for [two ways](#disagreements-between-code-and-documents)),
  and is lifted eventually; silence of the sensor is a stop;
- *executor*: wheels are turned before the car rolls; segments in order, standing in
  between and at the end; a timeout measures driving; every maneuver ends;
- *leg*: one driver at a time; routes in order, each backed out of once at most;
  attempts bounded; a drive broken off only for a confirmed obstacle; it ends;
- *mission*: no step reads another step's outcome; maneuvers start from standstill;
  the way out is the way in; work is bounded; the end leaves nothing that moves;
- *bridge*: it follows the mission's last word; in a maneuver Nav2 falls and stays
  silent; a stop is final;
- *obstacle monitor*: what is seen often enough is published and gets into the mission's
  grid, what is no longer seen leaves it;
- *passability*: passable if and only if there is a way, and no wider than reported; the
  distances it keeps are those of the obstacles that are on the map now;
- *collision*: a plan that was checked touches nothing, never makes a tight place tighter,
  and is the best of those that pass;
- *geometry*: a retreat leads back along the way the car came, an exit back out of the
  slot, as near to the parking's way as the car was to its end, and a plan means the same
  in the slot's frame and on the map;
- *motor driver*: a car nobody drives any more comes to a stand.

## What is modelled, and how

`PROJECT.json` maps every definition to the lines it stands for. Definitions keep
the names of the source (`_bad_hits` is `bad_hits`); operators marked "Mutant" are
faulty variants of the definition below them and no part of any model.

| module | models | extends or instantiates |
|---|---|---|
| `UltrasonicGuard` | the guard: one action per `return` of `check` | |
| `GuardHistory` | history counters and the guard's properties | `UltrasonicGuard` |
| `Maneuver` | abstract: what a maneuver promises to the steps | |
| `ManeuverExecutor` | the executor: one action per branch of `tick` | refines `Maneuver` |
| `ManeuverHistory` | clocks of its own, the executor's properties | `ManeuverExecutor` |
| `GuardedManeuver` | executor and guard plugged together by `ultra_check`, callbacks in between | instantiates both, refines `ManeuverExecutor` |
| `Leg` | abstract: what a leg promises to the mission | |
| `LegStep` | the leg step with Nav2's action server | refines `Leg` |
| `LegHistory` | counts of goals and of blocked verdicts, the leg's properties | `LegStep` |
| `MissionManager` | the mission, its other steps, a leg as `Leg` and the executor as `Maneuver` promise | |
| `MissionHistory` | counts of maneuvers, the mission's properties | `MissionManager` |
| `MotorGate` | mission's gate, bridge and motor driver with the topics in between; restarts, kills, the driver's timeout | |
| `ObstacleMonitor` | tracks of unmapped cells, the latched grid, `_on_obs_grid` and the cache of `build_grid` | |
| `ObstacleHistory` | how long and how often a cell was shown, the chain's properties | `ObstacleMonitor` |
| `Passability` | `route_passable` and the widest-path search of `_widest` | |
| `PassabilityHistory` | the searches that arrived, a reference for "there is a way", the verdict's properties | `Passability` |
| `ClearanceGrid` | `PassabilityGrid` as a store: occupied cells, the distance transform and its cache | |
| `ParkPlan` | `plan_parking` and `plan_align`: candidates, checks, ranking | `ClearanceGrid` |
| `Retrace` | segments and poses, slot frames, `reverse_prims`, `partial_exit`, `trail_to_prims` | |
| `MCManeuver`, `MCGuardedManeuver`, `MCLeg`, `MCMission`, `MCPassability`, `MCParkPlan`, `MCRetrace` | small plans, routes, steps and maps for TLC | |
| `ManeuverProofs` (guard and executor), `GuardedProofs`, `LegProofs`, `MissionProofs`, `GateProofs`, `ObstacleProofs`, `PassabilityProofs`, `PlanningProofs` (grid, plans and the way back) | theorems | |

**Guard.** Distances are centimetres; a channel is a distance or `NoEcho`. The
difference `now - _last_stamp` is the variable `age`, which stops growing once it
reads as stale. `bad_hits` is kept no further than the limit it is compared with.
`side_warning` and `nearest` only format a log line and are left out.

**Executor.** A tick is `dt` units long, `dt` in `1..MaxDelay`; `mark` and `held`
are the differences the code computes from `_t_mark` and `_hold_since`. A release sets
`_t_mark` forward by the time held, which leaves the time driven (`ClocksInTime`). Odometry adds any step and yaw up to a
bound to every sample, nothing included, which is a wheel that slips or odometry
that has stopped. What the guard answers is any element of `Answers(direction)` in
`ManeuverExecutor`, and the guard's real answer in `GuardedManeuver`; the run
`guarded` shows the second to be a case of the first. `progress()` is read by
`ParkStep` only, and a choice there.

**Leg.** `mode` stands for `_cancelling`, `_retreating` and the returned status;
`goal` for `_goal_future`, `_goal_handle` and `_result_future` together with what
Nav2 has answered, so that "Nav2 has answered but no tick has looked" is a state.
What `update` measures (nearness to a waypoint, passage verdicts, a new trail pose,
a swept retreat) is a choice. Ticks that change nothing are left out. After a
route's last failure `_switch_route` reads `_retreat_done` and the trail: that is
`SwitchRoute`, and `NextRoute` is what it does when a retreat has just ended.

**Mission.** One tick is one action: the executor's tick, then `update` of the step
in hand, and, when that is done, `enter` of the next step in the same call. `x` is
what the executor left behind. A leg is abstracted to `Leg`'s promise, which
`LegStep` was proved to implement; the executor to `Maneuver`'s, which
`ManeuverExecutor` was proved to implement: it ends `done` or `failed`, and then the
car stands. `gate` is what `set_nav_enabled` published last, and Nav2 moves the car
at any time while it is open. That this is what happens once the messages have
arrived is the subject of `MotorGate`.

**Gate and bridge.** Each publisher of the motor topic has a queue of its own,
because a topic keeps no order between publishers; a full queue drops its oldest
command. The latched enable topic is the sample kept at the publisher (`latch`) and
the one at the subscriber (`pending`); a newer sample replaces one not yet looked at
(depth 1). Either node may quit as its `finally` block does, or be killed without it, and
start again; messages on their way still arrive. The motor driver is that of
`fake_hardware`: it goes on with the latest command until `Silence`, which may come as soon
as both queues are empty and stands for half a second without a command. The
Twist-to-motor conversion is reduced to whether the car rolls.

**Obstacles.** A cell is a bucket of `cluster_size`, a scan the set of cells in which it
shows `min_points` points or more, and `Walls` the cells next to something on the map
(`_static_occupied_near`). `age` is `now - last_seen`. A scan refreshes tracks, forgets
old ones and publishes in one action, as `_on_scan` does. The cache of `build_grid` is
keyed by the messages it was made of; an equal message is the same message here, which
the code would build the same grid from again. The mission keeps the grid of a monitor
that has stopped; that the monitor restarts is not modelled.

**Grid and plans.** Lengths are centimetres, and a diagonal step of the distance transform
costs a whole number of them. Each of the two passes (`Pass`) is a recursive function along
the cells in the code's order, and their result is compared with the shortest way of side
and diagonal steps. `Ranked` is the order `sorted` gives: a permutation by key that leaves
equal keys as they were. A point is
put into a cell by cutting off towards zero, as `int()` does. What a solver finds is a
choice: nothing, or a length, an end and the points its footprint sweeps; which candidates
are tried, in which order, what is asked of each and which one is returned is the code's.

**Retrace.** The arcs of `geometry` are real-valued; on a lattice of points with four
headings and quarter turns their equations hold exactly, and a quarter circle of radius
`r` counts `r` units of length. A leg is any sequence of moves. A parking follows its plan,
`last_park_prims`, segment by segment (`Parks`); the executor may give up in any of them,
as far as whole units and quarter turns tell (`BreaksOff`), and the car is then parked or
the parking failed, as `progress()` is compared with `park_min_progress`. Corrections move
a parked car and are no part of the plan (`Corrects`); one that is broken off is a shorter
one. The exit replays the plan from where the car stands. Alignments come before the plan
and end where it begins. A loop of the code over a sequence is `Loop`, a recursive function.
`trail_to_prims` groups the trail by curvature, each a pair of whole
numbers that are compared crosswise, and cuts the groups from the back. `NavDrives` steers
as `_on_cmd_vel` does, which the direction of travel does not change.

**Passability.** The map is any function from cells to clearances, in place of the
distance transform; a corridor (`band`) is any set of cells per leg. What the code does
at once is cut at the turns of `_widest`'s loop. The heap is the set of its entries;
among entries of the same bottleneck, and among the nearest cells of a ring, any may be
taken. `Way(l, c, d, w)` says without a search that leg `l` has a way of width `w`: every
set of cells that has `c` in it and is closed under such steps has `d` in it.

## Runs

Deadlock is checked in all runs but those of the leg, the mission and passability, which
stop when they are done (`LegEnds`, `MissionEnds` and `VerdictComes` say that they get
there), and of the way back, which ends with it. Type invariants are
proved, which covers every instance.

| run | module | shows |
|---|---|---|
| `guard` | `GuardHistory` | a near obstacle that stays is a stop; a stop is answered safe again only after clear checks, or in the two ways [below](#disagreements-between-code-and-documents), and the hold is given up only after clear checks; it ends when the way stays clear |
| `maneuver` | `MCManeuver` | steering precedes rolling across holds and segments; the segment clock counts driving; implements `Maneuver`; every maneuver ends, even under a guard that flips for ever, and within a bounded number of ticks |
| `guarded` | `MCGuardedManeuver` | the car reverses only on a fresh, safe answer; a near rear seen often enough is a standing car in whatever state clocks and counters are; the composition implements `ManeuverExecutor` |
| `leg` | `MCLeg` | one driver; attempts per waypoint bounded; only confirmed obstacles break off a drive; implements `Leg`, by which a route is backed out of once at most; no step leads back, and the leg ends |
| `mission` | `MCMission` | one driver in every step; a mission that ends leaves nothing moving; every step reads its own maneuver; the exit has the plan of the latest parking; work is bounded; maneuvers start standing; ends |
| `motorgate` | `MotorGate` | the gate agrees with the mission when nothing is in flight, through restarts and kills of the bridge; Nav2 once silent in a maneuver stays silent; the car stands for good after the end; a car whose mission and bridge are gone comes to a stand |
| `obstacles` | `ObstacleHistory` | what scans keep showing is published, however far apart they are, and gets into the mission's grid; what they no longer show is withdrawn with the first scan after `forget_sec`; only cells the map does not explain are ever published |
| `passability` | `MCPassability` | a leg is called cut only if its corridor has no way for the car; a route is called passable only if every leg has one, and the width reported is that of the tightest leg on its widest way; every question is answered |
| `plan` | `MCParkPlan` | the distances a sweep reads are those of the obstacles now on the map; a checked plan keeps clear of them; it is the best of those that do |
| `retrace` | `MCRetrace` | a retreat follows the trail back where grouping averages nothing, turns the car back to the heading it had, but for what passes for straight, and is no longer than its limit; an exit is off its way by just what the parking missed of its plan, and ends on the plan's first segment if and only if it missed nothing; plans carry over between frames |
| `motorgate_restart` | `MotorGate` | violation: see [below](#disagreements-between-code-and-documents) |
| `retrace_reverse` | `MCRetrace` | violation: see [below](#disagreements-between-code-and-documents) |

Bounds, and why they are enough:

- *guard*: two rear channels (one near and one far, one silent and one not, are the
  combinations `rear_min` tells apart), a reading on either side of each limit
  `ToMeters` and `check` compare with, both hit limits 2 as configured, stale after
  three units with waits of up to two, so that staleness is reached in steps and at
  once.
- *maneuver*: plans of one and two segments with both directions, both turns, an
  angle below and one above the steering limit, a segment too short to roll, and a
  plan that is empty without it; times of one to four ticks with ticks of one or two
  units, so that each limit is met exactly and overrun. Speeds are the defaults.
- *guarded*: one rear channel with readings silent, at the stop and slow limits, and
  beyond; the plan of one reverse arc and that of a forward line followed by it.
- *leg*: three routes, as the first leg has, of one to three waypoints and one to
  three attempts; confirmation 2; counters of history stop at 4, above every limit.
- *mission*: the real list of steps of `_build_steps` with both slots, both legs and
  the way home, three routes, two corrections per slot and three at home, as
  configured; a dwell of two ticks stands for its seconds.
- *motorgate*: motor queues of depth 2, where a full queue drops commands; restarts and kills
  of either node are unbounded.
- *obstacles*: two free cells and one next to a wall, any set of them in a scan;
  `min_hits` 2 as configured; a unit is 1.5 s, so that scans up to three units apart are
  closer than, exactly at and beyond `forget_sec`.
- *passability*: all 729 maps of 3 by 2 cells with a clearance too small, just enough and
  ample; routes of no leg, one leg and two, whose corridors overlap or meet in one cell,
  so that each `return` is reached; a radius of one cell where the code has 6 and
  `goal_span`. The theorems do not depend on these.
- *plan*: maps of 3 by 3 cells, free, with an unknown column, and with a wall and a cell
  just below the threshold; obstacles of radius 0 and 1 on the map, next to it and off it,
  so that a disc is cut and an index truncated; sweeps ahead, to the side, over the edge by
  less than a cell, and off the map; the code's resolution of 5 cm and its limits of 10 and
  3 cm; two radii and a slot of each kind; two lengths, for ties and their breaking.
- *retrace*: all plans of one to three segments, straight or half circles with a radius of 0.5
  or 1.5 m, broken off at their start, in their middle and at their end, so that progress
  is below, at and above 60 %, and up to three pieces of correction; legs of up to four
  segments, straight or with a radius of 0.5, 1.5, 5 or 22.5 m, both directions and both sides: bends that are grouped, kept apart, pass
  for straight when they are grouped, or are themselves retraced as straights; limits of none, 1 and 2.5 m, which cut at a joint, in a straight and in a
  bend; two slots at different headings.

Every property of a passing run has a mutant in `PROJECT.json`: a plausible slip in
a definition under which TLC reports that property violated.

## Fairness

- `guard`: reverse checks are not asked rarely for ever. The executor asks in every
  tick of DRIVING and HOLD, and the timer runs at a fixed rate.
- `maneuver`: the timer ticks while a maneuver is under way (`_tick` calls `tick`, or
  `abort` without odometry). Nothing is assumed of odometry or guard.
- `leg`: the timer ticks, and weak fairness of Nav2: the server comes up, answers
  every goal and ends every goal it runs. The leg has no timeout on any of these, so
  `LegEnds` is conditional on them; this is a real dependency of the code and is
  listed as a hazard. `RetreatRolls` is `ManeuverEnds`.
- `mission`: some tick that is not mere waiting is taken eventually, which is
  `ManeuverEnds` and `LegEnds` of the modules below it; it does not say which
  outcome a step has, so loops of corrections must run out by themselves.
- `motorgate`: the transport is reliable and the motor driver keeps up. The driver looks at
  its own timer (`Silence`). Nothing is assumed of Nav2, of the mission or of how often
  the nodes restart or are killed.
- `obstacles`: the lidar keeps scanning, the map server answers both nodes (the map is
  latched), the grid topic is reliable (`latched_qos`), and the mission keeps looking at
  the grid, which every leg and every plan does. Without scans the last grid stays.
- `passability`: the function is not left in the middle.
- `plan`, `retrace`: safety only, no fairness.

## What is proved

Every theorem holds for all values of the constants under the assumptions named in
the module that declares them (`GuardAssumption`, `ExecutorAssumption`, `GuardedAssumption`, `LegAssumption`,
`CountAssumption`, `MissionAssumption`, `OrderAssumption`, `GateAssumption`,
`ObstacleAssumption`, `PassabilityAssumption`, `GridAssumption`, `PlanAssumption`, `MarginAssumption`,
`RetraceAssumption`), which TLC evaluates in every run whose module extends that one.

- **Guard** (`ManeuverProofs`): `GuardTypeOK`; `NearMeansStop`, `CountersFollow` and
  `ReleaseNeedsClears`. These speak of history and of the answers the executor gets
  (`stopped`: a stop was answered, and no reverse check has answered safe since), the code of
  counters and of a hold that may outlast the stop it stands for;
  the inductive invariant `GuardInv` joins them: the run of near checks is at most
  `bad_hits`, while holding `good_hits` is at most the run of clear ones, and a stop no
  clear check has followed is still counted in full (`StopCounted`), which is why a near
  reading can lift a stop only after a clear one.
  `ClearsRelease` is the bound from the other side: a hold is given up by the
  `ResumeClearHits`-th clear check since the last near one, because while the guard holds
  `good_hits` counts just these (`ClearsCounted`). What `HoldEnds` adds is that such checks
  come.
- **Executor** (`ManeuverProofs`): `TypeOK`, `SteerBeforeRoll`, `ClockCountsDriving`,
  `TimeoutIsDriving`, `TicksCountDown` and `ImplementsManeuver`. The inductive invariant `ExecInv` adds
  that the published angle is that of the segment in hand and the steering clock is
  never more than a tick behind the pre-steer clock (`SteeringHeld`), that a HOLD's
  clock is driving plus holding, that only DRIVING publishes a speed (`StandsStill`),
  and that the car has odometry once it has moved (`MovesOnOdometry`). `abort()` clears
  the steering angle and would break `SteeringHeld` if it could come later.
  `TicksCountDown` is what can be proved of `ManeuverEnds`: of how many ticks a maneuver can
  still take, every tick uses up one, so that n segments are over after at most
  n * `SegmentTicks` of them; only that the ticks come is left to fairness. The invariant
  `TickInv` says that no phase outlasts its time and that time held is no driving time. A
  driving tick is what pays for the hold that may follow it (`DriveRoom`): a guard that
  flips between stop and go for ever spends the segment's own timeout.
- **Executor with guard** (`GuardedProofs`): `ReversingIsWatched`, `NearStopsCar`, and
  `ImplementsExecutor`, by which everything proved of the executor under any guard holds
  under this one. The inductive invariant `WatchInv` adds that only DRIVING publishes a
  speed, that a segment in hand is one of the plan, and that the guard's count of near
  checks never lags the ticks that saw them (`NearCounted`).
- **Leg** (`LegProofs`): `TypeOK`, `OneDriver`, and `ImplementsLeg` by step simulation.
  The inductive invariant `LegInv` adds who holds the wheel in each mode (`WheelInv`)
  and that a driving leg has an attempt and a verdict to spare (`CountInv`). With the
  history counters: `AttemptsPerWaypoint` and `ConfirmedBlock`, from `HistoryInv`, which
  ties the goals sent to `tries` and the run of near verdicts to `_blocked_hits`.
  `NeverTurnsBack` is what can be proved of `LegEnds`: routes, waypoints, attempts and the
  state of a goal, in this order, are a measure that every step but waiting lowers. So no
  mix of refusals, late successes, cancellations and retreats can go round for ever; only
  that Nav2 answers and the timer ticks is left to fairness.
- **Mission** (`MissionProofs`): `TypeOK`, `OneDriver`, `EndsStanding`, `OwnManeuver`,
  `StartsStanding`, for every list of steps in which an exit follows a dwell: `ExitStep`
  does not stop the motor itself, and the proof of `StartsStanding` needs that
  assumption in exactly one place. The inductive invariant `MissionInv` says that a
  phase that waits for a maneuver has the gate shut and the executor working on that
  phase's plan, and that an executor at rest is a standing car. `WorkInv` adds what each phase has used up
  and which parking was planned last; from it follow `WorkBounded`, and, for lists of steps
  in which an exit comes two after the parking of its slot (`OrderAssumption`),
  `ExitReplaysOwnPark`: whose plan the exit replays; how far the car stands from the end of
  that plan is in `ExitOffAsParked`. `NeverTurnsBack` is to `MissionEnds` what the leg's is to `LegEnds`:
  steps, then routes or an alignment, then corrections or dwelling. It rests on `WorkInv`,
  by which corrections stay within their rounds and the one alignment comes before them.
- **Gate** (`GateProofs`): `TypeOK`, `GateFollows` and `ManeuverUndisturbed`, for queues of
  any depth. The inductive invariant `GateInv` says that the latched sample is what the
  mission last published and shut in a maneuver, that a sample the bridge has not looked at
  is the mission's last word, and that a bridge that does not run is shut.
- **Obstacles** (`ObstacleProofs`): `TypeOK`, `SeenIsPublished` and `GoneIsWithdrawn`.
  The invariant `TrackInv` says that a track has at least the hits of the cell's current
  streak and is as old as the cell has gone unseen; `LatchInv`, that what is latched is
  what is confirmed.
- **Passability** (`PassabilityProofs`): `TypeOK` and `VerdictIsRight`, for every map,
  corridor, route and width of the car. The invariant `SearchInv` is that of a search that
  always expands the widest entry: a reached cell has a way as wide as its bottleneck, a
  settled cell's neighbours are no narrower than it lets them be, no entry on the heap is
  wider than a settled cell. The closed set that shows there is no wider way is the settled
  cells of that width. `LoopsRunOut`, the half of `VerdictComes` that does not need fairness:
  every step lowers the number of legs ahead, the stage of the leg in hand or the number of
  unsettled cells, although the code marks no cell before it is popped and pushes it as
  often as it is reached. A by-product, `WidenedAreNew`: a bottleneck once found is final, so
  the code's branch for out-of-date heap entries is never taken.

- **Grid** (`PlanningProofs`): `TwoPasses`, for maps of any size and any set of obstacles:
  the forward and the backward pass of `clearance_grid` leave in each cell its octile distance
  to the nearest obstacle, and the cap elsewhere. A pass only lowers distances, never below
  the true ones (`NearestSettled`), and leaves no cell farther than a neighbour it has looked
  at allows (`PassSettles`), so that distances travel along rays (`StraightRay`). A shortest
  way from an obstacle is a ray in one direction and then one in another, and can be ordered
  so that no ray of the first pass comes after one of the second (`Reaching`). `DistancesStayCurrent` (`DistancesAreCurrent`): the distances that a sweep
  reads are those of the obstacles marked now, for any order of maps, obstacles and plans.
- **Plans** (`PlanningProofs`): `TypeOK`, `BestIsChosen`, `PlanStaysClear`. The inductive
  invariant `PlanInv` adds to the current grid (`GridInv`) what the loops of `plan_parking`
  and `plan_align` have established of the candidates behind them: a plan that is kept was
  good enough, and no plan that was good enough comes before it; `BestIsChosen` alone
  speaks only of the end of the loops. `PlanStaysClear` needs two facts about lengths:
  a resolution at which two distances never differ by one centimetre, the `0.01` that
  `need_at` takes off, and at which the wanted clearance is no more than two cells
  (`MarginAssumption`; the code's 0.10 m at 0.05 m is just that), and that what a sweep
  needs is read from the same distances at its start.
- **Way back** (`PlanningProofs`): `RetraceTypeOK`, `PlansCarryOver`,
  `ExitOffAsParked`, `RetreatUndoesLeg` and `RetreatFollowsTrail`, for any radii, slots
  and limits, any plans and corrections and any number of segments. The inductive invariant `RetraceInv` says that the trail is what
  the segments lead along, each pose from the one before, and that the way back is made of
  just this trail or of the plan; the properties do not say how the car got where it is and are
  not inductive by themselves. The lemmas: a segment driven the other way leads back
  (`Undone`), a segment does in the slot's frame what it does on the map (`FramesMove`), and
  so does a sequence of them (`IntegratesInSlot`), half a segment twice is the segment
  (`Halves`), grouping the pieces of a trail loses
  neither length nor angle (`GroupingKeeps`), and one turn of `trail_to_prims` loses less
  angle than its length over 20 m (`Furthers`). `RetreatUndoesLeg` cannot
  promise the first heading exactly: a group flatter than a bend of 20 m is driven as a
  straight and its angle is lost. It bounds this loss, and the run drives such a bend.
  `ExitOffAsParked` takes the car's own pose for the frame: from the end of the plan the
  exit comes to the first segment (`ExitUndoes`), and what it does, seen from where it
  starts, does not depend on where that is; that it comes to the first segment from nowhere
  else holds because a pose is seen as it is from one place only (`SeenFrom`).
  `RetreatFollowsTrail` promises the exact poses of a leg driven forwards where each piece
  that joins another is just like it and no bend passes for straight: so reversing, averaging
  and flat bends are all that can lead a retreat off its trail. Joining compares curvatures,
  so that a piece joins a group of n pieces alike only if it would join one of them
  (`JoinsAsOne`), and the groups are runs of like moves (`Partition`). Wherever the limit cuts
  a run, at a joint or in the middle of a bend, the part of it that has the length of i moves
  is driven as i moves back (`BackwardsOver`, `BackAlong`), and `BackTo` is what the loop over
  the groups keeps.

Recursive definitions are functions, and what they return is proved by induction over the
naturals. The library's induction theorems take an operator as parameter, which the provers
cannot instantiate; `PlanningProofs` therefore takes from the library only that the naturals are
well-founded, derives from it induction over a *set* of naturals (`SetInduction`) and from this that
a recursive function over a sequence exists and is of the expected type (`Recursion`,
`RecursionTyping`).

Proved only, and not checked by a run as well: `CountersFollow`, `ClearsRelease`,
`TimeoutIsDriving`, the mission's `NeverTurnsBack`, `LoopsRunOut`, and the types. Model-checked only:
all liveness (`HoldEnds`, `ManeuverEnds`, `LegEnds`, `MissionEnds`, `StopSettles`,
`OrphanStands`, `MissionAgrees`, `VerdictComes`), for fairness and `ENABLED` are out of reach of
the prover as installed. Of `HoldEnds`, `ManeuverEnds`, `LegEnds`, `MissionEnds` and `VerdictComes` the safety
half is proved as said above: what is left to the runs is that a step which is not waiting
does come.

The link between the models of two levels (the mission uses `Leg` and `Maneuver` in its own
words, not by INSTANCE) is by reading, not by proof.

## Disagreements between code and documents

The first two are runs with an expected violation, the others were found by reading; lines
and quotations are in `PROJECT.json`.

1. `retrace_reverse`: the retreat is made of a trail without directions. Nav2 may reverse in
   a leg, and the retreat then goes on backwards where it should go forwards.
2. `motorgate_restart`: a mission node that is stopped in a leg leaves the bridge open,
   and a new one waiting for its start does not shut it.
3. The guard counts calls of `check`, not readings. At 20 Hz ticks and a 10 Hz sensor one
   bad array is counted twice and confirms a stop, which the documented spike filter is
   meant to prevent.
4. A confirmed stop is suspended by an array without any echo; the documented
   `resume_clear_hits` clear readings are not waited for.
5. So it is by a near reading after a single clear one: the clear one has undone the count of
   the near ones before it, so the near one is the first of `confirm_hits` again, is answered
   safe, and HOLD resumes towards an obstacle just measured near. `ReleaseNeedsClears` names
   both ways; TLC finds a counterexample if either is taken out of it.
6. With the default speeds the slow verdict commands the cruise speed it is meant to reduce.
7. `max_attempts` is documented per route and counted per waypoint.
8. The docstring of `LegStep` denies the retreat between routes.
9. A retreat is documented as always swept against the map, and is started unswept
   without map or pose.
10. `min_hits` is documented as consecutive sightings against spikes; scans that do not
    show the cell in between do not reset the count.
11. The exit replays the whole plan of the parking also when the parking was broken off, which
    the code calls normal, or corrected. It is documented to lead back to where the parking
    began, and is off by what the parking missed (`ExitOffAsParked`).
12. `trail_to_prims` merges gentle bends with straights; the accuracy it documents does not
    hold for a straight followed by such a bend.
13. In reverse the bridge turns the wheels to the other side than the bicycle model in its
    comment does.
14. `plan_parking` ranks the radius before the length and stops at the preferred solver,
    where its docstring ranks by length first and keeps the configured radius if that can
    avoid the wall.

## Not modelled

- The analytic solvers of `geometry`, and how `collision` samples paths and footprints:
  real-valued trigonometry. What they find and which points a sweep touches are choices.
- How `passability` rasterises a corridor, and its summary of a verdict for the log.
- Scans, odometry noise and publishing of `fake_hardware`; `viz` (output); `mission_config`
  and the launch files (data; the values that matter are constants).
- An action server that disappears in mid-leg; publications on the enable topic by anybody
  but the mission (`cmd_vel_bridge.py`, 66-68, suggests one for tests).
- `side_warning`, log lines, markers.

## Plan

In this order, the first eight being done:

1. Guard and executor, each against its history, then composed. *Done, safety proved.*
2. Leg against its abstract promise. *Done, safety proved.*
3. Mission with all its steps. *Done, safety proved.*
4. Gate, bridge and motor driver as distributed processes with restarts and kills. *Done,
   safety proved.*
5. Obstacle monitor and the grid the mission makes of it. *Done, safety proved.*
6. Passability verdicts and the widest-path search. *Done, safety proved.*
7. The grid's distances and the choice of a plan over them. *Done, safety proved.*
8. The way back: exit, retreat, slot frames. *Done, safety proved.*
9. `MissionManager` instantiating `Leg` and `Maneuver` instead of restating them.
