\* A finished mission takes no further step, so a state without successors is no
\* deadlock here; MissionEnds says it gets there.
CONSTANTS
  Steps <- MCSteps
  RouteCount = 3
  DwellTicks = 2
SPECIFICATION HFairSpec
INVARIANTS
  OneDriver
  EndsStanding
  OwnManeuver
  ExitReplaysOwnPark
  WorkBounded
PROPERTIES
  StartsStanding
  MissionEnds
CHECK_DEADLOCK FALSE
