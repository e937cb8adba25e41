\* One clock unit is the 20 Hz tick; the times are scaled down.  2.958 is
\* park_speed * speed_gain, 3.0 min_move_speed.
CONSTANTS
  Prims <- MCPrims
  Plans <- MCPlans
  SteerLimit = 35
  Cruise = 2958
  MinMoveSpeed = 3000
  SlowPercent = 50
  PreSteerTime = 3
  SettleTime = 1
  SegmentTimeout = 4
  HoldTimeout = 2
  MaxDelay = 2
  MaxStep = 1
  MaxTurn = 1
SPECIFICATION HFairSpec
INVARIANTS
  SteerBeforeRoll
  ClockCountsDriving
PROPERTIES
  ImplementsManeuver
  ManeuverEnds
  TicksCountDown
