CONSTANTS
  Prims <- MCPrims
  Plans <- MCPlans
  SteerLimit = 35
  Cruise = 2958
  MinMoveSpeed = 3000
  SlowPercent = 50
  PreSteerTime = 1
  SettleTime = 1
  SegmentTimeout = 4
  HoldTimeout = 2
  MaxDelay = 2
  MaxStep = 1
  MaxTurn = 1
  RearChannels = {ch6}
  RawReadings = {0, 18, 30, 31}
  MinValid = 2
  MaxValid = 140
  StopDistance = 18
  SlowDistance = 30
  ConfirmHits = 2
  ResumeClearHits = 2
  StaleAfter = 2
SPECIFICATION Spec
INVARIANTS
  ReversingIsWatched
  NearStopsCar
PROPERTIES
  ImplementsExecutor
