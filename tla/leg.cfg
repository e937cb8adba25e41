\* The leg stops when it is done or has failed, so a state without successors is
\* no deadlock here; LegEnds says it gets there.
CONSTANTS
  Routes <- MCRoutes
  BlockedConfirm = 2
  MaxCount = 4
SPECIFICATION HFairSpec
INVARIANTS
  OneDriver
  AttemptsPerWaypoint
PROPERTIES
  ConfirmedBlock
  ImplementsLeg
  LegEnds
  NeverTurnsBack
CHECK_DEADLOCK FALSE
