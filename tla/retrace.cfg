\* One unit is half a metre.
CONSTANTS
  Bends = {1, 3, 10, 45}
  MaxMoves = 4
  MaxLengths = {0, 2, 5}
  Unit = 2
  SlotPoses <- MCSlots
  Parkings <- MCParkings
  Corrections <- MCCorrections
  MinProgress = 60
SPECIFICATION RetraceSpec
INVARIANTS
  RetreatFollowsTrail
  RetreatUndoesLeg
  ExitOffAsParked
  PlansCarryOver
CHECK_DEADLOCK FALSE
