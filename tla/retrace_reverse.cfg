\* One unit is half a metre.
CONSTANTS
  Bends = {1, 3, 10}
  MaxMoves = 4
  MaxLengths = {0, 2, 5}
  Unit = 2
  SlotPoses <- MCSlots
  Parkings = {}
  Corrections = {}
  MinProgress = 60
SPECIFICATION RetraceSpec
INVARIANT RetreatIsSafe
CHECK_DEADLOCK FALSE
