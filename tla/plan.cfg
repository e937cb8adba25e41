\* Resolution and limits are the code's, in centimetres.
CONSTANTS
  Width = 3
  Height = 3
  Res = 5
  Diag = 7
  Statics <- MCStatics
  Outline <- MCOutline
  Sweeps <- MCSweeps
  Lengths = {1, 2}
  Radii <- MCRadii
  Slots <- MCSlots
  Want = 10
  Hard = 3
  Points <- MCPoints
  Spans = {0, 1}
SPECIFICATION Spec
INVARIANTS
  DistancesAreCurrent
  PlanStaysClear
  BestIsChosen
