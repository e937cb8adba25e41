\* Every map of six cells with clearances too small, just enough and ample.
CONSTANTS
  Width = 3
  Height = 2
  Band <- MCBand
  Routes <- MCRoutes
  MaxClear = 2
  Need = 1
  StartRadius = 1
  GoalRadius = 1
SPECIFICATION HFairSpec
INVARIANTS
  VerdictIsRight
PROPERTY VerdictComes
CHECK_DEADLOCK FALSE
