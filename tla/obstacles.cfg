\* min_hits as configured; one clock unit is 1.5 s, so that scans may be further
\* apart than forget_sec.  a and b are free on the map, w is next to a wall.
CONSTANTS
  Cells = {a, b, w}
  Walls = {w}
  MinHits = 2
  ForgetAfter = 2
  MaxDelay = 3
  NoGrid = NoGrid
SPECIFICATION HFairSpec
INVARIANTS
  SeenIsPublished
PROPERTIES
  GoneIsWithdrawn
  MissionAgrees
