CONSTANT
  Depth = 2
SPECIFICATION FairSpec
INVARIANTS
  GateFollows
PROPERTIES
  ManeuverUndisturbed
  StopSettles
  OrphanStands
