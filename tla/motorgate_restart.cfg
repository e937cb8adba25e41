CONSTANT
  Depth = 2
SPECIFICATION Spec
INVARIANT WaitsUndriven
