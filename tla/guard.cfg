\* Distances in cm with the defaults of GuardConfig; two rear channels; one
\* clock unit is 0.2 s.  1 is below min_valid, 141 above max_valid; 18 and 19
\* lie on either side of stop_distance, 30 and 31 of slow_distance.
CONSTANTS
  RearChannels = {ch5, ch7}
  RawReadings = {1, 18, 19, 31, 141}
  MinValid = 2
  MaxValid = 140
  StopDistance = 18
  SlowDistance = 30
  ConfirmHits = 2
  ResumeClearHits = 2
  StaleAfter = 3
  MaxWait = 2
SPECIFICATION FairGuardSpec
INVARIANTS
  NearMeansStop
PROPERTIES
  ReleaseNeedsClears
  HoldEnds
