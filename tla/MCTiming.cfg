SPECIFICATION Spec
CONSTANTS
  Intervals <- IntervalSet
  Exposures <- ExposureSet
  NumShots = 2
  Checkpoint = 2
  Latency = 1
  Answer = 1
  Leaps <- LeapSet
  MaxLeaps = 1
INVARIANTS
  ExposureHeld
  ExposureEnds
  StartsApart
  StartsPunctual
CHECK_DEADLOCK FALSE
