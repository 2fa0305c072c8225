SPECIFICATION FairSpec
CONSTANTS
  MaxEvents = 2
PROPERTIES
  WaitTimesOut
