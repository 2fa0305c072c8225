SPECIFICATION FairSpec
CONSTANTS
  Functions = {f1, f2}
  NoFunction = NoFunction
  Shots <- ShotSet
  ShotCap = 2
INVARIANTS
  TypeOK
  SingleCapturer
  DeletedOnlyAfterRun
  OneLateExposure
  RunAccounted
  NoTestLeftOver
PROPERTIES
  StopEndsRun
  BoundedRunEnds
  CommandsReturn
  ImplementsSession
