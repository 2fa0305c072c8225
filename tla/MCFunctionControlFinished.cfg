SPECIFICATION Spec
CONSTANTS
  Functions = {f1, f2}
  NoFunction = NoFunction
  Shots <- ShotSet
  ShotCap = 2
INVARIANTS
  FinishedMeansAllShotsTaken
