CONSTANTS
  ThreadNum = 2
  Frame <- SumFrame
  Root = "root"
  None = "none"
  Spawned <- SumSpawned
  Parent <- SumParent
  Dependent <- SumDependent
  Value <- SumValue
  Capacity = 3
  StackFrames = FALSE
  LeafStops = TRUE
  StopFlag = FALSE
  CreateFails = FALSE
  SizeRange = 16
  IdRange = 256
SPECIFICATION FairSpec
INVARIANTS InputsComeFirst NothingLost NoWaitCycle
CHECK_DEADLOCK TRUE
