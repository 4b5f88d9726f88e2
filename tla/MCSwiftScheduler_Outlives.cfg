CONSTANTS
  ThreadNum = 2
  Frame <- TreeFrame
  Root = "root"
  None = "none"
  Spawned <- TreeSpawned
  Parent <- TreeParent
  Dependent <- TreeDependent
  Value <- TreeValue
  Capacity = 2
  StackFrames = TRUE
  LeafStops = TRUE
  StopFlag = TRUE
  CreateFails = FALSE
  SizeRange = 16
  IdRange = 256
SPECIFICATION FairSpec
INVARIANTS ParentOutlivesChild
CHECK_DEADLOCK TRUE
