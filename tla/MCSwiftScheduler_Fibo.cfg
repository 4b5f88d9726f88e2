CONSTANTS
  ThreadNum = 3
  Frame <- TreeFrame
  Root = "root"
  None = "none"
  Spawned <- TreeSpawned
  Parent <- TreeParent
  Dependent <- TreeDependent
  Value <- TreeValue
  Capacity = 2
  StackFrames = TRUE
  LeafStops = TRUE
  StopFlag = TRUE
  CreateFails = TRUE
  SizeRange = 16
  IdRange = 256
SPECIFICATION FairSpec
INVARIANTS RunsOnce SyncCounts NothingLost StopMeansDone NoWaitCycle MainSeesResult RoomToPush RegionInv
PROPERTIES RegionEnds ImplementsForkJoin
CHECK_DEADLOCK TRUE
