SPECIFICATION Spec
CONSTANTS
  d1 = d1
  sh1 = sh1
  NumTasks = 3
  Suits <- MCSuits
  Need <- MCNeed
  MaxMemory = 1
  Gpus = {d1}
  Shares = {sh1}
  MaxConcurrent = 2
  Nobody = Nobody
  Room = Room
  StageList <- MCStages
  DependsOn <- MCDependsOn
  Handled = {2}
  MaxStages = 2
  StageRetries = 1
  Threads = {th1, th2}
  Models = {m1, m2}
  Sizes = {1, 2, 4}
  MaxSize = 3
  MaxLoads = 4
INVARIANTS DevicesAreHeldOnce StagesRunInOrder CacheIsBounded
PROPERTIES SdkWorkEnds
CHECK_DEADLOCK FALSE
