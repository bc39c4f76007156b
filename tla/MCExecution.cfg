SPECIFICATION Spec
CONSTANTS
  Tasks = {t1}
  Gangs = {g1}
  NumDevices = 2
  CpuTasks = {}
  FallbackTasks = {}
  GangSize <- MCGangSize
  Free = Free
  MaxRetries = 1
  MaxCrashes = 1
  MaxRedeliveries = 1
  MaxRequests = 2
  MaxMetrics = 1
  Schedules = {s1, s2}
  OnceSchedules = {s1}
  FailureLimit = 2
  MaxTasks = 2
  MaxScheduleRequests = 5
  Pipes = {p1, p2}
  Stages <- MCStages
  MaxRuns = 2
  MaxPipeCrashes = 1
INVARIANTS NoLeakedDevice RowsAndQueuesAgree
PROPERTIES QueuedTaskEnds
CHECK_DEADLOCK FALSE
