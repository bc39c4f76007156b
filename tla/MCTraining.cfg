SPECIFICATION Spec
CONSTANTS
  r1 = r1
  r2 = r2
  s1 = s1
  s2 = s2
  t1 = t1
  t2 = t2
  Runs = {r1, r2}
  Shares = {s1, s2}
  Plan <- MCPlan
  LaunchMinK <- MCMinK
  MaxInFlight = 2
  MaxLaunchRequests = 3
  NoClaim = NoClaim
  RoomTasks = {t1}
  NumProviders = 3
  NumDevices = 2
  Jobs <- MCJobs
  MaxReports = 2
  MaxRounds = 2
  NumChunks = 1
  RelayRetries = 1
  MaxBeats = 1
  MaxFlushes = 1
  BufferLimit = 2
INVARIANTS GpusFollowRuns PlansAreSound WorkersAgree
PROPERTIES RunsStayEnded WorkersEndInOrder
CHECK_DEADLOCK FALSE
