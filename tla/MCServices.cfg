SPECIFICATION Spec
CONSTANTS
  Assignments = {a1, a2}
  Nobody = Nobody
  MaxFaults = 1
  Rooms = {"r1", "r2"}
  Wireguard = {"r1"}
  NoRoom = "none"
  Commands = {"c1", "c2"}
  MaxCommands = 4
  MaxCrashes = 1
  NumProcs = 2
  MaxLaunches = 3
  MaxCancels = 2
  MaxStepsSet = {1, 3}
  Every = 2
  LocalSteps = 1
  MaxRounds = 3
  MaxRuns = 3
  MaxDeaths = 2
  Senders = {"exact", "ahead"}
  Tasks = {t1, t2}
  Parts = 2
  MaxAge = 1
  FutureSkew = 1
  MaxCached = 1
  MaxSeen = 1
  MaxMessages = 2
  MaxTime = 4
  MaxRestarts = 1
  MaxExecutions = 2
  Requests = {q1, q2}
  Host = h
  Guests = {u1}
  Devices = {1}
  MaxRows = 3
  MaxUses = 2
  MaxTokens = 2
  MaxCalls = 3
  Workers = {"w1", "w2"}
  Sockets = {1, 2}
  Actors = {1}
  MaxActs = 2
  MaxLost = 1
INVARIANTS WorkIsDoneOnce MachineIsAccountedFor CheckpointsAreSound RoomServesItsMembers
CHECK_DEADLOCK FALSE
