SPECIFICATION FairSpec
CONSTANTS
  t1 = t1
  t2 = t2
  s1 = s1
  s2 = s2
  p1 = p1
  Tasks = {t1}
  Shares = {s1, s2}
  Peers = {p1}
  PeerOf <- OneProvider
  NoTask = NoTask
  NoShare = NoShare
  Lease = 1
  AcceptTimeout = 2
  RunTimeout = 3
  ReportedStates = {"idle"}
PROPERTIES ClaimedWorkEnds FinishedWorkUnlocks
