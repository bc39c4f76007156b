SPECIFICATION Spec
CONSTANTS
  t1 = t1
  t2 = t2
  s1 = s1
  s2 = s2
  p1 = p1
  Tasks = {t1, t2}
  Shares = {s1}
  Peers = {p1}
  PeerOf <- OneProvider
  NoTask = NoTask
  NoShare = NoShare
  Lease = 1
  AcceptTimeout = 0
  RunTimeout = 1
  ReportedStates = {"idle"}
SYMMETRY TaskSymmetry
INVARIANTS TypeOK  OwnedShareIsAccountedFor  FinishedTaskFreesGpu
