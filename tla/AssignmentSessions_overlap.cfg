SPECIFICATION FairSpec
CONSTANTS
  t1 = t1
  t2 = t2
  c1 = c1
  c2 = c2
  c3 = c3
  w1 = w1
  w2 = w2
  Tasks = {t1}
  Calls = {c1, c2, c3}
  Sweepers = {w1}
  NoTask = NoTask
CHECK_DEADLOCK FALSE
INVARIANTS TypeOK FinishedShareFree
PROPERTIES EveryClaimEnds
