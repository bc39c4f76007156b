SPECIFICATION FairSpec
CONSTANTS
  w1 = w1
  w2 = w2
  Workers = {w1, w2}
  MinK = 2
  MaxRounds = 1
  MaxCrashes = 1
  MaxLostCommits = 0
  Redelivery = TRUE
  Events = {}
INVARIANT QuorumPerRound
PROPERTY WaitingEnds
