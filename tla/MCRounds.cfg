SPECIFICATION MCSpec
CONSTANTS
  w1 = w1
  w2 = w2
  Workers = {w1, w2}
  MinK = 1
  MaxRounds = 2
  MaxCrashes = 1
  MaxLostCommits = 1
  Redelivery = FALSE
  Events = {}
SYMMETRY WorkerSymmetry
INVARIANTS TypeOK DurableHistory AppliedStatesAreDurable FreshUpdates HealingSucceeds
PROPERTY FinalizedRoundsAreFinal
