SPECIFICATION Spec
CONSTANTS
  w1 = w1
  w2 = w2
  Workers = {w1, w2}
  MinK = 1
  MaxRounds = 1
  MaxCrashes = 0
  MaxLostCommits = 0
  Redelivery = FALSE
  Events = {}
SYMMETRY WorkerSymmetry
PROPERTY TerminalWorkersStay
