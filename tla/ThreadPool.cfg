SPECIFICATION FairSpec
CONSTANTS
  Workers = {w1, w2}
  main = main
  NJobs = 3
  MaxRounds = 2
INVARIANTS Quiescent StoppedMeansDone RoundComplete ResultCountsFailures NoStrangers
PROPERTIES UsesWorkQueue ExecuteReturns StopReturns
