SPECIFICATION Spec
CONSTANTS
  MaxThreads = 2
  MaxFailures = 3
  MaxQueued = 6
INVARIANTS HarmHasCause BusyMeansFailed OkMeansEncoded
CHECK_DEADLOCK FALSE
