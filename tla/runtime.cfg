SPECIFICATION Spec
CONSTANTS
  Setups <- Runs
  ThreadIds <- MCThreads
  MaxFutures = 3
  Outputs <- MCOutputs
INVARIANTS KernelsComplete LaunchAsWritten ModeLeftOnlyAfterFailure CachedAfterExit FailuresStayAlone
PROPERTY EveryThreadEnds
CHECK_DEADLOCK FALSE
