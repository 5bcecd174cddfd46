SPECIFICATION Spec
CONSTANTS
  Setups <- GlobalChanges
  ThreadIds <- MCThreads
  MaxFutures = 3
  Outputs <- MCOutputs
INVARIANT GlobalsAsExpected
