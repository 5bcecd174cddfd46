SPECIFICATION Spec
CONSTANTS
  Loops <- SmallLoops
INVARIANTS
  DependenciesHold CarriedHold LatencyKept OperandsAsInLoop ResultsAsInLoop
  CopiesArrive DotsKeepOperands
PROPERTY PipelineTerminates
