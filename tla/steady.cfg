SPECIFICATION Spec
CONSTANTS
  CubeBlocks = 2
  VectorBlocks = 3
  Graphs <- AllGraphs
  MaxIterations = 4
  CrossCaps = {1, 2}
  IntraCaps = {1, 2}
  Width = 8
INVARIANTS
  SteadyGraphsComplete
