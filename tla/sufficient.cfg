SPECIFICATION Spec
CONSTANTS
  CubeBlocks = 2
  VectorBlocks = 2
  Graphs <- AllGraphs
  MaxIterations = 4
  CrossCaps = {1}
  IntraCaps = {2}
  Width = 8
INVARIANTS
  SufficientBuffersComplete
