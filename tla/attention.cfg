SPECIFICATION Spec
CONSTANTS
  cube = cube
  v0 = v0
  v1 = v1
  Cube = cube
  Sub = {v0, v1}
  CubeBlocks = 2
  VectorBlocks = 2
  Cross <- AttentionCross
  Intra <- AttentionIntra
  Lb = 0
  Ub = 3
  Step = 1
  Passes = 2
  Width = 16
INVARIANTS
  TypeOK
  ExclusiveAccess
  CountsAreOccupancy
  FlagsBalance
PROPERTY ImplementsDataflow
