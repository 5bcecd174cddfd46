SPECIFICATION TransferSpec
CONSTANTS
  cube = cube
  v0 = v0
  v1 = v1
  Cube = cube
  Sub = {v0, v1}
  CubeBlocks = 3
  VectorBlocks = 3
  Cross <- ChainCross
  Intra <- ChainIntra
  Lb = 1
  Ub = 14
  Step = 2
  Passes = 2
  Width = 16
INVARIANTS
  FreshInput
  IterationsComplete
  BlocksNeverStall
  FlagsMatchCounts
PROPERTY FlagsAreTransparent
