SPECIFICATION Spec
CONSTANTS
  cube = cube
  v0 = v0
  v1 = v1
  Cube = cube
  Sub = {v0, v1}
  CubeBlocks = 2
  VectorBlocks = 2
  Kernels <- AllKernels
  Modes <- BothModes
INVARIANTS
  TypeOK
  FreshInput
  OneOwner
  FlagsDrained
PROPERTIES
  Termination
