SPECIFICATION Spec
CONSTANTS
  Width = 7
  Bounds <- NaturalBounds
  Steps = {1, 3}
  IfCounts = {1, 2, 4}
  Chains <- SmallChains
INVARIANTS
  NoMoreRoundsThanDocumented
