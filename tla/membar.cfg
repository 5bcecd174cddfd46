SPECIFICATION Spec
CONSTANTS
  Programs <- SmallPrograms
  Top = 4
INVARIANTS
  NoRace
  DanglingCovered
  NoDoubleBarrier
  NoProxyRace
PROPERTIES
  AnalysisTerminates
