\* Every stack, every tool, two suites and the source under test.
SPECIFICATION FairSpec
CONSTANTS
  Tests = {t1, t2}
  Sources = {src}
  Infra = {}
  Guarded = {}
  NoPath = NoPath
  Elsewhere = Elsewhere
  Stacks <- AllStacks
  TriageTurns = 2
  BuilderTurns = 3
  BlankLimit = 2
  MaxCalls = 2
  MaxSuites = 1
  Echoes = TRUE
INVARIANTS
  SuccessLeavesGreen
  ScopedRedFails
PROPERTIES
  JobEnds
CHECK_DEADLOCK FALSE
