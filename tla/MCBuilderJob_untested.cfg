\* What the builder is told of RED and of GREEN.
SPECIFICATION Spec
CONSTANTS
  Tests = {t1, t2}
  Sources = {src}
  Infra = {}
  Guarded = {}
  NoPath = NoPath
  Elsewhere = Elsewhere
  Stacks <- AllStacks
  TriageTurns = 2
  BuilderTurns = 3
  BlankLimit = 2
  MaxCalls = 2
  MaxSuites = 2
  Echoes = TRUE
INVARIANTS
  RedMeansRed
  GreenMeansTestsPass
CHECK_DEADLOCK FALSE
