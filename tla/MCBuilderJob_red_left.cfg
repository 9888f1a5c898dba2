\* A RED suite next to the GREEN one.
SPECIFICATION Spec
CONSTANTS
  Tests = {t1, t2}
  Sources = {src}
  Infra = {}
  Guarded = {}
  NoPath = NoPath
  Elsewhere = Elsewhere
  Stacks <- VerifiedStacks
  TriageTurns = 2
  BuilderTurns = 3
  BlankLimit = 2
  MaxCalls = 2
  MaxSuites = 2
  Echoes = FALSE
INVARIANTS
  NoRedLeftBehind
CHECK_DEADLOCK FALSE
