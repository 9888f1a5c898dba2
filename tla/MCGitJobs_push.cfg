\* What a push delivers, against what the skill of the babysitter says of it.
SPECIFICATION Spec
CONSTANTS
  c1 = c1
  c2 = c2
  f1 = f1
  f2 = f2
  Branches <- AllBranches
  PrHead <- PrBranch
  MaxEdits = 1
  Comments = {c1, c2}
  Paths = {f1, f2}
  PathOf <- OwnFiles
  CheckRuns <- OneRun
  MaxTurns = 6
  Keys = {"A", "B"}
  Fields = {"style"}
  Requests <- FewRequests
  JanitorTurns = 2
  Overlap = FALSE
PROPERTY
  PushDeliversTree
CHECK_DEADLOCK FALSE
