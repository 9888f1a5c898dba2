\* The jobs one after the other.
SPECIFICATION FairSpec
CONSTANTS
  c1 = c1
  c2 = c2
  f1 = f1
  f2 = f2
  Branches <- AllBranches
  PrHead <- PrBranch
  MaxEdits = 1
  Comments = {c1, c2}
  Paths = {f1, f2}
  PathOf <- OwnFiles
  CheckRuns <- OneRun
  MaxTurns = 6
  Keys = {"A", "B"}
  Fields = {"style"}
  Requests <- FewRequests
  JanitorTurns = 2
  Overlap = FALSE
INVARIANTS
  TypeOK
  MergeableIsAnswered
  SuggestionSettles
PROPERTIES
  PushFollowsPass
  PersistedIsLoaded
  JobsEnd
CHECK_DEADLOCK FALSE
