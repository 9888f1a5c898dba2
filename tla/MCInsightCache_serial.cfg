\* One job after the other, phrases alike, every phrase with files of its own.
SPECIFICATION Spec
CONSTANTS
  p1 = p1
  p2 = p2
  f1 = f1
  f2 = f2
  f3 = f3
  Jobs = {j1}
  Phrases = {p1, p2}
  Files = {f1, f2, f3}
  Scope <- OwnFiles
  Similarity <- Near
  Threshold = 2
  MaxVersion = 1
  MaxRequests = 3
  Overlap = FALSE
  EditsWhileScouting = FALSE
INVARIANTS
  HitIsCurrent
PROPERTIES
  UsefulInsightsStay
CHECK_DEADLOCK FALSE
