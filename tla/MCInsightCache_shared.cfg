\* Overlapping jobs, two phrases on one file, which changes while a scout
\* reads it.  HitMatchesSnapshots and DroppedForAReason hold; HitIsCurrent
\* does not.
SPECIFICATION Spec
CONSTANTS
  p1 = p1
  p2 = p2
  f1 = f1
  f2 = f2
  f3 = f3
  Jobs = {j1, j2}
  Phrases = {p1, p2}
  Files = {f1}
  Scope <- OneFile
  Similarity <- Near
  Threshold = 2
  MaxVersion = 2
  MaxRequests = 3
  Overlap = TRUE
  EditsWhileScouting = TRUE
INVARIANTS
  HitMatchesSnapshots
  HitIsCurrent
PROPERTIES
  DroppedForAReason
CHECK_DEADLOCK FALSE
