\* Overlapping jobs, two phrases on one page.
\* HitMatchesSources and DroppedForAReason hold; HitIsYoungOrUnchanged does not.
SPECIFICATION Spec
CONSTANTS
  p1 = p1
  p2 = p2
  u1 = u1
  u2 = u2
  u3 = u3
  Jobs = {j1, j2}
  Phrases = {p1, p2}
  Urls = {u1}
  Local = {}
  Found <- AnyPage
  Similarity <- Near
  Threshold = 2
  Ttl = 1
  MaxVersion = 1
  MaxTime = 1
  MaxRequests = 3
  Overlap = TRUE
INVARIANTS
  HitMatchesSources
  HitIsYoungOrUnchanged
PROPERTIES
  DroppedForAReason
CHECK_DEADLOCK FALSE
