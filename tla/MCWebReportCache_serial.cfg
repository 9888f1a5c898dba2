\* One job after the other, phrases alike, every phrase with pages of its own.
SPECIFICATION Spec
CONSTANTS
  p1 = p1
  p2 = p2
  u1 = u1
  u2 = u2
  u3 = u3
  Jobs = {j1}
  Phrases = {p1, p2}
  Urls = {u1, u2, u3}
  Local = {u3}
  Found <- OwnPages
  Similarity <- Near
  Threshold = 2
  Ttl = 1
  MaxVersion = 1
  MaxTime = 1
  MaxRequests = 3
  Overlap = FALSE
INVARIANTS
  HitIsYoungOrUnchanged
PROPERTIES
  YoungReportsStay
CHECK_DEADLOCK FALSE
