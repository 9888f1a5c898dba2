\* "falls back to async mode" (jobs.rs): two jobs hang on their providers.
SPECIFICATION FairSpec
CONSTANTS
  Uuids = {j1, j2, j3}
  Tools = {"scout_context"}
  StallHintAfter = 1
  JobWallClock = 1
  TerminalRetention = 1
  Paths = {}
  FragilePaths = {}
  Unseen = Unseen
  Nobody = Nobody
  MaxLives = 1
  MaxSteps = 1
  MaxSessions = 1
  Isolated = TRUE
  Workers = 2
  SpawnMayFail = FALSE
  ClientCancels = FALSE
  TimePasses = FALSE
PROPERTIES
  LoopComesBack
CHECK_DEADLOCK FALSE
