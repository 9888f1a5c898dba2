\* Two mutating jobs that write the same file.
SPECIFICATION Spec
CONSTANTS
  Uuids = {j1, j2}
  Tools = {"execute_blueprint"}
  StallHintAfter = 1
  JobWallClock = 1
  TerminalRetention = 1
  Paths = {f}
  FragilePaths = {}
  Unseen = Unseen
  Nobody = Nobody
  MaxLives = 1
  MaxSteps = 2
  MaxSessions = 1
  Isolated = FALSE
  Workers = 3
  SpawnMayFail = FALSE
  ClientCancels = TRUE
  TimePasses = FALSE
PROPERTIES
  RollbackIsJobScoped
CHECK_DEADLOCK FALSE
