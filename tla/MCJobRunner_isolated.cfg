\* Two jobs side by side on different files, with the end of the process at
\* any point and its next start.
SPECIFICATION Spec
CONSTANTS
  Uuids = {j1, j2}
  Tools = {"execute_blueprint"}
  StallHintAfter = 1
  JobWallClock = 1
  TerminalRetention = 1
  Paths = {f, g}
  FragilePaths = {}
  Unseen = Unseen
  Nobody = Nobody
  MaxLives = 1
  MaxSteps = 2
  MaxSessions = 2
  Isolated = TRUE
  Workers = 3
  SpawnMayFail = FALSE
  ClientCancels = TRUE
  TimePasses = FALSE
SYMMETRY JobAndPathSymmetry
INVARIANTS
  FailedLeavesNoTrace
PROPERTIES
  FilesRestAfterOutcome
  JobsAreTransactions
\* The process may end for good.
CHECK_DEADLOCK FALSE
