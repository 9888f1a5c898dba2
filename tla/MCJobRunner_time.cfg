\* One uuid used twice, with a journal or without, and the clock running: heartbeats, the stall hint,
\* the wall clock, retention and eviction.
SPECIFICATION Spec
CONSTANTS
  Uuids = {j1}
  Tools = {"execute_blueprint", "babysit_pr"}
  StallHintAfter = 3
  JobWallClock = 4
  TerminalRetention = 5
  Paths = {f, g}
  FragilePaths = {g}
  Unseen = Unseen
  Nobody = Nobody
  MaxLives = 2
  MaxSteps = 3
  MaxSessions = 1
  Isolated = TRUE
  Workers = 2
  SpawnMayFail = TRUE
  ClientCancels = TRUE
  TimePasses = TRUE
INVARIANTS
  TaskKeepsRecord
  AnswerAgrees
  HintMeansNoHeartbeat
PROPERTIES
  OutcomeIsFinal
CHECK_DEADLOCK FALSE
