SPECIFICATION Spec
CONSTANTS
  Tabs = {t1, t2}
  Keys <- MCKeys
  Offered <- MCOffered
  StartFiles <- MCStartFiles
  MaxEdits = 2
  Jobs <- MCJobs
  ServerOf <- MCServerOf
  JobTools <- MCJobTools
  MaxCalls = 1
  HourTicks = 1
  DayTicks = 2
  LastTick = 2
  Outputs <- MCOutputs
  Responses <- MCResponses
  MaxJobs = 2
  MaxRows = 3
  PageSize = 2
  ExemplarWindow = 2
  MinScore = 7
  Inputs <- MCInputs
  Capacity = 2
  MaxEvents = 3
  MaxBytes = 4
  SuffixBytes = 2
SYMMETRY PageSymmetry
INVARIANTS
  TypeOK
  EveryPhaseResolves
  ConfigSurvives
  MetricsAddUp
  JudgedAlike
  PagesShowAll
  AnswersInOrder
PROPERTIES
  ExemplarNeverWorse
CHECK_DEADLOCK FALSE
