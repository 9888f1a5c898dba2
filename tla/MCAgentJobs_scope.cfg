\* What ranges that meet make of a migration, what the schema says of scope_path, and what is
\* said of a sync.
SPECIFICATION FairSpec
CONSTANTS
  main = main
  other = other
  kinds = kinds
  gone = gone
  lib = lib
  core = core
  fresh = fresh
  tests = tests
  specs = specs
  a = a
  b = b
  c = c
  note = note
  sketch = sketch
  Absent = Absent
  NoPlan = NoPlan
  NoCall = NoCall
  NoJson = NoJson
  MixedJson = MixedJson
  Paths = {lib, core, fresh, tests, specs}
  KindOf <- Kind
  Lines = {a, b, c, note, sketch}
  CommentLines = {note}
  SketchLines = {sketch}
  MaxNewLines = 1
  Plans <- AllPlans
  Pasted <- FewPasted
  Shared = {core, fresh}
  Asked <- FewAsked
  Bodies <- FewBodies
  InitialDisk <- Files0
  ScoutTurns = 2
  EmitTurns = 2
  FixTurns = 1
  FixRounds = 1
  MaxChanges = 1
  Servers <- AllServers
  MaxCompletes = 2
  Repos <- InlineRepos
  Rules <- FewRules
  TargetLists <- MeetingTargets
  Rewrites <- FewRewrites
  RefactorTurns = 2
  CallsOfJob = 2
  SyncFiles = {main, other, kinds}
  SyncTarget = main
  PreserveLists <- FewPreserved
  Workspaces <- FewWorkspaces
  SyncTurns = 4
INVARIANTS
  FieldsSurviveAnyRanges
  RefactorStaysInScope
  OnlyTargetWritten
  FinalizedVerifies
CHECK_DEADLOCK FALSE
