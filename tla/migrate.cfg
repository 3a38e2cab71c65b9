SPECIFICATION Spec
CONSTANTS
  Runners = {r1, r2, r3}
  NumMigrations = 3
  Releases <- TwoReleases
  Commands = {"migrate", "rollback"}
  Overlap = "migrates"
  Crashes = TRUE
  Guarded = TRUE
  MaxCount = 2
  MaxRuns = 4
SYMMETRY RunnerSymmetry
INVARIANTS
  RecordedIsApplied
  UnrecordedAreFew
  RecordedInOrder
PROPERTIES
  RollbackTakesLatest
