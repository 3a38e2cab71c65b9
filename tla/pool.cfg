SPECIFICATION Spec
CONSTANTS
  Callers = {c1, c2, c3}
  Engines = {"mysql", "postgres", "mssql"}
  Uses = {"quiet", "busy"}
  MaxPools = 4
INVARIANTS
  NoOrphanWhenQuiet
  NoDeadPool
CHECK_DEADLOCK FALSE
