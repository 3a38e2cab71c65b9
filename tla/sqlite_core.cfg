SPECIFICATION Spec
CONSTANTS
  Flows = {f1, f2, f3}
  NoFlow = NoFlow
  Roles = {"callback", "manual", "plain"}
  Nesting = "sequential"
  Faults = {"commit", "statement"}
  LateWrites = FALSE
  MaxWrites = 1
  MaxCalls = 2
  MaxCloses = 0
INVARIANTS
  LockIsOwned
  AtomicOutcome
  TopHooksAreDurable
PROPERTIES
  EveryCallEnds
CHECK_DEADLOCK FALSE
