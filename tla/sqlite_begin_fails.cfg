SPECIFICATION Spec
CONSTANTS
  Flows = {f1, f2}
  NoFlow = NoFlow
  Roles = {"callback"}
  Nesting = "sequential"
  Faults = {"begin"}
  LateWrites = FALSE
  MaxWrites = 1
  MaxCalls = 0
  MaxCloses = 0
INVARIANTS
  LockIsOwned
