SPECIFICATION Spec
CONSTANTS
  Flows = {f1, f2, f3}
  NoFlow = NoFlow
  Roles = {"callback", "manual", "plain"}
  Nesting = "concurrent"
  Faults = {"begin", "commit", "statement"}
  LateWrites = FALSE
  MaxWrites = 2
  MaxCalls = 1
  MaxCloses = 1
SYMMETRY FlowSymmetry
INVARIANTS
  MutualExclusion
  NoLostWakeup
  Isolation
  HooksInOrder
PROPERTIES
  FIFO
  ImplementsStore
CHECK_DEADLOCK FALSE
