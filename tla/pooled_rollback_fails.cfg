SPECIFICATION Spec
CONSTANTS
  Flows = {1, 2, 3}
  NoFlow = 0
  Conns = {1, 2}
  NoConn = 0
  Settings <- RefusedRollback
  MaxWrites = 1
  MaxCalls = 0
INVARIANTS
  CleanConnections
