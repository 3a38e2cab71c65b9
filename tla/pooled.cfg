SPECIFICATION Spec
CONSTANTS
  Flows = {1, 2, 3, 4}
  NoFlow = 0
  Conns = {1, 2}
  NoConn = 0
  Settings <- AllUses
  MaxWrites = 1
  MaxCalls = 2
INVARIANTS
  ExclusiveConnection
  NoConnectionLost
  Isolation
  AtomicOutcome
  HooksAreDurable
PROPERTIES
  EveryCallEnds
CHECK_DEADLOCK FALSE
