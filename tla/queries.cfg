SPECIFICATION Spec
CONSTANTS
  AllRows <- FourRows
  Tests <- SomeTests
  Orders <- SomeOrders
  Counts <- SomeCounts
  Pages <- SomePages
  MaxPerPage = 2
  MaxChain = 3
  MaxGroups = 1
  MaxWrites = 1
INVARIANTS
  CompiledAsAsked
  ScopeHolds
  PagesPartition
PROPERTIES
  RunnersKeepTheBuilder
CHECK_DEADLOCK FALSE
