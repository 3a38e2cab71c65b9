SPECIFICATION Spec
CONSTANTS
  Keys = {1, 2, 3}
  Null = 0
  Ids = {11, 12}
  LinkIds = {21, 22}
  Relations <- AllRelations
  Databases <- SomeDatabases
  ParentSets <- SomeParents
  KEY_CHUNK_SIZE = 2
  MaxWrites = 2
INVARIANTS
  NothingInvented
  StableRowsAreLoaded
PROPERTIES
  OnlyDependentsTouched
  DependentsAreGone
CHECK_DEADLOCK FALSE
