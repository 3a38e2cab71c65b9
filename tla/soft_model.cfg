SPECIFICATION Spec
CONSTANTS
  Flows = {f1, f2}
  Instances = {i1, i2}
  Ids = {1, 2}
  Fields = {"name", "age"}
  MaxValue = 2
  MaxStamp = 2
  MaxOps = 6
SYMMETRY SoftModelSymmetry
INVARIANTS
  EachChangeIsTold
  MemoryStampIsReal
PROPERTIES
  StampStands
  SavesTouchOnlyEdits
CHECK_DEADLOCK FALSE
