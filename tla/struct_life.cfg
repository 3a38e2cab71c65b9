SPECIFICATION Spec
CONSTANTS
  Settings <- AllSettings
INVARIANTS
  AcceptedIsReadable
  MeaningKept
  EditsAreSeen
  CheckedRowsAreAccepted
  RegeneratedAccepts
  CommandsEndCleanly
