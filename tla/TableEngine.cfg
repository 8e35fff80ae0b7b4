CONSTANTS
  PageSize = 2
  Fold <- MCFold
  Keys = {1, 11, 2}
  MaxHead = 4
  ChunkLimit = 1
  MaxFaults = 2
  FieldValues = {1, 2}
  StatementRows = 2
  BlockRows = 1
  MaxRecords = 4
  MaxTableFaults = 1
SPECIFICATION Spec
INVARIANTS
  IndexIsExact
  
  InsertMatchesReference

  
CHECK_DEADLOCK FALSE
