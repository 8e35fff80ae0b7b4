CONSTANTS
  Names = {n1, n2}
  Columns = {"a", "b"}
  Key = "a"
  MaxStatements = 4
  MaxSqlObjects = 1
  MaxFailures = 1
  MaxCrashes = 1
  ColumnNames = {"a", "b", "c"}
  MaxOperations = 2
  MaxChanges = 3
  MaxStoredRows = 2
  MaxMigrationFaults = 1
SPECIFICATION Spec
SYMMETRY MCSymmetry
CONSTRAINT Covered
INVARIANTS
  
  LockEndsWithTheStatement
  RowsSurviveAlter
CHECK_DEADLOCK FALSE
