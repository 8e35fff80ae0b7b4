SPECIFICATION Spec
CONSTANTS
    Values = {1, 2}
    FoldedForm <- MCFoldedForm
    RowBudget = 2
    MaxRowRecords = 3
    MaxGroups = 1
    MaxQueries = 2
    MaxRestarts = 1
CONSTRAINT FirstRowIsSmaller
INVARIANTS
  
  CachesAreExact
CHECK_DEADLOCK FALSE
