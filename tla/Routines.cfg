SPECIFICATION Spec
CONSTANTS
  Programs <- MCPrograms
  MaxIterations = 2
  MaxRows = 1
  MaxScopes = 5
  MaxCalls = 2
  MaxWords = 4
INVARIANTS
  ControlFollowsScopes
  TemporaryTablesAreOwned
  
PROPERTIES
  CallReturns
