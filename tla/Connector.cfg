CONSTANTS
  Files <- MCFiles
  BatchSize = 2
  RetryLimit = 2
  MaxConns = 3
  MaxFaults = 2
  Catalogs = {c1, c2}
  Clients = {s1, s2}
  NoCatalog = none
  MaxCatalogWorkers = 1
  MaxRoutes = 2
  QueueCapacity = 1
  MaxWorkers = 4
SPECIFICATION Spec
INVARIANTS
  AnswerIsForTheRequest
  ReplayedImportIsExact
  BufferMirrorsServer
  
PROPERTIES
  NeitherEndHangs
  RequestsAreAnswered
CHECK_DEADLOCK FALSE
