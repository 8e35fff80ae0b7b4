SPECIFICATION Spec
CONSTANTS
    Sessions = {s1, s2}
    RemoteOwners = {}
    TableIds = {t1, t2}
    NoOwner = NoOwner
    NoSnapshot = NoSnapshot
    QueryKinds = {"Insert", "Update"}
    MaxStaged = 1
    MaxSessions = 1
    Ttl = 5
    MaxClock = 6
    MaxImports = 0
    Tables = {g1, g2}
    InsertValues = {1}
    UpdateValues = {2}
    RowCap = 2
    MaxBatch = 2
    MaxStatements = 4
    MaxFailures = 2
    None = None
SYMMETRY TableSymmetry
INVARIANTS
  LocksEndWithTransaction
  SnapshotLimit
  MarkersDecide
  AnswerIsTruthful
  AllReadersAgree
PROPERTIES
  CommitsAreCurrent
CHECK_DEADLOCK FALSE
