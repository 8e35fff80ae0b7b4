SPECIFICATION GroupsSpec
CONSTANTS
    Tables = {t1, t2}
    InsertValues = {1}
    UpdateValues = {2}
    RowCap = 2
    MaxBatch = 2
    MaxStatements = 2
    MaxFailures = 0
    None = None
INVARIANTS
    CommitIsOneDurableChange
CHECK_DEADLOCK FALSE
