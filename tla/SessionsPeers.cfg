SPECIFICATION SessionSpec
CONSTANTS
  Sessions = {s1, s2}
  RemoteOwners = {r1}
  TableIds = {t1, t2}
  NoOwner = NoOwner
  NoSnapshot = NoSnapshot
  QueryKinds = {"Insert", "Update"}
  MaxStaged = 1
  MaxSessions = 1
  Ttl = 0
  MaxClock = 4
  MaxImports = 1
PROPERTY
  ImplementsTableLocks
  SnapshotIsStable
CHECK_DEADLOCK FALSE
