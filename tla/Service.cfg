CONSTANTS
  Handlers = {h1, h2}
  Tables = {t1}
  Databases = {d1, d2}
  Users = {u1}
  Objects = {o1}
  Connections = {c1, c2}
  Passwords = {p0, p1}
  DefaultPassword = p0
  Whole = whole
  MaxRecords = 3
  Nodes = {n1, n2}
  Hosts = {lo, p1, p2}
  Loopback = lo
  LoopbackHosts = {lo}
  Ports = {1, 2}
  BootstrapAddress <- MCBootstrapAddress
  BootstrapId = boot
  NoPeer = nobody
SPECIFICATION Spec
SYMMETRY Symmetry
INVARIANTS
  DeadlocksAreKnown
  AccountsSurviveRestart
  RevokedIsDenied
  RoutesAreKnown
CHECK_DEADLOCK FALSE
