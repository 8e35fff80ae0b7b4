CONSTANTS
    n1 = n1  n2 = n2  n3 = n3  s1 = s1  s2 = s2
    Nodes = {n1, n2, n3}
    Replicas = {n2, n3}
    Streams = {s1, s2}
    Writers <- EachStreamOneWriter
    MaxId = 2
    MaxIdOf <- MaxIdOfEach
    MaxPullFaults = 2
    None = None
    Databases = {1, 2}
    MaxSchema = 2
    MaxFaults = 2
SPECIFICATION Spec
INVARIANTS
  
  CursorsSkipNothing
  PlanIsWalked

  
  
