SPECIFICATION Spec
CONSTANTS
  Clients = {c1}
  Mortal = {}
  Pids = {p1, p2}
  Nobody = nobody
  MaxBirths = 3
  MaxFiles = 2
  MaxVersions = 1
  MaxResidues = 2
  MaxRuns = 1
SYMMETRY Symmetry
PROPERTIES
  IdentityAtSignal
  
  LockSetAtSignal
CHECK_DEADLOCK FALSE
