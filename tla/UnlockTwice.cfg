SPECIFICATION Spec
CONSTANTS
  Clients = {c1, c2}
  Mortal = {}
  Pids = {p1}
  Nobody = nobody
  MaxBirths = 1
  MaxFiles = 1
  MaxVersions = 1
  MaxResidues = 0
  MaxRuns = 2
SYMMETRY Symmetry
PROPERTY
  OneSigtermPerOwner
CHECK_DEADLOCK FALSE
