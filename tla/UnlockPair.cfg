SPECIFICATION Spec
CONSTANTS
  Clients = {c1, c2}
  Mortal = {c1, c2}
  Pids = {p1}
  Nobody = nobody
  MaxBirths = 2
  MaxFiles = 1
  MaxVersions = 2
  MaxResidues = 0
  MaxRuns = 2
SYMMETRY Symmetry
INVARIANTS
  TypeOK
PROPERTIES
  TranscriptAtSignal
  OneSignalInFlight
CHECK_DEADLOCK FALSE
