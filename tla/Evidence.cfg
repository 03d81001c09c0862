SPECIFICATION SourcesSpec
CONSTANTS
  Leader = leader
  Helpers = {h1, h2}
  Limit = 1
  Written = 2
  MaxArguments = 3
  MaxOpens = 2
  Pids = 4
  FileLength = 5
  ReadChunkBytes = 2
  MaxLastRecord = 4
  MaxChanges = 2
INVARIANTS
  SourcesTypeOK
  CleanIsWhole
  NoServicePasses
  
  StableIsLast
PROPERTIES
  FirstFailureKept
  CommandSettles
CHECK_DEADLOCK FALSE
