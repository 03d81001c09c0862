SPECIFICATION Spec
CONSTANTS
  Processes = {p, q}
  NoProcess = none
  MaxRuns = 3
  MaxClock = 2
  MaxMishaps = 1
  TTL = 1
  Skew = 0
INVARIANTS
  CacheIsDurable
PROPERTIES
  NeverOlder
  AnswerIsRecent
CHECK_DEADLOCK FALSE
