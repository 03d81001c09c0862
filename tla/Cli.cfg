SPECIFICATION CliFairSpec
CONSTANTS
  Threads = 5
  Concurrency = 3
  MaximumBytes = 2
  BodyBytes = 3
  Parts = 100
  Launches <- MCLaunches
  Numbers <- MCNumbers
  ThreadIds <- MCThreadIds
  Dashed <- MCDashed
INVARIANTS
  CliTypeOK
  Complete
  OneVerdict
  AdvisoryKeepsToPolicy
  VersionIsVouched
PROPERTIES
  Exits
CHECK_DEADLOCK FALSE
