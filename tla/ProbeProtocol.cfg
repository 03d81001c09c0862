SPECIFICATION LiveSpec
CONSTANTS
  Probers = {p1, p2}
  SignalBoundary = {p2}
  Writers = {w1, w2}
  Parents = {dir}
  GuardInodes = {g1}
  ThreadInodes = {t1, t2}
  OddInodes = {}
  NoInode = none
  NoOne = noone
  RetryTicks = 1
  TamperBound = 0
  ProbersMayDie = FALSE
INVARIANTS
  TypeOK
PROPERTIES
  FreeIsTrue
  ServiceSpec
  ProbeReturns
CHECK_DEADLOCK FALSE
