SPECIFICATION Spec
CONSTANTS
  Probers = {p1, p2}
  SignalBoundary = {p2}
  Writers = {w1}
  Parents = {dir1, dir2}
  GuardInodes = {g1, g2}
  ThreadInodes = {t1, link}
  OddInodes = {link}
  NoInode = none
  NoOne = noone
  RetryTicks = 1
  TamperBound = 1
  ProbersMayDie = TRUE
SYMMETRY Symmetry
INVARIANTS
  NoInducedWouldBlock
  HeldMeansWriter
  NothingRetained
  GuardBeforeThread
CHECK_DEADLOCK FALSE
