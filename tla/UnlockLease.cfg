SPECIFICATION Spec
CONSTANTS
  a = a  b = b  home = home  alias = alias  thread = thread
  d1 = d1  d2 = d2  f1 = f1  f2 = f2  none = none  noone = noone
  Clients = {a, b}
  Homes = {home, alias}
  Resolves <- MCResolves
  Threads = {thread}
  DirInodes = {d1, d2}
  FileInodes = {f1, f2}
  NoInode = none
  NoOne = noone
  TamperBound = 2
SYMMETRY Symmetry
INVARIANTS
  TypeOK
  LeaseExclusion
  NothingLeftBehind
CHECK_DEADLOCK FALSE
