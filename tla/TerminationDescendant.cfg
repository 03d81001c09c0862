SPECIFICATION Spec
CONSTANTS
  Owner = owner
  Known = {d1}
  Late = {d2}
  Successor = successor
  Nobody = nobody
  MaxAppends = 2
INVARIANTS
  ReleasedIfVerificationFailed
CHECK_DEADLOCK FALSE
