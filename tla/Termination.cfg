SPECIFICATION FairSpec
CONSTANTS
  Owner = owner
  Known = {d1}
  Late = {d2}
  Successor = successor
  Nobody = nobody
  MaxAppends = 1

  
PROPERTIES
  Returns
CHECK_DEADLOCK FALSE
