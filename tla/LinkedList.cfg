SPECIFICATION Spec
CONSTANTS
  Node = {n1, n2, n3, n4}
  NULL = NULL
  Adders = {a1, a2}
INVARIANT TypeOK
INVARIANT ChainIsQueue
INVARIANT LengthNotAhead
INVARIANT HoldsItsNode
INVARIANT AllocatedInUse
CHECK_DEADLOCK FALSE
