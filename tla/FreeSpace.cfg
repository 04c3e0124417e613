SPECIFICATION Spec
CONSTANTS
  t1 = t1
  t2 = t2
  t3 = t3
  Threads <- MCThreads
  MaxIdx = 0
  SupSpace = 15
  Reserve = 2
  MaxFree = 1
  MaxItems = 5
  None = None
SYMMETRY Symmetry
INVARIANTS TypeOK NeverPopsEmpty ListsBounded LocksGuard 
CHECK_DEADLOCK FALSE
