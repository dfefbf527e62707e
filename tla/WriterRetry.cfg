SPECIFICATION Spec
CHECK_DEADLOCK FALSE
CONSTANTS
  s1 = s1
  e1 = e1
  e2 = e2
  e3 = e3
  e4 = e4
  e5 = e5
  StreamIds = {s1}
  EventIds = {e1, e2, e3, e4, e5}
  Requests <- MCRequests
  Capacity = 1
  DedupCapacity = 5
  MaxCalls = 3
  MaxStarts = 2
INVARIANTS
  RetryGetsOriginal
