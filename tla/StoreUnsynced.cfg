SPECIFICATION Spec
CONSTANTS
  s1 = s1
  s2 = s2
  e1 = e1
  e2 = e2
  e3 = e3
  StreamIds = {s1}
  EventIds = {e1, e2, e3}
  Proposals <- MCProposals
  MaxExact = 0
  MaxAppends = 2
  MaxCrashes = 1
  Faults = {"unsynced"}
INVARIANT PositionIsIndex
