SPECIFICATION Spec
CONSTANTS
  s1 = s1
  s2 = s2
  e1 = e1
  e2 = e2
  e3 = e3
  StreamIds = {s1, s2}
  EventIds = {e1, e2, e3}
  Proposals <- MCMixedProposals
  MaxExact = 1
  MaxAppends = 2
  MaxCrashes = 2
  Faults = {"torn", "unsynced", "rot"}
INVARIANTS
  IndInv
  DoubtInv
  GlobalDense
  AckedSurvive
  BatchAtomic
  CrashNeverCorrupts
PROPERTIES
  CallsEnd
  ImplementsLog
