SPECIFICATION Spec
CONSTANTS
  Base = 5
  Width <- MCWidth
  MAX_EVENT_TYPE_LEN = 3
  MAX_EVENT_SIZE = 20
  Proposals <- MCProposals
  MaxAppends = 2
  MaxMishaps = 1
INVARIANTS
  IndexIsFile
  NothingInvented
PROPERTIES
  CrashRecovers
  ReservationBounded
