SPECIFICATION Spec
CHECK_DEADLOCK FALSE
CONSTANTS
  s1 = s1
  s2 = s2
  all = all
  c1 = c1
  StreamIds = {s1, s2}
  AllStreams = all
  Clients = {c1}
  CatchupBatchSize = 2
  RingCapacity = 2
  MaxBatch = 2
  MaxEvents = 4
  MaxFrom = 1
  MaxSubscribes = 3
  MaxRestarts = 1
INVARIANTS
  SubInv
  BeginsAtFrom
  CaughtUpIsTrue
  Gapless
  NothingLost
PROPERTIES
  EventuallySent
