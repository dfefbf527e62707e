SPECIFICATION FairSpec
CONSTANTS
  LIVE_TAIL_CAPACITY = 2
  READ_PAGE_SIZE = 2
  ChannelCapacity = 1
  Flags <- MCFlags
  Heights = {0, 1, 2, 3}
  Logs <- MCLogs
  MaxKeys = 4
INVARIANTS ViewsSound LiveTailFaithful TerminalRestored
PROPERTIES SelectsShown LoadsEnd EventsArrive
