SPECIFICATION Spec
CONSTANTS
  LIVE_TAIL_CAPACITY = 2
  READ_PAGE_SIZE = 2
  ChannelCapacity = 1
  Flags <- MCPlainFlags
  Heights = {0, 1, 2, 3}
  Logs <- MCLogs
  MaxKeys = 4
INVARIANT StreamErrorReported
