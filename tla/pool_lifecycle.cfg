SPECIFICATION CallsSpec
CONSTANTS
  Readers = {r1, r2}
  None = None
  NumSlots = 2
  WordSize = 1
  Quitters = {r1}
  Thresholds = {2}
INVARIANTS PoolInv AtMostOneGoroutine TenantIsolation RemoveReachesReader
INVARIANTS NothingRunsAfterShutdown ReaderGatesWriter NoGhostBit OnlyRemovedCancelled CallsInv
PROPERTIES AddedReaderStarts ShutdownReturns IdleGoroutineLeaves
CHECK_DEADLOCK FALSE
