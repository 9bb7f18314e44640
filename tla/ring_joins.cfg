SPECIFICATION FairJoinsSpec
CONSTANTS
  BufferSize = 2
  BatchSizes = {1}
  Modes = {"block", "try"}
  MaxSequence = 2
  NumSlots = 2
  WordSize = 1
  Leavers = {1}
  MaxLate = 1
INVARIANTS JoinsInv NotLapped
PROPERTIES WriterUnblocked ReaderCatchesUp JoinsBroadcast
