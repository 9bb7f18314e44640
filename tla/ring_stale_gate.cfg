SPECIFICATION FairSpec
CONSTANTS
  BufferSize = 2
  BatchSizes = {}
  Modes = {"block", "try", "remaining"}
  MaxSequence = 3
  NumSlots = 2
  WordSize = 1
  Leavers = {0, 1}
  MaxLate = 0
PROPERTY WriterUnblocked
