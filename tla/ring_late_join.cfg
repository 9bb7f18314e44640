SPECIFICATION Spec
CONSTANTS
  BufferSize = 2
  BatchSizes = {}
  Modes = {"block", "try", "remaining"}
  MaxSequence = 4
  NumSlots = 1
  WordSize = 1
  Leavers = {}
  MaxLate = 0
INVARIANT GetSegmentsContract
