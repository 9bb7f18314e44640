SPECIFICATION SerialSpec
CONSTANTS
  Readers = {r1, r2}
  None = None
  NumSlots = 1
  WordSize = 1
  Quitters = {}
  Thresholds = {0}
PROPERTY StopsOnlyWhenFree
CHECK_DEADLOCK FALSE
