SPECIFICATION SerialSpec
CONSTANTS
  Readers = {r1, r2}
  None = None
  NumSlots = 1
  WordSize = 1
  Quitters = {r1, r2}
  Thresholds = {0}
INVARIANT FreeSlotsUngated
CHECK_DEADLOCK FALSE
