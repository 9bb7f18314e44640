SPECIFICATION SpecQuiet
CONSTANTS
  BufferSize = 4
  BatchSizes = {3}
  Modes = {"block", "remaining"}
  MaxSequence = 5
  NumSlots = 2
  WordSize = 2
  Leavers = {1}
  MaxLate = 1
INVARIANTS IInv NoDataRace RemainingExact NoOverrun
PROPERTIES ImplementsBroadcast GateMonotone
