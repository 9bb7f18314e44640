SPECIFICATION FairSpecOrdered
CONSTANTS
  BufferSize = 2
  MaxSequence = 3
  NumSlots = 2
  WordSize = 1
  InUse <- MCInUse
  Leavers <- MCLeavers
  MaxLate <- MCLate
INVARIANTS PipelineInv StageOrder NoLap UpstreamNotBehind
PROPERTIES GateMonotone LeafCatchesUp
