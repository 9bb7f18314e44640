SPECIFICATION FairSpec
CONSTANTS
  a = a
  b = b
  Readers <- MCReaders
  Scenarios <- MCScenarios
  Capacity = 4
  BurstSize = 3
  MaxSequence = 6
  MaxDropped = 1
INVARIANTS ReadIntact StampSurvives PairsOneEvent MergeComplete LatencyInv
PROPERTIES RunFinishes OverBroadcast
CHECK_DEADLOCK FALSE
