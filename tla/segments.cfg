SPECIFICATION Spec
CONSTANTS
  Width = 5
  Stages = 2
  UsedSize = 4
  BitAnd <- MachineAnd
  Sizes <- Powers
  LastSequence <- MaxInt
INVARIANTS RoundsUp MinimumIsLeast FillsWholeClaim YieldsInOrder
CHECK_DEADLOCK FALSE
