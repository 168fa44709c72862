SPECIFICATION Spec
CONSTANTS
  Tolerance = 3
  Bias = 1
  Level <- MCInFloor
  Start <- MCInFloorStart
  Size <- MCInFloorSize
  KeySets <- MCKeySets
  Cycle = 2
  Gravity = 1
  MaxFall = 6
  JumpSpeed = 4
  SpringSpeed = 6
  MoveSpeed = 2
  HoldUpdates = 2
  DeathLine = 22
PROPERTY SmallCorrection
