SPECIFICATION Spec
CONSTANTS
  Tolerance = 3
  Bias = 1
  Level <- MCUpturned
  Start <- MCUpturnedStart
  Size <- MCSize
  KeySets <- MCKeySets
  Cycle = 2
  Gravity = 2
  MaxFall = 6
  JumpSpeed = 4
  SpringSpeed = 6
  MoveSpeed = 2
  HoldUpdates = 2
  DeathLine = 22
INVARIANT FourWay
