SPECIFICATION Spec
CONSTANTS
  MaxLevels = 2
  FadeDuration = 1
  FrameTimes = {1, 3}
  TexturePaths <- MCTexturePaths
  DefaultTexture = "default"
  Background = "background"
  FileNumbers <- MCFileNumbers
  LoadFaults = {}
  FixedStep = 2
  MaxBacklog = 7
  DoorFrameTime = 1
  AudioFaults = FALSE
INVARIANT ConsistentRate
