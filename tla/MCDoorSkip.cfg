SPECIFICATION Spec
CONSTANTS
  MaxLevels = 2
  FadeDuration = 1
  FrameTimes = {2}
  TexturePaths <- MCTexturePaths
  DefaultTexture = "default"
  Background = "background"
  FileNumbers <- MCFileNumbers
  LoadFaults = {}
  FixedStep = 2
  MaxBacklog = 7
  DoorFrameTime = 1
  AudioFaults = FALSE
PROPERTY LevelsAreEarned
