SPECIFICATION Spec
CONSTANTS
  MaxLevels = 3
  FadeDuration = 3
  FrameTimes = {1, 3}
  TexturePaths <- MCTexturePaths
  DefaultTexture = "default"
  Background = "background"
  FileNumbers <- MCFileNumbers
  LoadFaults = {"unreadable", "noPlatforms"}
  FixedStep = 2
  MaxBacklog = 7
  DoorFrameTime = 2
  AudioFaults = TRUE
INVARIANT TransitionCoupling
INVARIANT WorldIsCurrentLevel
INVARIANT TilesHaveTextures
INVARIANT NeverBothTracks
