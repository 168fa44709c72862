SPECIFICATION ManagerSpec
CONSTANTS
  MaxLevels = 3
  FadeDuration = 3
  FrameTimes = {1, 2}
  TexturePaths <- MCTexturePaths
  DefaultTexture = "default"
  Background = "background"
  FileNumbers <- MCFileNumbers
  LoadFaults = {"texture"}
INVARIANT FailedTextureHasDefault
