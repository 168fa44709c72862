SPECIFICATION ManagerFairSpec
CONSTANTS
  MaxLevels = 3
  FadeDuration = 3
  FrameTimes = {1, 2}
  TexturePaths <- MCTexturePaths
  DefaultTexture = "default"
  Background = "background"
  FileNumbers <- MCFileNumbers
  LoadFaults = {"image", "unreadable", "noPlatforms"}
INVARIANT ManagerTypeOK
INVARIANT HeldWhileNeeded
INVARIANT IndexInList
INVARIANT TexturesResolve
PROPERTY DataChangesUnderCover
PROPERTY ImplementsLoader
PROPERTY ImplementsFairLoader
