SPECIFICATION DisplaySpec
CONSTANTS
  MaxLevels = 3
  FadeDuration = 3
  FrameTimes = {1, 3}
  TexturePaths <- MCTexturePaths
  DefaultTexture = "default"
  Background = "background"
  FileNumbers <- MCFileNumbers
  LoadFaults = {"unreadable"}
  FixedStep = 2
  MaxBacklog = 7
  DoorFrameTime = 2
  AudioFaults = FALSE
  LogicalSize <- MCLogicalSize
  FullscreenModes <- MCFullscreenModes
  CommonModes <- MCCommonModes
INVARIANT TypeOK
INVARIANT TransitionCoupling
INVARIANT WorldIsCurrentLevel
INVARIANT MusicMatchesScreen
INVARIANT DoorFlagsAgree
INVARIANT WonOnLastLevel
INVARIANT BackdropOfLevel
PROPERTY LevelsInOrder
PROPERTY ImplementsManager
PROPERTY TransitionLeadsToPlay
PROPERTY DoorLeadsOn
