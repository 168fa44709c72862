SPECIFICATION FairSpec
CONSTANTS
  Platforms <- MCLevel
  Interactions <- MCInteractions
  Depths <- MCDepths
  Step = 2
  FallDelay = 3
  Cycle = 7
  HiddenSpan = 3
INVARIANT TypeOK
INVARIANT StandsOnSomething
INVARIANT FallenIsGone
INVARIANT SeenIsThere
INVARIANT GroupsAlternate
INVARIANT ArrivesOnMap
PROPERTY WallsMoveBySwitch
PROPERTY FallCompletes
PROPERTY VanishedComesBack
