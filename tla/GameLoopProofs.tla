--------------------------- MODULE GameLoopProofs ---------------------------
(***************************************************************************)
(* Proofs about GameLoop.tla.  The loop implements the manager's           *)
(* specification, so the manager's invariant holds in the game; on top of  *)
(* it come the coupling of screens and transitions, the door, the music    *)
(* and the world.                                                          *)
(***************************************************************************)
EXTENDS GameLoop, LevelManagerProofs

\* The ways a step of the game touches the manager.
LEMMA ManagerStep ==
  ASSUME [Next]_vars
  PROVE  \/ UNCHANGED managerVars
         \/ SkipLevel \/ StartFirstLevel \/ RespawnLevel \/ RetryLevel \/ AbandonGame
         \/ EndPoll \/ TransitionGoesOn \/ TransitionEnds \/ EnterNextLevel
<1>1. CASE UNCHANGED vars
  BY <1>1 DEF vars
<1>2. CASE Event
  BY <1>2 DEF Event, CloseWindow, SkipToCredits, OpenMenuPage, BackToMenu, LeaveLevel, PressInteract
<1>3. CASE LoopStep
  BY <1>3 DEF LoopStep, LeaveLoop, PlainUpdate, HitTrap, ReachGoal, FallToDeath, FixedUpdate,
     FixedUpdatesDone, DrawScreen, DrawDoor, NextDoorFrame, WinGame, CrashOnDoor
<1>4. CASE Terminated
  BY <1>4 DEF Terminated, vars
<1> QED BY <1>1, <1>2, <1>3, <1>4 DEF Next

LEMMA StepImplementsManager == [Next]_vars => [ManagerNext]_managerVars
<1> SUFFICES ASSUME [Next]_vars PROVE [ManagerNext]_managerVars
  OBVIOUS
<1>1. CASE SkipLevel \/ EnterNextLevel
  BY <1>1 DEF SkipLevel, EnterNextLevel, ManagerNext, ManagerRequest
<1>2. CASE StartFirstLevel \/ RespawnLevel \/ RetryLevel \/ AbandonGame
  BY <1>2 DEF StartFirstLevel, RespawnLevel, RetryLevel, AbandonGame, ManagerNext, ManagerRequest
<1>3. CASE EndPoll
  BY <1>3 DEF EndPoll, ManagerNext
<1>4. CASE TransitionGoesOn \/ TransitionEnds
  BY <1>4 DEF TransitionGoesOn, TransitionEnds, ManagerNext
<1> QED BY <1>1, <1>2, <1>3, <1>4, ManagerStep

\* Everything the game does to the level manager is something its
\* specification allows, so what is proved of the manager holds in the game.
THEOREM GameImplementsManager == Spec => ImplementsManager
<1>1. Init => ManagerInit
  BY DEF Init
<1> QED BY <1>1, StepImplementsManager, PTL DEF Spec, ManagerSpec, ImplementsManager

\* The manager's inductive invariant, in the game.
THEOREM ManagerInvInGame == Spec => []ManagerInv
  BY GameImplementsManager, ManagerInvariant, PTL DEF ImplementsManager

-----------------------------------------------------------------------------
(***************************************************************************)
(* Screens and transitions.                                                *)
(***************************************************************************)
LEMMA CouplingStep ==
  ASSUME TransitionCoupling, [Next]_vars
  PROVE  TransitionCoupling'
<1> USE DEF TransitionCoupling, isTransitioning
<1>1. CASE UNCHANGED vars
  BY <1>1 DEF vars, gameVars, frameVars, managerVars
<1>2. CASE Event
  <2>1. CASE SkipLevel \/ RespawnLevel \/ RetryLevel \/ StartFirstLevel
    BY <2>1 DEF SkipLevel, RespawnLevel, RetryLevel, StartFirstLevel, RequestLoadNextLevel,
       RequestRespawnCurrentLevel, RequestFirstLevel, RequestLoadLevel, BeginFadeOut,
       EventIn, GoTo
  <2>2. CASE SkipToCredits \/ OpenMenuPage \/ BackToMenu \/ LeaveLevel
    BY <2>2 DEF SkipToCredits, OpenMenuPage, BackToMenu, LeaveLevel, EventIn, GoTo, managerVars
  <2>3. CASE CloseWindow \/ PressInteract
    BY <2>3 DEF CloseWindow, PressInteract, EventIn, managerVars
  <2>4. CASE AbandonGame
    BY <2>4 DEF AbandonGame, EventIn, GoTo, GameOvers, ResetCurrentLevelNumber
  <2> QED BY <1>2, <2>1, <2>2, <2>3, <2>4 DEF Event
<1>3. CASE LoopStep
  <2>1. CASE EndPoll
    BY <2>1 DEF EndPoll, UpdatePhase, Tick
  <2>2. CASE LeaveLoop \/ PlainUpdate \/ ReachGoal \/ FixedUpdatesDone
    BY <2>2 DEF LeaveLoop, PlainUpdate, ReachGoal, FixedUpdatesDone, FixedUpdate, managerVars
  <2>3. CASE HitTrap \/ FallToDeath
    BY <2>3 DEF HitTrap, FallToDeath, FixedUpdate, Die, managerVars
  <2>4. CASE TransitionGoesOn
    BY <2>4 DEF TransitionGoesOn
  <2>5. CASE TransitionEnds
    BY <2>5 DEF TransitionEnds, SetupLevelAssets
  <2>6. CASE DrawScreen \/ DrawDoor \/ NextDoorFrame \/ CrashOnDoor
    BY <2>6 DEF DrawScreen, DrawDoor, NextDoorFrame, CrashOnDoor, Draw, managerVars
  <2>7. CASE EnterNextLevel
    BY <2>7 DEF EnterNextLevel, DoorOpens, Draw, RequestLoadNextLevel, RequestLoadLevel, BeginFadeOut
  <2>8. CASE WinGame
    BY <2>8 DEF WinGame, DoorOpens, DoorOnScreen, Draw, managerVars
  <2> QED BY <1>3, <2>1, <2>2, <2>3, <2>4, <2>5, <2>6, <2>7, <2>8 DEF LoopStep
<1>4. CASE Terminated
  BY <1>1, <1>4 DEF Terminated
<1> QED BY <1>1, <1>2, <1>3, <1>4 DEF Next

\* The screen says TRANSITIONING exactly while the manager is at work: the
\* else branches of every request in main.cpp that blame a transition under
\* way are dead code.
THEOREM CouplingHolds == Spec => []TransitionCoupling
<1>1. Init => TransitionCoupling
  BY DEF Init, ManagerInit, TransitionCoupling, isTransitioning
<1>2. TransitionCoupling /\ [Next]_vars => TransitionCoupling'
  BY CouplingStep
<1> QED BY <1>1, <1>2, PTL DEF Spec

-----------------------------------------------------------------------------
(***************************************************************************)
(* Music.                                                                  *)
(***************************************************************************)
LEMMA MusicStep ==
  ASSUME [Next]_vars
  PROVE  \/ UNCHANGED musicVars
         \/ PlayGameMusic
         \/ PlayMenuMusic
         \/ PauseForMenuMusic
         \/ menuMusic' = Stopped(menuMusic) /\ gameMusic' = Stopped(gameMusic)
<1>1. CASE UNCHANGED vars
  BY <1>1 DEF vars, gameVars
<1>2. CASE Event
  BY <1>2 DEF Event, CloseWindow, SkipLevel, SkipToCredits, StartFirstLevel, OpenMenuPage,
     BackToMenu, LeaveLevel, RespawnLevel, PressInteract, RetryLevel, AbandonGame
<1>3. CASE LoopStep
  BY <1>3 DEF LoopStep, EndPoll, LeaveLoop, PlainUpdate, HitTrap, ReachGoal, FallToDeath, Die,
     FixedUpdatesDone, TransitionGoesOn, TransitionEnds, DrawScreen, DrawDoor, NextDoorFrame,
     EnterNextLevel, WinGame, CrashOnDoor
<1>4. CASE Terminated
  BY <1>4 DEF Terminated, vars, gameVars
<1> QED BY <1>1, <1>2, <1>3, <1>4 DEF Next

\* The two tracks never sound together, whichever files fail to open.
THEOREM NeverBoth == Spec => []NeverBothTracks
<1>1. Init => NeverBothTracks
  BY DEF Init, NeverBothTracks
<1>2. NeverBothTracks /\ [Next]_vars => NeverBothTracks'
  <2> SUFFICES ASSUME NeverBothTracks, [Next]_vars PROVE NeverBothTracks'
    OBVIOUS
  <2> QED BY MusicStep DEF NeverBothTracks, musicVars, PlayGameMusic, PlayMenuMusic,
          PauseForMenuMusic, Stopped, Paused
<1> QED BY <1>1, <1>2, PTL DEF Spec

\* Which of the two tracks belongs to the screen: the game's while the level is
\* played or loaded, the menu's everywhere else.
GameScreen == currentState \in {"PLAYING", "TRANSITIONING"}

\* The half of MusicMatchesScreen that no failed file can break: the track of
\* the other screens is silent.
OtherTrackSilent ==
    Alive => IF GameScreen THEN menuMusic # "playing" ELSE gameMusic # "playing"

\* The half that needs both files to open.
OwnTrackSounds ==
    Alive => IF GameScreen THEN gameMusic = "playing" ELSE menuMusic = "playing"

\* A step that starts a track starts the one of the screen it goes to; a step
\* that starts none stays on the same side.
LEMMA MusicFollowsScreen ==
  ASSUME TransitionCoupling, [Next]_vars, Alive'
  PROVE  /\ Alive
         /\ \/ UNCHANGED musicVars /\ (GameScreen' <=> GameScreen)
            \/ PlayGameMusic /\ GameScreen'
            \/ (PlayMenuMusic \/ PauseForMenuMusic) /\ ~GameScreen'
<1> USE DEF GameScreen, Alive
<1>1. CASE UNCHANGED vars
  BY <1>1 DEF vars, gameVars, frameVars
<1>2. CASE Event
  <2>1. CASE CloseWindow \/ PressInteract \/ SkipLevel \/ RespawnLevel
    BY <2>1 DEF CloseWindow, PressInteract, SkipLevel, RespawnLevel, EventIn, GoTo
  <2>2. CASE OpenMenuPage \/ BackToMenu
    BY <2>2 DEF OpenMenuPage, BackToMenu, EventIn, GoTo
  <2>3. CASE StartFirstLevel \/ RetryLevel
    BY <2>3 DEF StartFirstLevel, RetryLevel, EventIn, GoTo
  <2>4. CASE SkipToCredits \/ LeaveLevel \/ AbandonGame
    BY <2>4 DEF SkipToCredits, LeaveLevel, AbandonGame, EventIn, GoTo
  <2> QED BY <1>2, <2>1, <2>2, <2>3, <2>4 DEF Event
<1>3. CASE LoopStep
  <2>1. CASE EndPoll \/ FixedUpdatesDone \/ TransitionGoesOn
    BY <2>1 DEF EndPoll, FixedUpdatesDone, TransitionGoesOn
  <2>2. CASE LeaveLoop \/ CrashOnDoor
    BY <2>2 DEF LeaveLoop, CrashOnDoor
  <2>3. CASE PlainUpdate \/ ReachGoal
    BY <2>3 DEF PlainUpdate, ReachGoal, FixedUpdate
  <2>4. CASE HitTrap \/ FallToDeath
    BY <2>4 DEF HitTrap, FallToDeath, FixedUpdate, Die
  <2>5. CASE TransitionEnds
    BY <2>5 DEF TransitionEnds
  <2>6. CASE DrawScreen \/ DrawDoor \/ NextDoorFrame
    BY <2>6 DEF DrawScreen, DrawDoor, NextDoorFrame, Draw
  <2>7. CASE EnterNextLevel
    BY <2>7 DEF EnterNextLevel, DoorOpens, DoorOnScreen, Draw
  <2>8. CASE WinGame
    BY <2>8 DEF WinGame, DoorOpens, Draw
  <2> QED BY <1>3, <2>1, <2>2, <2>3, <2>4, <2>5, <2>6, <2>7, <2>8 DEF LoopStep
<1>4. CASE Terminated
  BY <1>1, <1>4 DEF Terminated
<1> QED BY <1>1, <1>2, <1>3, <1>4 DEF Next

\* Whatever files fail to open, the menu's track is never heard in a level nor
\* the level's in a menu.
THEOREM NeverTheWrongTrack == Spec => []OtherTrackSilent
<1>1. Init => OtherTrackSilent
  BY DEF Init, OtherTrackSilent, GameScreen
<1>2. TransitionCoupling /\ OtherTrackSilent /\ [Next]_vars => OtherTrackSilent'
  <2> SUFFICES ASSUME TransitionCoupling, OtherTrackSilent, [Next]_vars, Alive'
               PROVE  IF GameScreen' THEN menuMusic' # "playing" ELSE gameMusic' # "playing"
    BY DEF OtherTrackSilent
  <2> QED BY MusicFollowsScreen DEF OtherTrackSilent, musicVars, PlayGameMusic, PlayMenuMusic,
          PauseForMenuMusic, Stopped, Paused
<1> QED BY <1>1, <1>2, CouplingHolds, PTL DEF Spec

\* Where both files open, which track is heard follows from the screen, through
\* every pause, restart, death and failed load.
THEOREM MusicAlwaysMatches ==
  ASSUME AudioFaults = FALSE
  PROVE  Spec => []MusicMatchesScreen
<1>1. Init => OwnTrackSounds
  BY DEF Init, Opened, OwnTrackSounds, GameScreen
<1>2. TransitionCoupling /\ OwnTrackSounds /\ [Next]_vars => OwnTrackSounds'
  <2> SUFFICES ASSUME TransitionCoupling, OwnTrackSounds, [Next]_vars, Alive'
               PROVE  IF GameScreen' THEN gameMusic' = "playing" ELSE menuMusic' = "playing"
    BY DEF OwnTrackSounds
  <2> QED BY MusicFollowsScreen DEF OwnTrackSounds, musicVars, PlayGameMusic, PlayMenuMusic,
          PauseForMenuMusic, Played, Opened
<1>3. OwnTrackSounds /\ OtherTrackSilent => MusicMatchesScreen
  BY DEF OwnTrackSounds, OtherTrackSilent, MusicMatchesScreen, GameScreen
<1> QED BY <1>1, <1>2, <1>3, CouplingHolds, NeverTheWrongTrack, PTL DEF Spec

-----------------------------------------------------------------------------
(***************************************************************************)
(* The door.                                                               *)
(***************************************************************************)
LEMMA DoorStep ==
  ASSUME [Next]_vars
  PROVE  \/ /\ UNCHANGED <<goalReached, doorAnimation, doorFrame>>
            /\ doorTile' = doorTile \/ (doorTile # "null" /\ doorTile' = "dangling")
         \/ ReachGoal
         \/ NextDoorFrame
         \/ DoorOpens
<1>1. CASE UNCHANGED vars
  BY <1>1 DEF vars, gameVars, doorVars
<1>2. CASE Event
  BY <1>2 DEF Event, CloseWindow, SkipLevel, SkipToCredits, StartFirstLevel, OpenMenuPage,
     BackToMenu, LeaveLevel, RespawnLevel, PressInteract, RetryLevel, AbandonGame, EventIn, doorVars
<1>3. CASE TransitionEnds
  BY <1>3 DEF TransitionEnds, SetupLevelAssets
<1>4. CASE LoopStep /\ ~TransitionEnds
  BY <1>4 DEF LoopStep, EndPoll, LeaveLoop, PlainUpdate, HitTrap, FallToDeath, FixedUpdate,
     FixedUpdatesDone, TransitionGoesOn, DrawScreen, DrawDoor, EnterNextLevel, WinGame,
     CrashOnDoor, doorVars
<1>5. CASE Terminated
  BY <1>5 DEF Terminated, vars, gameVars, doorVars
<1> QED BY <1>1, <1>2, <1>3, <1>4, <1>5 DEF Next

\* The flags and the frame index of the door agree, however an animation is
\* cut short; in particular the index stays inside the five frames.
THEOREM DoorFlagsHold == Spec => []DoorFlagsAgree
<1>1. Init => DoorFlagsAgree
  BY DEF Init, DoorFlagsAgree
<1>2. DoorFlagsAgree /\ [Next]_vars => DoorFlagsAgree'
  <2> SUFFICES ASSUME DoorFlagsAgree, [Next]_vars PROVE DoorFlagsAgree'
    OBVIOUS
  <2>1. CASE /\ UNCHANGED <<goalReached, doorAnimation, doorFrame>>
             /\ doorTile' = doorTile \/ (doorTile # "null" /\ doorTile' = "dangling")
    BY <2>1 DEF DoorFlagsAgree
  <2>2. CASE ReachGoal
    BY <2>2 DEF ReachGoal, FixedUpdate, DoorFlagsAgree
  <2>3. CASE NextDoorFrame
    BY <2>3 DEF NextDoorFrame, DoorOnScreen, DoorFlagsAgree
  <2>4. CASE DoorOpens
    BY <2>4 DEF DoorOpens, DoorFlagsAgree
  <2> QED BY <2>1, <2>2, <2>3, <2>4, DoorStep
<1> QED BY <1>1, <1>2, PTL DEF Spec

\* Nothing but the door that opens ends a level whose goal is reached: no key that skips,
\* restarts or leaves it, no death in a later update of the same frame.
Undisturbed == goalReached /\ currentState = "PLAYING" /\ goalReached' => currentState' = "PLAYING"

\* The inductive invariant of such a game: an animation is that of the level on screen.
DoorOfThisLevel == goalReached => doorTile = "tile" /\ currentState = "PLAYING"

LEMMA TileStep ==
  ASSUME DoorFlagsAgree, TransitionCoupling, DoorOfThisLevel, [Next]_vars, goalReached'
  PROVE  doorTile' = "tile"
<1>1. CASE ReachGoal
  BY <1>1 DEF ReachGoal
<1>2. CASE TransitionEnds
  BY <1>2 DEF TransitionEnds, DoorOfThisLevel, TransitionCoupling
<1>3. CASE Event
  BY <1>3 DEF Event, CloseWindow, SkipLevel, SkipToCredits, StartFirstLevel, OpenMenuPage,
     BackToMenu, LeaveLevel, RespawnLevel, PressInteract, RetryLevel, AbandonGame, EventIn,
     doorVars, DoorOfThisLevel
<1>4. CASE LoopStep /\ ~ReachGoal /\ ~TransitionEnds
  BY <1>4 DEF LoopStep, EndPoll, LeaveLoop, PlainUpdate, HitTrap, FallToDeath, FixedUpdate,
     FixedUpdatesDone, TransitionGoesOn, DrawScreen, DrawDoor, NextDoorFrame, EnterNextLevel,
     WinGame, DoorOpens, CrashOnDoor, doorVars, DoorOfThisLevel
<1>5. CASE Terminated \/ UNCHANGED vars
  BY <1>5 DEF Terminated, vars, gameVars, doorVars, DoorOfThisLevel
<1> QED BY <1>1, <1>2, <1>3, <1>4, <1>5 DEF Next

\* Every level that ends at a door ends at its own, and no door is drawn through a pointer
\* to the tiles of an earlier level, unless a level is left between its goal and the end of
\* the animation: that is all there is to the level that ends itself (see Findings).
THEOREM UndisturbedDoorsAreEarned ==
    Spec /\ [][Undisturbed]_vars => LevelsAreEarned /\ [](DoorOnScreen => doorTile = "tile")
<1>1. Init => DoorOfThisLevel
  BY DEF Init, DoorOfThisLevel
<1>2. DoorFlagsAgree /\ TransitionCoupling /\ DoorOfThisLevel /\ [Next]_vars /\ [Undisturbed]_vars
        => DoorOfThisLevel'
  <2> SUFFICES ASSUME DoorFlagsAgree, TransitionCoupling, DoorOfThisLevel, [Next]_vars,
                      [Undisturbed]_vars, goalReached'
               PROVE  doorTile' = "tile" /\ currentState' = "PLAYING"
    BY DEF DoorOfThisLevel
  <2>1. doorTile' = "tile"
    BY TileStep
  <2>2. CASE goalReached
    BY <2>1, <2>2 DEF Undisturbed, DoorOfThisLevel, vars, gameVars
  <2>3. CASE ~goalReached
    <3>1. ReachGoal
      BY <2>3, DoorStep DEF NextDoorFrame, DoorOnScreen, DoorOpens
    <3> QED BY <3>1 DEF ReachGoal, FixedUpdate, TransitionCoupling
  <2> QED BY <2>1, <2>2, <2>3
<1>3. DoorOfThisLevel => (DoorOnScreen => doorTile = "tile")
  BY DEF DoorOfThisLevel, DoorOnScreen
<1> DEFINE Earned == DoorOnScreen /\ ~goalReached' => doorTile = "tile"
<1>4. DoorOfThisLevel /\ [Next]_vars => [Earned]_vars
  BY <1>3
<1>5. Spec /\ [][Undisturbed]_vars => []DoorOfThisLevel
  BY <1>1, <1>2, CouplingHolds, DoorFlagsHold, PTL DEF Spec
<1>6. Spec /\ [][Undisturbed]_vars => [][Earned]_vars
  BY <1>4, <1>5, PTL DEF Spec
<1>7. Spec /\ [][Undisturbed]_vars => [](DoorOnScreen => doorTile = "tile")
  BY <1>3, <1>5, PTL
<1>8. Spec /\ [][Undisturbed]_vars => LevelsAreEarned
  BY <1>6 DEF LevelsAreEarned
<1> QED BY <1>7, <1>8

-----------------------------------------------------------------------------
(***************************************************************************)
(* Level numbers.                                                          *)
(***************************************************************************)

\* Between a request and its delivery the target is the current level or the
\* next one: GameLoop never asks for any other.
TargetIsNear ==
    transitionState # "NONE" =>
        targetLevelNumber \in {currentLevelNumber, currentLevelNumber + 1}

LEMMA NumberStep ==
  ASSUME ManagerInv, TargetIsNear, [Next]_vars
  PROVE  /\ TargetIsNear'
         /\ currentLevelNumber' \in {currentLevelNumber, currentLevelNumber + 1, NoLevel}
<1> USE DEF TargetIsNear, NoLevel
<1>1. CASE UNCHANGED managerVars
  BY <1>1 DEF managerVars, requestVars
<1>2. CASE SkipLevel \/ EnterNextLevel
  BY <1>2 DEF SkipLevel, EnterNextLevel, RequestLoadNextLevel, RequestLoadLevel, BeginFadeOut
<1>3. CASE RespawnLevel \/ RetryLevel
  BY <1>3 DEF RespawnLevel, RetryLevel, RequestRespawnCurrentLevel, RequestLoadLevel, BeginFadeOut
<1>4. CASE StartFirstLevel
  BY <1>4 DEF StartFirstLevel, RequestFirstLevel, BeginFadeOut
<1>5. CASE AbandonGame
  BY <1>5 DEF AbandonGame, ResetCurrentLevelNumber, isTransitioning
<1>6. CASE EndPoll
  BY <1>6 DEF EndPoll, Tick, requestVars
<1>7. ASSUME ManagerUpdate
      PROVE  /\ TargetIsNear'
             /\ currentLevelNumber' \in {currentLevelNumber, currentLevelNumber + 1, NoLevel}
  BY <1>7 DEF ManagerUpdate, FadeOut, StartLoading, AbortLoad, ScreenIsBlack, LoadTexture,
     FinishLoading, FadeIn, FinishTransition, requestVars
<1>8. CASE TransitionGoesOn \/ TransitionEnds
  BY <1>7, <1>8 DEF TransitionGoesOn, TransitionEnds
<1> QED BY <1>1, <1>2, <1>3, <1>4, <1>5, <1>6, <1>8, ManagerStep

LEMMA TargetInv == Spec => []TargetIsNear
<1>1. Init => TargetIsNear
  BY DEF Init, ManagerInit, TargetIsNear
<1>2. ManagerInv /\ TargetIsNear /\ [Next]_vars => TargetIsNear'
  BY NumberStep
<1> QED BY <1>1, <1>2, ManagerInvInGame, PTL DEF Spec

\* Levels are played in order, whatever is skipped, retried or fails to load.
THEOREM LevelsStayInOrder == Spec => LevelsInOrder
<1>1. ManagerInv /\ TargetIsNear /\ [Next]_vars =>
         [currentLevelNumber' \in {currentLevelNumber, currentLevelNumber + 1, NoLevel}]_vars
  BY NumberStep
<1> QED BY <1>1, ManagerInvInGame, TargetInv, PTL DEF Spec, LevelsInOrder

LEMMA WonStep ==
  ASSUME ManagerInv, TransitionCoupling, WonOnLastLevel, [Next]_vars
  PROVE  WonOnLastLevel'
<1> USE DEF WonOnLastLevel
<1>1. CASE UNCHANGED vars
  BY <1>1 DEF vars, gameVars, managerVars, requestVars
<1>2. CASE Event
  <2>1. CASE CloseWindow \/ PressInteract
    BY <2>1 DEF CloseWindow, PressInteract, managerVars, requestVars
  <2>2. CASE SkipLevel \/ SkipToCredits \/ StartFirstLevel \/ OpenMenuPage \/ BackToMenu
               \/ LeaveLevel \/ RespawnLevel \/ RetryLevel \/ AbandonGame
    BY <2>2 DEF SkipLevel, SkipToCredits, StartFirstLevel, OpenMenuPage, BackToMenu,
       LeaveLevel, RespawnLevel, RetryLevel, AbandonGame, GoTo
  <2> QED BY <1>2, <2>1, <2>2 DEF Event
<1>3. CASE WinGame
  BY <1>3, ConstantFacts DEF WinGame, hasNextLevel, managerVars, requestVars, ManagerInv,
     ManagerTypeOK, ManagerRangesOK, Levels, NoLevel
<1>4. CASE TransitionGoesOn \/ TransitionEnds \/ EnterNextLevel \/ HitTrap \/ FallToDeath
  BY <1>4 DEF TransitionGoesOn, TransitionEnds, EnterNextLevel, HitTrap, FallToDeath, Die,
     TransitionCoupling
<1>5. CASE EndPoll
  BY <1>5 DEF EndPoll, Tick, requestVars
<1>6. CASE LeaveLoop \/ PlainUpdate \/ ReachGoal \/ FixedUpdatesDone \/ DrawScreen
             \/ DrawDoor \/ NextDoorFrame \/ CrashOnDoor
  BY <1>6 DEF LeaveLoop, PlainUpdate, ReachGoal, FixedUpdate, FixedUpdatesDone, DrawScreen,
     DrawDoor, NextDoorFrame, CrashOnDoor, managerVars, requestVars
<1>7. CASE Terminated
  BY <1>1, <1>7 DEF Terminated
<1> QED BY <1>1, <1>2, <1>3, <1>4, <1>5, <1>6, <1>7 DEF Next, LoopStep

\* The winning screen is shown on the last level only.
THEOREM WonOnlyOnLastLevel == Spec => []WonOnLastLevel
<1>1. Init => WonOnLastLevel
  BY DEF Init, WonOnLastLevel
<1>2. ManagerInv /\ TransitionCoupling /\ WonOnLastLevel /\ [Next]_vars => WonOnLastLevel'
  BY WonStep
<1> QED BY <1>1, <1>2, ManagerInvInGame, CouplingHolds, PTL DEF Spec

-----------------------------------------------------------------------------
(***************************************************************************)
(* The world.                                                              *)
(***************************************************************************)

\* What a load leaves in the slot, seen from the level number: the strengthening
\* that makes WorldIsCurrentLevel inductive.
SlotInv ==
    /\ transitionState # "LOADING" /\ currentLevelNumber # NoLevel =>
            levelData.platforms \in {currentLevelNumber, NoLevel}
    /\ transitionState = "FADING_IN" =>
            /\ currentLevelNumber = targetLevelNumber
            /\ levelData.platforms = targetLevelNumber

LEMMA SlotStep ==
  ASSUME ManagerInv, SlotInv, [ManagerNext]_managerVars
  PROVE  SlotInv'
<1> USE DEF SlotInv, requestVars, loadVars, clockVars
<1>1. CASE UNCHANGED managerVars
  BY <1>1 DEF managerVars
<1>2. CASE ManagerRequest
  BY <1>2 DEF ManagerRequest, RequestLoadNextLevel, RequestRespawnCurrentLevel, RequestFirstLevel,
     RequestLoadSpecificLevel, RequestLoadLevel, BeginFadeOut, ResetCurrentLevelNumber,
     AcceptsRequest, isTransitioning
<1>3. CASE (\E d \in FrameTimes : Tick(d)) \/ FadeOut \/ FadeIn
  BY <1>3 DEF Tick, FadeOut, FadeIn
<1>4. CASE StartLoading
  BY <1>4 DEF StartLoading
<1>5. CASE AbortLoad
  BY <1>5 DEF AbortLoad, ScreenIsBlack, UnreadableFile, MissingPlatforms, ManagerInv,
     ManagerTypeOK, ManagerRangesOK, LevelDatas
<1>6. CASE LoadTexture
  BY <1>6 DEF LoadTexture
<1>7. CASE FinishLoading
  BY <1>7 DEF FinishLoading, ManagerInv, LoadedData
<1>8. CASE FinishTransition
  BY <1>8 DEF FinishTransition
<1> QED BY <1>1, <1>2, <1>3, <1>4, <1>5, <1>6, <1>7, <1>8 DEF ManagerNext, ManagerUpdate

\* Steps that leave the manager's level and data, and the world, alone.
LEMMA WorldKept ==
  ASSUME WorldIsCurrentLevel,
         UNCHANGED <<world, levelData, currentLevelNumber>>,
         \/ currentState' = currentState
         \/ currentState = "PLAYING"
         \/ currentState' \notin {"PLAYING", "GAME_OVER_LOSE_FALL", "GAME_OVER_LOSE_DEATH"}
  PROVE  WorldIsCurrentLevel'
  BY DEF WorldIsCurrentLevel

LEMMA WorldStep ==
  ASSUME ManagerInv, SlotInv, SlotInv', TransitionCoupling, WorldIsCurrentLevel, [Next]_vars
  PROVE  WorldIsCurrentLevel'
<1>1. CASE UNCHANGED vars
  BY <1>1, WorldKept DEF vars, gameVars, managerVars, requestVars, loadVars
<1>2. CASE Event
  <2>1. CASE CloseWindow \/ PressInteract
    BY <2>1, WorldKept DEF CloseWindow, PressInteract, EventIn, managerVars, requestVars, loadVars
  <2>2. CASE SkipLevel \/ SkipToCredits \/ StartFirstLevel \/ OpenMenuPage \/ BackToMenu
               \/ LeaveLevel \/ RespawnLevel \/ RetryLevel \/ AbandonGame
    BY <2>2 DEF SkipLevel, SkipToCredits, StartFirstLevel, OpenMenuPage, BackToMenu,
       LeaveLevel, RespawnLevel, RetryLevel, AbandonGame, GoTo, WorldIsCurrentLevel
  <2> QED BY <1>2, <2>1, <2>2 DEF Event
<1>3. CASE EndPoll
  BY <1>3, WorldKept DEF EndPoll, Tick, requestVars, loadVars
<1>4. CASE HitTrap \/ FallToDeath \/ PlainUpdate \/ ReachGoal
  BY <1>4, WorldKept DEF HitTrap, FallToDeath, PlainUpdate, ReachGoal, FixedUpdate,
     TransitionCoupling, managerVars, requestVars, loadVars
<1>5. CASE LeaveLoop \/ FixedUpdatesDone \/ DrawScreen \/ DrawDoor \/ NextDoorFrame \/ CrashOnDoor
  BY <1>5, WorldKept DEF LeaveLoop, FixedUpdatesDone, DrawScreen, DrawDoor, NextDoorFrame,
     CrashOnDoor, Draw, managerVars, requestVars, loadVars
<1>6. CASE TransitionGoesOn \/ EnterNextLevel \/ WinGame
  BY <1>6 DEF TransitionGoesOn, EnterNextLevel, WinGame, TransitionCoupling, WorldIsCurrentLevel
<1>7. CASE TransitionEnds
  <2>1. world' = levelData'.platforms /\ transitionState' = "NONE"
    BY <1>7 DEF TransitionEnds, SetupLevelAssets
  <2>2. currentLevelNumber' # NoLevel => world' \in {currentLevelNumber', NoLevel}
    BY <2>1 DEF SlotInv
  <2>3. FinishTransition \/ AbortLoad
    BY <1>7 DEF TransitionEnds, ManagerUpdate, FadeOut, StartLoading, LoadTexture,
       FinishLoading, FadeIn
  <2>4. AbortLoad => LoadFaults # {}
    BY DEF AbortLoad, UnreadableFile, MissingPlatforms
  <2>5. FinishTransition => world' = currentLevelNumber'
    BY <2>1 DEF FinishTransition, SlotInv
  <2> QED BY <2>1, <2>2, <2>3, <2>4, <2>5 DEF WorldIsCurrentLevel
<1>8. CASE Terminated
  BY <1>1, <1>8 DEF Terminated
<1> QED BY <1>1, <1>2, <1>3, <1>4, <1>5, <1>6, <1>7, <1>8 DEF Next, LoopStep

\* The level number that Retry, R and the next request go by is that of the
\* world the player stands in, whatever loads have failed before.
THEOREM WorldStaysCurrent == Spec => []WorldIsCurrentLevel
<1>1. Init => SlotInv /\ WorldIsCurrentLevel
  BY DEF Init, ManagerInit, SlotInv, WorldIsCurrentLevel
<1>2. ManagerInv /\ SlotInv /\ [Next]_vars => SlotInv'
  BY SlotStep, StepImplementsManager
<1>3. /\ ManagerInv /\ SlotInv /\ SlotInv' /\ TransitionCoupling /\ WorldIsCurrentLevel
      /\ [Next]_vars
      => WorldIsCurrentLevel'
  BY WorldStep
<1> QED BY <1>1, <1>2, <1>3, ManagerInvInGame, CouplingHolds, PTL DEF Spec

\* Where every texture loads, no tile that is drawn is bound to a texture that
\* has been freed.
THEOREM TilesKeepTextures ==
  ASSUME "texture" \notin LoadFaults
  PROVE  Spec => []TilesHaveTextures
<1>1. TexturesResolve /\ TransitionCoupling /\ WorldIsCurrentLevel => TilesHaveTextures
  BY DEF TexturesResolve, TransitionCoupling, WorldIsCurrentLevel, TilesHaveTextures,
     isTransitioning
<1>2. Spec => []TexturesResolve
  BY GameImplementsManager, TexturesAlwaysResolve, PTL DEF ImplementsManager
<1> QED BY <1>1, <1>2, CouplingHolds, WorldStaysCurrent, PTL

-----------------------------------------------------------------------------
(***************************************************************************)
(* Types.                                                                  *)
(***************************************************************************)
LEMMA GameFlagsStep ==
  ASSUME FlagsOK, [Next]_vars
  PROVE  FlagsOK'
<1> USE DEF FlagsOK, doorVars
<1>1. CASE UNCHANGED vars
  BY <1>1, Zenon DEF vars, gameVars, frameVars
<1>2. CASE Event
  BY <1>2, Zenon DEF Event, CloseWindow, SkipLevel, SkipToCredits, StartFirstLevel, OpenMenuPage,
     BackToMenu, LeaveLevel, RespawnLevel, PressInteract, RetryLevel, AbandonGame, EventIn, GoTo
<1>3. CASE EndPoll \/ LeaveLoop \/ FixedUpdatesDone \/ CrashOnDoor \/ TransitionGoesOn \/ TransitionEnds
  BY <1>3, Zenon DEF EndPoll, LeaveLoop, FixedUpdatesDone, CrashOnDoor, TransitionGoesOn, TransitionEnds
<1>4. CASE PlainUpdate \/ HitTrap \/ ReachGoal \/ FallToDeath
  BY <1>4, Zenon DEF PlainUpdate, HitTrap, ReachGoal, FallToDeath, FixedUpdate
<1>5. CASE DrawScreen \/ DrawDoor \/ NextDoorFrame
  BY <1>5, Zenon DEF DrawScreen, DrawDoor, NextDoorFrame, Draw
<1>6. CASE EnterNextLevel \/ WinGame
  BY <1>6, Zenon DEF EnterNextLevel, WinGame, DoorOpens, Draw
<1>7. CASE Terminated
  BY <1>1, <1>7 DEF Terminated
<1> QED BY <1>1, <1>2, <1>3, <1>4, <1>5, <1>6, <1>7 DEF Next, LoopStep

LEMMA MusicTyped ==
  ASSUME menuMusic \in Tracks, gameMusic \in Tracks, [Next]_vars
  PROVE  menuMusic' \in Tracks /\ gameMusic' \in Tracks
  BY MusicStep DEF musicVars, PlayGameMusic, PlayMenuMusic, PauseForMenuMusic, Played, Opened,
     Stopped, Paused, Tracks

LEMMA DoorTyped ==
  ASSUME RangesOK, DoorFlagsAgree, [Next]_vars
  PROVE  doorFrame' \in 0 .. DoorFrames - 1 /\ doorTile' \in DoorTiles
<1> USE DEF RangesOK, DoorTiles, DoorFrames
<1>1. CASE UNCHANGED doorFrame /\ (doorTile' = doorTile \/ doorTile' = "dangling")
  BY <1>1
<1>2. CASE ReachGoal
  BY <1>2 DEF ReachGoal, FixedUpdate
<1>3. CASE NextDoorFrame
  BY <1>3 DEF NextDoorFrame
<1>4. CASE DoorOpens
  BY <1>4 DEF DoorOpens
<1> QED BY <1>1, <1>2, <1>3, <1>4, DoorStep

LEMMA RangesStep ==
  ASSUME ManagerInv', RangesOK, DoorFlagsAgree, [Next]_vars
  PROVE  RangesOK'
<1> USE GameLoopAssumption, ConstantFacts
<1>1. menuMusic' \in Tracks /\ gameMusic' \in Tracks
  BY MusicTyped DEF RangesOK
<1>2. doorFrame' \in 0 .. DoorFrames - 1 /\ doorTile' \in DoorTiles
  BY DoorTyped
<1> DEFINE Rest == /\ phase \in {"poll", "fixed", "transition", "draw", "ended",
                              "crashed"}
                   /\ currentState \in GameStates
                   /\ backlog \in 0 .. MaxBacklog
                   /\ animClock \in 0 .. DoorFrameTime
                   /\ world \in Levels \cup {NoLevel}
<1>3. Rest
  BY DEF RangesOK
<1> HIDE DEF Rest
<1>4. Rest'
  <2> USE <1>3 DEF Rest
  <2>1. CASE UNCHANGED vars
    BY <2>1 DEF vars, gameVars, frameVars, doorVars
  <2>2. CASE Event
    BY <2>2 DEF Event, CloseWindow, SkipLevel, SkipToCredits, StartFirstLevel, OpenMenuPage,
       BackToMenu, LeaveLevel, RespawnLevel, PressInteract, RetryLevel, AbandonGame, EventIn,
       GoTo, doorVars, GameStates
  <2>3. CASE EndPoll
    BY <2>3 DEF EndPoll, AtMost, UpdatePhase
  <2>4. CASE LeaveLoop \/ FixedUpdatesDone \/ CrashOnDoor \/ TransitionGoesOn
    BY <2>4 DEF LeaveLoop, FixedUpdatesDone, CrashOnDoor, TransitionGoesOn, doorVars
  <2>5. CASE PlainUpdate \/ HitTrap \/ ReachGoal \/ FallToDeath
    BY <2>5 DEF PlainUpdate, HitTrap, ReachGoal, FallToDeath, FixedUpdate, Die, GameStates, GameOvers
  <2>6. CASE TransitionEnds
    <3>1. levelData'.platforms \in Levels \cup {NoLevel}
      BY DEF ManagerInv, ManagerTypeOK, ManagerRangesOK, LevelDatas
    <3> QED BY <2>6, <3>1 DEF TransitionEnds, SetupLevelAssets, GameStates
  <2>7. CASE DrawScreen \/ DrawDoor \/ NextDoorFrame
    BY <2>7 DEF DrawScreen, DrawDoor, NextDoorFrame, Draw, doorVars
  <2>8. CASE EnterNextLevel \/ WinGame
    BY <2>8 DEF EnterNextLevel, WinGame, DoorOpens, Draw, GameStates, GameOvers
  <2>9. CASE Terminated
    BY <2>1, <2>9 DEF Terminated
  <2> QED BY <2>1, <2>2, <2>3, <2>4, <2>5, <2>6, <2>7, <2>8, <2>9 DEF Next, LoopStep
<1> QED BY <1>1, <1>2, <1>4 DEF Rest, RangesOK

\* Type correctness of the whole game.
THEOREM TypeCorrect == Spec => []TypeOK
<1>1. Init => FlagsOK
  BY Zenon DEF Init, FlagsOK
<1>2. Init => RangesOK
  BY GameLoopAssumption DEF Init, RangesOK, GameStates, DoorFrames, DoorTiles, Tracks, Opened, NoLevel
<1>3. FlagsOK /\ [Next]_vars => FlagsOK'
  BY GameFlagsStep
<1>4. ManagerInv' /\ RangesOK /\ DoorFlagsAgree /\ [Next]_vars => RangesOK'
  BY RangesStep
<1>5. ManagerInv /\ FlagsOK /\ RangesOK => TypeOK
  BY DEF ManagerInv, TypeOK
<1> QED BY <1>1, <1>2, <1>3, <1>4, <1>5, ManagerInvInGame, DoorFlagsHold, PTL DEF Spec

-----------------------------------------------------------------------------
(***************************************************************************)
(* The interact key.                                                       *)
(***************************************************************************)
\* A press of the interact key is only lost where a frame can be shorter than a fixed
\* step: at 60 frames a second or fewer an update looks at every press.
THEOREM SlowFramesSampleInteract ==
  ASSUME \A d \in FrameTimes : d >= FixedStep
  PROVE  Spec => InteractIsSampled
<1> DEFINE Sampled == interactKey /\ phase = "poll" /\ phase' = "fixed" => backlog' >= FixedStep
<1>1. TypeOK /\ [Next]_vars => [Sampled]_vars
  <2> SUFFICES ASSUME TypeOK, [Next]_vars, phase = "poll", phase' = "fixed"
               PROVE  backlog' >= FixedStep
    OBVIOUS
  <2>1. EndPoll
    <3>1. ~UNCHANGED vars
      BY DEF vars, gameVars, frameVars
    <3>2. ~Event
      BY DEF Event, CloseWindow, SkipLevel, SkipToCredits, StartFirstLevel, OpenMenuPage,
         BackToMenu, LeaveLevel, RespawnLevel, PressInteract, RetryLevel, AbandonGame, EventIn
    <3> QED BY <3>1, <3>2 DEF Next, LoopStep, Terminated, LeaveLoop, PlainUpdate, HitTrap,
          ReachGoal, FallToDeath, FixedUpdate, FixedUpdatesDone, TransitionGoesOn, TransitionEnds,
          DrawScreen, DrawDoor, NextDoorFrame, EnterNextLevel, WinGame, DoorOpens, Draw,
          CrashOnDoor
  <2>2. PICK d \in FrameTimes : backlog' = AtMost(MaxBacklog, backlog + d)
    BY <2>1 DEF EndPoll
  <2>3. /\ backlog \in Nat /\ MaxBacklog \in Nat /\ FixedStep \in Nat /\ d \in Nat
        /\ FixedStep <= MaxBacklog /\ FixedStep <= d
    BY GameLoopAssumption, ConstantFacts DEF TypeOK, RangesOK
  <2> QED BY <2>2, <2>3 DEF AtMost
<1>2. Spec => [][Sampled]_vars
  BY <1>1, TypeCorrect, PTL DEF Spec
<1> QED BY <1>2 DEF InteractIsSampled
=============================================================================
