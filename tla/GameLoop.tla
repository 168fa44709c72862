------------------------------ MODULE GameLoop ------------------------------
(***************************************************************************)
(* src/src/main.cpp, the main loop: the screens of the game, the events    *)
(* each of them handles, the fixed-step update with its time accumulator,  *)
(* the transition screen that drives LevelManager, the door animation that *)
(* ends a level, and the two music tracks.                                 *)
(*                                                                         *)
(* One iteration of the while loop is a walk through phases: "poll" for    *)
(* the events, then "fixed" (playing), "transition" (loading) or neither,  *)
(* then "draw".  A window that an event has closed gives no further ones,  *)
(* and the loop is left where they end.  What the player's body touches in *)
(* a fixed update is chosen freely here; what the platforms do is          *)
(* WorldObjects.tla's part.                                                *)
(***************************************************************************)
EXTENDS LevelManager

CONSTANTS
    FixedStep,          \* TIME_PER_FIXED_UPDATE, in time units
    MaxBacklog,         \* bound: the accumulator saturates here
    DoorFrameTime,      \* frameTime_door, in time units
    AudioFaults         \* whether openFromFile may fail

DoorFrames == 5         \* doorAnimFramesTopLeft.size()

ASSUME GameLoopAssumption ==
    /\ FixedStep \in Nat \ {0}
    /\ MaxBacklog \in Nat
    /\ FixedStep <= MaxBacklog
    /\ DoorFrameTime \in Nat \ {0}
    /\ AudioFaults \in BOOLEAN

GameOvers == {"GAME_OVER_WIN", "GAME_OVER_LOSE_FALL", "GAME_OVER_LOSE_DEATH"}

GameStates == {"MENU", "SETTINGS", "CREDITS", "PLAYING", "TRANSITIONING"} \cup GameOvers

VARIABLES
    running,            \* running
    phase,              \* where in the loop body execution is
    currentState,       \* currentState
    backlog,            \* timeSinceLastFixedUpdate
    interactKey,        \* interactKeyPressedThisFrame
    goalReached,        \* goalReached
    doorAnimation,      \* doorAnimationOngoing
    doorFrame,          \* doorCurrentFrame
    doorTile,           \* what animatedDoorTile points to
    animClock,          \* animClock
    world,              \* the level whose platforms bodies and tiles were built from
    menuMusic,          \* menuMusic.getStatus()
    gameMusic           \* gameMusic.getStatus()

doorVars == <<goalReached, doorAnimation, doorFrame, doorTile, animClock>>
musicVars == <<menuMusic, gameMusic>>
frameVars == <<running, phase, backlog, interactKey>>

gameVars == <<frameVars, currentState, doorVars, world, musicVars>>

vars == <<gameVars, managerVars>>

Tracks == {"stopped", "playing", "paused"}

\* "dangling": the tiles vector was cleared and rebuilt under the pointer.
DoorTiles == {"null", "tile", "dangling"}

FlagsOK ==
    /\ running \in BOOLEAN
    /\ interactKey \in BOOLEAN
    /\ goalReached \in BOOLEAN
    /\ doorAnimation \in BOOLEAN

RangesOK ==
    /\ phase \in {"poll", "fixed", "transition", "draw", "ended", "crashed"}
    /\ currentState \in GameStates
    /\ backlog \in 0 .. MaxBacklog
    /\ doorFrame \in 0 .. DoorFrames - 1
    /\ doorTile \in DoorTiles
    /\ animClock \in 0 .. DoorFrameTime
    /\ world \in Levels \cup {NoLevel}
    /\ menuMusic \in Tracks
    /\ gameMusic \in Tracks

TypeOK == ManagerTypeOK /\ FlagsOK /\ RangesOK

-----------------------------------------------------------------------------
(***************************************************************************)
(* Music.  openFromFile stops the track first, so a failed one leaves it   *)
(* stopped.                                                                *)
(***************************************************************************)
Opened == {"playing"} \cup (IF AudioFaults THEN {"stopped"} ELSE {})

Played(track) == IF track = "playing" THEN {"playing"} ELSE Opened

Stopped(track) == IF track = "playing" THEN "stopped" ELSE track

Paused(track) == IF track = "playing" THEN "paused" ELSE track

\* Slip: the menu track plays on under the game's.
PlayOverMenuMusic ==
    /\ gameMusic' \in Played(gameMusic)
    /\ UNCHANGED menuMusic

PlayGameMusic ==
    /\ menuMusic' = Stopped(menuMusic)
    /\ gameMusic' \in Played(gameMusic)

PlayMenuMusic ==
    /\ gameMusic' = Stopped(gameMusic)
    /\ menuMusic' \in Played(menuMusic)

PauseForMenuMusic ==
    /\ gameMusic' = Paused(gameMusic)
    /\ menuMusic' \in Played(menuMusic)

-----------------------------------------------------------------------------
Init ==
    /\ ManagerInit
    /\ running = TRUE
    /\ phase = "poll"
    /\ currentState = "MENU"
    /\ backlog = 0
    /\ interactKey = FALSE
    /\ goalReached = FALSE
    /\ doorAnimation = FALSE
    /\ doorFrame = 0
    /\ doorTile = "null"
    /\ animClock = 0
    /\ world = NoLevel
    /\ menuMusic \in Opened
    /\ gameMusic = "stopped"

(***************************************************************************)
(* Events (lines 656-814).  An event leaves time, the door and the world   *)
(* alone; pollEvent goes on until the queue is empty or the window is      *)
(* closed.                                                                 *)
(***************************************************************************)
EventIn(states) ==
    /\ phase = "poll"
    /\ running
    /\ currentState \in states
    /\ UNCHANGED <<phase, backlog, doorVars, world>>

GoTo(state) ==
    /\ currentState' = state
    /\ UNCHANGED <<running, interactKey>>

\* The Closed event, the Exit button and Escape in the menu.
CloseWindow ==
    /\ EventIn(GameStates)
    /\ running' = FALSE
    /\ UNCHANGED <<interactKey, currentState, musicVars, managerVars>>

\* Slip: the request is made, the screen stays.
SkipLevelStays ==
    /\ EventIn({"PLAYING"})
    /\ RequestLoadNextLevel
    /\ UNCHANGED <<running, interactKey, currentState, musicVars>>

\* The P key: skip to the next level, or to the credits from the last one.
SkipLevel ==
    /\ EventIn({"PLAYING"})
    /\ RequestLoadNextLevel
    /\ GoTo("TRANSITIONING")
    /\ UNCHANGED musicVars

SkipToCredits ==
    /\ EventIn({"PLAYING"})
    /\ ~hasNextLevel
    /\ GoTo("CREDITS")
    /\ PlayMenuMusic
    /\ UNCHANGED managerVars

\* Slip: the level number is not reset for a new game.
StartFirstLevelKeepsNumber ==
    /\ EventIn({"MENU", "GAME_OVER_WIN"})
    /\ RequestLoadSpecificLevel(1)
    /\ GoTo("TRANSITIONING")
    /\ PlayGameMusic

\* Start in the menu, Play Again after a win.  Their else branches are for a
\* request made during a transition: TransitionCoupling says there is none.
StartFirstLevel ==
    /\ EventIn({"MENU", "GAME_OVER_WIN"})
    /\ RequestFirstLevel
    /\ GoTo("TRANSITIONING")
    /\ PlayGameMusic

OpenMenuPage ==
    /\ EventIn({"MENU"})
    /\ \E page \in {"SETTINGS", "CREDITS"} : GoTo(page)
    /\ UNCHANGED <<musicVars, managerVars>>

BackToMenu ==
    /\ EventIn({"SETTINGS", "CREDITS"})
    /\ GoTo("MENU")
    /\ UNCHANGED <<musicVars, managerVars>>

\* Slip: the music of the level plays on in the menu.
LeaveLevelPlaysOn ==
    /\ EventIn({"PLAYING"})
    /\ GoTo("MENU")
    /\ UNCHANGED <<musicVars, managerVars>>

\* Escape while playing: the level, its number and the door stay as they are.
LeaveLevel ==
    /\ EventIn({"PLAYING"})
    /\ GoTo("MENU")
    /\ PauseForMenuMusic
    /\ UNCHANGED managerVars

\* The R key; refused without effect when no level is current.
RespawnLevel ==
    /\ EventIn({"PLAYING"})
    /\ RequestRespawnCurrentLevel
    /\ GoTo("TRANSITIONING")
    /\ UNCHANGED musicVars

PressInteract ==
    /\ EventIn({"PLAYING"})
    /\ interactKey' = TRUE
    /\ UNCHANGED <<running, currentState, musicVars, managerVars>>

RetryLevel ==
    /\ EventIn(GameOvers \ {"GAME_OVER_WIN"})
    /\ RequestRespawnCurrentLevel
    /\ GoTo("TRANSITIONING")
    /\ PlayGameMusic

\* Slip: Escape leaves a transition too; setCurrentLevelNumber has no guard.
AbandonGameMidLoad ==
    /\ EventIn(GameOvers \cup {"TRANSITIONING"})
    /\ currentLevelNumber' = NoLevel
    /\ GoTo("MENU")
    /\ PlayMenuMusic
    /\ UNCHANGED <<transitionState, clockVars, targetLevelNumber, levelDataToFill, loadType, loadVars>>

\* Main Menu and Escape on a game-over screen, and a Retry with no current level.
AbandonGame ==
    /\ EventIn(GameOvers)
    /\ ResetCurrentLevelNumber
    /\ GoTo("MENU")
    /\ PlayMenuMusic

Event ==
    \/ CloseWindow
    \/ SkipLevel
    \/ SkipToCredits
    \/ StartFirstLevel
    \/ OpenMenuPage
    \/ BackToMenu
    \/ LeaveLevel
    \/ RespawnLevel
    \/ PressInteract
    \/ RetryLevel
    \/ AbandonGame

-----------------------------------------------------------------------------
(***************************************************************************)
(* The end of the event queue (lines 816-824 and 1309).  If the window is  *)
(* closed the loop is left there and then.  Else the frame's time is added *)
(* to the accumulator whatever the screen, and the screen decides which    *)
(* update runs.  Fixed updates are not entered once the goal is reached,   *)
(* but the test is made once per frame.                                    *)
(***************************************************************************)
AtMost(bound, n) == IF n < bound THEN n ELSE bound

UpdatePhase ==
    IF currentState = "PLAYING" /\ ~goalReached THEN "fixed"
    ELSE IF currentState = "TRANSITIONING" THEN "transition"
    ELSE "draw"

\* Slip: the clock of the transition is restarted by every frame.
EndPollClockStands ==
    /\ phase = "poll"
    /\ running
    /\ \E d \in FrameTimes :
            /\ backlog' = AtMost(MaxBacklog, backlog + d)
            /\ animClock' = AtMost(DoorFrameTime, animClock + d)
    /\ phase' = UpdatePhase
    /\ UNCHANGED <<running, interactKey, currentState, goalReached, doorAnimation,
                   doorFrame, doorTile, world, musicVars, managerVars>>

EndPoll ==
    /\ phase = "poll"
    /\ running
    /\ \E d \in FrameTimes :
            /\ backlog' = AtMost(MaxBacklog, backlog + d)
            /\ animClock' = AtMost(DoorFrameTime, animClock + d)
            /\ Tick(d)
    /\ phase' = UpdatePhase
    /\ UNCHANGED <<running, interactKey, currentState, goalReached, doorAnimation,
                   doorFrame, doorTile, world, musicVars>>

\* if (!running) break: nothing of the frame is left but the music to stop.
LeaveLoop ==
    /\ phase = "poll"
    /\ ~running
    /\ phase' = "ended"
    /\ menuMusic' = Stopped(menuMusic)
    /\ gameMusic' = Stopped(gameMusic)
    /\ UNCHANGED <<running, backlog, interactKey, currentState, doorVars, world, managerVars>>

-----------------------------------------------------------------------------
(***************************************************************************)
(* One fixed update (lines 824-1297).                                      *)
(***************************************************************************)
FixedUpdate ==
    /\ phase = "fixed"
    /\ backlog >= FixedStep
    /\ backlog' = backlog - FixedStep
    /\ UNCHANGED <<running, interactKey, doorFrame, world, managerVars>>

Die(state) ==
    /\ currentState' = state
    /\ phase' = "draw"
    /\ PauseForMenuMusic

\* Nothing that the loop remembers; the interact key may have been used on a
\* portal or an interactible.
PlainUpdate ==
    /\ FixedUpdate
    /\ UNCHANGED <<phase, currentState, goalReached, doorAnimation, doorTile, animClock, musicVars>>

HitTrap ==
    /\ FixedUpdate
    /\ world # NoLevel
    /\ Die("GAME_OVER_LOSE_DEATH")
    /\ UNCHANGED <<goalReached, doorAnimation, doorTile, animClock>>

\* The loop goes on after the goal: the goto ends one update only.
ReachGoal ==
    /\ FixedUpdate
    /\ interactKey
    /\ world # NoLevel
    /\ goalReached' = TRUE
    /\ doorAnimation' = TRUE
    /\ doorTile' = "tile"
    /\ animClock' = 0
    /\ UNCHANGED <<phase, currentState, musicVars>>

FallToDeath ==
    /\ FixedUpdate
    /\ Die("GAME_OVER_LOSE_FALL")
    /\ UNCHANGED <<goalReached, doorAnimation, doorTile, animClock>>

FixedUpdatesDone ==
    /\ phase = "fixed"
    /\ backlog < FixedStep
    /\ phase' = "draw"
    /\ UNCHANGED <<running, currentState, backlog, interactKey, doorVars, world,
                   musicVars, managerVars>>

-----------------------------------------------------------------------------
(***************************************************************************)
(* The transition screen (lines 1309-1341).                                *)
(***************************************************************************)
TransitionGoesOn ==
    /\ phase = "transition"
    /\ ManagerUpdate
    /\ transitionState' # "NONE"
    /\ phase' = "draw"
    /\ UNCHANGED <<running, currentState, backlog, interactKey, doorVars, world, musicVars>>

\* setupLevelAssets: bodies and tiles are rebuilt.  A tile whose texture is not
\* in the list is bound to a local texture and an end iterator is read, which
\* is undefined: the program goes on or crashes.
SetupLevelAssets ==
    /\ world' = levelData'.platforms
    /\ doorTile' = (IF doorTile = "null" THEN "null" ELSE "dangling")
    /\ phase' \in (IF TileTextures(levelData'.platforms) \subseteq levelData'.textures
                   THEN {"draw"} ELSE {"draw", "crashed"})

\* Slip: play goes on in the platforms of the level before.
TransitionEndsOldWorld ==
    /\ phase = "transition"
    /\ ManagerUpdate
    /\ transitionState' = "NONE"
    /\ phase' = "draw"
    /\ currentState' = "PLAYING"
    /\ PlayGameMusic
    /\ UNCHANGED <<running, backlog, interactKey, world, doorVars>>

\* isTransitioning() is false again, after a success or a failure alike.
TransitionEnds ==
    /\ phase = "transition"
    /\ ManagerUpdate
    /\ transitionState' = "NONE"
    /\ SetupLevelAssets
    /\ currentState' = "PLAYING"
    /\ PlayGameMusic
    /\ UNCHANGED <<running, backlog, interactKey, goalReached, doorAnimation, doorFrame, animClock>>

-----------------------------------------------------------------------------
(***************************************************************************)
(* Drawing (lines 1344-1540), which runs the door animation; then the top  *)
(* of the loop, where the interact flag is reset (line 652).               *)
(***************************************************************************)
Draw ==
    /\ phase = "draw"
    /\ phase' = "poll"
    /\ interactKey' = FALSE
    /\ UNCHANGED <<running, backlog, world>>

DoorOnScreen == currentState = "PLAYING" /\ goalReached /\ doorAnimation

DrawScreen ==
    /\ Draw
    /\ ~DoorOnScreen
    /\ UNCHANGED <<currentState, doorVars, musicVars, managerVars>>

DrawDoor ==
    /\ Draw
    /\ DoorOnScreen
    /\ animClock < DoorFrameTime
    /\ UNCHANGED <<currentState, doorVars, musicVars, managerVars>>

\* Slip: one frame more than there are.
NextDoorFrameOneMore ==
    /\ Draw
    /\ DoorOnScreen
    /\ animClock = DoorFrameTime
    /\ doorFrame < DoorFrames
    /\ doorFrame' = doorFrame + 1
    /\ animClock' = 0
    /\ UNCHANGED <<currentState, goalReached, doorAnimation, doorTile, musicVars, managerVars>>

\* Slip: the frame is shown again and again.
NextDoorFrameAgain ==
    /\ Draw
    /\ DoorOnScreen
    /\ animClock = DoorFrameTime
    /\ doorFrame + 1 < DoorFrames
    /\ animClock' = 0
    /\ UNCHANGED <<currentState, goalReached, doorAnimation, doorFrame, doorTile, musicVars, managerVars>>

NextDoorFrame ==
    /\ Draw
    /\ DoorOnScreen
    /\ animClock = DoorFrameTime
    /\ doorFrame + 1 < DoorFrames
    /\ doorFrame' = doorFrame + 1
    /\ animClock' = 0
    /\ UNCHANGED <<currentState, goalReached, doorAnimation, doorTile, musicVars, managerVars>>

\* Slip: the goal stays reached.
DoorOpensStillReached ==
    /\ Draw
    /\ DoorOnScreen
    /\ animClock = DoorFrameTime
    /\ doorFrame + 1 = DoorFrames
    /\ doorAnimation' = FALSE
    /\ doorFrame' = 0
    /\ animClock' = 0
    /\ UNCHANGED <<goalReached, doorTile>>

DoorOpens ==
    /\ Draw
    /\ DoorOnScreen
    /\ animClock = DoorFrameTime
    /\ doorFrame + 1 = DoorFrames
    /\ goalReached' = FALSE
    /\ doorAnimation' = FALSE
    /\ doorFrame' = 0
    /\ animClock' = 0
    /\ UNCHANGED doorTile

\* A refused request (back to the menu, line 1474) needs a transition under way.
EnterNextLevel ==
    /\ DoorOpens
    /\ RequestLoadNextLevel
    /\ currentState' = "TRANSITIONING"
    /\ UNCHANGED musicVars

WinGame ==
    /\ DoorOpens
    /\ ~hasNextLevel
    /\ currentState' = "GAME_OVER_WIN"
    /\ PlayMenuMusic
    /\ UNCHANGED managerVars

\* Every frame of the animation writes to and draws *animatedDoorTile.
CrashOnDoor ==
    /\ phase = "draw"
    /\ DoorOnScreen
    /\ doorTile = "dangling"
    /\ phase' = "crashed"
    /\ UNCHANGED <<running, currentState, backlog, interactKey, doorVars, world,
                   musicVars, managerVars>>

-----------------------------------------------------------------------------
LoopStep ==
    \/ EndPoll
    \/ LeaveLoop
    \/ PlainUpdate
    \/ HitTrap
    \/ ReachGoal
    \/ FallToDeath
    \/ FixedUpdatesDone
    \/ TransitionGoesOn
    \/ TransitionEnds
    \/ DrawScreen
    \/ DrawDoor
    \/ NextDoorFrame
    \/ EnterNextLevel
    \/ WinGame
    \/ CrashOnDoor

\* The process is gone.
Terminated ==
    /\ phase \in {"ended", "crashed"}
    /\ UNCHANGED vars

Next == Event \/ LoopStep \/ Terminated

Spec == Init /\ [][Next]_vars

\* The loop runs on: nothing is assumed of the player, nor of which outcome a
\* fixed update has.
FairSpec == Spec /\ WF_vars(LoopStep)

-----------------------------------------------------------------------------
(***************************************************************************)
(* Properties.                                                             *)
(***************************************************************************)
Alive == phase \notin {"ended", "crashed"}

\* The screen says TRANSITIONING exactly while the manager is at work, so no
\* handler ever asks for a level while another is being loaded and no load is
\* left without someone to drive it (lines 662, 683, 761, 777, 784, 1311, 1471).
TransitionCoupling ==
    /\ currentState = "TRANSITIONING" <=> isTransitioning
    /\ phase = "transition" => currentState = "TRANSITIONING"
    /\ phase = "fixed" => currentState = "PLAYING"

\* The level number, which Retry, R and the next request go by, is that of the
\* world the player is in, whatever loads have failed before: with no level
\* current a world may be left over, and a failed load may leave it empty.
WorldIsCurrentLevel ==
    currentState \in {"PLAYING", "GAME_OVER_LOSE_FALL", "GAME_OVER_LOSE_DEATH"} =>
        /\ world = levelData.platforms
        /\ currentLevelNumber # NoLevel => world \in {currentLevelNumber, NoLevel}
        /\ LoadFaults = {} => world = currentLevelNumber

\* No texture that a tile of the world is bound to has been freed while the
\* world is drawn: TexturesList is cleared only on the way to a new world
\* (LevelManager.cpp:528, main.cpp:389).
TilesHaveTextures ==
    currentState = "PLAYING" =>
        TileTextures(world) \subseteq levelData.textures

\* The flags of the goal and of its animation, and the frame number that
\* indexes doorAnimFramesTopLeft, agree however the animation is cut short
\* (lines 1171-1172, 1454, 1460, 1467-1469).
DoorFlagsAgree ==
    /\ goalReached <=> doorAnimation
    /\ doorFrame > 0 => goalReached
    /\ goalReached => doorTile # "null"

\* The two tracks never play over each other, even when a file fails to open.
NeverBothTracks == ~(menuMusic = "playing" /\ gameMusic = "playing")

\* Manual.html:545-546: which track is heard follows from the screen.
MusicMatchesScreen ==
    Alive =>
        IF currentState \in {"PLAYING", "TRANSITIONING"}
        THEN gameMusic = "playing" /\ menuMusic # "playing"
        ELSE menuMusic = "playing" /\ gameMusic # "playing"

\* The game is won on the last level only (lines 236-241, 1470-1479).
WonOnLastLevel ==
    currentState = "GAME_OVER_WIN" => currentLevelNumber = MaxLevels

\* Levels are played in order: the number goes up by one or back to none,
\* across skips, respawns and failed loads (lines 80-94).
LevelsInOrder ==
    [][currentLevelNumber' \in {currentLevelNumber, currentLevelNumber + 1, NoLevel}]_vars

\* A transition ends in play: the loading screen is never stuck.
TransitionLeadsToPlay ==
    currentState = "TRANSITIONING" ~> (currentState = "PLAYING" \/ ~Alive)

\* A player who is frozen in front of the door does not stay so.
DoorLeadsOn ==
    (currentState = "PLAYING" /\ goalReached) ~> (currentState # "PLAYING" \/ ~Alive)

\* What the game does to the manager is what the manager's specification allows.
ImplementsManager == ManagerSpec

-----------------------------------------------------------------------------
(***************************************************************************)
(* What the documents say and the code does not do: see README, Findings.  *)
(***************************************************************************)

\* PhysicsTypes.hpp:17 calls goal the block that ends the level, and README.md:71
\* asks the player to reach the end of each level: the door that opens is the one
\* of the level on screen.
LevelsAreEarned ==
    [][DoorOnScreen /\ ~goalReached' => doorTile = "tile"]_vars

\* Manual.html:857 promises game logic at a consistent rate: a frame simulates
\* the time it lasted, and the fraction of a step carried over.
ConsistentRate ==
    phase = "fixed" => \E d \in FrameTimes : backlog < FixedStep + d

\* README.md:62, E interacts with objects: a press seen while playing is looked
\* at by at least one fixed update.
InteractIsSampled ==
    [][interactKey /\ phase = "poll" /\ phase' = "fixed" => backlog' >= FixedStep]_vars
=============================================================================
