------------------------------ MODULE Display ------------------------------
(***************************************************************************)
(* The game with its window and its backdrops: the display page of the     *)
(* settings and applyAndRecreateWindow (src/src/main.cpp, lines 115-215    *)
(* and 720-733), the cache of level backgrounds and the sprite made of     *)
(* them when a level begins (291-301 and 1314-1333).                       *)
(*                                                                         *)
(* GameLoop.tla goes on as it does; the two share the screen, the level    *)
(* data and the moment a transition ends.  Sizes are pairs of pixels; the  *)
(* user does not drag the border of the window.                            *)
(***************************************************************************)
EXTENDS GameLoop

SeqExt == INSTANCE SequencesExt

CONSTANTS
    LogicalSize,        \* LOGICAL_SIZE
    FullscreenModes,    \* what getFullscreenModes answers, the best one first
    CommonModes         \* commonWindowed

Sizes == (Nat \ {0}) \X (Nat \ {0})

ASSUME DisplayAssumption ==
    /\ LogicalSize \in CommonModes
    /\ CommonModes \subseteq Sizes
    /\ FullscreenModes \in Seq(Sizes)

VARIABLES
    isFullscreen,               \* isFullscreen
    currentResolutionIndex,     \* currentResolutionIndex, counted from 1
    window,                     \* size and state of the window
    texturesOf,                 \* the level of the background in TexturesList, or NoLevel
    levelBackgrounds,           \* LevelBackgrounds: under a number, of which level the picture is
    levelBgSprite               \* levelBgSprite: picture and the size it is scaled to

settingVars == <<isFullscreen, currentResolutionIndex, window>>

backdropVars == <<levelBackgrounds, levelBgSprite>>

displayVars == <<settingVars, texturesOf, backdropVars>>

-----------------------------------------------------------------------------
(***************************************************************************)
(* The window.  The list of modes has the common ones, so it is never      *)
(* empty and the index always names one.                                   *)
(***************************************************************************)
Smaller(a, b) == a[1] < b[1] \/ (a[1] = b[1] /\ a[2] < b[2])

availableVideoModes ==
    SeqExt!SetToSortSeq(Range(FullscreenModes) \cup CommonModes, Smaller)

Modes == DOMAIN availableVideoModes

LogicalIndex == CHOOSE i \in Modes : availableVideoModes[i] = LogicalSize

\* Without a fullscreen mode the flag is taken back, but not the state.
Recreated(fullscreen, index) ==
    [size |-> IF ~fullscreen THEN availableVideoModes[index]
              ELSE IF FullscreenModes = <<>> THEN LogicalSize
              ELSE FullscreenModes[1],
     state |-> IF fullscreen THEN "Fullscreen" ELSE "Windowed"]

ApplyAndRecreateWindow(fullscreen, index) ==
    /\ isFullscreen' = (fullscreen /\ FullscreenModes # <<>>)
    /\ currentResolutionIndex' = index
    /\ window' = Recreated(fullscreen, index)
    /\ UNCHANGED <<texturesOf, backdropVars, vars>>

OnSettingsPage == EventIn({"SETTINGS"})

PreviousResolution ==
    /\ OnSettingsPage
    /\ ~isFullscreen
    /\ ApplyAndRecreateWindow(FALSE,
           IF currentResolutionIndex = 1 THEN Len(availableVideoModes)
           ELSE currentResolutionIndex - 1)

NextResolution ==
    /\ OnSettingsPage
    /\ ~isFullscreen
    /\ ApplyAndRecreateWindow(FALSE,
           IF currentResolutionIndex = Len(availableVideoModes) THEN 1
           ELSE currentResolutionIndex + 1)

ToggleFullscreen ==
    /\ OnSettingsPage
    /\ ApplyAndRecreateWindow(~isFullscreen, currentResolutionIndex)

-----------------------------------------------------------------------------
(***************************************************************************)
(* Backdrops.  A background is cached under the levelNumber of the level   *)
(* data, which is the one its file states, the first time and never again. *)
(***************************************************************************)
NoBackdrop == [picture |-> NoLevel, fills |-> LogicalSize]

\* Which level's picture TexturesList holds under LEVEL_BG_ID.
FollowTextures ==
    texturesOf' =
        IF Background \notin levelData'.textures THEN NoLevel
        ELSE IF Background \in levelData.textures THEN texturesOf
        ELSE targetLevelNumber

CacheBackground ==
    levelBackgrounds' =
        [levelBackgrounds EXCEPT ![levelData'.number] = IF @ = NoLevel THEN texturesOf' ELSE @]

\* What the picture is scaled to: the logical size or the window's.
BackdropFills == IF isFullscreen THEN LogicalSize ELSE window.size

\* Slip: a level without a background keeps the backdrop of the level before.
BindBackdropOrKeep ==
    LET picture == levelBackgrounds'[levelData'.number] IN
    levelBgSprite' =
        IF picture = NoLevel THEN levelBgSprite
        ELSE [picture |-> picture, fills |-> BackdropFills]

BindBackdrop ==
    LET picture == levelBackgrounds'[levelData'.number] IN
    levelBgSprite' =
        IF picture = NoLevel THEN NoBackdrop
        ELSE [picture |-> picture, fills |-> BackdropFills]

\* setupLevelAssets, and what follows it in the loop.
LevelBegins == currentState = "TRANSITIONING" /\ currentState' = "PLAYING"

GameStep ==
    /\ Next
    /\ FollowTextures
    /\ \/ LevelBegins /\ CacheBackground /\ BindBackdrop
       \/ ~LevelBegins /\ UNCHANGED backdropVars
    /\ UNCHANGED settingVars

-----------------------------------------------------------------------------
DisplayInit ==
    /\ Init
    /\ isFullscreen = (FullscreenModes # <<>>)
    /\ currentResolutionIndex = LogicalIndex
    /\ window = Recreated(TRUE, LogicalIndex)
    /\ texturesOf = NoLevel
    /\ levelBackgrounds = [number \in Numbers |-> NoLevel]
    /\ levelBgSprite = NoBackdrop

DisplayNext == PreviousResolution \/ NextResolution \/ ToggleFullscreen \/ GameStep

\* The loop runs on; nobody has to change a setting.
DisplaySpec == DisplayInit /\ [][DisplayNext]_<<vars, displayVars>> /\ WF_vars(LoopStep)

-----------------------------------------------------------------------------
(***************************************************************************)
(* Properties.                                                             *)
(***************************************************************************)
OwnBackground(level) ==
    IF level # NoLevel /\ Background \in Range(TexturePaths[level]) THEN level ELSE NoLevel

\* While a level is played, the backdrop is the one its own file names, or none if it
\* names none, scaled for the window there is: although the cache is filled once and by
\* the number in the file, the sprite refers into it, and settings change behind the menu.
BackdropOfLevel ==
    currentState = "PLAYING" =>
        /\ levelBgSprite.picture = OwnBackground(world)
        /\ levelBgSprite.picture # NoLevel => levelBgSprite.fills = BackdropFills
=============================================================================
