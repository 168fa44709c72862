---------------------------- MODULE LevelManager ----------------------------
(***************************************************************************)
(* src/src/LevelManager.cpp: the level loader of the game.  A request      *)
(* starts a fade to black; when the screen is black the level's JSON file  *)
(* is read and parsed into the caller's LevelData; then one texture is     *)
(* loaded per call of update; then the screen fades in again.              *)
(*                                                                         *)
(* Variables keep the names of the members without the m_ prefix.  Time    *)
(* is counted in units of which FadeDuration make one fade, and a clock    *)
(* saturates there: the code never looks further.                          *)
(***************************************************************************)
EXTENDS Integers, Sequences, Functions

CONSTANTS
    MaxLevels,          \* setMaxLevels(5) in main
    FadeDuration,       \* m_fadeDuration, in time units
    FrameTimes,         \* how much time one frame may take, in time units
    TexturePaths,       \* per level, the unique paths that prepareAsynchronousLoad lists
    DefaultTexture,     \* DEFAULT_TEXTURE_FILEPATH, on every level's list
    Background,         \* a level's backgroundTexture path; also its key LEVEL_BG_ID
    FileNumbers,        \* the levelNumber that a level's file states, if it states one
    LoadFaults          \* the failures the file system may produce

Levels == 1 .. MaxLevels

NoLevel == 0

AllFaults == {"image", "unreadable", "noPlatforms", "texture"}

ASSUME LevelManagerAssumption ==
    /\ MaxLevels \in Nat \ {0}
    /\ FadeDuration \in Nat \ {0}
    /\ FrameTimes \subseteq Nat \ {0}
    /\ TexturePaths \in [Levels -> Seq(STRING)]
    /\ \A level \in Levels : DefaultTexture \in Range(TexturePaths[level])
    /\ \E stated \in SUBSET Levels : FileNumbers \in [stated -> Int]
    /\ LoadFaults \subseteq AllFaults

\* What may be in a levelNumber field.
Numbers == {NoLevel} \cup Range(FileNumbers)

Paths == UNION {Range(TexturePaths[level]) : level \in Levels}

VARIABLES
    transitionState,        \* m_transitionState
    currentLevelNumber,     \* m_currentLevelNumber
    targetLevelNumber,      \* m_targetLevelNumber
    levelDataToFill,        \* m_levelDataToFill # nullptr
    loadType,               \* m_currentLoadType
    transitionClock,        \* m_transitionClock
    overlay,                \* alpha of m_fadeOverlay: FadeDuration is opaque
    loadingScreenReady,     \* m_loadingScreenReady
    loadingJsonDoc,         \* the level whose document is held, or NoLevel
    texturePathsToLoad,     \* m_texturePathsToLoad
    textureLoadIndex,       \* m_textureLoadIndex
    levelData               \* currentLevelData, the LevelData every request names

clockVars == <<transitionClock, overlay>>
requestVars == <<currentLevelNumber, targetLevelNumber, levelDataToFill, loadType>>
loadVars == <<loadingScreenReady, loadingJsonDoc, texturePathsToLoad, textureLoadIndex, levelData>>

managerVars == <<transitionState, clockVars, requestVars, loadVars>>

\* A LevelData: the level whose platforms it holds, its levelNumber field and
\* the keys of its TexturesList.
LevelDatas == [platforms : Levels \cup {NoLevel},
               number : Numbers,
               textures : SUBSET Paths]

\* The textures the platforms of a level name; the background has its own key.
TileTextures(level) ==
    IF level = NoLevel THEN {} ELSE Range(TexturePaths[level]) \ {Background}

ManagerFlagsOK == levelDataToFill \in BOOLEAN /\ loadingScreenReady \in BOOLEAN

ManagerRangesOK ==
    /\ transitionState \in {"NONE", "FADING_OUT", "LOADING", "FADING_IN"}
    /\ currentLevelNumber \in Levels \cup {NoLevel}
    /\ targetLevelNumber \in Levels \cup {NoLevel}
    /\ loadType \in {"GENERAL", "NEXT_LEVEL", "RESPAWN"}
    /\ transitionClock \in 0 .. FadeDuration
    /\ overlay \in 0 .. FadeDuration
    /\ loadingJsonDoc \in Levels \cup {NoLevel}
    /\ texturePathsToLoad \in {<<>>} \cup Range(TexturePaths)
    /\ textureLoadIndex \in Nat
    /\ levelData \in LevelDatas

ManagerTypeOK == ManagerFlagsOK /\ ManagerRangesOK

ManagerInit ==
    /\ transitionState = "NONE"
    /\ currentLevelNumber = NoLevel
    /\ targetLevelNumber = NoLevel
    /\ levelDataToFill = FALSE
    /\ loadType = "GENERAL"
    /\ transitionClock = 0
    /\ overlay = 0
    /\ loadingScreenReady = FALSE
    /\ loadingJsonDoc = NoLevel
    /\ texturePathsToLoad = <<>>
    /\ textureLoadIndex = 0
    /\ levelData = [platforms |-> NoLevel, number |-> NoLevel, textures |-> {}]

-----------------------------------------------------------------------------
(***************************************************************************)
(* Requests.  A request that is refused returns false and changes nothing: *)
(* the callers in GameLoop take their else branch.                         *)
(***************************************************************************)
isTransitioning == transitionState # "NONE"

\* Slip: the last level but one counts as the last.
hasNextLevelExclusive == currentLevelNumber + 1 < MaxLevels

hasNextLevel == currentLevelNumber < MaxLevels

\* Slip: a request is accepted while a transition is on.
AcceptsAnyTime(level, type) ==
    /\ level > 0
    /\ level <= MaxLevels \/ type = "RESPAWN"

AcceptsRequest(level, type) ==
    /\ ~isTransitioning
    /\ level > 0
    /\ level <= MaxLevels \/ type = "RESPAWN"

BeginFadeOut(level, type) ==
    /\ AcceptsRequest(level, type)
    /\ targetLevelNumber' = level
    /\ levelDataToFill' = TRUE
    /\ loadType' = type
    /\ transitionState' = "FADING_OUT"
    /\ transitionClock' = 0
    /\ loadingScreenReady' = FALSE
    /\ UNCHANGED <<overlay, loadingJsonDoc, texturePathsToLoad, textureLoadIndex, levelData>>

RequestLoadLevel(level, type) ==
    /\ BeginFadeOut(level, type)
    /\ UNCHANGED currentLevelNumber

RequestLoadSpecificLevel(level) == RequestLoadLevel(level, "GENERAL")

\* With current = 0 the next level is the first one.
RequestLoadNextLevel ==
    /\ hasNextLevel
    /\ RequestLoadLevel(currentLevelNumber + 1, "NEXT_LEVEL")

RequestRespawnCurrentLevel == RequestLoadLevel(currentLevelNumber, "RESPAWN")

\* setCurrentLevelNumber(0) and requestLoadNextLevel in one handler of main:
\* Start in the menu, Play Again after a win.
RequestFirstLevel ==
    /\ BeginFadeOut(1, "NEXT_LEVEL")
    /\ currentLevelNumber' = NoLevel

\* setCurrentLevelNumber(0); the game calls it only between loads.
ResetCurrentLevelNumber ==
    /\ ~isTransitioning
    /\ currentLevelNumber' = NoLevel
    /\ UNCHANGED <<transitionState, clockVars, targetLevelNumber,
                   levelDataToFill, loadType, loadVars>>

-----------------------------------------------------------------------------
(***************************************************************************)
(* update(): the branch of each transition state.                          *)
(***************************************************************************)
Elapsed(d) ==
    IF transitionClock + d < FadeDuration THEN transitionClock + d ELSE FadeDuration

\* Wall-clock time, which m_transitionClock measures.
Tick(d) ==
    /\ transitionClock' = Elapsed(d)
    /\ UNCHANGED <<transitionState, overlay, requestVars, loadVars>>

FadeOut ==
    /\ transitionState = "FADING_OUT"
    /\ transitionClock < FadeDuration
    /\ overlay' = transitionClock
    /\ UNCHANGED <<transitionState, transitionClock, requestVars, loadVars>>

\* Slip: the last step of the fade is left out.
ScreenIsNearlyBlack ==
    /\ transitionState = "FADING_OUT"
    /\ transitionClock = FadeDuration
    /\ levelDataToFill
    /\ transitionClock' = 0
    /\ loadingScreenReady' \in (IF "image" \in LoadFaults THEN BOOLEAN ELSE {TRUE})
    /\ UNCHANGED <<overlay, currentLevelNumber, targetLevelNumber, loadType>>

\* What the two ways out of a finished fade share: black screen, fresh clock,
\* the loading picture, and the old document gone.
ScreenIsBlack ==
    /\ transitionState = "FADING_OUT"
    /\ transitionClock = FadeDuration
    /\ levelDataToFill
    /\ overlay' = FadeDuration
    /\ transitionClock' = 0
    /\ loadingScreenReady' \in (IF "image" \in LoadFaults THEN BOOLEAN ELSE {TRUE})
    /\ UNCHANGED <<currentLevelNumber, targetLevelNumber, loadType>>

\* The number in the file is the one that is kept, and the one before if it states none;
\* it is compared with the number of the request for a warning only.
ParsedNumber ==
    IF targetLevelNumber \in DOMAIN FileNumbers THEN FileNumbers[targetLevelNumber]
    ELSE levelData.number

\* Slip: the index into the list of textures is not reset.
StartLoadingStaleIndex ==
    /\ ScreenIsBlack
    /\ transitionState' = "LOADING"
    /\ loadingJsonDoc' = targetLevelNumber
    /\ levelData' = [platforms |-> targetLevelNumber,
                     number |-> ParsedNumber,
                     textures |-> {}]
    /\ texturePathsToLoad' = TexturePaths[targetLevelNumber]
    /\ UNCHANGED <<levelDataToFill, textureLoadIndex>>

StartLoading ==
    /\ ScreenIsBlack
    /\ transitionState' = "LOADING"
    /\ loadingJsonDoc' = targetLevelNumber
    /\ levelData' = [platforms |-> targetLevelNumber,
                     number |-> ParsedNumber,
                     textures |-> {}]
    /\ texturePathsToLoad' = TexturePaths[targetLevelNumber]
    /\ textureLoadIndex' = 0
    /\ UNCHANGED levelDataToFill

\* Slip: the texture list is cleared before the file is known to be good.
UnreadableFileClearsTextures ==
    /\ "unreadable" \in LoadFaults
    /\ levelData' = [levelData EXCEPT !.textures = {}]

\* The file cannot be opened or parsed: the old level data stays.
UnreadableFile ==
    /\ "unreadable" \in LoadFaults
    /\ UNCHANGED levelData

\* No platforms array: parseLevelData has already dropped the old platforms
\* and stored the number it has found; the texture list is still the old one.
MissingPlatforms ==
    /\ "noPlatforms" \in LoadFaults
    /\ levelData' = [levelData EXCEPT !.platforms = NoLevel, !.number = ParsedNumber]

\* Slip: the pointer to the caller's data is kept.
AbortLoadKeepsPointer ==
    /\ ScreenIsBlack
    /\ transitionState' = "NONE"
    /\ loadingJsonDoc' = NoLevel
    /\ texturePathsToLoad' = <<>>
    /\ UnreadableFile \/ MissingPlatforms
    /\ UNCHANGED <<levelDataToFill, textureLoadIndex>>

\* Slip: a failed load changes the level number.
AbortLoadCountsLevel ==
    /\ transitionState = "FADING_OUT"
    /\ transitionClock = FadeDuration
    /\ overlay' = FadeDuration
    /\ transitionClock' = 0
    /\ transitionState' = "NONE"
    /\ levelDataToFill' = FALSE
    /\ loadingJsonDoc' = NoLevel
    /\ texturePathsToLoad' = <<>>
    /\ UnreadableFile \/ MissingPlatforms
    /\ currentLevelNumber' = targetLevelNumber
    /\ UNCHANGED <<textureLoadIndex, targetLevelNumber, loadType, loadingScreenReady>>

AbortLoad ==
    /\ ScreenIsBlack
    /\ transitionState' = "NONE"
    /\ levelDataToFill' = FALSE
    /\ loadingJsonDoc' = NoLevel
    /\ texturePathsToLoad' = <<>>
    /\ UnreadableFile \/ MissingPlatforms
    /\ UNCHANGED textureLoadIndex

\* processLoadingTick, one texture per call.  A texture that fails to load is
\* replaced by the default one, and filed under the default one's key.
StoredKeys(path) == {path} \cup (IF "texture" \in LoadFaults THEN {DefaultTexture} ELSE {})

\* Slip: the index stays where it is.
LoadTextureAgain ==
    /\ transitionState = "LOADING"
    /\ levelDataToFill
    /\ textureLoadIndex < Len(texturePathsToLoad)
    /\ levelData' = [levelData EXCEPT
                        !.textures = @ \cup {texturePathsToLoad[textureLoadIndex + 1]}]
    /\ UNCHANGED <<transitionState, clockVars, requestVars,
                   loadingScreenReady, loadingJsonDoc, texturePathsToLoad, textureLoadIndex>>

LoadTexture ==
    /\ transitionState = "LOADING"
    /\ levelDataToFill
    /\ textureLoadIndex < Len(texturePathsToLoad)
    /\ \E key \in StoredKeys(texturePathsToLoad[textureLoadIndex + 1]) :
            levelData' = [levelData EXCEPT !.textures = @ \cup {key}]
    /\ textureLoadIndex' = textureLoadIndex + 1
    /\ UNCHANGED <<transitionState, clockVars, requestVars,
                   loadingScreenReady, loadingJsonDoc, texturePathsToLoad>>

\* Slip: the last texture is left out.
FinishLoadingEarly ==
    /\ transitionState = "LOADING"
    /\ levelDataToFill
    /\ textureLoadIndex + 1 >= Len(texturePathsToLoad)
    /\ currentLevelNumber' = targetLevelNumber
    /\ transitionState' = "FADING_IN"
    /\ transitionClock' = 0
    /\ UNCHANGED <<overlay, targetLevelNumber, levelDataToFill, loadType, loadVars>>

FinishLoading ==
    /\ transitionState = "LOADING"
    /\ levelDataToFill
    /\ textureLoadIndex >= Len(texturePathsToLoad)
    /\ currentLevelNumber' = targetLevelNumber
    /\ transitionState' = "FADING_IN"
    /\ transitionClock' = 0
    /\ UNCHANGED <<overlay, targetLevelNumber, levelDataToFill, loadType, loadVars>>

\* Slip: the overlay is made darker by each frame.
FadeInDarker ==
    /\ transitionState = "FADING_IN"
    /\ transitionClock < FadeDuration
    /\ overlay' = overlay + transitionClock
    /\ UNCHANGED <<transitionState, transitionClock, requestVars, loadVars>>

FadeIn ==
    /\ transitionState = "FADING_IN"
    /\ transitionClock < FadeDuration
    /\ overlay' = FadeDuration - transitionClock
    /\ UNCHANGED <<transitionState, transitionClock, requestVars, loadVars>>

FinishTransition ==
    /\ transitionState = "FADING_IN"
    /\ transitionClock = FadeDuration
    /\ overlay' = 0
    /\ transitionState' = "NONE"
    /\ levelDataToFill' = FALSE
    /\ loadingScreenReady' = FALSE
    /\ texturePathsToLoad' = <<>>
    /\ loadingJsonDoc' = NoLevel
    /\ UNCHANGED <<transitionClock, currentLevelNumber, targetLevelNumber, loadType,
                   textureLoadIndex, levelData>>

ManagerUpdate ==
    \/ FadeOut
    \/ StartLoading
    \/ AbortLoad
    \/ LoadTexture
    \/ FinishLoading
    \/ FadeIn
    \/ FinishTransition

-----------------------------------------------------------------------------
ManagerRequest ==
    \/ RequestLoadNextLevel
    \/ RequestRespawnCurrentLevel
    \/ RequestFirstLevel
    \/ \E level \in Levels : RequestLoadSpecificLevel(level)
    \/ ResetCurrentLevelNumber

ManagerNext ==
    \/ ManagerRequest
    \/ \E d \in FrameTimes : Tick(d)
    \/ ManagerUpdate

ManagerSpec == ManagerInit /\ [][ManagerNext]_managerVars

\* The main loop calls update once per frame while a transition is on, and
\* time passes.
ManagerFairness ==
    /\ WF_managerVars(ManagerUpdate)
    /\ \A d \in FrameTimes : WF_managerVars(Tick(d))

ManagerFairSpec == ManagerSpec /\ ManagerFairness

-----------------------------------------------------------------------------
(***************************************************************************)
(* Properties.                                                             *)
(***************************************************************************)

\* The JSON document and the pointer to the caller's data are there for as
\* long as a branch of update dereferences them, and are released on every way
\* back to NONE, the failures included (lines 161-181, 190-194, 203-208).
HeldWhileNeeded ==
    /\ transitionState \in {"LOADING", "FADING_IN"} =>
            /\ loadingJsonDoc = targetLevelNumber
            /\ targetLevelNumber # NoLevel
    /\ transitionState \in {"NONE", "FADING_OUT"} =>
            /\ loadingJsonDoc = NoLevel
            /\ texturePathsToLoad = <<>>
    /\ levelDataToFill <=> isTransitioning

\* processLoadingTick never steps over the end of the list it was given, and
\* the list is the one of the level being loaded (lines 591, 602).
IndexInList ==
    transitionState \in {"LOADING", "FADING_IN"} =>
        /\ texturePathsToLoad = TexturePaths[targetLevelNumber]
        /\ textureLoadIndex <= Len(texturePathsToLoad)

\* The level data changes only under an opaque overlay: the world on screen is
\* never seen half replaced (lines 107-109, 176, 190).
DataChangesUnderCover ==
    [][levelData' # levelData => overlay' = FadeDuration]_managerVars

\* Except while textures are being loaded, each texture that a platform of the level
\* data names is in its TexturesList, whatever failed before: setupLevelAssets
\* binds tiles to these entries (main.cpp:386-389).
TexturesResolve ==
    transitionState # "LOADING" =>
        TileTextures(levelData.platforms) \subseteq levelData.textures

\* LevelManager.cpp:618 reports "Using default" for a texture that fails to
\* load: the level that is then faded in would have an entry, the picture or
\* the default one, for each path its platforms name.
FailedTextureHasDefault ==
    transitionState = "FADING_IN" =>
        \A path \in TileTextures(targetLevelNumber) : path \in levelData.textures

-----------------------------------------------------------------------------
(***************************************************************************)
(* The manager implements the loader it promises.                          *)
(***************************************************************************)
job ==
    CASE transitionState = "NONE" -> "idle"
      [] transitionState \in {"FADING_OUT", "LOADING"} -> "pending"
      [] transitionState = "FADING_IN" -> "loaded"

Loader == INSTANCE LevelLoader WITH
    current <- currentLevelNumber,
    target <- targetLevelNumber,
    slot <- levelData.platforms

\* Every step of the manager is a step the abstract loader allows, or invisible
\* to it: no second job, no change of level without a delivery.
ImplementsLoader == Loader!Spec

\* With update called every frame, every accepted request ends.
ImplementsFairLoader == Loader!FairSpec
=============================================================================
