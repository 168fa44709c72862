---------------------------- MODULE DisplayProofs ----------------------------
(***************************************************************************)
(* Proofs about Display.tla.  The game with its window and backdrops       *)
(* implements the game without them, so every theorem about GameLoop holds *)
(* of it; then the backdrop of the level that is played, which needs to    *)
(* know what the texture list and the cache hold while nobody looks.       *)
(***************************************************************************)
EXTENDS Display, GameLoopProofs

LEMMA DisplayStepIsGameStep == [DisplayNext]_<<vars, displayVars>> => [Next]_vars
  BY DEF DisplayNext, PreviousResolution, NextResolution, ToggleFullscreen,
     ApplyAndRecreateWindow, GameStep

\* Settings and backdrops add nothing to the game and take nothing from it,
\* its fairness included: whatever is proved or checked of FairSpec holds here.
THEOREM DisplayImplementsGame == DisplaySpec => FairSpec
<1>1. DisplayInit => Init
  BY DEF DisplayInit
<1> QED BY <1>1, DisplayStepIsGameStep, PTL DEF DisplaySpec, FairSpec, Spec

-----------------------------------------------------------------------------
(***************************************************************************)
(* The backdrop.                                                           *)
(***************************************************************************)

\* The faults after which the level data is that of one level: an unreadable
\* file leaves it whole.  A file without platforms leaves the textures of one
\* level under the number of another, and a background that fails to load is
\* replaced by none.
HarmlessFaults == LoadFaults \subseteq {"unreadable", "image"}

\* Each file states a number of its own, not necessarily that of its name.  Two files with
\* one number would share a backdrop.
ProperNumbers ==
    /\ DOMAIN FileNumbers = Levels
    /\ \A level \in Levels : FileNumbers[level] # NoLevel
    /\ \A a, b \in Levels : FileNumbers[a] = FileNumbers[b] => a = b

\* The levelNumber field that goes with the platforms of a level.
NumberOf(level) == IF level = NoLevel THEN NoLevel ELSE FileNumbers[level]

LEMMA NumberOfTells ==
  ASSUME ProperNumbers, NEW a \in Levels \cup {NoLevel}, NEW b \in Levels \cup {NoLevel}
  PROVE  NumberOf(a) \in Numbers /\ (NumberOf(a) = NumberOf(b) => a = b)
  BY DEF ProperNumbers, NumberOf, Numbers, Range

\* The number and the keys of the texture list are those of the level in the slot, all of
\* the keys once it is loaded and the first of them before.
TexturesExact ==
    /\ levelData.number = NumberOf(levelData.platforms)
    /\ transitionState # "LOADING" =>
            levelData.textures =
                IF levelData.platforms = NoLevel THEN {}
                ELSE Range(TexturePaths[levelData.platforms])
    /\ transitionState = "LOADING" =>
            levelData.textures = {texturePathsToLoad[i] : i \in 1 .. textureLoadIndex}

\* The picture in the list is the one of the level in the slot.
PictureInList ==
    texturesOf = IF Background \in levelData.textures THEN levelData.platforms ELSE NoLevel

\* What was cached under a number is what the file that states it names.
CacheIsOwn ==
    /\ DOMAIN levelBackgrounds = Numbers
    /\ \A level \in Levels \cup {NoLevel} :
            levelBackgrounds[NumberOf(level)] \in {NoLevel, OwnBackground(level)}

DisplayInv == TexturesExact /\ PictureInList /\ CacheIsOwn /\ BackdropOfLevel

\* A settings step changes the window alone.
LEMMA SettingsStep ==
  ASSUME [DisplayNext]_<<vars, displayVars>>, ~GameStep
  PROVE  /\ UNCHANGED <<vars, texturesOf, backdropVars>>
         /\ UNCHANGED settingVars \/ currentState = "SETTINGS"
  BY DEF DisplayNext, PreviousResolution, NextResolution, ToggleFullscreen, OnSettingsPage,
     EventIn, ApplyAndRecreateWindow, displayVars

LEMMA TexturesExactStep ==
  ASSUME HarmlessFaults, ProperNumbers, ManagerInv, TexturesExact, [ManagerNext]_managerVars
  PROVE  TexturesExact'
<1> USE DEF TexturesExact, NumberOf, loadVars, clockVars, requestVars
<1>1. CASE UNCHANGED managerVars
  BY <1>1 DEF managerVars
<1>2. CASE ManagerRequest \/ (\E d \in FrameTimes : Tick(d)) \/ FadeOut \/ FadeIn \/ FinishTransition
  <2>1. levelData' = levelData
    BY <1>2 DEF ManagerRequest, RequestLoadNextLevel, RequestRespawnCurrentLevel,
       RequestFirstLevel, RequestLoadSpecificLevel, RequestLoadLevel, BeginFadeOut,
       ResetCurrentLevelNumber, Tick, FadeOut, FadeIn, FinishTransition
  <2>2. \/ transitionState # "LOADING" /\ transitionState' # "LOADING"
        \/ UNCHANGED <<transitionState, texturePathsToLoad, textureLoadIndex>>
    BY <1>2 DEF ManagerRequest, RequestLoadNextLevel, RequestRespawnCurrentLevel,
       RequestFirstLevel, RequestLoadSpecificLevel, RequestLoadLevel, BeginFadeOut,
       AcceptsRequest, isTransitioning, ResetCurrentLevelNumber, Tick, FadeOut, FadeIn,
       FinishTransition
  <2> QED BY <2>1, <2>2
<1>3. CASE StartLoading
  <2>1. targetLevelNumber \in Levels
    BY <1>3 DEF StartLoading, ScreenIsBlack, ManagerInv, LoadedData
  <2>2. ParsedNumber = FileNumbers[targetLevelNumber] /\ targetLevelNumber # NoLevel
    BY <2>1 DEF ParsedNumber, ProperNumbers, Levels, NoLevel
  <2> QED BY <1>3, <2>2 DEF StartLoading
<1>4. CASE AbortLoad
  BY <1>4 DEF AbortLoad, ScreenIsBlack, UnreadableFile, MissingPlatforms, HarmlessFaults
<1>5. CASE LoadTexture
  <2>1. levelData' = [levelData EXCEPT
            !.textures = @ \cup {texturePathsToLoad[textureLoadIndex + 1]}]
    BY <1>5 DEF LoadTexture, StoredKeys, HarmlessFaults
  <2>2. /\ levelData'.textures =
              levelData.textures \cup {texturePathsToLoad[textureLoadIndex + 1]}
        /\ levelData'.platforms = levelData.platforms
        /\ levelData'.number = levelData.number
    BY <2>1 DEF ManagerInv, ManagerTypeOK, ManagerRangesOK, LevelDatas
  <2>3. 1 .. textureLoadIndex + 1 = (1 .. textureLoadIndex) \cup {textureLoadIndex + 1}
    BY DEF ManagerInv, ManagerTypeOK, ManagerRangesOK
  <2> QED BY <1>5, <2>2, <2>3 DEF LoadTexture
<1>6. CASE FinishLoading
  <2>1. Len(TexturePaths[targetLevelNumber]) = textureLoadIndex
    BY <1>6, ConstantFacts DEF FinishLoading, ManagerInv, ManagerTypeOK, ManagerRangesOK,
       IndexInList, LoadedData
  <2>2. DOMAIN TexturePaths[targetLevelNumber] = 1 .. textureLoadIndex
    BY <1>6, <2>1, ConstantFacts DEF FinishLoading, ManagerInv, LoadedData
  <2>3. levelData.textures = Range(TexturePaths[targetLevelNumber])
    BY <1>6, <2>2 DEF FinishLoading, ManagerInv, IndexInList, Range
  <2>4. levelData.platforms = targetLevelNumber /\ targetLevelNumber # NoLevel
    BY <1>6 DEF FinishLoading, ManagerInv, LoadedData, HeldWhileNeeded
  <2> QED BY <1>6, <2>3, <2>4 DEF FinishLoading
<1> QED BY <1>1, <1>2, <1>3, <1>4, <1>5, <1>6 DEF ManagerNext, ManagerUpdate

\* How a step changes the texture list: not at all, emptied for a new level, or
\* one texture more of the level in the slot.
LEMMA TexturesStepKinds ==
  ASSUME HarmlessFaults, ManagerInv, [ManagerNext]_managerVars
  PROVE  \/ levelData' = levelData
         \/ levelData'.textures = {}
         \/ /\ levelData'.platforms = targetLevelNumber
            /\ levelData.platforms = targetLevelNumber
<1> USE DEF loadVars, clockVars, requestVars
<1>1. CASE UNCHANGED managerVars
  BY <1>1 DEF managerVars
<1>2. CASE ManagerRequest \/ (\E d \in FrameTimes : Tick(d))
  BY <1>2 DEF ManagerRequest, RequestLoadNextLevel, RequestRespawnCurrentLevel,
     RequestFirstLevel, RequestLoadSpecificLevel, RequestLoadLevel, BeginFadeOut,
     ResetCurrentLevelNumber, Tick
<1>3. CASE FadeOut \/ FadeIn \/ FinishLoading \/ FinishTransition
  BY <1>3 DEF FadeOut, FadeIn, FinishLoading, FinishTransition
<1>4. CASE StartLoading \/ AbortLoad
  BY <1>4 DEF StartLoading, AbortLoad, UnreadableFile, MissingPlatforms, HarmlessFaults
<1>5. CASE LoadTexture
  BY <1>5 DEF LoadTexture, ManagerInv, LoadedData, ManagerTypeOK, ManagerRangesOK, LevelDatas
<1> QED BY <1>1, <1>2, <1>3, <1>4, <1>5 DEF ManagerNext, ManagerUpdate

LEMMA PictureStep ==
  ASSUME HarmlessFaults, ManagerInv, PictureInList, [DisplayNext]_<<vars, displayVars>>
  PROVE  PictureInList'
<1> USE DEF PictureInList
<1>1. CASE GameStep
  <2>1. FollowTextures
    BY <1>1 DEF GameStep
  <2> QED BY <2>1, TexturesStepKinds, DisplayStepIsGameStep, StepImplementsManager
          DEF FollowTextures
<1>2. CASE ~GameStep
  BY <1>2, SettingsStep DEF vars, managerVars, loadVars
<1> QED BY <1>1, <1>2

\* The moment play begins: the level data is whole, so the list holds the
\* picture that the level's own file names, and what is cached is that.
LEMMA OwnPicture ==
  ASSUME TexturesExact, PictureInList, transitionState # "LOADING"
  PROVE  texturesOf = OwnBackground(levelData.platforms)
  BY DEF TexturesExact, PictureInList, OwnBackground

LEMMA BeginsWithOwn ==
  ASSUME ProperNumbers, ManagerInv', TexturesExact', PictureInList', TransitionCoupling',
         CacheIsOwn, LevelBegins, CacheBackground
  PROVE  /\ CacheIsOwn'
         /\ levelBackgrounds'[levelData'.number] = OwnBackground(levelData'.platforms)
<1> DEFINE n == levelData'.number
           p == levelData'.platforms
<1>1. transitionState' = "NONE"
  BY DEF LevelBegins, TransitionCoupling, isTransitioning
<1>2. texturesOf' = OwnBackground(levelData'.platforms)
  BY <1>1 DEF TexturesExact, PictureInList, OwnBackground
<1>3. n = NumberOf(p) /\ p \in Levels \cup {NoLevel} /\ n \in Numbers
  BY DEF TexturesExact, ManagerInv, ManagerTypeOK, ManagerRangesOK, LevelDatas, NumberOf
<1>4. levelBackgrounds[n] \in {NoLevel, OwnBackground(p)}
  BY <1>3 DEF CacheIsOwn
<1>5. levelBackgrounds' =
        [levelBackgrounds EXCEPT ![n] = IF @ = NoLevel THEN texturesOf' ELSE @]
  BY DEF CacheBackground
<1> HIDE DEF n, p
<1>6. levelBackgrounds'[n] = OwnBackground(p)
  BY <1>2, <1>3, <1>4, <1>5 DEF CacheIsOwn, p
<1>7. \A number \in Numbers : number # n => levelBackgrounds'[number] = levelBackgrounds[number]
  BY <1>5 DEF CacheIsOwn
<1>8. DOMAIN levelBackgrounds' = Numbers
  BY <1>5 DEF CacheIsOwn
<1>9. ASSUME NEW level \in Levels \cup {NoLevel}
      PROVE  levelBackgrounds'[NumberOf(level)] \in {NoLevel, OwnBackground(level)}
  <2>1. CASE level = p
    BY <1>3, <1>6, <2>1
  <2>2. CASE level # p
    BY <1>3, <1>7, <2>2, NumberOfTells DEF CacheIsOwn
  <2> QED BY <2>1, <2>2
<1>10. CacheIsOwn'
  BY <1>8, <1>9 DEF CacheIsOwn, OwnBackground, NumberOf
<1> QED BY <1>6, <1>10 DEF n, p

LEMMA CacheStep ==
  ASSUME ProperNumbers, ManagerInv', TexturesExact', PictureInList', TransitionCoupling', CacheIsOwn,
         [DisplayNext]_<<vars, displayVars>>
  PROVE  CacheIsOwn'
<1>1. CASE GameStep /\ LevelBegins
  BY <1>1, BeginsWithOwn DEF GameStep
<1>2. CASE ~(GameStep /\ LevelBegins)
  <2>1. UNCHANGED levelBackgrounds
    BY <1>2, SettingsStep DEF GameStep, backdropVars
  <2> QED BY <2>1 DEF CacheIsOwn, OwnBackground, NumberOf
<1> QED BY <1>1, <1>2

\* Play that goes on stays in the same world; it begins with a transition.
LEMMA PlayGoesOn ==
  ASSUME TransitionCoupling, [Next]_vars, currentState' = "PLAYING", currentState # "TRANSITIONING"
  PROVE  currentState = "PLAYING" /\ UNCHANGED world
<1>1. CASE UNCHANGED vars
  BY <1>1 DEF vars, gameVars
<1>2. CASE Event
  BY <1>2 DEF Event, CloseWindow, SkipLevel, SkipToCredits, StartFirstLevel, OpenMenuPage,
     BackToMenu, LeaveLevel, RespawnLevel, PressInteract, RetryLevel, AbandonGame, EventIn, GoTo
<1>3. CASE TransitionEnds \/ TransitionGoesOn
  BY <1>3 DEF TransitionEnds, TransitionGoesOn, TransitionCoupling
<1>4. CASE LoopStep /\ ~TransitionEnds /\ ~TransitionGoesOn
  BY <1>4 DEF LoopStep, EndPoll, LeaveLoop, PlainUpdate, HitTrap, ReachGoal, FallToDeath, Die,
     FixedUpdate, FixedUpdatesDone, DrawScreen, DrawDoor, NextDoorFrame, EnterNextLevel, WinGame,
     DoorOpens, Draw, CrashOnDoor
<1>5. CASE Terminated
  BY <1>1, <1>5 DEF Terminated
<1> QED BY <1>1, <1>2, <1>3, <1>4, <1>5 DEF Next

LEMMA BackdropStep ==
  ASSUME ProperNumbers, ManagerInv', TexturesExact', PictureInList', TransitionCoupling',
         WorldIsCurrentLevel', TransitionCoupling, CacheIsOwn, BackdropOfLevel, [DisplayNext]_<<vars, displayVars>>
  PROVE  BackdropOfLevel'
<1> SUFFICES ASSUME currentState' = "PLAYING"
             PROVE  /\ levelBgSprite'.picture = OwnBackground(world')
                    /\ levelBgSprite'.picture # NoLevel => levelBgSprite'.fills = BackdropFills'
  BY DEF BackdropOfLevel, OwnBackground
<1>1. CASE GameStep /\ LevelBegins
  <2>1. BindBackdrop /\ UNCHANGED settingVars
    BY <1>1 DEF GameStep
  <2>2. levelBackgrounds'[levelData'.number] = OwnBackground(world')
    BY <1>1, BeginsWithOwn DEF GameStep, WorldIsCurrentLevel
  <2> QED BY <2>1, <2>2 DEF BindBackdrop, NoBackdrop, BackdropFills, settingVars
<1>2. CASE ~(GameStep /\ LevelBegins)
  <2>1. currentState = "PLAYING" /\ UNCHANGED world
    <3>1. CASE GameStep
      BY <1>2, <3>1, PlayGoesOn DEF GameStep, LevelBegins
    <3>2. CASE ~GameStep
      BY <3>2, SettingsStep DEF vars, gameVars
    <3> QED BY <3>1, <3>2
  <2>2. UNCHANGED levelBgSprite /\ UNCHANGED settingVars
    BY <1>2, <2>1, SettingsStep DEF GameStep, backdropVars
  <2> QED BY <2>1, <2>2 DEF BackdropOfLevel, BackdropFills, settingVars
<1> QED BY <1>1, <1>2

\* While a level is played, the backdrop is that of its own file and fills the
\* window there is, although the cache is filled once per number, which the files state
\* and may state wrongly, survives restarts and failed loads, and the settings change
\* behind the menu.
THEOREM BackdropIsOwn ==
  ASSUME HarmlessFaults, ProperNumbers
  PROVE  DisplaySpec => []BackdropOfLevel
<1>1. DisplayInit => DisplayInv
  <2> SUFFICES ASSUME DisplayInit PROVE DisplayInv
    OBVIOUS
  <2> USE DEF DisplayInit, Init, ManagerInit
  <2>1. TexturesExact /\ PictureInList
    BY DEF TexturesExact, PictureInList, NumberOf
  <2>2. CacheIsOwn /\ BackdropOfLevel
    BY NumberOfTells DEF CacheIsOwn, BackdropOfLevel
  <2> QED BY <2>1, <2>2 DEF DisplayInv
<1> DEFINE GameInv == ManagerInv /\ TransitionCoupling /\ WorldIsCurrentLevel
<1>2. Spec => []GameInv
  BY ManagerInvInGame, CouplingHolds, WorldStaysCurrent, PTL
<1>3. GameInv /\ GameInv' /\ DisplayInv /\ [DisplayNext]_<<vars, displayVars>> => DisplayInv'
  BY DisplayStepIsGameStep, StepImplementsManager, TexturesExactStep, PictureStep, CacheStep,
     BackdropStep DEF DisplayInv
<1>4. DisplayInv => BackdropOfLevel
  BY DEF DisplayInv
<1>5. DisplaySpec => Spec
  BY DisplayImplementsGame, PTL DEF FairSpec
<1> HIDE DEF GameInv
<1> QED BY <1>1, <1>2, <1>3, <1>4, <1>5, PTL DEF DisplaySpec
=============================================================================
