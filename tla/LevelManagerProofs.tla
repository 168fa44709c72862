------------------------- MODULE LevelManagerProofs -------------------------
(***************************************************************************)
(* Proofs about LevelManager.tla: type correctness, the resources that     *)
(* update() dereferences, the textures of a loaded level, and that the     *)
(* manager implements the abstract loader.                                 *)
(***************************************************************************)
EXTENDS LevelManager, TLAPS

\* What the branches of update rely on but the properties do not say: the
\* slot holds the target from the parse on, under a black screen.
LoadedData ==
    /\ transitionState \in {"LOADING", "FADING_IN"} => levelData.platforms = targetLevelNumber
    /\ transitionState \in {"FADING_OUT", "LOADING", "FADING_IN"} => targetLevelNumber \in Levels
    /\ transitionState = "LOADING" => overlay = FadeDuration

\* HeldWhileNeeded and IndexInList are not inductive alone: a step of LOADING
\* needs the type of the list and the target.
ManagerInv == ManagerTypeOK /\ HeldWhileNeeded /\ IndexInList /\ LoadedData

\* The assumption in the pieces the leaves below use.
LEMMA ConstantFacts ==
    /\ MaxLevels \in Nat /\ MaxLevels >= 1 /\ 1 \in Levels
    /\ FadeDuration \in Nat /\ FadeDuration > 0
    /\ \A d \in FrameTimes : d \in Nat /\ d > 0
    /\ \A level \in Levels :
            /\ TexturePaths[level] \in Seq(STRING)
            /\ Range(TexturePaths[level]) \subseteq Paths
            /\ TexturePaths[level] \in Range(TexturePaths)
    /\ DefaultTexture \in Paths
  BY LevelManagerAssumption DEF Paths, Range, Levels

LEMMA ParsedNumberType ==
  ASSUME levelData.number \in Numbers PROVE ParsedNumber \in Numbers
  BY DEF ParsedNumber, Numbers, Range

\* A path taken from the list of a level being loaded is one of Paths.
LEMMA ListedPath ==
  ASSUME ManagerInv, transitionState = "LOADING",
         NEW i \in 1 .. Len(texturePathsToLoad)
  PROVE  texturePathsToLoad[i] \in Paths
<1>1. targetLevelNumber \in Levels /\ texturePathsToLoad = TexturePaths[targetLevelNumber]
  BY DEF ManagerInv, LoadedData, IndexInList
<1>2. texturePathsToLoad[i] \in Range(TexturePaths[targetLevelNumber])
  BY <1>1, ConstantFacts DEF Range
<1> QED BY <1>1, <1>2, ConstantFacts

LEMMA ManagerInitInv == ManagerInit => ManagerInv
<1> SUFFICES ASSUME ManagerInit PROVE ManagerInv
  OBVIOUS
<1> USE DEF ManagerInit
<1>1. levelData \in LevelDatas
  BY DEF LevelDatas, Numbers
<1>2. ManagerFlagsOK
  BY DEF ManagerFlagsOK
<1>3. ManagerRangesOK
  BY <1>1, ConstantFacts DEF ManagerRangesOK, Levels, NoLevel
<1>4. HeldWhileNeeded
  BY DEF HeldWhileNeeded, isTransitioning
<1>5. IndexInList /\ LoadedData
  BY DEF IndexInList, LoadedData
<1> QED BY <1>2, <1>3, <1>4, <1>5 DEF ManagerInv, ManagerTypeOK

\* The two flags keep their type; apart from the rest, because the provers
\* that reason about arithmetic do not see Boolean values as members of a set.
LEMMA FlagsNext ==
  ASSUME ManagerFlagsOK, [ManagerNext]_managerVars
  PROVE  ManagerFlagsOK'
<1> USE DEF ManagerFlagsOK, clockVars, requestVars, loadVars
<1>1. CASE ManagerRequest
  BY <1>1, Zenon DEF ManagerRequest, RequestLoadNextLevel, RequestRespawnCurrentLevel,
     RequestFirstLevel, RequestLoadSpecificLevel, RequestLoadLevel, BeginFadeOut,
     ResetCurrentLevelNumber
<1>2. CASE \E d \in FrameTimes : Tick(d)
  BY <1>2, Zenon DEF Tick
<1>3. CASE FadeOut \/ FadeIn \/ FinishLoading \/ LoadTexture
  BY <1>3, Zenon DEF FadeOut, FadeIn, FinishLoading, LoadTexture
<1>4. CASE FinishTransition
  BY <1>4, Zenon DEF FinishTransition
<1>5. ASSUME ScreenIsBlack PROVE loadingScreenReady' \in BOOLEAN
  <2>1. CASE "image" \in LoadFaults
    BY <1>5, <2>1, Zenon DEF ScreenIsBlack
  <2>2. CASE "image" \notin LoadFaults
    BY <1>5, <2>2, Zenon DEF ScreenIsBlack
  <2> QED BY <2>1, <2>2
<1>6. CASE StartLoading
  BY <1>5, <1>6, Zenon DEF StartLoading
<1>7. CASE AbortLoad
  BY <1>5, <1>7, Zenon DEF AbortLoad
<1>8. CASE UNCHANGED managerVars
  BY <1>8, Zenon DEF managerVars
<1> QED BY <1>1, <1>2, <1>3, <1>4, <1>6, <1>7, <1>8 DEF ManagerNext, ManagerUpdate

\* The rest of the invariant, which the next lemmas take action by action.
DataInv == ManagerRangesOK /\ HeldWhileNeeded /\ IndexInList /\ LoadedData

LEMMA BeginFadeOutInv ==
  ASSUME ManagerInv, NEW level \in Levels, NEW type \in {"GENERAL", "NEXT_LEVEL", "RESPAWN"},
         BeginFadeOut(level, type),
         currentLevelNumber' \in {currentLevelNumber, NoLevel}
  PROVE  DataInv'
<1> USE DEF ManagerInv, ManagerTypeOK, BeginFadeOut
<1>1. ManagerRangesOK'
  BY ConstantFacts DEF ManagerRangesOK
<1>2. HeldWhileNeeded'
  BY DEF HeldWhileNeeded, AcceptsRequest, isTransitioning
<1>3. IndexInList' /\ LoadedData'
  BY DEF IndexInList, LoadedData
<1> QED BY <1>1, <1>2, <1>3 DEF DataInv

LEMMA RequestInv ==
  ASSUME ManagerInv, ManagerRequest
  PROVE  DataInv'
<1> USE ConstantFacts DEF Levels, NoLevel
<1>1. CASE ResetCurrentLevelNumber
  BY <1>1 DEF ManagerInv, ManagerTypeOK, DataInv, ManagerRangesOK, HeldWhileNeeded, IndexInList,
     LoadedData, ResetCurrentLevelNumber, clockVars, loadVars, isTransitioning
<1>2. CASE RequestLoadNextLevel
  <2>1. currentLevelNumber + 1 \in Levels
    BY <1>2 DEF RequestLoadNextLevel, hasNextLevel, ManagerInv, ManagerTypeOK, ManagerRangesOK
  <2> QED BY <1>2, <2>1, BeginFadeOutInv DEF RequestLoadNextLevel, RequestLoadLevel
<1>3. CASE RequestRespawnCurrentLevel
  <2>1. currentLevelNumber \in Levels
    BY <1>3 DEF RequestRespawnCurrentLevel, RequestLoadLevel, BeginFadeOut, AcceptsRequest,
       ManagerInv, ManagerTypeOK, ManagerRangesOK
  <2> QED BY <1>3, <2>1, BeginFadeOutInv DEF RequestRespawnCurrentLevel, RequestLoadLevel
<1>4. CASE RequestFirstLevel
  BY <1>4, BeginFadeOutInv DEF RequestFirstLevel
<1>5. CASE \E level \in Levels : RequestLoadSpecificLevel(level)
  BY <1>5, BeginFadeOutInv DEF RequestLoadSpecificLevel, RequestLoadLevel
<1> QED BY <1>1, <1>2, <1>3, <1>4, <1>5 DEF ManagerRequest

LEMMA TickInv ==
  ASSUME ManagerInv, NEW d \in FrameTimes, Tick(d)
  PROVE  DataInv'
  BY ConstantFacts DEF ManagerInv, ManagerTypeOK, DataInv, ManagerRangesOK, HeldWhileNeeded,
     IndexInList, LoadedData, Tick, Elapsed, requestVars, loadVars, isTransitioning

LEMMA UpdateInv ==
  ASSUME ManagerInv, ManagerUpdate
  PROVE  DataInv'
<1> USE ConstantFacts DEF ManagerInv, ManagerTypeOK, DataInv, ManagerRangesOK, HeldWhileNeeded,
        IndexInList, LoadedData, clockVars, requestVars, loadVars, isTransitioning
<1>1. CASE FadeOut
  BY <1>1 DEF FadeOut
<1>2. CASE StartLoading
  <2>1. levelData' \in LevelDatas /\ levelData'.platforms = targetLevelNumber
    BY <1>2, ParsedNumberType DEF StartLoading, ScreenIsBlack, LevelDatas
  <2>2. targetLevelNumber # NoLevel
    BY <1>2 DEF StartLoading, ScreenIsBlack, Levels, NoLevel
  <2>3. 0 <= Len(TexturePaths[targetLevelNumber])
    BY <1>2 DEF StartLoading, ScreenIsBlack
  <2> QED BY <1>2, <2>1, <2>2, <2>3 DEF StartLoading, ScreenIsBlack
<1>3. CASE AbortLoad
  <2>1. levelData' \in LevelDatas
    BY <1>3, ParsedNumberType DEF AbortLoad, ScreenIsBlack, UnreadableFile, MissingPlatforms,
       LevelDatas
  <2> QED BY <1>3, <2>1 DEF AbortLoad, ScreenIsBlack
<1>4. CASE LoadTexture
  <2>1. PICK key \in StoredKeys(texturePathsToLoad[textureLoadIndex + 1]) :
            levelData' = [levelData EXCEPT !.textures = @ \cup {key}]
    BY <1>4 DEF LoadTexture
  <2>2. key \in Paths
    <3>1. texturePathsToLoad \in Seq(STRING)
      BY <1>4 DEF LoadTexture
    <3>2. textureLoadIndex + 1 \in 1 .. Len(texturePathsToLoad)
      BY <1>4, <3>1 DEF LoadTexture
    <3> QED BY <1>4, <2>1, <3>2, ListedPath DEF LoadTexture, StoredKeys
  <2>3. levelData' \in LevelDatas /\ levelData'.platforms = levelData.platforms
    BY <2>1, <2>2 DEF LevelDatas
  <2>4. texturePathsToLoad' \in Seq(STRING) /\ Len(texturePathsToLoad') \in Nat
    BY <1>4 DEF LoadTexture
  <2> QED BY <1>4, <2>3, <2>4 DEF LoadTexture
<1>5. CASE FinishLoading
  BY <1>5 DEF FinishLoading
<1>6. CASE FadeIn
  BY <1>6 DEF FadeIn
<1>7. CASE FinishTransition
  BY <1>7 DEF FinishTransition
<1> QED BY <1>1, <1>2, <1>3, <1>4, <1>5, <1>6, <1>7 DEF ManagerUpdate

LEMMA ManagerNextInv == ManagerInv /\ [ManagerNext]_managerVars => ManagerInv'
<1> SUFFICES ASSUME ManagerInv, [ManagerNext]_managerVars PROVE ManagerInv'
  OBVIOUS
<1>1. CASE UNCHANGED managerVars
  BY <1>1 DEF managerVars, ManagerInv, ManagerTypeOK, ManagerFlagsOK, ManagerRangesOK,
     HeldWhileNeeded, IndexInList, LoadedData, clockVars, requestVars, loadVars, isTransitioning
<1>2. CASE ManagerNext
  <2>1. ManagerFlagsOK'
    BY FlagsNext DEF ManagerInv, ManagerTypeOK
  <2>2. DataInv'
    BY <1>2, RequestInv, TickInv, UpdateInv DEF ManagerNext
  <2> QED BY <2>1, <2>2 DEF DataInv, ManagerInv, ManagerTypeOK
<1> QED BY <1>1, <1>2

\* Type correctness and the strengthening of the two resource invariants.
THEOREM ManagerInvariant == ManagerSpec => []ManagerInv
  BY ManagerInitInv, ManagerNextInv, PTL DEF ManagerSpec

THEOREM ManagerTypeCorrect == ManagerSpec => []ManagerTypeOK
<1>1. ManagerInv => ManagerTypeOK
  BY DEF ManagerInv
<1> QED BY <1>1, ManagerInvariant, PTL

\* The document and the pointer that update() dereferences are valid, and are
\* released on every way back to NONE.
THEOREM ResourcesHeld == ManagerSpec => []HeldWhileNeeded
<1>1. ManagerInv => HeldWhileNeeded
  BY DEF ManagerInv
<1> QED BY <1>1, ManagerInvariant, PTL

\* processLoadingTick stays inside the list of the level being loaded.
THEOREM IndexStaysInList == ManagerSpec => []IndexInList
<1>1. ManagerInv => IndexInList
  BY DEF ManagerInv
<1> QED BY <1>1, ManagerInvariant, PTL

-----------------------------------------------------------------------------
(***************************************************************************)
(* The overlay.                                                            *)
(***************************************************************************)

\* The three steps that touch the level data: both ways out of a finished fade
\* draw the overlay opaque themselves; a texture is stored while it still is.
LEMMA DataStep ==
  ASSUME ManagerInv, ManagerNext, levelData' # levelData
  PROVE  overlay' = FadeDuration
<1> USE DEF clockVars, requestVars, loadVars
<1>1. CASE ManagerRequest \/ (\E d \in FrameTimes : Tick(d))
  BY <1>1 DEF ManagerRequest, RequestLoadNextLevel, RequestRespawnCurrentLevel, RequestFirstLevel,
     RequestLoadSpecificLevel, RequestLoadLevel, BeginFadeOut, ResetCurrentLevelNumber, Tick
<1>2. CASE FadeOut \/ FinishLoading \/ FadeIn \/ FinishTransition
  BY <1>2 DEF FadeOut, FinishLoading, FadeIn, FinishTransition
<1>3. CASE StartLoading \/ AbortLoad
  BY <1>3 DEF StartLoading, AbortLoad, ScreenIsBlack
<1>4. CASE LoadTexture
  BY <1>4 DEF LoadTexture, ManagerInv, LoadedData
<1> QED BY <1>1, <1>2, <1>3, <1>4 DEF ManagerNext, ManagerUpdate

\* The level data is never replaced, nor a texture of it, in view of the player.
THEOREM DataOnlyChangesUnderCover == ManagerSpec => DataChangesUnderCover
<1>1. ManagerInv /\ [ManagerNext]_managerVars =>
         [levelData' # levelData => overlay' = FadeDuration]_managerVars
  BY DataStep
<1> QED BY <1>1, ManagerInvariant, PTL DEF ManagerSpec, DataChangesUnderCover

-----------------------------------------------------------------------------
(***************************************************************************)
(* Textures: with no texture that fails to load, the keys stored so far    *)
(* are those of the prefix of the list that has been processed.            *)
(***************************************************************************)
TexturesSoFar ==
    transitionState = "LOADING" =>
        \A i \in 1 .. textureLoadIndex : texturePathsToLoad[i] \in levelData.textures

TexturesInv == TexturesResolve /\ TexturesSoFar

LEMMA TexturesStep ==
  ASSUME ManagerInv, TexturesInv, ManagerNext, "texture" \notin LoadFaults
  PROVE  TexturesInv'
<1> USE DEF TexturesInv, TexturesResolve, TexturesSoFar
<1>1. CASE ManagerRequest \/ (\E d \in FrameTimes : Tick(d)) \/ FadeOut \/ FadeIn \/ FinishTransition
  <2>2. CASE transitionState = "LOADING"
    BY <1>1, <2>2 DEF ManagerRequest, RequestLoadNextLevel, RequestRespawnCurrentLevel,
       RequestFirstLevel, RequestLoadSpecificLevel, RequestLoadLevel, BeginFadeOut,
       ResetCurrentLevelNumber, AcceptsRequest, isTransitioning, Tick, FadeOut, FadeIn,
       FinishTransition, loadVars
  <2>3. CASE transitionState # "LOADING"
    <3>1. levelData' = levelData
      BY <1>1, <2>3 DEF ManagerRequest, RequestLoadNextLevel, RequestRespawnCurrentLevel,
         RequestFirstLevel, RequestLoadSpecificLevel, RequestLoadLevel, BeginFadeOut,
         ResetCurrentLevelNumber, Tick, FadeOut, FadeIn, FinishTransition, loadVars
    <3>2. transitionState' # "LOADING"
      BY <1>1, <2>3 DEF ManagerRequest, RequestLoadNextLevel, RequestRespawnCurrentLevel,
         RequestFirstLevel, RequestLoadSpecificLevel, RequestLoadLevel, BeginFadeOut,
         ResetCurrentLevelNumber, Tick, FadeOut, FadeIn, FinishTransition
    <3> QED BY <2>3, <3>1, <3>2 DEF TileTextures
  <2> QED BY <2>2, <2>3
<1>2. CASE StartLoading
  BY <1>2, ConstantFacts DEF StartLoading
<1>3. CASE AbortLoad
  <2>1. CASE UnreadableFile
    BY <1>3, <2>1 DEF AbortLoad, ScreenIsBlack, UnreadableFile, TileTextures
  <2>2. CASE MissingPlatforms
    BY <1>3, <2>2 DEF AbortLoad, ScreenIsBlack, MissingPlatforms, TileTextures, ManagerInv,
       ManagerTypeOK, ManagerRangesOK, LevelDatas
  <2> QED BY <1>3, <2>1, <2>2 DEF AbortLoad
<1>4. CASE LoadTexture
  <2>1. levelData' = [levelData EXCEPT
            !.textures = @ \cup {texturePathsToLoad[textureLoadIndex + 1]}]
    BY <1>4 DEF LoadTexture, StoredKeys
  <2>2. levelData'.textures =
            levelData.textures \cup {texturePathsToLoad[textureLoadIndex + 1]}
    BY <2>1 DEF ManagerInv, ManagerTypeOK, ManagerRangesOK, LevelDatas
  <2>3. \A i \in 1 .. textureLoadIndex + 1 : i \in 1 .. textureLoadIndex \/ i = textureLoadIndex + 1
    BY DEF ManagerInv, ManagerTypeOK, ManagerRangesOK
  <2> QED BY <1>4, <2>2, <2>3 DEF LoadTexture
<1>5. CASE FinishLoading
  <2>1. Len(TexturePaths[targetLevelNumber]) = textureLoadIndex
    BY <1>5, ConstantFacts DEF FinishLoading, ManagerInv, ManagerTypeOK, ManagerRangesOK,
       IndexInList, LoadedData
  <2>2. DOMAIN TexturePaths[targetLevelNumber] = 1 .. textureLoadIndex
    BY <1>5, <2>1, ConstantFacts DEF FinishLoading, ManagerInv, LoadedData
  <2>3. Range(TexturePaths[targetLevelNumber]) \subseteq levelData.textures
    BY <1>5, <2>2 DEF FinishLoading, ManagerInv, IndexInList, Range
  <2> QED BY <1>5, <2>3 DEF FinishLoading, ManagerInv, LoadedData, TileTextures, loadVars
<1> QED BY <1>1, <1>2, <1>3, <1>4, <1>5 DEF ManagerNext, ManagerUpdate

\* Where every texture loads, each one that the platforms of the level data
\* name is in its list, whichever loads were aborted before.
THEOREM TexturesAlwaysResolve ==
  ASSUME "texture" \notin LoadFaults
  PROVE  ManagerSpec => []TexturesResolve
<1>1. ManagerInit => TexturesInv
  BY DEF ManagerInit, TexturesInv, TexturesResolve, TexturesSoFar, TileTextures
<1>2. ManagerInv /\ TexturesInv /\ [ManagerNext]_managerVars => TexturesInv'
  <2>1. ManagerInv /\ TexturesInv /\ UNCHANGED managerVars => TexturesInv'
    BY DEF TexturesInv, TexturesResolve, TexturesSoFar, TileTextures, managerVars, loadVars
  <2> QED BY <2>1, TexturesStep
<1>3. TexturesInv => TexturesResolve
  BY DEF TexturesInv
<1> QED BY <1>1, <1>2, <1>3, ManagerInvariant, PTL DEF ManagerSpec

-----------------------------------------------------------------------------
(***************************************************************************)
(* Refinement.                                                             *)
(***************************************************************************)
LEMMA JobStates ==
    /\ transitionState = "NONE" => job = "idle"
    /\ transitionState \in {"FADING_OUT", "LOADING"} => job = "pending"
    /\ transitionState = "FADING_IN" => job = "loaded"
  BY DEF job

LEMMA RequestRefines ==
  ASSUME ManagerInv, ManagerRequest
  PROVE  [Loader!Next]_Loader!loaderVars
<1> USE JobStates DEF ManagerInv, ManagerTypeOK, ManagerRangesOK, isTransitioning
<1>1. CASE ResetCurrentLevelNumber
  <2>1. Loader!Reset
    BY <1>1 DEF ResetCurrentLevelNumber, loadVars, Loader!Reset, Loader!NoLevel, NoLevel, job
  <2> QED BY <2>1 DEF Loader!Next
<1>2. ASSUME NEW level \in Levels, NEW type, BeginFadeOut(level, type), UNCHANGED currentLevelNumber
      PROVE  [Loader!Next]_Loader!loaderVars
  <2>1. Loader!Request(level)
    BY <1>2 DEF BeginFadeOut, AcceptsRequest, Loader!Request, job
  <2>2. level \in Loader!Levels
    BY DEF Loader!Levels, Levels
  <2> QED BY <2>1, <2>2 DEF Loader!Next
<1>3. CASE RequestLoadNextLevel
  <2>1. currentLevelNumber + 1 \in Levels
    BY <1>3, ConstantFacts DEF RequestLoadNextLevel, hasNextLevel, Levels, NoLevel
  <2> QED BY <1>2, <1>3, <2>1 DEF RequestLoadNextLevel, RequestLoadLevel
<1>4. CASE RequestRespawnCurrentLevel
  <2>1. currentLevelNumber \in Levels
    BY <1>4 DEF RequestRespawnCurrentLevel, RequestLoadLevel, BeginFadeOut, AcceptsRequest,
       NoLevel, Levels
  <2> QED BY <1>2, <1>4, <2>1 DEF RequestRespawnCurrentLevel, RequestLoadLevel
<1>5. CASE RequestFirstLevel
  <2>1. Loader!RequestFirst
    BY <1>5 DEF RequestFirstLevel, BeginFadeOut, AcceptsRequest, Loader!RequestFirst,
       Loader!NoLevel, NoLevel, job
  <2> QED BY <2>1 DEF Loader!Next
<1>6. CASE \E level \in Levels : RequestLoadSpecificLevel(level)
  BY <1>2, <1>6 DEF RequestLoadSpecificLevel, RequestLoadLevel
<1> QED BY <1>1, <1>3, <1>4, <1>5, <1>6 DEF ManagerRequest

LEMMA UpdateRefines ==
  ASSUME ManagerInv, ManagerUpdate
  PROVE  [Loader!Next]_Loader!loaderVars
<1> USE DEF requestVars, loadVars, clockVars
<1>1. CASE FadeOut \/ FadeIn
  <2>1. UNCHANGED <<transitionState, currentLevelNumber, targetLevelNumber, levelData>>
    BY <1>1 DEF FadeOut, FadeIn
  <2>2. UNCHANGED job
    BY <2>1 DEF job
  <2> QED BY <2>1, <2>2 DEF Loader!loaderVars
<1>2. CASE StartLoading
  <2>1. job = "pending" /\ job' = "pending"
    BY <1>2 DEF StartLoading, ScreenIsBlack, job
  <2>2. levelData'.platforms = targetLevelNumber
    BY <1>2 DEF StartLoading
  <2>3. UNCHANGED <<currentLevelNumber, targetLevelNumber>>
    BY <1>2 DEF StartLoading, ScreenIsBlack
  <2>4. CASE levelData.platforms = targetLevelNumber
    BY <2>1, <2>2, <2>3, <2>4 DEF Loader!loaderVars
  <2>5. CASE levelData.platforms # targetLevelNumber
    BY <2>1, <2>2, <2>3, <2>5 DEF Loader!Next, Loader!LoaderStep, Loader!Fill
  <2> QED BY <2>4, <2>5
<1>3. CASE AbortLoad
  <2>1. job = "pending" /\ job' = "idle"
    BY <1>3 DEF AbortLoad, ScreenIsBlack, job
  <2>2. levelData'.platforms \in {levelData.platforms, NoLevel}
    BY <1>3 DEF AbortLoad, UnreadableFile, MissingPlatforms, ManagerInv, ManagerTypeOK,
       ManagerRangesOK, LevelDatas
  <2>3. UNCHANGED <<currentLevelNumber, targetLevelNumber>>
    BY <1>3 DEF AbortLoad, ScreenIsBlack
  <2> QED BY <2>1, <2>2, <2>3 DEF Loader!Next, Loader!LoaderStep, Loader!Abort,
          Loader!NoLevel, NoLevel
<1>4. CASE LoadTexture
  <2>1. levelData'.platforms = levelData.platforms
    BY <1>4 DEF LoadTexture, ManagerInv, ManagerTypeOK, ManagerRangesOK, LevelDatas
  <2>2. UNCHANGED <<currentLevelNumber, targetLevelNumber, transitionState>>
    BY <1>4 DEF LoadTexture
  <2>3. UNCHANGED job
    BY <2>2 DEF job
  <2> QED BY <2>1, <2>2, <2>3 DEF Loader!loaderVars
<1>5. CASE FinishLoading
  <2>1. Loader!Deliver
    BY <1>5 DEF FinishLoading, ManagerInv, LoadedData, Loader!Deliver, job
  <2> QED BY <2>1 DEF Loader!Next, Loader!LoaderStep
<1>6. CASE FinishTransition
  <2>1. Loader!Finish
    BY <1>6 DEF FinishTransition, Loader!Finish, job
  <2> QED BY <2>1 DEF Loader!Next, Loader!LoaderStep
<1> QED BY <1>1, <1>2, <1>3, <1>4, <1>5, <1>6 DEF ManagerUpdate

LEMMA StepRefines == ManagerInv /\ [ManagerNext]_managerVars => [Loader!Next]_Loader!loaderVars
<1> SUFFICES ASSUME ManagerInv, [ManagerNext]_managerVars
             PROVE  [Loader!Next]_Loader!loaderVars
  OBVIOUS
<1>1. ASSUME UNCHANGED <<transitionState, currentLevelNumber, targetLevelNumber, levelData>>
      PROVE  UNCHANGED Loader!loaderVars
  <2>1. UNCHANGED job
    BY <1>1 DEF job
  <2> QED BY <1>1, <2>1 DEF Loader!loaderVars
<1>2. CASE UNCHANGED managerVars
  BY <1>1, <1>2 DEF managerVars, requestVars, loadVars
<1>3. CASE \E d \in FrameTimes : Tick(d)
  BY <1>1, <1>3 DEF Tick, requestVars, loadVars
<1> QED BY <1>2, <1>3, RequestRefines, UpdateRefines DEF ManagerNext

\* The manager implements the abstract loader: one job at a time, and the
\* current level changes only with a delivery of what was asked for.
THEOREM ManagerImplementsLoader == ManagerSpec => ImplementsLoader
<1>1. ManagerInit => Loader!Init
  BY JobStates DEF ManagerInit, Loader!Init, Loader!NoLevel, NoLevel
<1> QED BY <1>1, StepRefines, ManagerInvariant, PTL
        DEF ManagerSpec, ImplementsLoader, Loader!Spec
=============================================================================
