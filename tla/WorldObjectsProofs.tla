------------------------- MODULE WorldObjectsProofs -------------------------
(***************************************************************************)
(* Proofs about WorldObjects.tla, for every level: type correctness, the   *)
(* platform under the player, fallen platforms, the two groups of          *)
(* vanishing platforms, and where a teleport ends.                         *)
(***************************************************************************)
EXTENDS WorldObjects, WellFoundedInduction, TLAPS

\* A body off the map is of type none.
OffMapIsNone == \A i \in Bodies : objects[i].at.home = 0 => objects[i].type = "none"

\* A tile that may fall is on the map, so the body that follows it is.
FallsFromMap == \A i \in Bodies : Kind(i) = "falling" => objects[i].tileAt.home # 0

\* No switch hides a falling platform: it is neither solid nor a one-way platform.
FallingBodies ==
    \A i \in Bodies :
        Template(i) = i /\ Kind(i) = "falling" => objects[i].type \in {"falling", "none"}

OnlyFallingFall == \A i \in Bodies : objects[i].fallen => Kind(i) = "falling"

GroundThere == ground # Nobody => objects[ground].type # "none"

\* The teleport of one update is over when the next begins.
ArrivalIsNew == stage # "update" => arrivedAt = Nobody

ObjectsInv == OffMapIsNone /\ FallsFromMap /\ FallingBodies /\ OnlyFallingFall

IInv ==
    /\ TypeOK
    /\ ObjectsInv
    /\ GroundThere
    /\ ArrivalIsNew
    /\ ArrivesOnMap
    /\ FallenIsGone
    /\ GroupsAlternate

-----------------------------------------------------------------------------
LEMMA PlatformFacts ==
    /\ Bodies \subseteq Nat /\ 0 \notin Bodies
    /\ \A i \in Bodies :
            /\ Platforms[i].id \in Nat
            /\ Platforms[i].type \in BodyTypes
            /\ Platforms[i].portalID \in Nat
            /\ Platforms[i].initiallyFalling \in BOOLEAN
<1> DEFINE P == [id : Nat, type : BodyTypes, portalID : Nat, initiallyFalling : BOOLEAN]
<1>1. Platforms \in Seq(P)
  BY LevelAssumption
<1> HIDE DEF P
<1>2. Bodies = 1 .. Len(Platforms) /\ Len(Platforms) \in Nat
  BY <1>1 DEF Bodies
<1>3. \A i \in Bodies : Platforms[i] \in P
  BY <1>1, <1>2
<1> QED BY <1>2, <1>3 DEF P

\* The first platform with the id of a platform exists.
LEMMA TemplateExists ==
  ASSUME NEW i \in Bodies
  PROVE  Template(i) \in Bodies /\ IsFirst(Template(i), Platforms[i].id)
<1> DEFINE Same == {j \in Bodies : Platforms[j].id = Platforms[i].id}
<1>1. Same \subseteq Nat /\ Same # {}
  BY PlatformFacts
<1>2. PICK first \in Same : \A j \in Same : ~(<<j, first>> \in OpToRel(<, Nat))
  BY <1>1, NatLessThanWellFounded, WFMin, Zenon
<1>3. \A j \in Same : first <= j
  <2> SUFFICES ASSUME NEW j \in Same PROVE ~(j < first)
    BY <1>1
  <2>1. <<j, first>> \in Nat \X Nat
    BY <1>1
  <2> QED BY <2>1, <1>2 DEF OpToRel
<1>4. first \in Bodies /\ IsFirst(first, Platforms[i].id)
  BY <1>3 DEF IsFirst
<1> QED BY <1>4 DEF Template, FirstWith

\* A platform found by id is its own template.
LEMMA FoundIsTemplate ==
  ASSUME NEW id, \E i \in Bodies : Platforms[i].id = id
  PROVE  /\ FirstWith(id) \in Bodies
         /\ Template(FirstWith(id)) = FirstWith(id)
<1>1. PICK i \in Bodies : Platforms[i].id = id
  OBVIOUS
<1>2. FirstWith(id) \in Bodies /\ Platforms[FirstWith(id)].id = id
  BY <1>1, TemplateExists DEF Template, IsFirst
<1> QED BY <1>2 DEF Template

LEMMA KindIsType == \A i \in Bodies : Kind(i) \in BodyTypes
  BY TemplateExists, PlatformFacts DEF Kind

-----------------------------------------------------------------------------
\* The steps of a falling platform, one by one.
LEMMA StartFallingFacts ==
  ASSUME NEW o \in Objects
  PROVE  /\ StartFalling(o) \in Objects
         /\ StartFalling(o).type = o.type
         /\ StartFalling(o).at = o.at
         /\ StartFalling(o).tileAt = o.tileAt
         /\ StartFalling(o).fallen = o.fallen
  BY ClockAssumption DEF StartFalling, Objects

LEMMA CountDownFacts ==
  ASSUME NEW o \in Objects
  PROVE  /\ CountDown(o) \in Objects
         /\ CountDown(o).type = o.type
         /\ CountDown(o).at = o.at
         /\ CountDown(o).tileAt = o.tileAt
         /\ CountDown(o).fallen = o.fallen
<1> DEFINE falls == o.falling \/ o.delay <= Step
<1>1. falls \in BOOLEAN
  BY Zenon
<1>2. o.delay \in Int /\ o.delay - Step \in Int
  BY ClockAssumption DEF Objects
<1>3. CountDown(o) = IF o.delay > 0
                     THEN [o EXCEPT !.delay = o.delay - Step, !.falling = falls]
                     ELSE o
  BY DEF CountDown
<1> HIDE DEF falls
<1> QED BY <1>1, <1>2, <1>3 DEF Objects

LEMMA MoveDownFacts ==
  ASSUME NEW o \in Objects
  PROVE  /\ MoveDown(o) \in Objects
         /\ MoveDown(o).type = o.type
         /\ MoveDown(o).at = o.at
         /\ MoveDown(o).tileAt.home = o.tileAt.home
<1>1. Lower(o.tileAt) \in Places /\ Lower(o.tileAt).home = o.tileAt.home
  BY DEF Lower, Objects, Places
<1>2. Below(Lower(o.tileAt)) \in BOOLEAN
  BY DEF Below
<1> HIDE DEF Lower, Below
<1> QED BY <1>1, <1>2 DEF MoveDown, Objects

LEMMA BodyFollowsFacts ==
  ASSUME NEW o \in Objects
  PROVE  /\ BodyFollows(o) \in Objects
         /\ BodyFollows(o).type = o.type
         /\ BodyFollows(o).at \in {o.at, o.tileAt}
         /\ BodyFollows(o).tileAt = o.tileAt
  BY DEF BodyFollows, Objects

LEMMA RemovedFacts ==
  ASSUME NEW o \in Objects
  PROVE  /\ Removed(o) \in Objects
         /\ Removed(o).type \in {o.type, "none"}
         /\ Removed(o).type # "none" => Removed(o).at = o.at
         /\ Removed(o).tileAt = o.tileAt
         /\ Removed(o).fallen => Removed(o).type = "none"
<1>1. OffMap \in Places
  BY DEF OffMap, At, Places
<1> QED BY <1>1 DEF Removed, Objects, BodyTypes, Intangible

\* What the falling of one platform keeps and ends with.
LEMMA UpdateFallingFacts ==
  ASSUME NEW i \in Bodies, objects[i] \in Objects, objects[i].tileAt.home # 0,
         objects[i].at.home = 0 => objects[i].type = "none"
  PROVE  /\ UpdateFalling(i) \in Objects
         /\ UpdateFalling(i).type \in {objects[i].type, "none"}
         /\ UpdateFalling(i).at.home = 0 => UpdateFalling(i).type = "none"
         /\ UpdateFalling(i).tileAt.home # 0
         /\ UpdateFalling(i).fallen => UpdateFalling(i).type = "none"
<1> DEFINE o == objects[i]
           touched == IF ~o.bodyFalling /\ Stands(i) THEN StartFalling(o) ELSE o
           moved == MoveDown(CountDown(touched))
<1>1. /\ touched \in Objects
      /\ touched.type = o.type
      /\ touched.at = o.at
      /\ touched.tileAt = o.tileAt
  BY StartFallingFacts
<1> HIDE DEF touched
<1>2. /\ moved \in Objects
      /\ moved.type = o.type
      /\ moved.at = o.at
      /\ moved.tileAt.home = o.tileAt.home
  BY <1>1, CountDownFacts, MoveDownFacts
<1> HIDE DEF moved
<1>3. /\ BodyFollows(moved) \in Objects
      /\ BodyFollows(moved).type = o.type
      /\ BodyFollows(moved).at.home = 0 => o.type = "none"
      /\ BodyFollows(moved).tileAt.home # 0
  BY <1>2, BodyFollowsFacts
<1>4. UpdateFalling(i) = Removed(BodyFollows(moved))
  BY DEF UpdateFalling, moved, touched
<1> HIDE DEF o
<1>5. /\ UpdateFalling(i) \in Objects
      /\ UpdateFalling(i).type \in {o.type, "none"}
      /\ UpdateFalling(i).at.home = 0 => UpdateFalling(i).type = "none"
      /\ UpdateFalling(i).tileAt.home # 0
      /\ UpdateFalling(i).fallen => UpdateFalling(i).type = "none"
  BY <1>3, <1>4, RemovedFacts
<1> QED BY <1>5 DEF o

LEMMA UpdateVanishingFacts ==
  ASSUME NEW i \in Bodies, objects[i] \in Objects
  PROVE  /\ UpdateVanishing(i) \in Objects
         /\ UpdateVanishing(i).at.home = 0 => UpdateVanishing(i).type = "none"
         /\ UpdateVanishing(i).type = "none" <=> Faded(i)
         /\ UpdateVanishing(i).fallen = objects[i].fallen
<1>1. OffMap \in Places /\ At(Template(i)) \in Places /\ At(Template(i)).home # 0
  BY TemplateExists, PlatformFacts DEF OffMap, At, Places
<1> QED BY <1>1 DEF UpdateVanishing, Objects, BodyTypes, Intangible

\* What an update makes of each platform.
LEMMA UpdateObjectFacts ==
  ASSUME objects \in [Bodies -> Objects], ObjectsInv, NEW i \in Bodies
  PROVE  LET after == UpdateObject(i) IN
         /\ after \in Objects
         /\ after.at.home = 0 => after.type = "none"
         /\ Kind(i) = "falling" => after.tileAt.home # 0
         /\ Kind(i) = "falling" => after.type \in {objects[i].type, "none"}
         /\ Kind(i) = "vanishing" => (after.type = "none" <=> Faded(i))
         /\ after.fallen => Kind(i) = "falling" /\ after.type = "none"
<1>1. objects[i] \in Objects
  OBVIOUS
<1>2. CASE Kind(i) = "falling"
  BY <1>1, <1>2, UpdateFallingFacts DEF UpdateObject, ObjectsInv, OffMapIsNone, FallsFromMap
<1>3. CASE Kind(i) = "vanishing"
  BY <1>1, <1>3, UpdateVanishingFacts DEF UpdateObject, ObjectsInv, OnlyFallingFall
<1>4. CASE Kind(i) \notin {"falling", "vanishing"}
  BY <1>1, <1>4 DEF UpdateObject, ObjectsInv, OffMapIsNone, OnlyFallingFall
<1> QED BY <1>2, <1>3, <1>4

\* One body of each group cannot be faded out at the same time.
LEMMA NotBothFaded ==
  ASSUME cycleTimer \in 0 .. Cycle - 1, oddEven \in {1, -1},
         NEW i \in Bodies, NEW j \in Bodies, IsEven(i) # IsEven(j)
  PROVE  ~(Faded(i) /\ Faded(j))
<1>1. \/ FadingOut(i) /\ ~FadingOut(j)
      \/ ~FadingOut(i) /\ FadingOut(j)
  BY DEF FadingOut, IsEven
<1>2. ~(cycleTimer >= Cycle - HiddenSpan /\ cycleTimer <= HiddenSpan)
  BY ClockAssumption
<1> HIDE DEF FadingOut
<1> QED BY <1>1, <1>2 DEF Faded

\* The body that a step takes from under the player is let go of.
LEMMA LetGo ==
  ASSUME GroundThere, ground \in Bodies \cup {Nobody}, onGround \in BOOLEAN,
         NEW removed, LeaveGround(removed)
  PROVE  /\ ground' \in Bodies \cup {Nobody}
         /\ onGround' \in BOOLEAN
         /\ ground' # Nobody => ground' = ground /\ ground \notin removed
  BY DEF LeaveGround, groundVars, Nobody

-----------------------------------------------------------------------------
LEMMA FreshInv ==
  ASSUME NEW i \in Bodies
  PROVE  /\ Fresh(i) \in Objects
         /\ Fresh(i).at.home # 0 /\ Fresh(i).tileAt.home # 0
         /\ Fresh(i).type = Platforms[i].type
         /\ ~Fresh(i).fallen
<1>1. Fresh(i) \in Objects
  BY PlatformFacts DEF Fresh, At, Objects, Places
<1> QED BY <1>1, PlatformFacts DEF Fresh, At

LEMMA ResetInv ==
  ASSUME stage' = "update",
         objects' = [i \in Bodies |-> Fresh(i)],
         cooldowns' = [id \in Switches |-> 0],
         used' = [id \in Switches |-> FALSE],
         cycleTimer' = 0, oddEven' = 1,
         onGround' = FALSE, ground' = Nobody, arrivedAt' = Nobody
  PROVE  IInv'
<1>1. StateOK'
  <2>1. objects' \in [Bodies -> Objects]
    BY FreshInv
  <2>2. cycleTimer' \in 0 .. Cycle - 1
    BY ClockAssumption
  <2> QED BY <2>1, <2>2 DEF StateOK
<1>2. SwitchesOK'
  BY DEF SwitchesOK
<1>3. OffMapIsNone' /\ FallsFromMap' /\ OnlyFallingFall'
  BY FreshInv DEF OffMapIsNone, FallsFromMap, OnlyFallingFall
<1>4. FallingBodies'
  BY FreshInv DEF FallingBodies, Kind
<1> QED BY <1>1, <1>2, <1>3, <1>4
    DEF IInv, TypeOK, ObjectsInv, GroundThere, ArrivalIsNew, ArrivesOnMap, FallenIsGone,
        GroupsAlternate, Nobody

-----------------------------------------------------------------------------
LEMMA UpdateInv == IInv /\ Update => IInv'
<1> SUFFICES ASSUME IInv, Update PROVE IInv'
  OBVIOUS
<1> USE DEF IInv
<1>1. /\ objects \in [Bodies -> Objects] /\ ObjectsInv
      /\ cycleTimer \in 0 .. Cycle - 1 /\ oddEven \in {1, -1}
      /\ ground \in Bodies \cup {Nobody} /\ onGround \in BOOLEAN
      /\ cooldowns \in [Switches -> Nat] /\ used \in [Switches -> BOOLEAN]
  BY DEF TypeOK, StateOK, SwitchesOK
<1>2. /\ stage' = "collide" /\ arrivedAt' = Nobody /\ used' = used
      /\ objects' = [i \in Bodies |-> UpdateObject(i)]
  BY DEF Update
<1> DEFINE Gone == {i \in Bodies : objects[i].type # "none" /\ UpdateObject(i).type = "none"}
<1>3. /\ ground' \in Bodies \cup {Nobody}
      /\ onGround' \in BOOLEAN
      /\ ground' # Nobody => ground' = ground /\ ground \notin Gone
  BY <1>1, LetGo DEF Update
<1>4. /\ cycleTimer' \in 0 .. Cycle - 1
      /\ oddEven' \in {1, -1}
  <2>1. /\ cycleTimer' = (cycleTimer + Step) % Cycle
        /\ oddEven' = IF cycleTimer + Step >= Cycle THEN -oddEven ELSE oddEven
    BY DEF Update, CycleGoesOn
  <2> QED BY <1>1, <2>1, ClockAssumption
<1>5. cooldowns' \in [Switches -> Nat]
  <2>1. \A id \in Switches :
            (IF cooldowns[id] > Step THEN cooldowns[id] - Step ELSE 0) \in Nat
    BY <1>1, ClockAssumption
  <2> QED BY <2>1 DEF Update
<1>6. TypeOK'
  <2>1. objects' \in [Bodies -> Objects]
    BY <1>1, <1>2, UpdateObjectFacts
  <2> QED BY <1>1, <1>2, <1>3, <1>4, <1>5, <2>1 DEF TypeOK, StateOK, SwitchesOK
<1>7. OffMapIsNone' /\ FallsFromMap' /\ OnlyFallingFall'
  BY <1>1, <1>2, UpdateObjectFacts DEF OffMapIsNone, FallsFromMap, OnlyFallingFall
<1>8. FallingBodies'
  BY <1>1, <1>2, UpdateObjectFacts DEF FallingBodies, ObjectsInv
<1>9. GroundThere'
  BY <1>1, <1>2, <1>3 DEF GroundThere
<1>10. FallenIsGone'
  BY <1>1, <1>2, UpdateObjectFacts DEF FallenIsGone
<1>11. GroupsAlternate'
  BY <1>1, <1>2, UpdateObjectFacts, NotBothFaded DEF GroupsAlternate
<1> QED BY <1>2, <1>6, <1>7, <1>8, <1>9, <1>10, <1>11
    DEF ObjectsInv, ArrivalIsNew, ArrivesOnMap

\* Where nothing happens to the objects and the stage does not become collide.
LEMMA KeptInv ==
  ASSUME IInv, UNCHANGED <<objects, switchVars, cycleVars>>,
         stage' \in {"interact", "update"},
         ground' \in Bodies \cup {Nobody}, onGround' \in BOOLEAN,
         ground' # Nobody => objects[ground'].type # "none",
         arrivedAt' \in Bodies \cup {Nobody},
         arrivedAt' # Nobody => objects[arrivedAt'].type # "none" /\ stage' = "update"
  PROVE  IInv'
<1> USE DEF IInv
<1>1. TypeOK'
  BY DEF TypeOK, StateOK, SwitchesOK, switchVars, cycleVars
<1>2. OffMapIsNone' /\ FallsFromMap' /\ OnlyFallingFall' /\ FallingBodies'
  BY DEF ObjectsInv, OffMapIsNone, FallsFromMap, OnlyFallingFall, FallingBodies
<1>3. ArrivesOnMap'
  BY DEF ArrivesOnMap, ObjectsInv, OffMapIsNone, OffMap, At
<1> QED BY <1>1, <1>2, <1>3
    DEF ObjectsInv, GroundThere, ArrivalIsNew, FallenIsGone, GroupsAlternate

LEMMA LandInv == IInv /\ (Land \/ Fly) => IInv'
<1>1. ASSUME IInv, Land PROVE IInv'
  BY <1>1, KeptInv DEF Land, IInv, TypeOK, StateOK, ArrivalIsNew, Intangible
<1>2. ASSUME IInv, Fly PROVE IInv'
  BY <1>2, KeptInv DEF Fly, IInv, TypeOK, StateOK, ArrivalIsNew, Nobody
<1> QED BY <1>1, <1>2

LEMMA NoInteractionInv == IInv /\ NoInteraction => IInv'
<1> SUFFICES ASSUME IInv, NoInteraction PROVE IInv'
  OBVIOUS
<1>1. arrivedAt = Nobody
  BY DEF NoInteraction, Interact, IInv, ArrivalIsNew
<1> QED BY <1>1, KeptInv DEF NoInteraction, Interact, groundVars, IInv, TypeOK, StateOK,
                             GroundThere

LEMMA EnterPortalInv == IInv /\ EnterPortal => IInv'
<1> SUFFICES ASSUME IInv, EnterPortal PROVE IInv'
  OBVIOUS
<1>1. PICK destination \in Bodies :
          arrivedAt' = destination /\ objects[destination].type = "portal"
  BY DEF EnterPortal, LeadsTo
<1> QED BY <1>1, KeptInv DEF EnterPortal, Interact, groundVars, IInv, TypeOK, StateOK,
                             GroundThere

LEMMA PressedFacts ==
  ASSUME NEW o \in Objects, NEW target \in BodyTypes,
         o.at.home # 0
  PROVE  /\ Pressed(o, target) \in Objects
         /\ Pressed(o, target).type = target
         /\ Pressed(o, target).at.home = 0 => target = "none"
         /\ Pressed(o, target).tileAt = o.tileAt
         /\ Pressed(o, target).fallen = o.fallen
<1>1. OffMap \in Places
  BY DEF OffMap, At, Places
<1> QED BY <1>1 DEF Pressed, Objects

LEMMA ToggledFacts ==
  ASSUME NEW o \in Objects, NEW j \in Bodies,
         o.at.home = 0 => o.type = "none"
  PROVE  /\ Toggled(o, j) \in Objects
         /\ Toggled(o, j).at.home = 0 => Toggled(o, j).type = "none"
         /\ o.type = "none" => /\ Toggled(o, j).type = Platforms[j].type
                               /\ Toggled(o, j).tileAt.home # 0
         /\ o.type \notin {"solid", "platform", "none"} => Toggled(o, j) = o
         /\ Toggled(o, j).fallen = o.fallen
<1>1. OffMap \in Places /\ At(j) \in Places /\ At(j).home # 0
  BY PlatformFacts DEF OffMap, At, Places
<1>2. (Platforms[j].type # "none") \in BOOLEAN
  BY Zenon
<1>3. Platforms[j].type \in BodyTypes /\ "none" \in BodyTypes
  BY PlatformFacts DEF BodyTypes, Intangible
<1> QED BY <1>1, <1>2, <1>3 DEF Toggled, Objects

\* What a press makes of each platform.
LEMMA AfterPressFacts ==
  ASSUME objects \in [Bodies -> Objects], ObjectsInv,
         NEW i \in Bodies, objects[i].type = "interactible",
         NEW target \in BodyTypes, NEW linkedID, NEW j \in Bodies
  PROVE  LET after == AfterPress(i, target, linkedID)[j] IN
         /\ after \in Objects
         /\ after.at.home = 0 => after.type = "none"
         /\ Kind(j) = "falling" => after.tileAt.home # 0
         /\ Template(j) = j /\ Kind(j) = "falling" => after.type \in {"falling", "none"}
         /\ after.fallen = objects[j].fallen
         /\ objects[j].type # "none" /\ j \notin TakenAway(i, target, linkedID)
                => after.type # "none"
<1> DEFINE changed == AfterChange(i, target)[j]
           linked == Exists(linkedID) /\ j = FirstWith(linkedID)
<1>1. objects[j] \in Objects /\ objects[i] \in Objects
  OBVIOUS
<1>2. changed = IF j = i THEN Pressed(objects[i], target) ELSE objects[j]
  BY DEF AfterChange
<1>3. objects[i].at.home # 0
  BY DEF ObjectsInv, OffMapIsNone
<1>4. /\ changed \in Objects
      /\ changed.at.home = 0 => changed.type = "none"
      /\ changed.tileAt = objects[j].tileAt
      /\ changed.fallen = objects[j].fallen
      /\ j = i => changed.type = target
      /\ j # i => changed = objects[j]
  BY <1>1, <1>2, <1>3, PressedFacts DEF ObjectsInv, OffMapIsNone
<1>5. AfterPress(i, target, linkedID)[j] = IF linked THEN Toggled(changed, j) ELSE changed
  BY DEF AfterPress
<1>6. linked => Template(j) = j
  BY FoundIsTemplate DEF Exists
<1>7. j \notin TakenAway(i, target, linkedID) =>
          /\ ~(j = i /\ target = "none")
          /\ ~(linked /\ changed.type \in {"solid", "platform"})
  BY DEF TakenAway
<1>8. Template(j) = j /\ Kind(j) = "falling" =>
          objects[j].type \in {"falling", "none"} /\ Platforms[j].type = "falling" /\ j # i
  BY DEF ObjectsInv, FallingBodies, Kind
<1>9. Kind(j) = "falling" => objects[j].tileAt.home # 0
  BY DEF ObjectsInv, FallsFromMap
<1> HIDE DEF changed, linked
<1>10. CASE linked
  BY <1>4, <1>5, <1>6, <1>7, <1>8, <1>9, <1>10, ToggledFacts
<1>11. CASE ~linked
  BY <1>4, <1>5, <1>7, <1>8, <1>9, <1>11
<1> QED BY <1>10, <1>11

LEMMA SwitchFacts ==
  ASSUME NEW id \in Switches
  PROVE  /\ Interactions[id].target \in BodyTypes
         /\ Interactions[id].oneTime \in BOOLEAN
         /\ Interactions[id].cooldown \in Nat
<1>1. Interactions[id] \in [target : BodyTypes, oneTime : BOOLEAN, cooldown : Nat,
                            linkedID : Nat]
  BY LevelAssumption DEF Switches
<1> QED BY <1>1

LEMMA ChangeSelfInv == IInv /\ ChangeSelf => IInv'
<1> SUFFICES ASSUME IInv, ChangeSelf PROVE IInv'
  OBVIOUS
<1> USE DEF IInv
<1>1. PICK i \in Bodies : PressSwitch(i)
  BY DEF ChangeSelf
<1> DEFINE id == Platforms[i].id
           target == Interactions[id].target
           linkedID == Interactions[id].linkedID
<1>2. /\ objects[i].type = "interactible"
      /\ id \in Switches
      /\ objects' = AfterPress(i, target, linkedID)
      /\ LeaveGround(TakenAway(i, target, linkedID))
      /\ used' = [used EXCEPT ![id] = Interactions[id].oneTime]
      /\ cooldowns' = [cooldowns EXCEPT ![id] = IF Interactions[id].oneTime THEN @
                                                ELSE Interactions[id].cooldown]
  BY <1>1 DEF PressSwitch
<1>3. target \in BodyTypes
  BY <1>2, SwitchFacts
<1>4. /\ objects \in [Bodies -> Objects] /\ ObjectsInv
      /\ ground \in Bodies \cup {Nobody} /\ onGround \in BOOLEAN
      /\ stage = "interact" /\ stage' = "update"
      /\ UNCHANGED cycleVars /\ arrivedAt' = arrivedAt /\ arrivedAt = Nobody
  BY DEF TypeOK, StateOK, ChangeSelf, Interact, ArrivalIsNew
<1>5. SwitchesOK'
  <2>1. cooldowns \in [Switches -> Nat] /\ used \in [Switches -> BOOLEAN]
    BY DEF TypeOK, SwitchesOK
  <2>2. cooldowns' \in [Switches -> Nat]
    BY <1>2, <2>1, SwitchFacts
  <2>3. used' \in [Switches -> BOOLEAN]
    BY <1>2, <2>1, SwitchFacts
  <2> QED BY <2>2, <2>3 DEF SwitchesOK
<1> HIDE DEF id, target, linkedID
<1>6. /\ ground' \in Bodies \cup {Nobody}
      /\ onGround' \in BOOLEAN
      /\ ground' # Nobody => ground' = ground /\ ground \notin TakenAway(i, target, linkedID)
  BY <1>2, <1>4, LetGo
<1>7. \A j \in Bodies :
          LET after == objects'[j] IN
          /\ after \in Objects
          /\ after.at.home = 0 => after.type = "none"
          /\ Kind(j) = "falling" => after.tileAt.home # 0
          /\ Template(j) = j /\ Kind(j) = "falling" => after.type \in {"falling", "none"}
          /\ after.fallen = objects[j].fallen
          /\ objects[j].type # "none" /\ j \notin TakenAway(i, target, linkedID)
                 => after.type # "none"
  BY <1>2, <1>3, <1>4, AfterPressFacts
<1>8. TypeOK'
  <2>1. objects' \in [Bodies -> Objects]
    <3>1. objects' = [j \in Bodies |-> objects'[j]]
      BY <1>2 DEF AfterPress
    <3> QED BY <3>1, <1>7
  <2> QED BY <1>4, <1>5, <1>6, <2>1 DEF TypeOK, StateOK, cycleVars
<1>9. OffMapIsNone' /\ FallsFromMap' /\ OnlyFallingFall' /\ FallingBodies'
  BY <1>4, <1>7 DEF ObjectsInv, OffMapIsNone, FallsFromMap, OnlyFallingFall, FallingBodies
<1>10. GroundThere'
  BY <1>4, <1>6, <1>7 DEF GroundThere
<1> QED BY <1>4, <1>8, <1>9, <1>10
    DEF ObjectsInv, ArrivalIsNew, ArrivesOnMap, FallenIsGone, GroupsAlternate

-----------------------------------------------------------------------------
\* The inductive invariant: nothing below holds of the update and the switches
\* without knowing which platforms can be off the map and which can be falling.
THEOREM ObjectsInvariant == Spec => []IInv
<1>1. Init => IInv
  <2> SUFFICES ASSUME Init PROVE IInv
    OBVIOUS
  <2>1. StateOK
    <3>1. objects \in [Bodies -> Objects]
      BY FreshInv DEF Init
    <3>2. 0 \in 0 .. Cycle - 1
      BY ClockAssumption
    <3> QED BY <3>1, <3>2 DEF Init, StateOK
  <2>2. SwitchesOK
    BY DEF Init, SwitchesOK
  <2>3. OffMapIsNone /\ FallsFromMap /\ OnlyFallingFall
    BY FreshInv DEF Init, OffMapIsNone, FallsFromMap, OnlyFallingFall
  <2>4. FallingBodies
    BY FreshInv DEF Init, FallingBodies, Kind
  <2> QED BY <2>1, <2>2, <2>3, <2>4
      DEF Init, IInv, TypeOK, ObjectsInv, GroundThere, ArrivalIsNew, ArrivesOnMap,
          FallenIsGone, GroupsAlternate, Nobody
<1>2. IInv /\ [Next]_vars => IInv'
  <2>1. ASSUME IInv, SetupLevelAssets PROVE IInv'
    BY <2>1, ResetInv DEF SetupLevelAssets
  <2>2. ASSUME IInv, UNCHANGED vars PROVE IInv'
    BY <2>2 DEF IInv, TypeOK, StateOK, SwitchesOK, ObjectsInv, OffMapIsNone, FallsFromMap,
                FallingBodies, OnlyFallingFall, GroundThere, ArrivalIsNew, ArrivesOnMap,
                FallenIsGone, GroupsAlternate, vars, switchVars, cycleVars, groundVars
  <2> QED BY <2>1, <2>2, UpdateInv, LandInv, NoInteractionInv, EnterPortalInv, ChangeSelfInv
      DEF Next, FixedUpdate
<1> QED BY <1>1, <1>2, PTL DEF Spec

\* Every variable keeps its type, for every level and every clock.
THEOREM TypeCorrect == Spec => []TypeOK
<1>1. IInv => TypeOK
  BY DEF IInv
<1> QED BY <1>1, ObjectsInvariant, PTL

\* The player never stands on a platform that is not there (main.cpp:949-952,
\* 976-979, 1219-1222, 1239-1242).
THEOREM AlwaysOnSomething == Spec => []StandsOnSomething
<1>1. IInv => StandsOnSomething
  <2> SUFFICES ASSUME IInv, ground # Nobody
               PROVE  objects[ground].type # "none" /\ objects[ground].at # OffMap
    BY DEF StandsOnSomething
  <2>1. ground \in Bodies /\ objects[ground].type # "none"
    BY DEF IInv, TypeOK, StateOK, GroundThere
  <2> QED BY <2>1 DEF IInv, ObjectsInv, OffMapIsNone, OffMap, At
<1> QED BY <1>1, ObjectsInvariant, PTL

\* A platform that has fallen is not there when collisions are resolved, whatever
\* the switches do (main.cpp:946-956, 1250-1270).
THEOREM FallenNeverCarries == Spec => []FallenIsGone
<1>1. IInv => FallenIsGone
  BY DEF IInv
<1> QED BY <1>1, ObjectsInvariant, PTL

\* One platform of each group of vanishing platforms: one of the two is there
\* whenever collisions are resolved (main.cpp:958-1008).
THEOREM GroupsTakeTurns == Spec => []GroupsAlternate
<1>1. IInv => GroupsAlternate
  BY DEF IInv
<1> QED BY <1>1, ObjectsInvariant, PTL

\* A teleport never ends where removed bodies are kept (main.cpp:1123-1142).
THEOREM TeleportsStayOnMap == Spec => []ArrivesOnMap
<1>1. IInv => ArrivesOnMap
  BY DEF IInv
<1> QED BY <1>1, ObjectsInvariant, PTL

-----------------------------------------------------------------------------
(***************************************************************************)
(* What is seen is there.  Between collisions the two may differ: a switch *)
(* puts a fallen platform back, and a faded body may be switched, until    *)
(* the next update.                                                        *)
(***************************************************************************)
Matched(o) ==
    /\ ~o.fallen => (o.colored <=> o.type # "none")
    /\ o.type # "none" => o.at = o.tileAt

\* Vanishing platforms are left out: each update makes both halves anew.
Steady == {i \in Bodies : Platforms[i].type # "none" /\ Kind(i) # "vanishing"}

SteadyMatch == \A i \in Steady : Matched(objects[i])

\* FallenIsGone lasts until a switch is pressed.
FallenStaysGone == stage # "update" => \A i \in Bodies : objects[i].fallen => objects[i].type = "none"

SeenInv == SteadyMatch /\ FallenStaysGone /\ SeenIsThere

LEMMA FreshMatched ==
  ASSUME NEW i \in Bodies, Platforms[i].type # "none"
  PROVE  Matched(Fresh(i))
  BY DEF Fresh, Matched

LEMMA FallingMatched ==
  ASSUME NEW i \in Bodies, objects[i] \in Objects, Matched(objects[i])
  PROVE  Matched(UpdateFalling(i))
<1> DEFINE o == objects[i]
           touched == IF ~o.bodyFalling /\ Stands(i) THEN StartFalling(o) ELSE o
           counted == CountDown(touched)
           moved == MoveDown(counted)
           followed == BodyFollows(moved)
<1>1. /\ touched \in Objects
      /\ touched.type = o.type /\ touched.colored = o.colored /\ touched.fallen = o.fallen
      /\ touched.at = o.at /\ touched.tileAt = o.tileAt
  BY StartFallingFacts DEF StartFalling, Objects
<1> HIDE DEF touched
<1>2. /\ counted \in Objects
      /\ counted.type = o.type /\ counted.colored = o.colored /\ counted.fallen = o.fallen
      /\ counted.at = o.at /\ counted.tileAt = o.tileAt
  <2>1. counted.colored = touched.colored
    BY <1>1 DEF CountDown, Objects
  <2> QED BY <1>1, <2>1, CountDownFacts
<1>3. Matched(counted)
  BY <1>2 DEF Matched
<1> HIDE DEF counted, o
<1>4. \/ moved = counted /\ (moved.falling => moved.fallen)
      \/ moved.falling /\ moved.type = counted.type /\ moved.colored = counted.colored
                       /\ ~counted.fallen /\ ~moved.fallen
      \/ moved.fallen
  BY <1>2 DEF MoveDown, Objects
<1>5. moved \in Objects
  BY <1>2, MoveDownFacts
<1> HIDE DEF moved
<1>6. /\ followed.type = moved.type /\ followed.colored = moved.colored
      /\ followed.fallen = moved.fallen /\ followed.tileAt = moved.tileAt
      /\ followed.at = IF moved.falling THEN moved.tileAt ELSE moved.at
      /\ followed \in Objects
  BY <1>5, BodyFollowsFacts DEF BodyFollows, Objects
<1>7. moved.fallen \/ Matched(followed)
  BY <1>3, <1>4, <1>6 DEF Matched
<1> HIDE DEF followed
<1>8. Matched(Removed(followed))
  BY <1>6, <1>7 DEF Removed, Matched, Objects
<1>9. UpdateFalling(i) = Removed(followed)
  BY DEF UpdateFalling, followed, moved, counted, touched, o
<1> QED BY <1>8, <1>9

LEMMA VanishingSeen ==
  ASSUME NEW i \in Bodies, objects[i] \in Objects, ~objects[i].fallen
  PROVE  LET after == UpdateVanishing(i) IN
         /\ after.colored /\ ~after.fallen <=> after.type # "none"
         /\ after.type # "none" => after.at = after.tileAt
  BY DEF UpdateVanishing, Objects

LEMMA UpdateSeen ==
  ASSUME IInv, SeenInv, Update
  PROVE  SeenInv'
<1>1. /\ objects \in [Bodies -> Objects] /\ ObjectsInv
      /\ stage' = "collide"
      /\ objects' = [i \in Bodies |-> UpdateObject(i)]
  BY DEF IInv, TypeOK, StateOK, Update
<1>2. \A i \in Bodies : UpdateObject(i).fallen => UpdateObject(i).type = "none"
  BY <1>1, UpdateObjectFacts
<1>3. \A i \in Steady : Matched(UpdateObject(i))
  BY <1>1, FallingMatched DEF UpdateObject, Steady, SeenInv, SteadyMatch
<1>4. FallenStaysGone'
  BY <1>1, <1>2 DEF FallenStaysGone
<1>5. SteadyMatch'
  BY <1>1, <1>3 DEF SteadyMatch, Steady
<1>6. ASSUME NEW i \in Bodies, Platforms[i].type # "none"
      PROVE  LET after == UpdateObject(i) IN
             /\ after.colored /\ ~after.fallen <=> after.type # "none"
             /\ after.type # "none" => after.at = after.tileAt
  <2>1. CASE Kind(i) = "vanishing"
    BY <1>1, <2>1, VanishingSeen DEF UpdateObject, ObjectsInv, OnlyFallingFall
  <2>2. CASE Kind(i) # "vanishing"
    <3>1. Matched(UpdateObject(i))
      BY <1>3, <1>6, <2>2 DEF Steady
    <3> HIDE DEF UpdateObject
    <3> QED BY <1>2, <3>1 DEF Matched
  <2> QED BY <2>1, <2>2
<1>7. SeenIsThere'
  BY <1>1, <1>6 DEF SeenIsThere
<1> QED BY <1>4, <1>5, <1>7 DEF SeenInv

\* A press keeps the match; it ends the update, so that nobody looks for fallen
\* platforms that it puts back.
LEMMA PressSeen ==
  ASSUME IInv, SeenInv, ChangeSelf
  PROVE  SeenInv'
<1>1. PICK i \in Bodies : PressSwitch(i)
  BY DEF ChangeSelf
<1> DEFINE id == Platforms[i].id
           target == Interactions[id].target
           linkedID == Interactions[id].linkedID
<1>2. /\ objects[i].type = "interactible"
      /\ id \in Switches
      /\ objects' = AfterPress(i, target, linkedID)
      /\ stage = "interact" /\ stage' = "update"
      /\ objects \in [Bodies -> Objects]
  BY <1>1 DEF PressSwitch, ChangeSelf, Interact, IInv, TypeOK, StateOK
<1> HIDE DEF id, target, linkedID
<1>3. ASSUME NEW j \in Steady PROVE Matched(objects'[j])
  <2> DEFINE changed == AfterChange(i, target)[j]
             linked == Exists(linkedID) /\ j = FirstWith(linkedID)
  <2>1. j \in Bodies /\ Platforms[j].type # "none"
    BY DEF Steady
  <2>2. objects[j] \in Objects /\ Matched(objects[j])
    BY <1>2, <2>1, <1>3 DEF SeenInv, SteadyMatch
  <2>3. changed = IF j = i THEN Pressed(objects[j], target) ELSE objects[j]
    BY <1>2, <2>1 DEF AfterChange
  <2>4. objects'[j] = IF linked THEN Toggled(changed, j) ELSE changed
    BY <1>2, <2>1 DEF AfterPress
  <2> HIDE DEF changed, linked
  <2>5. j = i => ~objects[j].fallen
    BY <1>2, <2>1 DEF SeenInv, FallenStaysGone
  <2>6. j = i => Matched(Pressed(objects[j], target))
    BY <1>2, <2>2, <2>5 DEF Pressed, Matched, Objects
  <2>7. Matched(changed)
    BY <2>2, <2>3, <2>6
  <2>8. Matched(Toggled(changed, j))
    <3>1. DOMAIN changed = {"type", "at", "bodyFalling", "tileAt", "colored", "delay",
                            "falling", "fallen"}
      BY <2>2, <2>3 DEF Objects, Pressed
    <3> QED BY <2>1, <2>7, <3>1 DEF Toggled, Matched
  <2> QED BY <2>4, <2>7, <2>8
<1>4. SteadyMatch'
  BY <1>3 DEF SteadyMatch, Steady
<1> QED BY <1>2, <1>4 DEF SeenInv, FallenStaysGone, SeenIsThere

LEMMA SeenStep ==
  ASSUME IInv, SeenInv, [Next]_vars
  PROVE  SeenInv'
<1> USE DEF SeenInv, SteadyMatch, FallenStaysGone, SeenIsThere, Steady
<1>1. CASE UNCHANGED vars
  BY <1>1 DEF vars
<1>2. CASE SetupLevelAssets
  <2>1. \A i \in Bodies : objects'[i] = Fresh(i)
    BY <1>2 DEF SetupLevelAssets
  <2> QED BY <1>2, <2>1, FreshMatched DEF SetupLevelAssets
<1>3. CASE Land \/ Fly
  BY <1>3 DEF Land, Fly
<1>4. CASE NoInteraction \/ EnterPortal
  BY <1>4 DEF NoInteraction, EnterPortal, Interact
<1> QED BY <1>1, <1>2, <1>3, <1>4, UpdateSeen, PressSeen DEF Next, FixedUpdate

\* What the player sees when collisions are resolved is where he can stand, in
\* every level: shared ids, switches on falling and vanishing platforms, and
\* platforms put back after a fall included.
THEOREM WhatIsSeenIsThere == Spec => []SeenIsThere
<1>1. Init => SeenInv
  <2> SUFFICES ASSUME Init PROVE SeenInv
    OBVIOUS
  <2>1. \A i \in Bodies : objects[i] = Fresh(i)
    BY DEF Init
  <2> QED BY <2>1, FreshMatched
          DEF Init, SeenInv, SteadyMatch, FallenStaysGone, SeenIsThere, Steady
<1>2. IInv /\ SeenInv /\ [Next]_vars => SeenInv'
  BY SeenStep
<1>3. SeenInv => SeenIsThere
  BY DEF SeenInv
<1> QED BY <1>1, <1>2, <1>3, ObjectsInvariant, PTL DEF Spec

-----------------------------------------------------------------------------
(***************************************************************************)
(* Walls.                                                                  *)
(***************************************************************************)

\* A wall is what the level has in its place or it is away: it never becomes a
\* switch, whose press would change it without a link.
WallOrAway == \A i \in Walls : objects[i].type \in {Platforms[i].type, "none"}

LEMMA WallsKept ==
  ASSUME IInv, WallOrAway, [Next]_vars, ~SetupLevelAssets, ~ChangeSelf
  PROVE  \A i \in Walls : objects'[i].type = objects[i].type
<1>1. CASE Update
  <2>1. \A i \in Walls : UpdateObject(i) = objects[i]
    BY DEF Walls, UpdateObject
  <2> QED BY <1>1, <2>1 DEF Update, Walls
<1>2. CASE UNCHANGED objects
  BY <1>2
<1> QED BY <1>1, <1>2 DEF Next, FixedUpdate, Land, Fly, NoInteraction, EnterPortal, vars

\* A press changes a wall through a link alone, and then puts it back or away.
LEMMA WallsPressed ==
  ASSUME IInv, WallOrAway, NEW i \in Bodies, PressSwitch(i),
         NEW j \in Walls, objects'[j].type # objects[j].type
  PROVE  /\ Interactions[Platforms[i].id].linkedID = Platforms[j].id
         /\ objects'[j].type \in {Platforms[j].type, "none"}
<1> DEFINE target == Interactions[Platforms[i].id].target
           linkedID == Interactions[Platforms[i].id].linkedID
           linked == Exists(linkedID) /\ j = FirstWith(linkedID)
<1>1. /\ objects[i].type = "interactible"
      /\ objects' = AfterPress(i, target, linkedID)
      /\ objects \in [Bodies -> Objects]
      /\ j \in Bodies
  BY DEF PressSwitch, IInv, TypeOK, StateOK, Walls
<1>2. j # i
  BY <1>1 DEF WallOrAway, Walls
<1>3. AfterChange(i, target)[j] = objects[j]
  BY <1>1, <1>2 DEF AfterChange
<1>4. objects'[j] = IF linked THEN Toggled(objects[j], j) ELSE objects[j]
  BY <1>1, <1>3 DEF AfterPress
<1>5. linked
  BY <1>4
<1>6. Platforms[j].id = linkedID
  <2>1. PICK k \in Bodies : Platforms[k].id = linkedID
    BY <1>5 DEF Exists
  <2>2. Platforms[FirstWith(linkedID)].id = linkedID
    BY <2>1, TemplateExists DEF Template, IsFirst
  <2> QED BY <1>5, <2>2
<1> HIDE DEF linked
<1>7. objects'[j].type \in {Platforms[j].type, "none"}
  BY <1>1, <1>4, <1>5 DEF Toggled, Objects
<1> QED BY <1>6, <1>7

LEMMA WallStep ==
  ASSUME IInv, WallOrAway, [Next]_vars
  PROVE  WallOrAway'
<1>1. CASE SetupLevelAssets
  BY <1>1, FreshInv DEF SetupLevelAssets, WallOrAway, Walls
<1>2. CASE ChangeSelf
  <2>1. PICK i \in Bodies : PressSwitch(i)
    BY <1>2 DEF ChangeSelf
  <2> QED BY <2>1, WallsPressed DEF WallOrAway
<1>3. CASE ~SetupLevelAssets /\ ~ChangeSelf
  BY <1>3, WallsKept DEF WallOrAway
<1> QED BY <1>1, <1>2, <1>3

\* A wall comes or goes only by a switch linked to it that was ready, and that
\* the press uses up or sets cooling down, in every level.
THEOREM WallsOnlyMoveBySwitch == Spec => WallsMoveBySwitch
<1>1. Init => WallOrAway
  BY FreshInv DEF Init, WallOrAway, Walls
<1>2. IInv /\ WallOrAway /\ [Next]_vars => WallOrAway'
  BY WallStep
<1>3. IInv /\ WallOrAway /\ [Next]_vars =>
         [\A i \in Walls :
            objects'[i].type # objects[i].type /\ ~SetupLevelAssets => BySwitch(i)]_vars
  <2> SUFFICES ASSUME IInv, WallOrAway, [Next]_vars, NEW j \in Walls,
                      objects'[j].type # objects[j].type, ~SetupLevelAssets
               PROVE  BySwitch(j)
    OBVIOUS
  <2>1. ChangeSelf
    BY WallsKept
  <2>2. PICK i \in Bodies : PressSwitch(i)
    BY <2>1 DEF ChangeSelf
  <2>3. Interactions[Platforms[i].id].linkedID = Platforms[j].id
    BY <2>2, WallsPressed
  <2>4. /\ Platforms[i].id \in Switches
        /\ cooldowns[Platforms[i].id] = 0 /\ ~used[Platforms[i].id]
    BY <2>2 DEF PressSwitch, Ready
  <2>5. cooldowns \in [Switches -> Nat] /\ used \in [Switches -> BOOLEAN]
    BY DEF IInv, TypeOK, SwitchesOK
  <2>6. IF Interactions[Platforms[i].id].oneTime THEN used'[Platforms[i].id]
        ELSE cooldowns'[Platforms[i].id] = Interactions[Platforms[i].id].cooldown
    BY <2>2, <2>4, <2>5 DEF PressSwitch
  <2> QED BY <2>3, <2>4, <2>6 DEF BySwitch
<1> QED BY <1>1, <1>2, <1>3, ObjectsInvariant, PTL DEF Spec, WallsMoveBySwitch
=============================================================================
