-------------------------- MODULE ClearLevelProofs --------------------------
(***************************************************************************)
(* Proofs about whole levels: those in which the player's way is clear in  *)
(* every update, since nothing but his own movement takes him anywhere.    *)
(*                                                                         *)
(* Of the level's data this asks that no size is negative, that he does    *)
(* not start inside a platform and that there is room over the one-way     *)
(* platforms; of its behaviour, that no mover comes into him, no vanished  *)
(* platform comes back around him and nothing carries him into a wall.     *)
(* Where nothing moves or vanishes, the second holds by itself.            *)
(***************************************************************************)
EXTENDS ClearMovementProofs

-----------------------------------------------------------------------------
(***************************************************************************)
(* The levels.                                                             *)
(***************************************************************************)
\* Whoever lands on a one-way platform is not pushed into a ceiling.
RoomyLevel ==
    \A f \in Phases, g \in SUBSET Vanishing : Roomy(Size, Boxes(f, g), 1)

\* The player does not start inside a platform.  Those of level2.json, level4.json and
\* level5.json do: they start at the origin, in the floor.
StartsOutside ==
    \A p \in Bodies :
        Obstacle(Box(p, 0, {})) => ~Meets([at |-> Start, size |-> Size], Box(p, 0, {}))

OpenLevel == UprightLevel /\ RoomyLevel /\ StartsOutside

\* Nothing moves, vanishes or carries.
StillLevel ==
    /\ Movers = {}
    /\ Vanishing = {}
    /\ \A p \in Bodies : Level[p].kind = "conveyorBelt" => Level[p].surface = Zero

\* The inductive invariant: the player intersects no platform that is not one-way.
Outside ==
    \A p \in Bodies :
        Obstacle(Box(p, phase, gone)) => ~Meets(PlayerBox, Box(p, phase, gone))

\* What an update of the level does to the player, besides his own movement, takes him
\* into nothing: no mover comes to where he is, no vanished platform comes back there,
\* and what he stands on carries him into none.
KeepsClear ==
    /\ \A p \in Movers \cup (gone \ gone') : ~Meets(PlayerBox, Box(p, phase', gone'))
    /\ LastCarried' # Zero => Outside'

LevelKeepsClear == [][Update => KeepsClear]_vars

\* A player on a platform has stopped falling, and one on a platform that stays where it
\* is has his feet on its top.
Standing ==
    onGround /\ ground # NoBody =>
        /\ velocity.y = 0
        /\ Level[ground].kind \in {"solid", "platform"} => Feet(position) <= Top(ground)

-----------------------------------------------------------------------------
(***************************************************************************)
(* One update.                                                             *)
(***************************************************************************)
\* What was outside of the player before and does not come to him has not moved.
LEMMA OutsideIsClear ==
    ASSUME OpenLevel, TypeOK, Outside, Update, KeepsClear PROVE ClearWay
<1>1. /\ phase' = NextPhase /\ gone' \in SUBSET Vanishing
      /\ phase' \in Phases
  BY PhaseType DEF Update, TypeOK
<1>2. Roomy(PlayerBox.size, Boxes(phase', gone'), 1)
  BY <1>1 DEF OpenLevel, RoomyLevel, PlayerBox
<1>3. ASSUME NEW p \in Bodies, Obstacle(Box(p, phase', gone'))
      PROVE ~Meets(PlayerBox, Box(p, phase', gone'))
  <2>1. CASE p \in Movers \cup (gone \ gone')
    BY <2>1 DEF KeepsClear
  <2>2. CASE p \notin Movers \cup (gone \ gone')
    <3>1. p \notin gone'
      BY <1>3 DEF Obstacle, Box, Passable
    <3>2. p \notin gone
      BY <2>2, <3>1
    <3>3. Box(p, phase', gone') = Box(p, phase, gone)
      BY <2>2, <3>1, <3>2 DEF Box, Place, Movers
    <3> QED BY <1>3, <3>3 DEF Outside
  <2> QED BY <2>1, <2>2
<1>4. \A b \in Boxes(phase', gone') : Obstacle(b) => ~Meets(PlayerBox, b)
  BY <1>3 DEF Boxes
<1> QED BY <1>2, <1>4 DEF ClearWay, ClearOf

LEMMA StaysOutside ==
    ASSUME OpenLevel, TypeOK, Outside, Update, KeepsClear PROVE Outside'
<1>1. CASE LastCarried' # Zero
  BY <1>1 DEF KeepsClear
<1>2. CASE LastCarried' = Zero
  <2>1. ClearWay /\ UprightLevel
    BY OutsideIsClear DEF OpenLevel
  <2>2. \A b \in Boxes(phase', gone') : Obstacle(b) => ~Meets(BoxBeforeCarried, b)
    BY <2>1, ClearWayEnds
  <2>3. PlayerBox' = BoxBeforeCarried
    <3>1. position' = Plus(BeforeCarried, Zero) /\ BeforeCarried \in Vectors
      BY <1>2, <2>1, ClearWayResolves
    <3>2. position' = BeforeCarried
      BY <3>1 DEF Plus, Zero, Vectors
    <3> QED BY <3>2 DEF PlayerBox, BoxBeforeCarried
  <2>4. \A p \in Bodies : Box(p, phase', gone') \in Boxes(phase', gone')
    BY DEF Boxes
  <2>5. \A p \in Bodies : Obstacle(Box(p, phase', gone')) => ~Meets(PlayerBox', Box(p, phase', gone'))
    BY <2>2, <2>3, <2>4
  <2> QED BY <2>5 DEF Outside, Box, Place
<1> QED BY <1>1, <1>2

\* Where the platform that he stands on stays, the player stays.
LEMMA NothingCarries ==
    ASSUME NEW p \in Bodies, ground' = p,
           Level[p].kind \notin {"moving", "conveyorBelt"}
    PROVE LastCarried' = Zero
<1>1. LastCarried' = IF ~onGround' \/ ground' = NoBody THEN Zero
                     ELSE Plus(Level[p].at, Times(Level[p].at, -1))
  BY DEF LastCarried, Place
<1>2. Plus(Level[p].at, Times(Level[p].at, -1)) = Zero
  BY BodyType DEF Plus, Times, Zero, Vectors
<1> QED BY <1>1, <1>2

LEMMA StandsAfter ==
    ASSUME OpenLevel, TypeOK, TypeOK', ClearWay PROVE Standing'
<1> DEFINE r == Resolution(keys', gone')
<1> SUFFICES ASSUME onGround', ground' # NoBody
             PROVE /\ velocity'.y = 0
                   /\ Level[ground'].kind \in {"solid", "platform"} =>
                        Feet(position') <= Top(ground')
  BY DEF Standing, Top
<1>1. /\ MovesBody(r, keys') /\ UprightLevel /\ gone' \subseteq Vanishing
  BY DEF ClearWay, Update, OpenLevel
<1>2. /\ r.ground = ground' /\ ~LandedOn(r, "spring") /\ ground' \in Bodies
  BY <1>1 DEF MovesBody, TypeOK
<1>3. /\ r.velocity.y = 0
      /\ \A b \in Boxes(phase', gone') :
            b.id = ground' => Feet(BeforeCarried) <= Low(b, "y")
  BY <1>1, <1>2, ClearWayEnds
<1>4. velocity'.y = 0
  <2>1. r.velocity \in Vectors
    BY ResolutionResolves DEF Resolutions
  <2>2. velocity' = [r.velocity EXCEPT !.y = 0]
    BY <1>1, <1>2, <1>3 DEF MovesBody, Bounced
  <2> QED BY <2>1, <2>2 DEF Vectors
<1>5. ASSUME Level[ground'].kind \in {"solid", "platform"}
      PROVE Feet(position') <= Top(ground')
  <2>1. position' = BeforeCarried
    <3>1. LastCarried' = Zero
      BY <1>2, <1>5, NothingCarries
    <3>2. position' = Plus(BeforeCarried, LastCarried') /\ BeforeCarried \in Vectors
      BY <1>1, ClearWayResolves
    <3> QED BY <3>1, <3>2 DEF Plus, Zero, Vectors
  <2>2. Box(ground', phase', gone') \in Boxes(phase', gone')
    BY <1>2 DEF Boxes
  <2>3. Low(Box(ground', phase', gone'), "y") = Level[ground'].at.y
    BY <1>5 DEF Box, Place, Low
  <2>4. Level[ground'].size.y >= 0 /\ Level[ground'].size.y \in Int
    BY <1>1, <1>2, BodyType DEF UprightLevel, Axes, Vectors
  <2>5. Top(ground') = Level[ground'].at.y
    BY <2>4 DEF Top, Near, Low
  <2>6. Box(ground', phase', gone').id = ground'
    BY DEF Box
  <2> QED BY <1>3, <2>1, <2>2, <2>3, <2>5, <2>6
<1> QED BY <1>4, <1>5

\* Nothing is passed: not even a one-way platform on which the key to drop is pressed, as
\* the update that takes the key finds a player who does not fall.
LEMMA PassesNothing ==
    ASSUME OpenLevel, TypeOK, Standing, ClearWay, LastCarried' = Zero, NEW p \in Bodies
    PROVE ~Passes(p)
<1> SUFFICES ASSUME Passes(p) PROVE FALSE
  OBVIOUS
<1>1. /\ UprightLevel /\ gone' \subseteq Vanishing
  BY DEF OpenLevel, ClearWay, Update
<1>2. Level[p].kind = "platform" /\ "drop" \in keys' /\ onGround /\ ground = p
  BY <1>1, ClearWayPassesOnlyDropped DEF Zero
<1>3. p \notin gone' /\ p # NoBody
  BY <1>1, <1>2, NoBodyIsNone DEF Vanishing
<1>4. velocity.y = 0
  BY <1>2, <1>3 DEF Standing
<1>5. Wanted(keys', gone').y <= 0
  <2>1. -JumpSpeed <= 0
    BY SpeedAssumption
  <2> QED BY <1>2, <1>3, <1>4, <2>1 DEF Wanted, VerticalSpeed, Stands
<1>6. BeforeCarried.y <= position.y
  BY <1>1, <1>5, ClearWayEnds
<1>7. position'.y = BeforeCarried.y /\ BeforeCarried.y \in Int /\ position.y \in Int
  BY <1>1, ClearWayResolves DEF Plus, Zero, Vectors, TypeOK
<1>8. Size.y \in Int /\ Top(p) \in Int
  <2>1. Level[p].at.y \in Int /\ Level[p].size.y \in Int /\ Level[p].size.y >= 0
    BY <1>1, BodyType DEF UprightLevel, Axes, Vectors
  <2>2. Top(p) = Level[p].at.y
    BY <2>1 DEF Top, Near, Low
  <2>3. Size.y \in Int
    BY LevelAssumption DEF Vectors
  <2> QED BY <2>1, <2>2, <2>3
<1> QED BY <1>6, <1>7, <1>8 DEF Passes, Feet

-----------------------------------------------------------------------------
(***************************************************************************)
(* The invariants, kept by every step of a level that keeps clear.         *)
(***************************************************************************)
Free == Outside /\ Standing

LEMMA FreeInit == ASSUME OpenLevel, Init PROVE Free
BY DEF Init, Free, Outside, Standing, OpenLevel, StartsOutside, PlayerBox

LEMMA FreeStep ==
    ASSUME OpenLevel, TypeOK, TypeOK', [Next]_vars, Update => KeepsClear, Free
    PROVE Free'
<1>1. CASE Update
  <2>1. Outside'
    BY <1>1, StaysOutside DEF Free
  <2>2. Standing'
    BY <1>1, OutsideIsClear, StandsAfter DEF Free
  <2> QED BY <2>1, <2>2 DEF Free
<1>2. CASE Enter
  <2>1. /\ phase' = 0 /\ gone' = {} /\ position' = Start /\ onGround' = FALSE
    BY <1>2 DEF Enter
  <2> QED BY <2>1 DEF Free, Outside, Standing, OpenLevel, StartsOutside, PlayerBox, Box, Place
<1>3. CASE Leave \/ UNCHANGED vars
  <2>1. UNCHANGED <<phase, gone, position, velocity, onGround, ground>>
    BY <1>3 DEF Leave, vars, bodyVars
  <2> QED BY <2>1 DEF Free, Outside, Standing, PlayerBox, Box, Place
<1> QED BY <1>1, <1>2, <1>3 DEF Next

LEMMA OutsideIsNeverInside == ASSUME Outside PROVE NeverInside
BY DEF Outside, NeverInside, Inside, PlayerBox, Massive, Obstacle, Passable

LEMMA StandingIsFourWay == ASSUME Standing PROVE FourWay
BY NoBodyIsNone DEF Standing, FourWay

\* The step that goes on with the cycle and is no update changes nothing of the player.
LEMMA CycleGoesOnBy ==
    ASSUME [Next]_vars, CycleGoesOn PROVE Update \/ UNCHANGED bodyVars
BY DEF Next, Enter, Leave, CycleGoesOn, vars

\* A player whose way is clear goes as far sideways as his steps and his ground take him,
\* and no correction adds to it.
LEMMA ClearWayNeverThrown ==
    ASSUME OpenLevel, TypeOK, ClearWay
    PROVE Abs(position'.x - position.x) <= 2 * MoveSpeed + Abs(LastCarried'.x)
<1> DEFINE w == Wanted(keys', gone').x
           c == LastCarried'.x
<1>1. UprightLevel
  BY DEF OpenLevel
<1>2. /\ position' = Plus(BeforeCarried, LastCarried')
      /\ BeforeCarried \in Vectors /\ LastCarried' \in Vectors
  BY <1>1, ClearWayResolves
<1>3. Toward(position.x, w, BeforeCarried.x)
  BY <1>1, ClearWayEnds
<1>4. w \in Int /\ w <= 2 * MoveSpeed /\ -(2 * MoveSpeed) <= w
  <2>1. MoveSpeed \in Nat /\ Direction(keys') \in {-1, 0, 1} /\ Turbo(keys') \in {1, 2}
    BY SpeedAssumption DEF Direction, Turbo
  <2>2. w = Direction(keys') * Turbo(keys') * MoveSpeed
    BY DEF Wanted
  <2>3. \A d \in {-1, 0, 1}, t \in {1, 2} :
            /\ d * t * MoveSpeed \in Int
            /\ d * t * MoveSpeed <= 2 * MoveSpeed /\ -(2 * MoveSpeed) <= d * t * MoveSpeed
    BY <2>1, SMT
  <2> HIDE DEF w
  <2> QED BY <2>1, <2>2, <2>3
<1>5. /\ position'.x = BeforeCarried.x + c
      /\ position.x \in Int /\ BeforeCarried.x \in Int /\ c \in Int
  BY <1>2 DEF Plus, Vectors, TypeOK
<1>6. MoveSpeed \in Int
  BY SpeedAssumption
<1> HIDE DEF w, c
<1>7. Abs(position'.x - position.x) <= 2 * MoveSpeed + Abs(c)
  BY <1>3, <1>4, <1>5, <1>6 DEF Toward, Abs
<1> QED BY <1>7 DEF c

LEMMA LastCarriedType == ASSUME TypeOK' PROVE LastCarried' \in Vectors
<1>1. CASE ~onGround' \/ ground' = NoBody
  BY <1>1, ZeroType DEF LastCarried
<1>2. ASSUME NEW p \in Bodies, ground' = p PROVE LastCarried' \in Vectors
  <2>1. CASE ~onGround'
    BY <2>1, ZeroType DEF LastCarried
  <2>2. CASE onGround' /\ Level[p].kind = "conveyorBelt"
    BY <1>2, <2>2, BodyType, NoBodyIsNone DEF LastCarried
  <2>3. CASE onGround' /\ Level[p].kind # "conveyorBelt"
    <3>1. phase' \in Phases /\ (phase' - 1) % Cycle \in Phases
      <4>1. Cycle \in Nat \ {0} /\ phase' \in 0 .. Cycle - 1
        BY LevelAssumption DEF TypeOK, Phases
      <4>2. \A f \in Int : f % Cycle \in 0 .. Cycle - 1
        BY <4>1
      <4>3. (phase' - 1) % Cycle \in 0 .. Cycle - 1
        <5>1. phase' - 1 \in Int
          BY <4>1
        <5> QED BY <4>2, <5>1
      <4> QED BY <4>1, <4>3 DEF Phases
    <3>2. Place(p, phase') \in Vectors /\ Place(p, (phase' - 1) % Cycle) \in Vectors
      BY <3>1, PlaceType
    <3>3. LastCarried' = Plus(Place(p, phase'), Times(Place(p, (phase' - 1) % Cycle), -1))
      BY <1>2, <2>3, NoBodyIsNone DEF LastCarried, Place
    <3> QED BY <3>2, <3>3, PlusType, TimesType
  <2> QED BY <2>1, <2>2, <2>3
<1> QED BY <1>1, <1>2 DEF TypeOK

LEMMA NeverThrownIsSmall ==
    ASSUME OpenLevel, TypeOK, TypeOK', [Next]_vars, Update => ClearWay, CycleGoesOn
    PROVE Abs(position'.x - position.x) <=
            2 * MoveSpeed + Abs(LastCarried'.x) + Size.x + Bias
<1>1. MoveSpeed \in Nat /\ Bias \in Nat /\ Size.x \in Int /\ Size.x > 0
  <2>1. Size["x"] > 0
    BY DEF OpenLevel, UprightLevel, Axes
  <2> QED BY <2>1, SpeedAssumption, CollisionAssumption, LevelAssumption DEF Vectors
<1>2. LastCarried'.x \in Int
  BY LastCarriedType DEF Vectors
<1>3. position.x \in Int /\ position'.x \in Int
  BY DEF TypeOK, Vectors
<1>4. Abs(LastCarried'.x) \in Nat /\ Abs(position'.x - position.x) \in Nat
  BY <1>2, <1>3 DEF Abs
<1>5. CASE Update
  BY <1>1, <1>4, <1>5, ClearWayNeverThrown
<1>6. CASE UNCHANGED bodyVars
  <2>1. position' = position
    BY <1>6 DEF bodyVars
  <2>2. Abs(position'.x - position.x) = 0
    BY <1>3, <2>1 DEF Abs
  <2> QED BY <1>1, <1>4, <2>2
<1> QED BY <1>5, <1>6, CycleGoesOnBy

LEMMA NothingPassedUnmoved ==
    ASSUME TypeOK, UNCHANGED position, NEW p \in Bodies PROVE ~Passes(p)
<1>1. Feet(position') = Feet(position)
  BY DEF Feet
<1>2. /\ Level[p].at \in Vectors /\ Level[p].size \in Vectors
      /\ position \in Vectors /\ Size \in Vectors
  BY BodyType, LevelAssumption DEF TypeOK
<1>3. Level[p].at["y"] \in Int /\ Level[p].at["y"] + Level[p].size["y"] \in Int
  BY <1>2 DEF Vectors
<1>4. Top(p) \in Int /\ Feet(position) \in Int
  BY <1>2, <1>3 DEF Top, Near, Low, High, Feet, Vectors
<1> QED BY <1>1, <1>4 DEF Passes

-----------------------------------------------------------------------------
(***************************************************************************)
(* Still levels.                                                           *)
(***************************************************************************)
LEMMA StillCarriesNot ==
    ASSUME StillLevel, TypeOK' PROVE LastCarried' = Zero
<1>1. CASE ground' = NoBody
  BY <1>1 DEF LastCarried
<1>2. CASE ground' \in Bodies
  <2>1. CASE Level[ground'].kind = "conveyorBelt"
    BY <1>2, <2>1 DEF LastCarried, StillLevel
  <2>2. CASE Level[ground'].kind # "conveyorBelt"
    <3>1. Level[ground'].kind # "moving"
      BY <1>2 DEF StillLevel, Movers
    <3> QED BY <1>2, <2>2, <3>1, NothingCarries
  <2> QED BY <2>1, <2>2
<1> QED BY <1>1, <1>2 DEF TypeOK

LEMMA StillKeepsClear ==
    ASSUME StillLevel, TypeOK, TypeOK' PROVE KeepsClear
BY StillCarriesNot DEF KeepsClear, StillLevel, TypeOK

LEMMA StillIsFree == ASSUME OpenLevel, StillLevel PROVE Spec => []Free
<1>1. Init => Free
  BY FreeInit
<1>2. TypeOK /\ TypeOK' /\ [Next]_vars /\ Free => Free'
  BY FreeStep, StillKeepsClear
<1> QED BY <1>1, <1>2, PlayerTypeCorrect, PTL DEF Spec

-----------------------------------------------------------------------------
(***************************************************************************)
(* The theorems.                                                           *)
(***************************************************************************)
LEMMA IsFree == ASSUME OpenLevel PROVE Spec /\ LevelKeepsClear => []Free
<1>1. Init => Free
  BY FreeInit
<1>2. TypeOK /\ TypeOK' /\ [Next]_vars /\ [Update => KeepsClear]_vars /\ Free => Free'
  <2> SUFFICES ASSUME TypeOK, TypeOK', [Next]_vars, [Update => KeepsClear]_vars, Free
               PROVE Free'
    OBVIOUS
  <2>1. CASE Update => KeepsClear
    BY <2>1, FreeStep
  <2>2. CASE UNCHANGED vars
    BY <2>2 DEF vars, bodyVars, Free, Outside, Standing, PlayerBox, Box, Place
  <2> QED BY <2>1, <2>2
<1> QED BY <1>1, <1>2, PlayerTypeCorrect, PTL DEF Spec, LevelKeepsClear

\* From its start to its end, however long, a level that keeps clear never has the player
\* in a massive platform: five iterations of resolveCollisions are always enough.
THEOREM OpenLevelNeverInside ==
    ASSUME OpenLevel PROVE Spec /\ LevelKeepsClear => []NeverInside
<1>1. Free => NeverInside
  BY OutsideIsNeverInside DEF Free
<1> QED BY <1>1, IsFree, PTL

\* In such a level whoever stands on a solid platform stands on its top: the finding of
\* level3.json, a player who stands in the air beside a wall, takes a negative size.
THEOREM OpenLevelFourWay ==
    ASSUME OpenLevel PROVE Spec /\ LevelKeepsClear => []FourWay
<1>1. Free => FourWay
  BY StandingIsFourWay DEF Free
<1> QED BY <1>1, IsFree, PTL

\* In such a level no update takes a player whom nothing carries down past any platform,
\* not even past the one-way platform that he stands on with the key to drop pressed:
\* tryDropFromPlatform drops nobody, whichever the level and whatever the keys.
THEOREM OpenLevelDropsNobody ==
    ASSUME OpenLevel
    PROVE Spec /\ LevelKeepsClear =>
            [][Update /\ LastCarried' = Zero => \A p \in Bodies : ~Passes(p)]_vars
<1> DEFINE None == Update /\ LastCarried' = Zero => \A p \in Bodies : ~Passes(p)
<1>1. TypeOK /\ Free /\ [Update => KeepsClear]_vars => [None]_vars
  <2> SUFFICES ASSUME TypeOK, Free, Update, KeepsClear, LastCarried' = Zero,
                      NEW p \in Bodies
               PROVE ~Passes(p)
    OBVIOUS
  <2>1. ClearWay
    BY OutsideIsClear DEF Free
  <2> QED BY <2>1, PassesNothing DEF Free
<1> QED BY <1>1, IsFree, PlayerTypeCorrect, PTL DEF Spec, LevelKeepsClear

\* In such a level an update that ends on a mover has taken the player exactly as far as
\* the mover went, from whichever state of the cycle he came.
THEOREM OpenLevelCarried ==
    ASSUME OpenLevel PROVE Spec /\ LevelKeepsClear => CarriedByMover
<1> DEFINE Carries ==
        onGround' /\ ground' \in Movers /\ Direction(keys') = 0 /\ ClearUpdate =>
            position'.x - position.x = Place(ground', phase').x - Place(ground', phase).x
<1>1. TypeOK /\ Free /\ [Next]_vars /\ [Update => KeepsClear]_vars => [Carries]_vars
  <2> SUFFICES ASSUME TypeOK, Free, [Next]_vars, Update => KeepsClear,
                      onGround', ground' \in Movers, Direction(keys') = 0, ClearUpdate
               PROVE position'.x - position.x =
                        Place(ground', phase').x - Place(ground', phase).x
    OBVIOUS
  <2>1. CASE Update
    <3>1. ClearWay
      BY <2>1, OutsideIsClear DEF Free
    <3> QED BY <3>1, ClearWayCarries DEF OpenLevel
  <2>2. CASE ~Update
    <3>1. UNCHANGED bodyVars /\ phase' = phase
      BY <2>2 DEF Next, Leave, Enter, ClearUpdate, CycleGoesOn, vars, bodyVars
    <3>2. phase' = phase /\ position' = position
      BY <3>1 DEF bodyVars
    <3>3. ground' \in Bodies /\ phase \in Phases
      BY DEF Movers, TypeOK
    <3>4. Place(ground', phase) \in Vectors /\ position \in Vectors
      BY <3>3, PlaceType DEF TypeOK
    <3> QED BY <3>2, <3>4 DEF Vectors
  <2> QED BY <2>1, <2>2
<1>2. Spec /\ LevelKeepsClear => [][Carries]_vars
  BY <1>1, IsFree, PlayerTypeCorrect, PTL DEF Spec, LevelKeepsClear
<1> QED BY <1>2 DEF CarriedByMover

\* In such a level no update throws the player sideways: the finding of the levels whose
\* start is in their floor takes such a start.
THEOREM OpenLevelSmallCorrection ==
    ASSUME OpenLevel PROVE Spec /\ LevelKeepsClear => SmallCorrection
<1> DEFINE Small == CycleGoesOn =>
        Abs(position'.x - position.x) <= 2 * MoveSpeed + Abs(LastCarried'.x) + Size.x + Bias
<1>1. TypeOK /\ TypeOK' /\ Free /\ [Next]_vars /\ [Update => KeepsClear]_vars => [Small]_vars
  BY OutsideIsClear, NeverThrownIsSmall DEF Free
<1>2. Spec /\ LevelKeepsClear => [][Small]_vars
  BY <1>1, IsFree, PlayerTypeCorrect, PTL DEF Spec, LevelKeepsClear
<1> QED BY <1>2 DEF SmallCorrection

\* Where nothing moves, vanishes or carries, nothing has to be asked of the behaviour:
\* no sequence of keys, jumps, falls and restarts takes the player into a platform.
THEOREM StillLevelNeverInside ==
    ASSUME OpenLevel, StillLevel PROVE Spec => []NeverInside
<1>1. Free => NeverInside
  BY OutsideIsNeverInside DEF Free
<1> QED BY <1>1, StillIsFree, PTL

\* Nor does he ever stand on a wall.
THEOREM StillLevelFourWay ==
    ASSUME OpenLevel, StillLevel PROVE Spec => []FourWay
<1>1. Free => FourWay
  BY StandingIsFourWay DEF Free
<1> QED BY <1>1, StillIsFree, PTL

\* Nor is he ever taken down past a platform, clear update or not.
THEOREM StillLevelStaysAbove ==
    ASSUME OpenLevel, StillLevel
    PROVE Spec => StaysAbove /\ [][Update => \A p \in Bodies : ~Passes(p)]_vars
<1> DEFINE Above == (\E p \in Bodies : Passes(p)) => ~ClearUpdate
           None == Update => \A p \in Bodies : ~Passes(p)
<1>1. TypeOK /\ TypeOK' /\ Free /\ [Next]_vars => [None]_vars
  <2> SUFFICES ASSUME TypeOK, TypeOK', Free, Update, NEW p \in Bodies
               PROVE ~Passes(p)
    OBVIOUS
  <2>1. ClearWay
    BY StillKeepsClear, OutsideIsClear DEF Free
  <2> QED BY <2>1, StillCarriesNot, PassesNothing DEF Free
<1>2. TypeOK /\ [Next]_vars /\ [None]_vars => [Above]_vars
  <2> SUFFICES ASSUME TypeOK, [Next]_vars, [None]_vars, NEW p \in Bodies, Passes(p),
                      ClearUpdate
               PROVE UNCHANGED vars
    OBVIOUS
  <2>1. ~(UNCHANGED position)
    BY NothingPassedUnmoved
  <2>2. Update \/ UNCHANGED bodyVars
    BY CycleGoesOnBy DEF ClearUpdate
  <2>3. Update
    BY <2>1, <2>2 DEF bodyVars
  <2> QED BY <2>3
<1>3. Spec => [][None]_vars
  BY <1>1, StillIsFree, PlayerTypeCorrect, PTL DEF Spec
<1>4. Spec => [][Above]_vars
  BY <1>2, <1>3, PlayerTypeCorrect, PTL DEF Spec
<1> QED BY <1>3, <1>4 DEF StaysAbove

\* Nor is he ever thrown sideways.
THEOREM StillLevelSmallCorrection ==
    ASSUME OpenLevel, StillLevel PROVE Spec => SmallCorrection
<1> DEFINE Small == CycleGoesOn =>
        Abs(position'.x - position.x) <= 2 * MoveSpeed + Abs(LastCarried'.x) + Size.x + Bias
<1>1. TypeOK /\ TypeOK' /\ Free /\ [Next]_vars => [Small]_vars
  BY OutsideIsClear, NeverThrownIsSmall, StillKeepsClear DEF Free
<1>2. Spec => [][Small]_vars
  BY <1>1, StillIsFree, PlayerTypeCorrect, PTL DEF Spec
<1> QED BY <1>2 DEF SmallCorrection
=============================================================================
