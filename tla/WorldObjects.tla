---------------------------- MODULE WorldObjects ----------------------------
(***************************************************************************)
(* The platforms of one level during play: the fixed update of             *)
(* src/src/main.cpp (interactible cooldowns, falling and vanishing         *)
(* platforms, lines 900-1008), the falling animation of src/src/Tile.cpp,  *)
(* what the player stands on afterwards, and the E key on portals and      *)
(* interactibles (lines 1103-1284).                                        *)
(*                                                                         *)
(* bodies and tiles are built in the order of the level's platforms, so a  *)
(* platform is its index.  Where the player is is not modelled: what he    *)
(* lands on and touches is chosen among what is on the map.                *)
(***************************************************************************)
EXTENDS Integers, Sequences

CONSTANTS
    Platforms,      \* the level: [id, type, portalID, initiallyFalling] in file order
    Interactions,   \* by id: [target, oneTime, cooldown, linkedID], the parsed details
    Depths,         \* per platform: updates its tile falls before it is below y = 600
    Step,           \* TIME_PER_FIXED_UPDATE
    FallDelay,      \* 0.5 s, the delay passed to startFalling
    Cycle,          \* 1 s, the half period of the vanishing platforms
    HiddenSpan      \* how long alpha is at most 10 at an end of a fade

Intangible == {"none", "trap", "goal", "portal"}

BodyTypes == Intangible \cup {"platform", "conveyorBelt", "moving", "interactible",
                              "falling", "vanishing", "spring", "solid"}

Bodies == DOMAIN Platforms

\* linkedID and portalID are 0 when the level gives none.  No platform is placed off
\* the map (x <= -9998), so line 989 always holds.
ASSUME LevelAssumption ==
    /\ Platforms \in Seq([id : Nat, type : BodyTypes, portalID : Nat,
                          initiallyFalling : BOOLEAN])
    /\ Interactions \in [DOMAIN Interactions ->
            [target : BodyTypes, oneTime : BOOLEAN, cooldown : Nat, linkedID : Nat]]
    /\ Depths \in [Bodies -> Nat]

ASSUME ClockAssumption ==
    /\ Step \in Nat \ {0}
    /\ FallDelay \in Nat \ {0}
    /\ Cycle \in Nat
    /\ Step <= Cycle
    /\ HiddenSpan \in Nat
    /\ 2 * HiddenSpan < Cycle

VARIABLES
    stage,          \* where in the fixed update execution is
    objects,        \* bodies[i] and tiles[i]
    cooldowns,      \* activeInteractibles[id].currentCooldownTimer
    used,           \* activeInteractibles[id].hasBeenInteractedThisSession
    cycleTimer,     \* vanishingPlatformCycleTimer
    oddEven,        \* oddEvenVanishing
    onGround,       \* playerBody.isOnGround()
    ground,         \* playerBody.getGroundPlatform(), an index or 0 for null
    arrivedAt       \* the portal this update has put the player at, or 0

switchVars == <<cooldowns, used>>
cycleVars == <<cycleTimer, oddEven>>
groundVars == <<onGround, ground>>

vars == <<stage, objects, switchVars, cycleVars, groundVars, arrivedAt>>

\* A place is where platform home of the level was put, lower by some updates
\* of a fall, or off the map (-9999 and -10000 in the code).
At(home) == [home |-> home, drop |-> 0]

OffMap == At(0)

Lower(place) == [place EXCEPT !.drop = @ + 1]

Places == [home : Bodies \cup {0}, drop : Nat]

Objects == [type : BodyTypes, at : Places, bodyFalling : BOOLEAN,
            tileAt : Places, colored : BOOLEAN,
            delay : Int, falling : BOOLEAN, fallen : BOOLEAN]

Nobody == 0

-----------------------------------------------------------------------------
(***************************************************************************)
(* Look-ups by id take the first match, in bodies as in the level's        *)
(* platforms: the two are in the same order.                               *)
(***************************************************************************)
IsFirst(i, id) ==
    /\ Platforms[i].id = id
    /\ \A j \in Bodies : Platforms[j].id = id => i <= j

FirstWith(id) == CHOOSE i \in Bodies : IsFirst(i, id)

\* An id of 0 is not looked up.
Exists(id) == id # 0 /\ \E i \in Bodies : Platforms[i].id = id

Template(i) == FirstWith(Platforms[i].id)

Kind(i) == Platforms[Template(i)].type

\* activeInteractibles, keyed by id.
Switches ==
    {id \in DOMAIN Interactions :
        \E i \in Bodies : Platforms[i].id = id /\ Platforms[i].type = "interactible"}

(***************************************************************************)
(* setupLevelAssets (lines 272-419), for Start, Retry, R and the door.  No *)
(* fill colour is set (line 380), so every tile is visible at first.       *)
(***************************************************************************)
Fresh(i) ==
    [type |-> Platforms[i].type, at |-> At(i), bodyFalling |-> Platforms[i].initiallyFalling,
     tileAt |-> At(i), colored |-> TRUE,
     delay |-> 0, falling |-> FALSE, fallen |-> FALSE]

Init ==
    /\ stage = "update"
    /\ objects = [i \in Bodies |-> Fresh(i)]
    /\ cooldowns = [id \in Switches |-> 0]
    /\ used = [id \in Switches |-> FALSE]
    /\ cycleTimer = 0
    /\ oddEven = 1
    /\ onGround = FALSE
    /\ ground = Nobody
    /\ arrivedAt = Nobody

\* After a whole update, or one that the player's death cut short.
SetupLevelAssets ==
    /\ stage # "collide"
    /\ stage' = "update"
    /\ objects' = [i \in Bodies |-> Fresh(i)]
    /\ cooldowns' = [id \in Switches |-> 0]
    /\ used' = [id \in Switches |-> FALSE]
    /\ cycleTimer' = 0
    /\ oddEven' = 1
    /\ onGround' = FALSE
    /\ ground' = Nobody
    /\ arrivedAt' = Nobody

-----------------------------------------------------------------------------
(***************************************************************************)
(* Falling: Tile::startFalling, Tile::update, then the body follows.       *)
(***************************************************************************)
StartFalling(o) ==
    IF ~o.falling /\ ~o.fallen /\ o.delay = 0 THEN [o EXCEPT !.delay = FallDelay] ELSE o

CountDown(o) ==
    IF o.delay > 0
    THEN [o EXCEPT !.delay = @ - Step, !.falling = @ \/ o.delay <= Step]
    ELSE o

Below(place) == place.home \in Bodies /\ place.drop > Depths[place.home]

MoveDown(o) ==
    LET lower == Lower(o.tileAt) IN
    IF o.falling /\ ~o.fallen
    THEN [o EXCEPT !.tileAt = lower, !.falling = ~Below(lower), !.fallen = Below(lower)]
    ELSE o

BodyFollows(o) ==
    IF o.falling THEN [o EXCEPT !.bodyFalling = TRUE, !.at = o.tileAt] ELSE o

\* Slip: a fallen platform is not taken off the map.
NotRemoved(o) == o

Removed(o) ==
    IF o.fallen /\ o.type # "none"
    THEN [o EXCEPT !.type = "none", !.at = OffMap, !.colored = FALSE]
    ELSE o

Stands(i) == onGround /\ ground = i

\* Slip: the fall stops when the player jumps off.
UpdateFallingUnderPlayer(i) ==
    IF Stands(i)
    THEN Removed(BodyFollows(MoveDown(CountDown(StartFalling(objects[i])))))
    ELSE objects[i]

UpdateFalling(i) ==
    LET o == objects[i]
        touched == IF ~o.bodyFalling /\ Stands(i) THEN StartFalling(o) ELSE o
    IN  Removed(BodyFollows(MoveDown(CountDown(touched))))

(***************************************************************************)
(* Vanishing: even and odd ids fade in opposite directions.  A body whose  *)
(* alpha is at most 10 is taken off the map.                               *)
(***************************************************************************)
IsEven(i) == Platforms[i].id % 2 = 0

\* Slip: both groups fade in the same direction.
FadingOutTogether(i) == oddEven = 1 /\ IsEven(i) \in BOOLEAN

FadingOut(i) == IF IsEven(i) THEN oddEven = 1 ELSE oddEven = -1

Faded(i) ==
    IF FadingOut(i) THEN cycleTimer >= Cycle - HiddenSpan ELSE cycleTimer <= HiddenSpan

\* Slip: the tile of a faded body stays visible.
UpdateVanishingKeepsTile(i) ==
    LET o == objects[i]
        home == At(Template(i))
    IN  IF Faded(i)
        THEN [o EXCEPT !.type = "none", !.at = OffMap]
        ELSE [o EXCEPT !.type = IF @ = "none" THEN "vanishing" ELSE @,
                       !.at = home, !.tileAt = home, !.colored = TRUE]

\* Slip: a faded body stays of type none.
UpdateVanishingForGood(i) ==
    LET o == objects[i]
        home == At(Template(i))
    IN  IF Faded(i)
        THEN [o EXCEPT !.type = "none", !.at = OffMap, !.tileAt = OffMap, !.colored = FALSE]
        ELSE [o EXCEPT !.at = home, !.tileAt = home, !.colored = TRUE]

UpdateVanishing(i) ==
    LET o == objects[i]
        home == At(Template(i))
    IN  IF Faded(i)
        THEN [o EXCEPT !.type = "none", !.at = OffMap, !.tileAt = OffMap, !.colored = FALSE]
        ELSE [o EXCEPT !.type = IF @ = "none" THEN "vanishing" ELSE @,
                       !.at = home, !.tileAt = home, !.colored = TRUE]

UpdateObject(i) ==
    IF Kind(i) = "falling" THEN UpdateFalling(i)
    ELSE IF Kind(i) = "vanishing" THEN UpdateVanishing(i)
    ELSE objects[i]

\* Slip: the ground pointer is not cleared.
StayOnGround(removed) == removed \subseteq Bodies /\ UNCHANGED groundVars

\* The platforms that this step makes the player fall off: a body is taken from
\* under him as it becomes none.
LeaveGround(removed) ==
    IF ground \in removed
    THEN onGround' = FALSE /\ ground' = Nobody
    ELSE UNCHANGED groundVars

\* Slip: the timer is not set back.
CycleWithoutWrap ==
    /\ cycleTimer' = cycleTimer + Step
    /\ oddEven' = IF cycleTimer + Step >= Cycle THEN -oddEven ELSE oddEven

CycleGoesOn ==
    /\ cycleTimer' = (cycleTimer + Step) % Cycle
    /\ oddEven' = IF cycleTimer + Step >= Cycle THEN -oddEven ELSE oddEven

Update ==
    /\ stage = "update"
    /\ stage' = "collide"
    /\ cooldowns' = [id \in Switches |-> IF cooldowns[id] > Step THEN cooldowns[id] - Step ELSE 0]
    /\ objects' = [i \in Bodies |-> UpdateObject(i)]
    /\ LeaveGround({i \in Bodies : objects[i].type # "none" /\ UpdateObject(i).type = "none"})
    /\ CycleGoesOn
    /\ arrivedAt' = Nobody
    /\ UNCHANGED used

-----------------------------------------------------------------------------
(***************************************************************************)
(* resolveCollisions leaves the player on a body it does not skip, or on   *)
(* none.  Dropping from one platform can leave onGround false with another *)
(* as the ground platform.  A spring lets go at once (lines 1067-1071).    *)
(***************************************************************************)
Land ==
    /\ stage = "collide"
    /\ stage' = "interact"
    /\ \E i \in Bodies :
            /\ objects[i].type \notin Intangible
            /\ ground' = i
            /\ onGround' \in {FALSE, objects[i].type # "spring"}
    /\ UNCHANGED <<objects, switchVars, cycleVars, arrivedAt>>

Fly ==
    /\ stage = "collide"
    /\ stage' = "interact"
    /\ onGround' = FALSE
    /\ ground' = Nobody
    /\ UNCHANGED <<objects, switchVars, cycleVars, arrivedAt>>

-----------------------------------------------------------------------------
(***************************************************************************)
(* The E key (lines 1103-1284).  A portal comes before a switch.           *)
(***************************************************************************)
Interact ==
    /\ stage = "interact"
    /\ stage' = "update"
    /\ UNCHANGED cycleVars

\* No key, nothing in reach, a portal or a switch that does nothing, the goal.
NoInteraction ==
    /\ Interact
    /\ UNCHANGED <<objects, switchVars, groundVars, arrivedAt>>

\* Slip: the destination need not be a portal.
LeadsToAnything(i, destination) ==
    /\ Exists(Platforms[i].portalID)
    /\ destination = FirstWith(Platforms[i].portalID)

LeadsTo(i, destination) ==
    /\ Exists(Platforms[i].portalID)
    /\ destination = FirstWith(Platforms[i].portalID)
    /\ objects[destination].type = "portal"

EnterPortal ==
    /\ Interact
    /\ \E i, destination \in Bodies :
            /\ objects[i].type = "portal"
            /\ LeadsTo(i, destination)
            /\ arrivedAt' = destination
    /\ UNCHANGED <<objects, switchVars, groundVars>>

\* The body of a switch that becomes none leaves the map, its tile only fades.
Pressed(o, target) ==
    IF target = "none"
    THEN [o EXCEPT !.type = "none", !.at = OffMap, !.colored = FALSE]
    ELSE [o EXCEPT !.type = target, !.colored = TRUE]

\* A linked wall is taken away, a missing one is put back as the level has it.
Toggled(o, j) ==
    IF o.type \in {"solid", "platform"}
    THEN [o EXCEPT !.type = "none", !.at = OffMap, !.tileAt = OffMap, !.colored = FALSE]
    ELSE IF o.type = "none"
    THEN [o EXCEPT !.type = Platforms[j].type, !.at = At(j), !.tileAt = At(j),
                   !.colored = Platforms[j].type # "none"]
    ELSE o

AfterChange(i, target) == [objects EXCEPT ![i] = Pressed(@, target)]

AfterPress(i, target, linkedID) ==
    [j \in Bodies |->
        IF Exists(linkedID) /\ j = FirstWith(linkedID)
        THEN Toggled(AfterChange(i, target)[j], j)
        ELSE AfterChange(i, target)[j]]

TakenAway(i, target, linkedID) ==
    {j \in Bodies :
        \/ j = i /\ target = "none"
        \/ /\ Exists(linkedID)
           /\ j = FirstWith(linkedID)
           /\ AfterChange(i, target)[j].type \in {"solid", "platform"}}

\* Slip: the cooldown is not looked at.
ReadyWhenUnused(id) == ~used[id]

Ready(id) == cooldowns[id] = 0 /\ ~used[id]

PressSwitch(i) ==
    LET id == Platforms[i].id
        switch == Interactions[id]
    IN  /\ objects[i].type = "interactible"
        /\ id \in Switches
        /\ Ready(id)
        /\ objects' = AfterPress(i, switch.target, switch.linkedID)
        /\ LeaveGround(TakenAway(i, switch.target, switch.linkedID))
        /\ used' = [used EXCEPT ![id] = switch.oneTime]
        /\ cooldowns' = [cooldowns EXCEPT ![id] = IF switch.oneTime THEN @ ELSE switch.cooldown]

ChangeSelf ==
    /\ Interact
    /\ \E i \in Bodies : PressSwitch(i)
    /\ UNCHANGED arrivedAt

-----------------------------------------------------------------------------
FixedUpdate ==
    \/ Update
    \/ Land
    \/ Fly
    \/ NoInteraction
    \/ EnterPortal
    \/ ChangeSelf

Next == FixedUpdate \/ SetupLevelAssets

Spec == Init /\ [][Next]_vars

\* The fixed updates go on while the level is played.
FairSpec == Spec /\ WF_vars(FixedUpdate)

-----------------------------------------------------------------------------
(***************************************************************************)
(* Properties.                                                             *)
(***************************************************************************)
StateOK ==
    /\ stage \in {"update", "collide", "interact"}
    /\ objects \in [Bodies -> Objects]
    /\ cycleTimer \in 0 .. Cycle - 1
    /\ oddEven \in {1, -1}
    /\ ground \in Bodies \cup {Nobody}
    /\ onGround \in BOOLEAN
    /\ arrivedAt \in Bodies \cup {Nobody}

SwitchesOK ==
    /\ cooldowns \in [Switches -> Nat]
    /\ used \in [Switches -> BOOLEAN]

TypeOK == StateOK /\ SwitchesOK

\* The player never stands on a platform that is not there, whichever of the four
\* ways a body becomes none took it from under him (lines 949-952, 976-979,
\* 1219-1222, 1239-1242): the next update reads the pointer again.
StandsOnSomething ==
    ground # Nobody => objects[ground].type # "none" /\ objects[ground].at # OffMap

\* A platform that has fallen never carries the player again, even when a switch
\* puts it back (lines 1250-1270): it is removed before the next collision.
FallenIsGone ==
    stage = "collide" => \A i \in Bodies : objects[i].fallen => objects[i].type = "none"

\* What the player sees is where he can stand: when collisions are resolved, a
\* tile is drawn exactly for a body that exists, at the same place (lines 944-956,
\* 974-1000, 1210-1270).
SeenIsThere ==
    stage = "collide" =>
        \A i \in Bodies :
            LET o == objects[i] IN
            Platforms[i].type # "none" =>
                /\ o.colored /\ ~o.fallen <=> o.type # "none"
                /\ o.type # "none" => o.at = o.tileAt

\* The two groups of vanishing platforms are never gone together, not even at
\* the turn of the cycle (lines 959-998, 1004-1008).
GroupsAlternate ==
    stage = "collide" =>
        \A i, j \in Bodies :
            /\ Kind(i) = "vanishing"
            /\ Kind(j) = "vanishing"
            /\ IsEven(i) # IsEven(j)
            => objects[i].type # "none" \/ objects[j].type # "none"

\* A teleport ends at a portal that is on the map, never where removed bodies
\* are kept (lines 1123-1142).
ArrivesOnMap ==
    arrivedAt # Nobody => objects[arrivedAt].at # OffMap

\* The walls and one-way platforms, which are not run as what another of their id is.
Walls == {i \in Bodies : {Platforms[i].type, Kind(i)} \subseteq {"solid", "platform"}}

\* A switch linked to platform i that was ready and now is used up or cooling down.
BySwitch(i) ==
    \E id \in Switches :
        /\ Interactions[id].linkedID = Platforms[i].id
        /\ cooldowns[id] = 0 /\ ~used[id]
        /\ IF Interactions[id].oneTime THEN used'[id]
           ELSE cooldowns'[id] = Interactions[id].cooldown

\* Manual.html:249-250.  A wall linked to a switch comes or goes only by a switch
\* that had neither been used up nor was cooling down, and that now is, however
\* often E is looked at (lines 1195-1284).
WallsMoveBySwitch ==
    [][\A i \in Walls :
            objects'[i].type # objects[i].type /\ ~SetupLevelAssets => BySwitch(i)]_vars

\* A platform that has begun to give way comes down, whether or not the player
\* stays on it, and is not left hanging (Tile.cpp:15-34).
Sinking(i) == objects[i].delay > 0 \/ objects[i].falling

OfKind(kind) == {i \in Bodies : Kind(i) = kind}

FallCompletes == \A i \in OfKind("falling") : Sinking(i) ~> ~Sinking(i)

\* A vanished platform comes back (Manual.html:201).
VanishedComesBack ==
    \A i \in OfKind("vanishing") : objects[i].type = "none" ~> objects[i].type # "none"

=============================================================================
