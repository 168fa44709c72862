--------------------------- MODULE PlayerPhysics ---------------------------
(***************************************************************************)
(* The player's body in a level: the keys the fixed update of              *)
(* src/src/main.cpp reads (lines 828-859), the moving platforms (861-898), *)
(* his velocity (1010-1035), the collision resolution, what the platform   *)
(* he landed on does to him (1041-1084), traps and falling to death.       *)
(*                                                                         *)
(* Lengths are in units of the level, velocities in units per update.      *)
(* Which vanishing platforms are there is chosen freely at every update:   *)
(* WorldObjects.tla has their timing.                                      *)
(***************************************************************************)
EXTENDS CollisionSystem, Sequences

CONSTANTS
    Level,          \* currentLevelData.platforms: [kind, at, size, surface, path]
    Start,          \* playerStartPosition
    Size,           \* the player's width and height
    KeySets,        \* the sets of keys that may be held together
    Cycle,          \* updates in a cycle of the moving platforms
    Gravity,        \* what an update adds to the velocity of a fall
    MaxFall,        \* MAX_FALL_SPEED
    JumpSpeed,      \* -JUMP_INITIAL_VELOCITY
    SpringSpeed,    \* -SPRING_BOUNCE_VELOCITY
    MoveSpeed,      \* PLAYER_MOVE_SPEED
    HoldUpdates,    \* updates until a held jump has lasted MAX_JUMP_HOLD_TIME
    DeathLine       \* PLAYER_DEATH_Y_LIMIT

Bodies == DOMAIN Level

Keys == {"left", "right", "shift", "jump", "drop"}

Kinds == Passable \cup {"solid", "platform", "conveyorBelt", "moving", "vanishing", "spring"}

Phases == 0 .. Cycle - 1

\* surface is what a conveyor moves the player by in an update, path the offsets of
\* a moving platform over its cycle.
ASSUME LevelAssumption ==
    /\ Cycle \in Nat \ {0}
    /\ Level \in Seq([kind : Kinds, at : Vectors, size : Vectors, surface : Vectors,
                      path : [Phases -> Vectors]])
    /\ \A p \in Bodies : Level[p].path[0] = Zero
    /\ Start \in Vectors
    /\ Size \in Vectors
    /\ KeySets \subseteq SUBSET Keys

ASSUME SpeedAssumption ==
    /\ Gravity \in Nat \ {0}
    /\ MaxFall \in Nat \ {0}
    /\ JumpSpeed \in Nat \ {0}
    /\ SpringSpeed \in Nat \ {0}
    /\ MoveSpeed \in Nat \ {0}
    /\ HoldUpdates \in Nat \ {0}
    /\ DeathLine \in Nat

VARIABLES
    screen,         \* currentState, as far as the level is concerned
    keys,           \* the keys the last update found pressed
    phase,          \* cycleTime of the moving platforms
    gone,           \* the vanishing platforms that are not there
    position,       \* playerBody.m_position
    velocity,       \* playerBody.m_velocity
    onGround,       \* playerBody.m_onGround
    ground,         \* playerBody.m_groundPlatform, an index or NoBody
    hold            \* currentJumpHoldDuration, in updates

bodyVars == <<position, velocity, onGround, ground, hold>>

vars == <<screen, keys, phase, gone, bodyVars>>

Deaths == {"GAME_OVER_LOSE_DEATH", "GAME_OVER_LOSE_FALL"}

Vanishing == {p \in Bodies : Level[p].kind = "vanishing"}

TypeOK ==
    /\ screen \in {"PLAYING", "TRANSITIONING"} \cup Deaths
    /\ keys \in SUBSET Keys
    /\ phase \in Phases
    /\ gone \in SUBSET Vanishing
    /\ position \in Vectors
    /\ velocity \in Vectors
    /\ onGround \in BOOLEAN
    /\ ground \in Bodies \cup {NoBody}
    /\ hold \in 0 .. HoldUpdates

-----------------------------------------------------------------------------
Init ==
    /\ screen = "PLAYING"
    /\ keys = {}
    /\ phase = 0
    /\ gone = {}
    /\ position = Start
    /\ velocity = Zero
    /\ onGround = FALSE
    /\ ground = NoBody
    /\ hold = 0

\* R, P, the door, Retry after a death: every request for a level.
Leave ==
    /\ screen # "TRANSITIONING"
    /\ screen' = "TRANSITIONING"
    /\ UNCHANGED <<keys, phase, gone, bodyVars>>

\* setupLevelAssets.  currentJumpHoldDuration is the one thing it leaves.
Enter ==
    /\ screen = "TRANSITIONING"
    /\ screen' = "PLAYING"
    /\ keys' = {}
    /\ phase' = 0
    /\ gone' = {}
    /\ position' = Start
    /\ velocity' = Zero
    /\ onGround' = FALSE
    /\ ground' = NoBody
    /\ UNCHANGED hold

-----------------------------------------------------------------------------
(***************************************************************************)
(* The level as an update finds it.                                        *)
(***************************************************************************)
Place(p, f) ==
    IF Level[p].kind = "moving" THEN Plus(Level[p].at, Level[p].path[f]) ELSE Level[p].at

Box(p, f, g) ==
    [id |-> p, kind |-> IF p \in g THEN "none" ELSE Level[p].kind,
     at |-> Place(p, f), size |-> Level[p].size]

Boxes(f, g) == {Box(p, f, g) : p \in Bodies}

PlayerBox == [at |-> position, size |-> Size]

NextPhase == (phase + 1) % Cycle

-----------------------------------------------------------------------------
(***************************************************************************)
(* Keys and velocity.  The intention to jump or to drop is taken from the  *)
(* ground of the update before; the platform may vanish in between.        *)
(***************************************************************************)
Direction(k) == IF "left" \in k THEN -1 ELSE IF "right" \in k THEN 1 ELSE 0

Turbo(k) == IF "shift" \in k THEN 2 ELSE 1

\* Slip: a jump needs no ground.
NewJumpPressInAir(k) == "jump" \in k /\ hold = 0

NewJumpPress(k) == "jump" \in k /\ onGround /\ hold = 0

ExtendsJump(k) == "jump" \in k /\ hold > 0 /\ hold < HoldUpdates

LiftsOn(k) ==
    /\ ExtendsJump(k)
    /\ velocity.y < 0
    /\ ground # NoBody => Level[ground].kind # "spring"

Stands(g) == onGround /\ ground \notin g

\* Slip: gravity ends at the top of a jump.
FallenToTheTop(v) == IF v < 0 THEN v + Gravity ELSE v

Fallen(v) == IF v + Gravity < MaxFall THEN v + Gravity ELSE MaxFall

\* Slip: the ground is looked at before the jump.
VerticalSpeedOnGround(k, g) ==
    IF Stands(g) THEN velocity.y
    ELSE IF NewJumpPress(k) \/ LiftsOn(k) THEN -JumpSpeed
    ELSE Fallen(velocity.y)

VerticalSpeed(k, g) ==
    IF NewJumpPress(k) \/ LiftsOn(k) THEN -JumpSpeed
    ELSE IF Stands(g) THEN velocity.y
    ELSE Fallen(velocity.y)

\* Slip: MAX_JUMP_HOLD_TIME is not looked at.
HeldWithoutLimit(k) ==
    IF NewJumpPress(k) THEN 1 ELSE IF "jump" \in k /\ hold > 0 THEN hold + 1 ELSE 0

Held(k) ==
    IF NewJumpPress(k) THEN 1 ELSE IF ExtendsJump(k) THEN hold + 1 ELSE 0

Wanted(k, g) ==
    [x |-> Direction(k) * Turbo(k) * MoveSpeed, y |-> VerticalSpeed(k, g)]

Resolution(k, g) ==
    Resolve([at |-> position, size |-> Size, velocity |-> Wanted(k, g),
             ground |-> IF ground \in g THEN NoBody ELSE ground,
             trying |-> "drop" \in k /\ onGround],
            Boxes(NextPhase, g))

-----------------------------------------------------------------------------
(***************************************************************************)
(* What the ground does after the collision.                               *)
(***************************************************************************)
LandedOn(r, kind) == r.onGround /\ r.ground # NoBody /\ Level[r.ground].kind = kind

\* Slip: lastFrameActualPosition is written after the platform has moved.
DisplacementAfter(p) == Plus(Place(p, NextPhase), Times(Place(p, NextPhase), -1))

\* lastFrameActualPosition is where the platform was before this update.
Displacement(p) == Plus(Place(p, NextPhase), Times(Place(p, phase), -1))

Carried(r) ==
    IF LandedOn(r, "conveyorBelt") THEN Level[r.ground].surface
    ELSE IF LandedOn(r, "moving") THEN Displacement(r.ground)
    ELSE Zero

\* A bounce off a spring, unless a ceiling was hit in the same update.
Bounced(r) == IF LandedOn(r, "spring") THEN -SpringSpeed ELSE r.velocity.y

StopsAtCeiling(r) == r.hitCeiling /\ Bounced(r) < 0

MovesBody(r, k) ==
    /\ position' = Plus(r.box.at, Carried(r))
    /\ velocity' = [r.velocity EXCEPT !.y = IF StopsAtCeiling(r) THEN 0 ELSE Bounced(r)]
    /\ onGround' = (r.onGround /\ ~LandedOn(r, "spring"))
    /\ ground' = IF LandedOn(r, "spring") THEN NoBody ELSE r.ground
    /\ hold' = IF StopsAtCeiling(r) THEN HoldUpdates ELSE IF r.onGround THEN 0 ELSE Held(k)

Trapped(at, boxes) ==
    \E b \in boxes : b.kind = "trap" /\ Meets(b, [at |-> at, size |-> Size])

Outcome(at, boxes) ==
    IF Trapped(at, boxes) THEN "GAME_OVER_LOSE_DEATH"
    ELSE IF at.y > DeathLine THEN "GAME_OVER_LOSE_FALL"
    ELSE "PLAYING"

\* One fixed update of the body.
Update ==
    /\ screen = "PLAYING"
    /\ \E k \in KeySets, g \in SUBSET Vanishing :
        /\ keys' = k
        /\ gone' = g
        /\ phase' = NextPhase
        /\ MovesBody(Resolution(k, g), k)
        /\ screen' = Outcome(position', Boxes(NextPhase, g))

Next == Update \/ Leave \/ Enter

Spec == Init /\ [][Next]_vars

\* Of the steps in a level, the ones that move its cycle on are its updates.
CycleGoesOn == screen = "PLAYING" /\ phase' = NextPhase

\* Updates go on while the level is played: this is WF_vars(Update) for any cycle of more
\* than one update, as an update is possible whenever the level is played.  Nobody has
\* to press a key.
FairSpec == Spec /\ WF_phase(CycleGoesOn)

-----------------------------------------------------------------------------
(***************************************************************************)
(* Properties.                                                             *)
(***************************************************************************)
\* Resolving collisions drops no part of the movement, although the code stops after
\* five iterations (CollisionSystem.cpp, line 45).
NothingLost ==
    screen = "PLAYING" => \A k \in KeySets : Resolution(k, gone).sweep = Zero

Massive == {"solid", "conveyorBelt", "spring"}

Inside(at, box) == box.kind \in Massive /\ Meets([at |-> at, size |-> Size], box)

\* What the ground added to the player's position in the update before.
LastCarried ==
    IF ~onGround \/ ground = NoBody THEN Zero
    ELSE IF Level[ground].kind = "conveyorBelt" THEN Level[ground].surface
    ELSE Plus(Place(ground, phase), Times(Place(ground, (phase - 1) % Cycle), -1))

\* No update leaves the player inside a massive platform, not when a vanishing one comes
\* back around him or a mover hits him, unless what he stands on has just carried him in.
NeverInside ==
    \A p \in Bodies :
        LET box == Box(p, phase, gone) IN
        Inside(position, box) => ~Inside(Plus(position, Times(LastCarried, -1)), box)

\* An update that begins with the player overlapping no platform where it is now,
\* except one-way platforms and the platform he stands on.
ClearUpdate ==
    /\ CycleGoesOn
    /\ \A p \in Bodies \ ({ground} \cup gone') :
        Level[p].kind \notin Passable \cup {"platform"} =>
            ~Meets(PlayerBox, Box(p, phase', gone'))

Over(at, p) ==
    at.x < Far(Level[p], "x") /\ Near(Level[p], "x") < at.x + Size.x

Feet(at) == at.y + Size.y

Top(p) == Near(Level[p], "y")

\* The player goes down past the top of a platform that stays where it is, one-way or
\* not, which he is over before and after the update.
Passes(p) ==
    /\ Level[p].kind \in Massive \cup {"platform"}
    /\ Feet(position) <= Top(p)
    /\ Feet(position') > Top(p)
    /\ Over(position, p)
    /\ Over(position', p)

\* A clear update takes the player down past no platform: no fall is fast enough to go
\* through, and none of them, one-way or not, is left downwards.
StaysAbove == [][(\E p \in Bodies : Passes(p)) => ~ClearUpdate]_vars

\* The player only starts to rise from the ground or off a spring: nothing he does in
\* the air, nor a platform that vanishes, gives him a second jump.
NoMidAirJump ==
    [][(velocity'.y < 0 /\ velocity.y >= 0) =>
        \/ onGround /\ "jump" \in keys'
        \/ velocity'.y = -SpringSpeed]_vars

Movers == {p \in Bodies : Level[p].kind = "moving"}

\* An update that ends on a mover has taken the player as far as the mover went in that
\* same update, besides his own steps: lastFrameActualPosition is written in one part of
\* the update and read in another (line 873).
CarriedByMover ==
    [][onGround' /\ ground' \in Movers /\ Direction(keys') = 0 /\ ClearUpdate =>
        position'.x - position.x = Place(ground', phase').x - Place(ground', phase).x]_vars

HeadTouches ==
    \E p \in Bodies :
        /\ Level[p].kind \notin Passable \cup {"platform"}
        /\ Over(position, p)
        /\ Far(Level[p], "y") \in position.y - Bias .. position.y

\* A jump key that is held is answered: also when it is held from before the landing,
\* or pressed in the one update of two in which a standing player is not on the ground.
JumpAnswered ==
    (screen = "PLAYING" /\ []("jump" \in keys)) ~>
        (velocity.y < 0 \/ HeadTouches \/ screen # "PLAYING")

\* Nobody stays in the air: he lands, bounces off a spring, or dies.
Lands ==
    (screen = "PLAYING" /\ ~onGround) ~>
        (onGround \/ velocity.y = -SpringSpeed \/ screen # "PLAYING")

\* Beside something he cannot walk through, there at the moment or not.
AgainstWall ==
    \E p \in Bodies :
        /\ Level[p].kind \notin Passable \cup {"platform"}
        /\ Near(Level[p], "y") < Feet(position) /\ position.y < Far(Level[p], "y")
        /\ position.x + Size.x \in Near(Level[p], "x") - 2 * MoveSpeed .. Far(Level[p], "x")

\* Walking right ends at a wall or in a pit, never at the seam of two tiles of a floor.
WalksOn ==
    (screen = "PLAYING" /\ []("right" \in keys)) ~> (AgainstWall \/ screen # "PLAYING")

\* "A standard, four-way collidable block" (Manual.html, line 204): whoever stands on a
\* solid platform stands on its top.
FourWay ==
    \A p \in Bodies :
        onGround /\ ground = p /\ Level[p].kind = "solid" => Feet(position) <= Top(p)

OneWay == {p \in Bodies : Level[p].kind = "platform"}

\* "Can drop through with 'S' key" (Manual.html, line 196): a player who stands on a
\* one-way platform and holds the key comes down below its top.
DropsThrough ==
    \A p \in OneWay :
        (screen = "PLAYING" /\ onGround /\ ground = p /\ [](keys = {"drop"})) ~>
            (Feet(position) > Top(p) \/ screen # "PLAYING")

\* "Applies a small correction to push dynamicBody out of the platform" (Manual.html,
\* line 648): besides his own steps and what carries him, an update takes the player
\* sideways by no more than his own width and the bias, also where a level starts him
\* inside its floor, as level2.json, level4.json and level5.json do.
SmallCorrection ==
    [][CycleGoesOn =>
        Abs(position'.x - position.x) <= 2 * MoveSpeed + Abs(LastCarried'.x) + Size.x + Bias]_vars
=============================================================================
