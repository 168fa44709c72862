# Celestial Speedrun in TLA+

A formal model of Celestial Speedrun, a 2D platformer written in C++ with SFML.
The code has one thread and one loop. What makes it hard to test is that a
fixed-step simulation, a loader that works over many frames, an animation, four
kinds of clock and a user who may press any key in any frame share a few flags
and raw pointers, and that each of them can be cut short by another.

Paths below are relative to the repository; `main.cpp` is `src/main.cpp` in it.

## The system

| Component | Its state | Operations | Talks to |
|---|---|---|---|
| Level manager (`LevelManager.cpp/.hpp`) | transition state, current and target level, pointer to the caller's `LevelData`, JSON document, texture list and index, fade overlay and clock | `requestLoad*`, `requestRespawn*`, `setCurrentLevelNumber`, `update`, `draw` | called by the main loop; writes the global `currentLevelData` |
| Main loop and screens (`main.cpp` 440-1545) | `running`, `currentState`, the time accumulator, the E flag | events per screen, fixed updates, transition, drawing | everything |
| Goal door (`main.cpp` 470-484, 1163-1192, 1454-1484) | `goalReached`, `doorAnimationOngoing`, frame, clock, a `Tile*` | reach the goal, next frame, open | asks the manager for the next level from the *drawing* code |
| Music (`main.cpp`) | status of two `sf::Music` | play, pause, stop on screen changes | started and stopped by nearly every event handler |
| World objects (`main.cpp` 272-419, 900-1008, 1103-1284, `Tile.cpp`) | bodies, tiles, switch cooldowns, vanishing cycle, the player's ground pointer | fall, vanish, press a switch, enter a portal, rebuild | body and tile are changed by separate statements; collision sets the ground pointer |
| Moving platforms (`main.cpp` 861-898, 1054-1066) | cycle time, last position | move, carry the player | the body looked up by id twice per update |
| Collisions (`CollisionSystem.cpp`) | none | swept boxes, one-way platforms, response, depenetration | reads the bodies, moves the player, sets his ground pointer |
| Player (`Player.cpp`, `main.cpp` 828-859, 1010-1100) | position, velocity, ground, drop flag, jump hold | input, velocity, springs, conveyors, death | collisions before, the ground of the last update after |
| Display settings (`main.cpp` 115-215, 706-741) | modes, index, fullscreen flag | apply, previous, next, toggle | the window, whose size the backdrop is scaled by |
| Backdrops (`main.cpp` 290-301, 1314-1333) | cache by level number, sprite | cache, bind when a level begins | the manager's texture list, which it is copied from |
| Level parser, easing, sprites, drawing, sound effects, build | data or output only | | |

What each must get right:

* **Manager**: every exit from a transition, failures included, releases the
  document and the pointer; level data changes only behind a black screen; a
  texture that a platform names is found; every accepted request ends.
* **Main loop**: the screen says TRANSITIONING exactly while the manager works;
  the level number is that of the world in play; levels come in order; one track
  plays at a time.
* **Door**: its flags agree however the animation is interrupted, and it leads on.
* **World objects**: the player never stands on a body that is gone; what is
  drawn is what can be stood on; the two groups of vanishing platforms take
  turns; a fall completes; a wall moves only by a ready switch; a portal never
  leads to where removed bodies are kept.
* **Player and collisions**: an update uses up all of its movement; nobody ends
  inside a platform, falls through a floor or sticks at the seam of two tiles; a
  jump starts on the ground and is always answered; a mover carries him as far as
  it goes.
* **Backdrops**: the picture on screen is the one of the level in play, scaled
  for the window there is.

`PROJECT.json` lists the hazards line by line, with the properties that guard each or
the reason why none does.

## Modules

| Module | What it is |
|---|---|
| `LevelLoader` | abstract specification: one job at a time into one slot; the level number changes only on delivery |
| `LevelManager` | `LevelManager.cpp` in full; implements `LevelLoader` by the refinement mapping at its end |
| `GameLoop` | the main loop; extends `LevelManager`, whose actions its handlers take as conjuncts |
| `WorldObjects` | the platforms of one level under the fixed update and the E key |
| `Display` | the window settings and the backdrops, composed with `GameLoop`, which it extends |
| `CollisionSystem` | `CollisionSystem.cpp` as operators: the swept test and the resolution of one update's movement |
| `PlayerPhysics` | the player's body under the fixed update: keys, movers, velocity, the collision resolution, what the ground does, death, respawn |
| `LevelManagerProofs`, `GameLoopProofs`, `DisplayProofs`, `WorldObjectsProofs`, `PlayerPhysicsProofs` | theorems about each of these and their proofs |
| `CollisionProofs` | the arithmetic of sweeps and times of impact, and what the swept test finds |
| `ClearMovementProofs` | where a player whose way is clear ends, on top of the two above |
| `ClearLevelProofs` | whole levels in which his way is clear in every update |
| `MCLevelManager`, `MCGameLoop`, `MCDisplay`, `MCWorldObjects`, `MCPlayerPhysics` | small levels for TLC |

**LevelManager.** A variable is the member without `m_`. One branch of `update`
is one action: the fade (`FadeOut`), the end of the fade, which loads the
picture, frees the old document, reads and parses (`StartLoading`, or
`AbortLoad` on a failure), one texture per call (`LoadTexture`), the end of the
list (`FinishLoading`), and the fade back (`FadeIn`, `FinishTransition`). Files
are outcomes: `LoadFaults` names those that may happen. `levelData` keeps what
the properties tell apart, the level its platforms came from, its number and the
keys of its texture list. A `MissingPlatforms` failure leaves them inconsistent
exactly as the code does: `parseLevelData` has dropped the platforms and stored
the number, and the textures are still the old ones. The number stored is the one that
the file states (`FileNumbers`, `ParsedNumber`), or still the one before if it states
none; that of the request is compared with it for a warning only. Wall-clock time is `Tick`.

**GameLoop.** One iteration of the `while` loop walks through phases:
`poll` (any number of events), then `fixed`, `transition` or neither, then
`draw`. An event handler is one action with its request to the manager, its
screen change and its music. `EndPoll` adds the frame's time to the accumulator
on every screen, as line 818 does. The fixed update chooses freely what the
player touches. `doorTile` records whether `animatedDoorTile` points to a tile of
the vector that is alive; after `setupLevelAssets` it is `dangling`, and using it
may crash or go on (both outcomes are in the model). The same holds for reading
the end iterator at line 407 (`SetupLevelAssets`). A window that is closed
(`CloseWindow`) gives no further events, which is why every handler has `running`
in its guard (`EventIn`), and the loop is left where the event queue ends, at line 816
(`LeaveLoop`): nothing of that frame is simulated, loaded or drawn, only the music is
stopped. `EndPoll`, the other way on from there, therefore needs `running`. The test
of the `while` itself (line 651) never fails, because only events clear the flag.

**Display.** Each step is a step of `GameLoop` with its effect on the backdrop
(`GameStep`), or a click on the settings page (`PreviousResolution`,
`NextResolution`, `ToggleFullscreen`). `availableVideoModes` is computed as the
code does it: the union of the desktop's modes and the common ones, sorted, each
size once. `Recreated` has the fallback of lines 171-178, which takes the flag
back and leaves the window's state. `FollowTextures` says whose picture
`TexturesList` holds under `LEVEL_BG_ID`; `CacheBackground` copies it once per
level number; `BindBackdrop` makes the sprite in the step that begins a level.

**CollisionSystem.** A resolution is a record with the player's box, his
velocity, what is left of the sweep, the ground he stood on and the one he has
found. `Iterate` is one turn of the loop of line 45: the platforms met (`Met`),
those he drops through (`Dropped`), the hits that count (`Hits`, with the rule for
one-way platforms), the nearest of them, and either the move to it with the
response (`Hit`, `Struck`), the push out of a box he is already in (`PushedOut`),
or free movement. The order of the level decides between hits at the same time,
as `<` in line 105 does.

Lengths are integers and times of impact are exact fractions. An entry time is
kept multiplied by `Whole(sweep)`, the product of the lengths of the sweep along
its two axes, and `Resolve` works at that many times the level's lengths, so that
a point of impact is an integer too. What the model leaves out is the rounding of
`float`. `1e-5`, the least time step, is zero here. An entry at minus infinity
(an axis without movement) is an axis that does not count (`Moving`). A level file
may give a platform a negative size, as `level3.json` does: `findIntersection`
takes such a box as it lies (`Near`, `Far`), while `sweptAABB` measures from the
side that its position names, and swaps entry and exit where the exit comes first
(`Swaps`). A body at rest collides with the boxes it overlaps, measured the same way,
and so with none of negative size (`Collides`).

**PlayerPhysics.** `Update` is one fixed update in the code's order: keys (with
the intentions to jump and to drop taken from the ground of the *last* update),
movers, vanishing, velocity (`Wanted`), `Resolve`, what the ground does
(`Carried`, `Bounced`), the ceiling, traps, the death line. `Leave` and `Enter`
are a request for a level and `setupLevelAssets`, which resets everything but
`currentJumpHoldDuration`. Which vanishing platforms are away is a free choice in
each update, a superset of what `WorldObjects` allows. The easing curve of a mover
is a table of offsets over its cycle (`path`), its period a number of updates.

**WorldObjects.** Bodies and tiles are built in the order of the level, so a
platform is an index. A place is "where platform *h* was put, lower by *n*
updates", or off the map. Three stages make one fixed update: `Update`
(cooldowns, falling, vanishing, the cycle, in the code's order), the outcome of
the collisions (`Land` on any body that is not skipped, or `Fly`), and the E key
(`NoInteraction`, `EnterPortal`, `ChangeSelf`). `Pressed` and `Toggled` are the
switch's own change and the linked platform's. Look-ups by id take the first
match, as the loops with `break` do.

Operators preceded by a comment `Slip:` are plausible mistakes in the operator
they are named after: a missing reset, an off-by-one, a dropped guard. They are
used by no specification. Put in the place of the original, each makes the
property that `PROJECT.json` pairs it with fail, which shows that the property
can see such a mistake.

## Runs

| Run | Bounds | Shows |
|---|---|---|
| `MCLevelManager` | 3 levels of 3, 3 and 1 textures, fade of 3 units, frames of 1 or 2, unreadable and incomplete files and pictures | type, `HeldWhileNeeded`, `IndexInList`, `TexturesResolve`, `DataChangesUnderCover`, refinement of `LevelLoader` with its liveness |
| `MCDisplay` | 3 levels, the first and last with a background, two files that state each other's number, 3 window modes, frames of 1 or 3 with steps of 2 (0, 1 and 2 updates per frame), accumulator up to 7, level files that cannot be read | `BackdropOfLevel`; and of the game: type, `TransitionCoupling`, `WorldIsCurrentLevel`, `MusicMatchesScreen`, `DoorFlagsAgree`, `WonOnLastLevel`, `LevelsInOrder`, `ImplementsManager`, `TransitionLeadsToPlay`, `DoorLeadsOn` |
| `MCGameLoopFaults` | `GameLoop` alone, with level and music files that may fail | what survives a failed load: `TransitionCoupling`, `WorldIsCurrentLevel`, `TilesHaveTextures`, `NeverBothTracks` |
| `MCWorldObjects` | 9 platforms: a falling one, vanishing ones of both groups, two walls with one id, a re-usable switch on the wall, a one-time switch on the falling platform, a pair of portals and one portal to a vanishing platform; step 2, delay 3, cycle 7 | type, the six invariants and the action property of the world, `FallCompletes`, `VanishedComesBack` |
| `MCPlayerPhysics` | 9 platforms: conveyor and tile side by side as a floor, a wall, a one-way platform, a ceiling, a mover, a spring, a vanishing platform, a trap; a player of 4 x 8 that runs, jumps, walks back while jumping, or drops | type, `NothingLost`, `NeverInside`, `StaysAbove`, `NoMidAirJump`, `CarriedByMover`; `JumpAnswered`, `Lands`, `WalksOn` |

Seven runs are refuted on purpose (`MCDoorSkip`, `MCBacklog`, `MCInteractLost`,
`MCTextureFallback`, `MCDropThrough` on a level of a one-way platform above a floor,
`MCUpturned` on a floor beside a wall of negative height, and `MCInFloor` on the start
of `level2.json`, one eighth as large); see the findings.

Why this is enough. Three levels are a first, a middle and a last one; two
would make every level an end. Fade, step and frame times are chosen so that
frames do not divide the fade, a frame may hold no fixed update or several, and
the fall delay is not a multiple of the step (it passes through a negative
value, which line 37 of `Tile.cpp` treats differently from zero). The cycle of 7
with a step of 2 makes the vanishing timer wrap at different remainders, and a
`HiddenSpan` of 3 is the largest for which the two gaps do not meet. `MaxBacklog`
is the one bound on a counter: the accumulator saturates there, with enough for
three fixed updates in one frame. Clocks saturate at the threshold that the code
compares them with. `CHECK_DEADLOCK` is on everywhere: a finished or crashed
program stutters explicitly (`Terminated`).

In `MCPlayerPhysics` the unit is a stride of a few pixels. What matters is kept in
order: the bias is smaller than one update of gravity, gravity smaller than the
one-way tolerance, the tolerance smaller than the greatest fall per update, and
that smaller than the player, who is at least twice the tolerance high (in the
code 0.01, 0.33, 4, 11.7 and 64 pixels). Two updates of a held jump are the fewest
in which a hold can be extended and run out; two offsets are the fewest that move
a platform both ways. The vertical positions a jump can reach are finite because
the level has a ceiling and a death line, so no counter needs a bound.
Floor and conveyor meet at a seam in the player's way, with the one that begins
farther right first in the level: the order in which a tie would be noticed.
`NeverInside` excepts what the ground has just done to the player: a conveyor or a
mover carries him after the collisions of the update, into a wall if there is
one, and the next update pushes him out.

### Fairness

`LevelManager` on its own assumes that `update` is called and time passes
(`ManagerFairness`): line 1310 calls it in every frame of a transition, and
`MCDisplay` shows that the loop's own fairness is enough
(`TransitionLeadsToPlay`). `GameLoop` assumes only weak fairness of the loop as a
whole (`LoopStep`): the thread runs. Nothing is assumed about the user or about
which outcome a step takes; in particular `TransitionLeadsToPlay` and
`DoorLeadsOn` do not need the event queue to be used. `WorldObjects` assumes
that fixed updates go on while the level is played, and so does
`PlayerPhysics`: its `FairSpec` asks it of `CycleGoesOn`, the part of an update that
moves the cycle on, because an update is possible whenever the level is played and
TLC computes `ENABLED` of the part far faster than of the whole.
`Display` takes the fairness of the loop; no click is assumed.

## Proofs

The theorems hold for every value of the constants that satisfies the modules'
assumptions: any number of levels, any textures, frame times and faults, any
level file of `WorldObjects` with any delays, steps and depths, any level, keys and
speeds of `PlayerPhysics`. Where a theorem needs more, its hypothesis is named below.

* **Manager.** `ManagerInv` joins the type invariant, `HeldWhileNeeded`,
  `IndexInList` and `LoadedData` (from the parse on, the slot holds the target,
  and the screen is black while loading). It is needed because the index bound
  depends on the list being that of the target. From it follow
  `ManagerTypeCorrect`, `ResourcesHeld`, `IndexStaysInList`; a second invariant
  on the keys stored so far gives `TexturesAlwaysResolve`, which assumes that
  `"texture"` is not among the faults (see the finding on the fallback).
  `ManagerImplementsLoader` maps each action to an action of `LevelLoader`.
  `DataOnlyChangesUnderCover` is an action property that `ManagerInv` is enough for:
  the only steps that touch the slot are the end of the fade, which makes the overlay
  opaque, and those of `LOADING`, which find and leave it so.
* **Main loop.** `GameImplementsManager` shows that each step of the game is a
  step the manager's specification allows, so `ManagerInv` holds in the game with
  no further work. `CouplingHolds` is inductive as it stands. `LevelsStayInOrder`
  and `WonOnlyOnLastLevel` need that a pending target is the current level or the
  next one (`TargetIsNear`); `WorldStaysCurrent` needs what a load has left in
  the slot (`SlotInv`). `NeverBoth` and `DoorFlagsHold` are inductive.
  The music needs two: `NeverTheWrongTrack` says that the track of the other kind
  of screen is silent, with or without faults (the handlers stop or pause before they
  start, and never start both), and `MusicAlwaysMatches` that the screen's own track
  plays. The second has the hypothesis `AudioFaults = FALSE`: a track whose file does
  not open is silent.
  Two theorems say that two findings have no other cause than the one given there.
  `UndisturbedDoorsAreEarned`: if no level is left between its goal and the end of
  the door's animation (`Undisturbed`), a door that opens is that of the level on
  screen, and the animation never draws through a stale pointer; its invariant
  (`DoorOfThisLevel`) is that a reached goal has a live door tile on the screen
  `PLAYING`. `SlowFramesSampleInteract`: if no frame is shorter than a fixed step, no
  press of E is lost.
* **Display.** `DisplayImplementsGame` is a refinement without a mapping: each step is
  a step of `GameLoop` or leaves its variables alone, so all of the above holds in
  `Display`, fairness included. `BackdropIsOwn` proves `BackdropOfLevel` by `DisplayInv`,
  which says what holds while nobody looks: whose picture the texture list has under
  the background's key whenever the manager is idle or has loaded (`TexturesExact`,
  `PictureInList`), and that each entry of the cache is of the level whose file states
  its number (`CacheIsOwn`). It has two hypotheses. `HarmlessFaults` allows unreadable
  level files and loading pictures. A file without platforms is excluded because the
  property is then false (see the finding), and a texture that fails because its list is
  then short. `ProperNumbers` says that each file states a number of its own, other than
  zero, which need not be that of its name; it holds of the five levels.
* **World.** `IInv` adds to the properties that a body off the map is of type
  `none` (`OffMapIsNone`), that a tile about to fall is on the map
  (`FallsFromMap`), that only falling platforms fall (`OnlyFallingFall`) and that
  no switch turns a falling platform into something else (`FallingBodies`). The
  first match of a look-up exists because the naturals are well founded.
  From `IInv` follow `TypeCorrect`, `AlwaysOnSomething`, `FallenNeverCarries`,
  `GroupsTakeTurns` and `TeleportsStayOnMap`. `GroupsTakeTurns` uses the
  assumption that a gap is shorter than half of the cycle.
  `WhatIsSeenIsThere` has an invariant of its own, `SeenInv`: a platform
  that does not vanish keeps its body where its tile is, and shows the tile exactly
  while it has the body, unless it has fallen (`SteadyMatch`); and one that has fallen
  has no body whenever collisions are to come or just over (`FallenStaysGone`).
  Vanishing platforms need no more: each update makes body and tile anew.
  `WallsOnlyMoveBySwitch` is an action property: of the steps that change a body's
  type, only that of a ready switch touches a wall.
* **Player.** `PlayerTypeCorrect` is the type invariant through a resolution:
  every field that `Iterate` returns has its type if the boxes do.
  `MovementIsNeverLost` is about the bound of five iterations. Its heart is
  `NearestIsHit`: among hits there is a nearest one, because each hit has fewer
  earlier hits than any later one and strict inclusion of finite sets is well
  founded; so an iteration either hits a box, which ends the movement along one
  axis (`IterateFollows`), or ends all of it. After two hits along different axes,
  or free movement, nothing is left (`IteratedResolves`); hits at no movement only
  push him out. `RisesFromTheGround` shows, for any level and any velocities, that
  an upward velocity begins with a jump from the ground or a spring.
* **Collisions.** `SweepMissesNothing` is about `sweptAABB` alone: if the body, taken
  any part of its movement further, intersects a box, then the box passes the broad
  phase, the swept test says that it collides, and the time of impact it gives is
  before that part. Body and box have no negative size; how thin the box and how fast
  the movement is do not matter. The proof needs the order of exact fractions
  and that a point of impact is an integer at the scale of `Resolve`
  (`ExactAtScale`, `StopsAtBox`); both are lemmas, and neither uses recursion.
* **Clear movement.** `ClearMovementProofs` follows a resolution with it. An update has
  a *clear way* (`ClearWay`) when the player begins it inside no obstacle and either
  there is room over the one-way platforms, so that whoever lands on one is not pushed
  into a ceiling (`Roomy`), or each one-way platform that his sweep meets is below his
  feet (`IsAbove`) or has its top out of landing reach above them (`IsUnder`). Then
  `Clear` and `Continues`, which say that what is left of the sweep is the rest of the
  same movement, that it goes the same way and no farther (`Onward`), and that the box
  still intersects nothing, are kept by each of the iterations. Hence, for such an
  update, `ClearWayEndsOutside` (he ends in no obstacle, before the ground carries
  him), `ClearWayPassesNothing` (he passes downward through no platform, unless it is a
  one-way one that he drops through by the key, or what he stands on carries him) and
  `ClearWayCarriesExactly` (a mover takes him sideways by exactly as much as it
  moves). Their hypothesis is `UprightLevel`: the player has positive sizes and no
  platform a negative one. In the level of `MCPlayerPhysics` about nine updates of ten
  have a clear way.
* **Levels.** `ClearLevelProofs` goes from one update to a whole level. An `OpenLevel`
  is upright, has the room just named wherever its movers are (`RoomyLevel`), and does
  not start the player in a platform (`StartsOutside`). What the behaviour must do is
  `LevelKeepsClear`: in no update does a mover come to where he is, does a vanished
  platform come back around him, or does what he stands on carry him into a wall. A lift
  that rises into the player on it does come to where he is, so the theorems say nothing
  after that. The invariant is `Free`: he is in no obstacle (`Outside`), and if he
  stands on something he has stopped falling, and if that stays where it is his feet
  are at its top or above (`Standing`). The second part is needed for the drop and for `FourWay`. Then he is
  never inside a platform (`OpenLevelNeverInside`), stands on tops only
  (`OpenLevelFourWay`), is never taken down past a platform, not even by the drop key, unless what he
  stands on carries him (`OpenLevelDropsNobody`), is carried exactly as far as the mover goes
  (`OpenLevelCarried`) and is never thrown sideways (`OpenLevelSmallCorrection`). In a
  `StillLevel`, where nothing moves, vanishes or carries, `LevelKeepsClear` holds by
  itself, and the theorems need nothing of the behaviour (`StillLevelNeverInside`,
  `StillLevelFourWay`, `StillLevelStaysAbove`, `StillLevelSmallCorrection`).
  The level of `MCPlayerPhysics` is an `OpenLevel`, that of `MCDropThrough` also a
  `StillLevel`. Of the five levels of the game all are roomy; `level3.json` is not
  upright, and `level2.json`, `level4.json` and `level5.json` start the player in
  their floor, which are the two findings on levels below.

Model-checked only:

* the liveness properties (`ImplementsFairLoader`, `TransitionLeadsToPlay`,
  `DoorLeadsOn`, `FallCompletes`, `VanishedComesBack`, `JumpAnswered`, `Lands`,
  `WalksOn`): liveness is out of the proof system's reach;
* `NeverInside`, `StaysAbove` and `CarriedByMover` of the level in the run, where lifts
  rise into him and vanished platforms come back: the theorems need `LevelKeepsClear`
  or a `StillLevel`. Without either the properties are false of some levels: a mover
  may jump into the player by any distance, and a lift pushes him up by the overlap
  and the bias, into a ceiling that is low enough;
* the findings, which are counterexamples.

## Findings

Each is a run that TLC refutes, against what the repository says.

* **Door skip** (`MCDoorSkip`, `LevelsAreEarned`). Pressing P or R during the
  door animation leaves `goalReached`, `doorAnimationOngoing` and
  `animatedDoorTile` set. The next world is frozen, the animation goes on through
  a pointer to a destroyed tile, and the door opens by itself.
* **Backlog** (`MCBacklog`, `ConsistentRate`). The accumulator grows in menus and
  transitions and is spent in the first frame of play.
* **Lost E press** (`MCInteractLost`, `InteractIsSampled`). The E flag is cleared
  by a frame in which no fixed update ran.
* **Texture fallback** (`MCTextureFallback`, `FailedTextureHasDefault`). The
  default texture is stored under the wrong key, so the tile does not find it.
* **Drop** (`MCDropThrough`, `DropsThrough`). Dropping through a one-way platform
  never happens. The intent is taken only on the ground; an update that ends on the
  ground leaves the player with no vertical velocity, touching the platform or 0.01
  clear of it, so that the next sweep meets no platform to ignore. In the update
  after that, when it would, he is not on the ground. `StaysAbove` says the same of
  the larger level, where the drop key is among the keys, and `OpenLevelDropsNobody`
  proves it of every open level that keeps clear.
* **Upturned wall** (`MCUpturned`, `FourWay`). The two walls of `level3.json` (lines
  12 and 19) have a height of -1178. Where the swept test swaps entry and exit, it
  takes the time at which the player's head reaches the wall's top for that of his
  feet. Walking off the end of a floor beside such a wall, he sinks into its top by
  his own height and stands there, inside it; `Manual.html:204` calls a solid
  platform a "four-way collidable block". `OpenLevelFourWay` proves that it takes such a wall, or a start in one.
* **Start in the floor** (`MCInFloor`, `SmallCorrection`). `level2.json`, `level4.json`
  and `level5.json` start the player at (0, 0), 64 high, in a tile from 32 down. Of
  such a platform both entry times are negative, and the larger one chooses the axis
  (`CollisionSystem.cpp:164`). If the right key is held in the first update (in
  `level4.json`, either key) that is the x axis, and the overlap is measured to the
  far side of the tile while the direction is chosen by the centres (line 179): he is
  thrown to the left by what is left of the tile's length, 490, 80 and 10620 pixels,
  past the end of the floor. `Manual.html:648` and `CollisionSystem.cpp:37` speak of a
  small correction; `Manual.html:467` lists such a start among the errors of a level.

Seen through the models, without a run of their own:

* **Loading picture.** It is drawn before the overlay, which is opaque while the level
  loads (`LevelManager.cpp:223-229`); `Manual.html:530` says that it is displayed.
* **`initiallyFalling`.** A platform so marked never falls: its body counts as
  falling, which keeps the player's landing from starting the tile (`main.cpp:932`,
  `Manual.html:200`). No level of the repository uses the field.
* **Thrown.** Of a platform that already overlaps the player both entry times are
  negative, and the larger one chooses the axis. When a mover meets the side of a
  player in the update in which gravity moves him a little, that is the y axis, and
  `resolveCollisions` pushes him by the whole height of the overlap, down through
  the floor he stands on. `Manual.html:648` speaks of a small correction.
  `StaysAbove` and `CarriedByMover` are therefore about updates that begin clear of
  every platform (`ClearUpdate`).
* **Half speed.** For the same reason a standing player is on the ground in every
  second update only, and a conveyor or a mover carries him in those: at half its speed.
* **A tapped jump may be lost.** A jump key that is pressed for one update in which
  he is not on the ground does nothing (`main.cpp:847`); held for two, it is
  answered (`JumpAnswered`).
* The block of `main.cpp:1080-1083` acts only if a spring bounces him in the same
  update: `pVel` is read after the response, which has made it zero.
* **Windowed backdrop.** It is scaled to the window's pixels (`main.cpp:1327`) and
  drawn in a view of 800 x 600, against the comment of line 1318, "Resizing
  background to fit screen".
* **Fullscreen fallback.** Without a fullscreen mode the log says "falling back to
  windowed", and the window is created in the state `Fullscreen` (line 180).
* **Backdrop after a failed load.** A level file without platforms leaves the
  number of the new level with the textures of the old one; the picture is then
  cached under the wrong number, for good.
* **Backdrop of a misnumbered level.** The cache goes by the number in the file
  (`main.cpp:292-316`). If two files state the same number, or one states none, a level
  is shown with the picture of another; the parser only warns. Given such files, TLC
  refutes `BackdropOfLevel` in a few steps. The five levels are numbered properly.
* **Teleport.** It leaves `onGround` and the ground pointer, so the player can jump
  in the air at the exit of a portal.

Seen while reading, smaller differences between documents and
code: the skip key (F4 in `Manual.html`, P in the code), portals linked by
`portalID` (`Manual.html:257`) but looked up by `id`, platforms of type `none`
drawn because line 380 is commented out, and a spring of 3 times the jump where
`PhysicsTypes.hpp:14` says 2.

## Not modelled, and why

* **Rounding of `float`** in the collision system, and the easing curves (a
  constant table): the arithmetic of the model is exact.
* **Coordinates together with switches and portals**: `WorldObjects` takes what the
  player touches as a choice, `PlayerPhysics` has no switch and no portal.
* **Viewports, dragging the window's border, volumes**: arithmetic on settings that
  no other state depends on.
* **Drawing, text, sprites, sound effects, build**: output without a state that
  anything else reads.
* **The parser's defaults** for single fields: data that no property tells apart.
* **Custom tile colours**: `WorldObjects` treats a switch's tile as visible
  unless its target is `none`; a custom colour with alpha 0 is not considered.

## Plan

1. (done) `LevelLoader`, `LevelManager`, `GameLoop`, `WorldObjects`, their runs,
   and their theorems.
2. (done) `CollisionSystem` and `PlayerPhysics`, with movers, springs, conveyors
   and one-way platforms; `Display` composed with `GameLoop`; the theorems about
   the player.
3. (done) Proofs of `MusicMatchesScreen`, `DataChangesUnderCover`, `SeenIsThere`,
   `WallsMoveBySwitch` and `BackdropOfLevel`; the swept test, and the movement of a
   player whose way is clear.
4. A composition of `WorldObjects` with `PlayerPhysics` (portals and switches at
   coordinates), and of both with `GameLoop`, so that deaths, the goal and
   respawns act on one world.
5. (in part) Conditions on a level under which every update has a clear way. Those on
   its data are `OpenLevel`; those on movers and on platforms that vanish are still
   stated of the behaviour (`LevelKeepsClear`), and would follow from distances between
   lifts, landings and ceilings, and the speed of movers.
