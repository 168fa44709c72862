-------------------------- MODULE CollisionSystem --------------------------
(***************************************************************************)
(* src/src/CollisionSystem.cpp: the swept test of the player's box against *)
(* the boxes of a level, and the resolution of one update's movement.      *)
(*                                                                         *)
(* Lengths are integers and the arithmetic is exact.  A time of impact is  *)
(* a fraction of the sweep, counted in Whole(sweep)-ths; for the point of  *)
(* impact to be an integer, Resolve works at Scale times the level's       *)
(* lengths, where it is one again when the movement ends.                  *)
(***************************************************************************)
EXTENDS Integers

CONSTANTS
    Tolerance,      \* JUMP_THROUGH_TOLERANCE
    Bias            \* DEPENETRATION_BIAS

ASSUME CollisionAssumption ==
    /\ Tolerance \in Nat
    /\ Bias \in Nat

Axes == {"x", "y"}

Vectors == [x : Int, y : Int]

Zero == [x |-> 0, y |-> 0]

Other(a) == IF a = "x" THEN "y" ELSE "x"

Plus(v, w) == [x |-> v.x + w.x, y |-> v.y + w.y]

Times(v, k) == [x |-> v.x * k, y |-> v.y * k]

Parts(v, k) == [x |-> v.x \div k, y |-> v.y \div k]

Abs(n) == IF n < 0 THEN -n ELSE n

\* A box is where one of its corners is, and its size.  That is the upper left corner,
\* but a level may give a negative size: the walls of level3.json stand on theirs.
Low(box, a) == box.at[a]

High(box, a) == box.at[a] + box.size[a]

Near(box, a) == IF box.size[a] < 0 THEN High(box, a) ELSE Low(box, a)

Far(box, a) == IF box.size[a] < 0 THEN Low(box, a) ELSE High(box, a)

\* Slip: touching is intersecting.
MeetsTouching(b, c) == \A a \in Axes : Near(b, a) <= Far(c, a) /\ Near(c, a) <= Far(b, a)

\* findIntersection, whatever the signs of the sizes: boxes that only touch do not
\* intersect.
Meets(b, c) == \A a \in Axes : Near(b, a) < Far(c, a) /\ Near(c, a) < Far(b, a)

-----------------------------------------------------------------------------
(***************************************************************************)
(* sweptAABB.  Along an axis without movement the entry is at -infinity    *)
(* and the exit at +infinity, so only the axes that move count.            *)
(***************************************************************************)
Moving(sweep) == {a \in Axes : sweep[a] # 0}

Length(n) == IF n = 0 THEN 1 ELSE Abs(n)

Whole(sweep) == Length(sweep.x) * Length(sweep.y)

\* How far the body goes until it meets the edges of the box, and until it has left
\* them.  With a negative size the second may come first, and they are swapped.
Gap(body, sweep, box, a) ==
    IF sweep[a] > 0 THEN Low(box, a) - High(body, a) ELSE Low(body, a) - High(box, a)

Reach(body, sweep, box, a) ==
    IF sweep[a] > 0 THEN High(box, a) - Low(body, a) ELSE High(body, a) - Low(box, a)

Swaps(body, sweep, box, a) == Gap(body, sweep, box, a) > Reach(body, sweep, box, a)

Entry(body, sweep, box, a) ==
    Length(sweep[Other(a)]) *
        (IF Swaps(body, sweep, box, a) THEN Reach(body, sweep, box, a)
         ELSE Gap(body, sweep, box, a))

Exit(body, sweep, box, a) ==
    Length(sweep[Other(a)]) *
        (IF Swaps(body, sweep, box, a) THEN Gap(body, sweep, box, a)
         ELSE Reach(body, sweep, box, a))

Swept(body, sweep) ==
    LET back(n) == IF n < 0 THEN n ELSE 0 IN
    [at |-> Plus(body.at, [x |-> back(sweep.x), y |-> back(sweep.y)]),
     size |-> Plus(body.size, [x |-> Abs(sweep.x), y |-> Abs(sweep.y)])]

Shallower(body, box, a) ==
    LET m == High(box, a) - Low(body, a)
        n == High(body, a) - Low(box, a)
    IN  IF n < m THEN n ELSE m

\* A body at rest collides with a box it overlaps, but for one of a negative size.
Collides(body, sweep, box) ==
    /\ Moving(sweep) = {} => \A a \in Axes : Shallower(body, box, a) > 0
    /\ \A a \in Moving(sweep) :
            /\ Entry(body, sweep, box, a) < Whole(sweep)
            /\ Exit(body, sweep, box, a) > 0
            /\ \A c \in Moving(sweep) : Entry(body, sweep, box, a) <= Exit(body, sweep, box, c)

\* What is left of the body on its side of the box.
Overlap(body, box, a) ==
    IF Low(body, a) < Low(box, a) THEN High(body, a) - Low(box, a) ELSE High(box, a) - Low(body, a)

\* The side of the box is hit: else its top or bottom.  A tie is the y axis's
\* unless the sweep is much longer along x.
HitsSide(body, sweep, box) ==
    \/ /\ Moving(sweep) = {}
       /\ Shallower(body, box, "x") < Shallower(body, box, "y")
    \/ Moving(sweep) = {"x"}
    \/ /\ Moving(sweep) = Axes
       /\ LET x == Entry(body, sweep, box, "x")
              y == Entry(body, sweep, box, "y")
          IN  x > y \/ (x = y /\ 5 * Abs(sweep.y) <= 4 * Abs(sweep.x))

HitAxis(body, sweep, box) == IF HitsSide(body, sweep, box) THEN "x" ELSE "y"

HitTime(body, sweep, box) ==
    IF Moving(sweep) = {} THEN 0 ELSE Entry(body, sweep, box, HitAxis(body, sweep, box))

-----------------------------------------------------------------------------
(***************************************************************************)
(* resolveCollisions.  A resolution r keeps the player's box, velocity and *)
(* what is left to sweep; stood is the platform he stood on before.        *)
(***************************************************************************)
NoBody == 0

Passable == {"goal", "none", "trap", "portal"}

Met(r, boxes) ==
    LET swept == Swept(r.box, r.sweep) IN
    {b \in boxes :
        /\ b.kind \notin Passable
        /\ b.id # r.ignored
        /\ Meets(swept, b)
        /\ Collides(r.box, r.sweep, b)}

Dropped(r, met) == {b \in met : b.kind = "platform" /\ r.trying /\ b.id = r.stood}

\* Slip: the player's feet have to be above the platform.
CanLandFromAbove(r, b) ==
    /\ HitAxis(r.box, r.sweep, b) = "y"
    /\ r.velocity.y >= 0
    /\ High(r.box, "y") < Low(b, "y")

\* One-way platforms.  The code admits 4 px/s of upward velocity, less than a
\* step of gravity: no jump passes through a velocity in between.
CanLand(r, b) ==
    /\ HitAxis(r.box, r.sweep, b) = "y"
    /\ r.velocity.y >= 0
    /\ High(r.box, "y") <= Low(b, "y") + Tolerance * r.scale

Hits(r, met) ==
    {b \in met \ Dropped(r, met) : b.kind = "platform" => CanLand(r, b)}

\* Of hits at the same time, the first in the level.
Earlier(r, b, c) ==
    LET tb == HitTime(r.box, r.sweep, b)
        tc == HitTime(r.box, r.sweep, c)
    IN  tb < tc \/ (tb = tc /\ b.id <= c.id)

Nearest(r, hits) == CHOOSE b \in hits : \A c \in hits : Earlier(r, b, c)

Drop(r, met) ==
    IF Dropped(r, met) = {} THEN r
    ELSE [r EXCEPT !.ignored = r.stood, !.stood = NoBody, !.onGround = FALSE,
                   !.ground = IF @ = r.stood THEN NoBody ELSE @]

\* Slip: towards the centre of the box.
PushedIn(r, box, a) ==
    LET overlap == Overlap(r.box, box, a)
        way == IF 2 * Low(r.box, a) + r.box.size[a] < 2 * Low(box, a) + box.size[a]
               THEN 1 ELSE -1
    IN  IF overlap > 0
        THEN [r EXCEPT !.box.at[a] = @ + way * (overlap + Bias * r.scale)]
        ELSE r

\* Away from the centre of the box, by the overlap and a little more.
PushedOut(r, box, a) ==
    LET overlap == Overlap(r.box, box, a)
        way == IF 2 * Low(r.box, a) + r.box.size[a] < 2 * Low(box, a) + box.size[a]
               THEN -1 ELSE 1
    IN  IF overlap > 0
        THEN [r EXCEPT !.box.at[a] = @ + way * (overlap + Bias * r.scale)]
        ELSE r

\* Slip: the response is left out.
StruckWithoutResponse(r, b, a) ==
    IF a = "y" /\ r.velocity.y >= 0 THEN [r EXCEPT !.onGround = TRUE, !.ground = b.id] ELSE r

\* applyCollisionResponse, and what the resolution notes of it.
Struck(r, b, a) ==
    LET landed == a = "y" /\ r.velocity.y >= 0
        bumped == a = "y" /\ r.velocity.y < 0
    IN  [r EXCEPT
            !.velocity[a] = 0,
            !.sweep[a] = 0,
            !.onGround = landed \/ (@ /\ ~(bumped /\ r.ground = b.id)),
            !.ground = IF landed THEN b.id ELSE IF bumped /\ @ = b.id THEN NoBody ELSE @,
            !.hitCeiling = @ \/ bumped]

MoveTo(r, t) ==
    LET moved == Parts(Times(r.sweep, t), Whole(r.sweep))
    IN  [r EXCEPT !.box.at = Plus(@, moved), !.sweep = Plus(@, Times(moved, -1))]

Hit(r, b) ==
    LET a == HitAxis(r.box, r.sweep, b)
        t == HitTime(r.box, r.sweep, b)
    IN  IF t > 0 THEN Struck(MoveTo(r, t), b, a) ELSE PushedOut(Struck(r, b, a), b, a)

MoveFreely(r) == [r EXCEPT !.box.at = Plus(@, r.sweep), !.sweep = Zero, !.done = TRUE]

\* One iteration of the loop.
Iterate(r, boxes) ==
    LET met == Met(r, boxes)
        hits == Hits(r, met)
    IN  IF r.done THEN r
        ELSE IF hits = {} THEN MoveFreely(Drop(r, met))
        ELSE Hit(Drop(r, met), Nearest(r, hits))

Enlarged(b, k) == [b EXCEPT !.at = Times(@, k), !.size = Times(@, k)]

Begin(player, k) ==
    [box |-> [at |-> Times(player.at, k), size |-> Times(player.size, k)],
     velocity |-> player.velocity, sweep |-> Times(player.velocity, k), scale |-> k,
     stood |-> player.ground, trying |-> player.trying,
     ignored |-> NoBody, onGround |-> FALSE, ground |-> NoBody,
     hitCeiling |-> FALSE, done |-> FALSE]

\* MAX_COLLISION_ITERATIONS iterations.  Each hit that moves the player ends the
\* movement along an axis, so the fourth and fifth only push him out of boxes.
Iterated(r, boxes) ==
    Iterate(Iterate(Iterate(Iterate(Iterate(r, boxes), boxes), boxes), boxes), boxes)

Resolve(player, boxes) ==
    LET k == Whole(player.velocity)
        r == Iterated(Begin(player, k), {Enlarged(b, k) : b \in boxes})
    IN  [r EXCEPT !.box.at = Parts(@, k)]
=============================================================================
