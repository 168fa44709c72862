------------------------ MODULE ClearMovementProofs ------------------------
(***************************************************************************)
(* Proofs about updates that find the player's way clear: he intersects no *)
(* platform that is massive for him, and there is room over the one-way    *)
(* platforms, or his feet are above those that his movement meets, or out  *)
(* of reach below their tops.  Such an update never takes him into a       *)
(* platform or down past one, at any speed and in any level.               *)
(*                                                                         *)
(* An update that finds him inside a platform (a mover hit him, a vanished *)
(* one came back around him) pushes him out of it, by the overlap and the  *)
(* bias, wherever that takes him: such updates are outside of the proofs.  *)
(***************************************************************************)
EXTENDS PlayerPhysicsProofs

-----------------------------------------------------------------------------
(***************************************************************************)
(* A resolution whose way is clear, at a scale of k.                       *)
(***************************************************************************)
Obstacle(b) == b.kind \notin Passable \cup {"platform"}

AlignedTo(b, k) == \A a \in Axes : Multiple(b.at[a], k) /\ Multiple(b.size[a], k)

Fitting(boxes, k) ==
    /\ BoxesOK(boxes)
    /\ \A b \in boxes : Upright(b) /\ AlignedTo(b, k)
    /\ \A b, c \in boxes : b.id = c.id => b = c

\* The feet are too low to land on the box, and stay so.
IsUnder(body, sweep, box, k) ==
    /\ High(body, "y") > Low(box, "y") + Tolerance * k
    /\ High(body, "y") + sweep.y > Low(box, "y") + Tolerance * k

\* A body can be next to the one and to the other at once.
IsNear(b, c, size) ==
    /\ Low(b, "x") < High(c, "x") + size.x
    /\ Low(c, "x") < High(b, "x") + size.x

\* Where the body lands on a one-way platform it has room to be pushed onto the top: a
\* ceiling is higher than that, or so low that the feet do not come up to the platform.
Roomy(size, boxes, k) ==
    /\ 2 * (Tolerance * k) < size.y
    /\ \A b, c \in boxes :
        b.kind = "platform" /\ Obstacle(c) /\ IsNear(b, c, size) =>
            \/ High(c, "y") <= Low(b, "y") - Bias * k - size.y
            \/ High(c, "y") > Low(b, "y") + Tolerance * k - size.y

\* One-way platforms are met from above, or too low.
MeetsNoEdge(r, boxes) ==
    ~r.done => \A b \in boxes :
        b.kind = "platform" /\ b.id # r.ignored /\ Meets(Swept(r.box, r.sweep), b) =>
            IsAbove(r.box, b) \/ IsUnder(r.box, r.sweep, b, r.scale)

\* It intersects no obstacle, and may land on the one-way platforms.
ClearAhead(r, boxes) ==
    /\ \A b \in boxes : Obstacle(b) => ~Meets(r.box, b)
    /\ Roomy(r.box.size, boxes, r.scale) \/ MeetsNoEdge(r, boxes)

\* A platform that was landed on is below the feet, and the fall has ended.
OnTop(r, boxes) ==
    r.ground # NoBody =>
        /\ r.velocity.y = 0
        /\ r.sweep.y = 0
        /\ \A b \in boxes : b.id = r.ground => High(r.box, "y") <= Low(b, "y")

\* The platform to drop through is found once.
DropsOnce(r, boxes) ==
    /\ r.ignored # NoBody => r.stood = NoBody
    /\ \A b \in boxes : b.id = r.ignored => b.kind = "platform"

\* The movement ends at a multiple of the scale, and only the first sweep is along both
\* axes: the part of it up to a hit is one in integers.
Exact(r, k) ==
    /\ \A a \in Axes : Multiple(r.box.size[a], k) /\ Multiple(r.box.at[a] + r.sweep[a], k)
    /\ \/ \E a \in Axes : r.sweep[a] = 0
       \/ /\ \A a \in Axes : Multiple(r.box.at[a], k)
          /\ \E w \in Vectors :
                (\A a \in Axes : w[a] # 0) /\ k = Whole(w) /\ r.sweep = Times(w, k)

Clear(r, boxes, k) ==
    /\ r \in Resolutions
    /\ \A a \in Axes : r.box.size[a] > 0
    /\ ClearAhead(r, boxes)
    /\ DropsOnce(r, boxes)
    /\ r.sweep.y > 0 => r.velocity.y >= 0
    /\ r.sweep.y < 0 => r.velocity.y < 0
    /\ r.scale = k
    /\ OnTop(r, boxes)
    /\ Exact(r, k)

LEMMA ClearUpright ==
    ASSUME NEW r, NEW boxes, NEW k, Clear(r, boxes, k)
    PROVE r.box \in [at : Vectors, size : Vectors] /\ Upright(r.box) /\ r.sweep \in Vectors
<1>1. r.box \in [at : Vectors, size : Vectors] /\ r.sweep \in Vectors
  BY DEF Clear, Resolutions, Places
<1>2. \A a \in Axes : r.box.size[a] >= 0
  BY <1>1, VectorAt DEF Clear
<1> QED BY <1>1, <1>2 DEF Upright, Placed

LEMMA NoBodyIsNone == NoBody \notin Bodies
BY LevelAssumption DEF Bodies, NoBody

-----------------------------------------------------------------------------
(***************************************************************************)
(* Which boxes are hit, and which are ignored.                             *)
(***************************************************************************)
LEMMA DropKeeps ==
    ASSUME NEW boxes, NEW k, Fitting(boxes, k), NEW r, Clear(r, boxes, k)
    PROVE LET d == Drop(r, Met(r, boxes)) IN
          /\ d \in Resolutions
          /\ d.box = r.box /\ d.sweep = r.sweep /\ d.velocity = r.velocity
          /\ d.done = r.done /\ d.trying = r.trying /\ d.scale = r.scale
          /\ DropsOnce(d, boxes)
          /\ r.ignored # NoBody => d.ignored = r.ignored
          /\ d.ignored # r.ignored => r.trying /\ d.ignored = r.stood
          /\ d.stood = r.stood \/ d.stood = NoBody
          /\ d.ground = r.ground \/ d.ground = NoBody
          /\ \A b \in Dropped(r, Met(r, boxes)) : b.id = d.ignored
<1> DEFINE met == Met(r, boxes)
           d == Drop(r, met)
<1>1. r \in Resolutions /\ DropsOnce(r, boxes)
  BY DEF Clear
<1>2. d \in Resolutions /\ d.box = r.box /\ d.sweep = r.sweep /\ d.velocity = r.velocity
      /\ d.done = r.done /\ d.trying = r.trying /\ d.scale = r.scale
  BY <1>1, DropFollows DEF Follows, Drop, Resolutions
<1>3. met \subseteq boxes
  BY DEF Met
<1> HIDE DEF met
<1>4. d.ground = r.ground \/ d.ground = NoBody
  BY <1>1 DEF Drop, Resolutions
<1>5. CASE Dropped(r, met) = {}
  BY <1>1, <1>2, <1>5 DEF Drop, met
<1>6. CASE Dropped(r, met) # {}
  <2>1. PICK c \in Dropped(r, met) : TRUE
    BY <1>6
  <2>2. c \in boxes /\ c.kind = "platform" /\ c.id = r.stood /\ r.trying /\ c.id \in Bodies
    BY <1>3, <2>1 DEF Dropped, Fitting, BoxesOK, BoxOK
  <2>3. r.stood # NoBody /\ r.ignored = NoBody
    BY <1>1, <2>2, NoBodyIsNone DEF DropsOnce
  <2>4. d.ignored = r.stood /\ d.stood = NoBody
    BY <1>1, <1>6 DEF Drop, Resolutions
  <2>5. \A b \in boxes : b.id = d.ignored => b.kind = "platform"
    BY <2>2, <2>4 DEF Fitting
  <2>6. \A b \in Dropped(r, met) : b.id = d.ignored
    BY <2>4 DEF Dropped
  <2> QED BY <1>2, <1>4, <2>2, <2>3, <2>4, <2>5, <2>6 DEF DropsOnce, met
<1> QED BY <1>5, <1>6

\* What a box needs to be hit, besides being met.
LEMMA IsHit ==
    ASSUME NEW boxes, NEW k, Fitting(boxes, k), NEW r, Clear(r, boxes, k),
           NEW b \in boxes, b.kind \notin Passable,
           b.id # Drop(r, Met(r, boxes)).ignored,
           Meets(Swept(r.box, r.sweep), b), Collides(r.box, r.sweep, b),
           b.kind = "platform" => CanLand(r, b)
    PROVE b \in Hits(r, Met(r, boxes))
<1>1. b.id \in Bodies
  BY DEF Fitting, BoxesOK, BoxOK
<1>2. b.id # r.ignored
  BY <1>1, DropKeeps, NoBodyIsNone
<1>3. b \in Met(r, boxes)
  BY <1>2 DEF Met
<1>4. b \notin Dropped(r, Met(r, boxes))
  BY DropKeeps
<1> QED BY <1>3, <1>4 DEF Hits

\* A hit is on a box that the body does not intersect yet, or on a one-way platform.
LEMMA HitsAhead ==
    ASSUME NEW boxes, NEW k, Fitting(boxes, k), NEW r, Clear(r, boxes, k), ~r.done,
           NEW b \in Hits(r, Met(r, boxes))
    PROVE /\ b \in boxes /\ BoxOK(b) /\ Upright(b)
          /\ Meets(r.box, b) =>
                b.kind = "platform" /\ CanLand(r, b) /\ Roomy(r.box.size, boxes, k)
          /\ Meets(Swept(r.box, r.sweep), b)
          /\ Collides(r.box, r.sweep, b)
<1>1. /\ b \in boxes /\ b.kind \notin Passable /\ b.id # r.ignored
      /\ Meets(Swept(r.box, r.sweep), b) /\ Collides(r.box, r.sweep, b)
  BY DEF Hits, Met
<1>2. BoxOK(b) /\ Upright(b)
  BY <1>1 DEF Fitting, BoxesOK
<1>3. Meets(r.box, b) =>
        b.kind = "platform" /\ CanLand(r, b) /\ Roomy(r.box.size, boxes, k)
  <2>1. CASE Obstacle(b)
    BY <1>1, <2>1 DEF Clear, ClearAhead
  <2>2. CASE ~Obstacle(b) /\ ~Roomy(r.box.size, boxes, k)
    <3>0. IsAbove(r.box, b) \/ IsUnder(r.box, r.sweep, b, r.scale)
      BY <1>1, <2>2 DEF Obstacle, Clear, ClearAhead, MeetsNoEdge
    <3>1. IsAbove(r.box, b)
      <4>1. CanLand(r, b)
        BY <1>1, <2>2 DEF Obstacle, Hits
      <4>2. Tolerance * r.scale \in Int
        BY CollisionAssumption, ProductType DEF Clear, Resolutions
      <4>3. High(r.box, "y") \in Int /\ Low(b, "y") \in Int
        BY <1>2, ClearUpright, EdgesType DEF Axes
      <4> QED BY <3>0, <4>1, <4>2, <4>3 DEF CanLand, IsUnder
    <3>2. High(r.box, "y") \in Int /\ Low(b, "y") \in Int /\ "y" \in Axes
      BY <1>2, ClearUpright, EdgesType DEF Axes
    <3> QED BY <1>2, <3>1, <3>2, ClearUpright, MeetsUpright DEF IsAbove
  <2>3. CASE ~Obstacle(b) /\ Roomy(r.box.size, boxes, k)
    BY <1>1, <2>3 DEF Obstacle, Hits
  <2> QED BY <2>1, <2>2, <2>3
<1> QED BY <1>1, <1>2, <1>3

-----------------------------------------------------------------------------
(***************************************************************************)
(* A part of the sweep that ends before every hit, or at the nearest.      *)
(***************************************************************************)
EndsBeforeHits(r, boxes, t, n) ==
    \A c \in Hits(r, Met(r, boxes)) :
        t * Whole(r.sweep) <= n * HitTime(r.box, r.sweep, c)

\* It takes the body into no obstacle ...
LEMMA StaysOut ==
    ASSUME NEW boxes, NEW k, Fitting(boxes, k), NEW r, Clear(r, boxes, k), ~r.done,
           NEW m \in Vectors, NEW n \in Nat \ {0}, NEW t \in 0 .. n,
           Partway(r.sweep, m, t, n), EndsBeforeHits(r, boxes, t, n),
           NEW b \in boxes, Obstacle(b)
    PROVE ~Meets(After(r.box, m), b)
<1> SUFFICES ASSUME Meets(After(r.box, m), b) PROVE FALSE
  OBVIOUS
<1>1. /\ r.box \in [at : Vectors, size : Vectors] /\ Upright(r.box) /\ r.sweep \in Vectors
      /\ Upright(b) /\ BoxOK(b) /\ ~Meets(r.box, b)
      /\ b.kind \notin Passable /\ b.kind # "platform"
  BY ClearUpright DEF Fitting, BoxesOK, Clear, ClearAhead, Obstacle
<1>2. MeetsAt(r.box, r.sweep, b, t, n)
  BY <1>1, MeetsAfter
<1>3. Meets(Swept(r.box, r.sweep), b) /\ Collides(r.box, r.sweep, b)
  BY <1>1, <1>2, SweepMissesNothing
<1>4. Moving(r.sweep) # {}
  BY <1>1, <1>3, HitTimeRange
<1>5. n * HitTime(r.box, r.sweep, b) < t * Whole(r.sweep)
  BY <1>1, <1>2, <1>4, SweepMissesNothing
<1>6. b \in Hits(r, Met(r, boxes))
  <2>1. b.id # Drop(r, Met(r, boxes)).ignored
    BY <1>1, DropKeeps DEF DropsOnce
  <2> QED BY <1>1, <1>3, <2>1, IsHit
<1>7. n * HitTime(r.box, r.sweep, b) \in Int /\ t * Whole(r.sweep) \in Int
  <2>1. HitTime(r.box, r.sweep, b) \in Int /\ Whole(r.sweep) \in Int
    BY <1>1, HitTimeType, WholeType DEF Clear
  <2> QED BY <2>1, ProductType
<1> QED BY <1>5, <1>6, <1>7 DEF EndsBeforeHits

\* ... and not below the top of a platform that it was above and is still over.
LEMMA StaysAboveOne ==
    ASSUME NEW boxes, NEW k, Fitting(boxes, k), NEW r, Clear(r, boxes, k), ~r.done,
           NEW m \in Vectors, NEW n \in Nat \ {0}, NEW t \in 0 .. n,
           Partway(r.sweep, m, t, n), EndsBeforeHits(r, boxes, t, n),
           NEW b \in boxes, b.kind \notin Passable,
           b.id # Drop(r, Met(r, boxes)).ignored,
           IsAbove(r.box, b), IsOver(After(r.box, m), b)
    PROVE IsAbove(After(r.box, m), b)
<1>1. /\ r.box \in [at : Vectors, size : Vectors] /\ Upright(r.box) /\ r.sweep \in Vectors
      /\ Upright(b) /\ BoxOK(b) /\ r.box.size["y"] > 0 /\ "x" \in Axes /\ "y" \in Axes
  BY ClearUpright DEF Fitting, BoxesOK, Clear, Axes
<1>2. High(After(r.box, m), "y") \in Int /\ Low(b, "y") \in Int
      /\ High(After(r.box, m), "y") = High(r.box, "y") + m["y"]
  BY <1>1, AfterEdges, EdgesType
<1> SUFFICES ASSUME High(After(r.box, m), "y") > Low(b, "y") PROVE FALSE
  BY <1>2 DEF IsAbove
<1>3. MeetsAlong(r.box, r.sweep, b, "x", t, n)
  BY <1>1, AfterEdges, MeetsAfterAlong DEF IsOver
<1>4. n * High(r.box, "y") + t * r.sweep["y"] > n * Low(b, "y")
  BY <1>1, <1>2, MeetsAfterAlong
<1>5. /\ r.sweep["y"] > 0
      /\ Meets(Swept(r.box, r.sweep), b)
      /\ Collides(r.box, r.sweep, b)
      /\ HitAxis(r.box, r.sweep, b) = "y"
      /\ n * HitTime(r.box, r.sweep, b) < t * Whole(r.sweep)
  BY <1>1, <1>3, <1>4, PassesNone
<1>6. CanLand(r, b)
  <2>1. r.velocity.y >= 0
    BY <1>5 DEF Clear
  <2>2. Tolerance * r.scale >= 0 /\ Tolerance * r.scale \in Int
    <3>1. r.scale \in Nat /\ Tolerance \in Nat
      BY CollisionAssumption DEF Clear, Resolutions
    <3> QED BY <3>1
  <2>3. High(r.box, "y") <= Low(b, "y") + Tolerance * r.scale
    BY <1>1, <1>2, <2>2, EdgesType DEF IsAbove
  <2> QED BY <1>5, <2>1, <2>3 DEF CanLand
<1>7. b \in Hits(r, Met(r, boxes))
  BY <1>5, <1>6, IsHit
<1>8. n * HitTime(r.box, r.sweep, b) \in Int /\ t * Whole(r.sweep) \in Int
  <2>1. HitTime(r.box, r.sweep, b) \in Int /\ Whole(r.sweep) \in Int
    BY <1>1, HitTimeType, WholeType DEF Clear
  <2> QED BY <2>1, ProductType
<1> QED BY <1>5, <1>7, <1>8 DEF EndsBeforeHits

\* The body is above a box, or has left it by the side it moves to.
IsPast(r, b) ==
    \/ r.sweep.x >= 0 /\ Low(r.box, "x") >= High(b, "x")
    \/ r.sweep.x <= 0 /\ High(r.box, "x") <= Low(b, "x")

AboveOrPast(r, b) == IsAbove(r.box, b) \/ IsPast(r, b)

LEMMA StaysAboveOrPast ==
    ASSUME NEW boxes, NEW k, Fitting(boxes, k), NEW r, Clear(r, boxes, k), ~r.done,
           NEW m \in Vectors, NEW n \in Nat \ {0}, NEW t \in 0 .. n,
           Partway(r.sweep, m, t, n), EndsBeforeHits(r, boxes, t, n),
           NEW b \in boxes, b.kind \notin Passable,
           b.id # Drop(r, Met(r, boxes)).ignored, AboveOrPast(r, b),
           NEW s, s.box = After(r.box, m), s.sweep.x \in {0, r.sweep.x - m.x}
    PROVE AboveOrPast(s, b)
<1>1. /\ r.box \in [at : Vectors, size : Vectors] /\ Upright(r.box) /\ r.sweep \in Vectors
      /\ Upright(b) /\ "x" \in Axes
  BY ClearUpright DEF Fitting, Axes
<1>2. /\ Low(s.box, "x") = Low(r.box, "x") + m.x
      /\ High(s.box, "x") = High(r.box, "x") + m.x
      /\ Low(r.box, "x") \in Int /\ High(r.box, "x") \in Int
      /\ Low(b, "x") \in Int /\ High(b, "x") \in Int
      /\ Low(r.box, "x") <= High(r.box, "x")
      /\ m.x \in Int /\ r.sweep.x \in Int
  BY <1>1, AfterEdges, EdgesType, VectorAt DEF Vectors
<1>3. /\ r.sweep.x >= 0 => 0 <= m.x /\ m.x <= r.sweep.x
      /\ r.sweep.x <= 0 => r.sweep.x <= m.x /\ m.x <= 0
  BY <1>1, PartwayBetween DEF Vectors
<1>4. CASE IsPast(r, b)
  BY <1>2, <1>3, <1>4 DEF IsPast, AboveOrPast
<1>5. CASE IsAbove(r.box, b) /\ IsOver(s.box, b)
  BY <1>5, StaysAboveOne DEF AboveOrPast
<1>6. CASE IsAbove(r.box, b) /\ ~IsOver(s.box, b)
  BY <1>2, <1>3, <1>6 DEF IsPast, AboveOrPast, IsAbove, IsOver
<1> QED BY <1>4, <1>5, <1>6 DEF AboveOrPast

\* The way from there on is a part of the way before.
LEMMA AheadAfter ==
    ASSUME NEW boxes, NEW k, Fitting(boxes, k), NEW r, Clear(r, boxes, k), ~r.done,
           NEW m \in Vectors, NEW n \in Nat \ {0}, NEW t \in 0 .. n,
           Partway(r.sweep, m, t, n), EndsBeforeHits(r, boxes, t, n),
           NEW s, s.box = After(r.box, m), s.sweep \in Vectors,
           \A a \in Axes : s.sweep[a] \in {0, r.sweep[a] - m[a]},
           s.ignored = Drop(r, Met(r, boxes)).ignored, s.scale = r.scale
    PROVE ClearAhead(s, boxes)
<1>1. /\ r.box \in [at : Vectors, size : Vectors] /\ Upright(r.box) /\ r.sweep \in Vectors
      /\ "x" \in Axes
  BY ClearUpright DEF Axes
<1>2. ASSUME NEW b \in boxes, Obstacle(b) PROVE ~Meets(s.box, b)
  BY <1>2, StaysOut
<1>3. ASSUME MeetsNoEdge(r, boxes),
             NEW b \in boxes, b.kind = "platform", b.id # s.ignored,
             Meets(Swept(s.box, s.sweep), b)
      PROVE IsAbove(s.box, b) \/ IsUnder(s.box, s.sweep, b, s.scale)
  <2>1. Upright(b) /\ Upright(s.box)
    BY <1>1, AfterEdges DEF Fitting
  <2>2. ASSUME NEW a \in Axes
        PROVE /\ Low(Swept(r.box, r.sweep), a) <= Low(Swept(s.box, s.sweep), a)
              /\ High(Swept(s.box, s.sweep), a) <= High(Swept(r.box, r.sweep), a)
              /\ r.sweep[a] >= 0 => Low(Swept(s.box, s.sweep), a) = Low(s.box, a)
              /\ r.sweep[a] <= 0 => High(Swept(s.box, s.sweep), a) = High(s.box, a)
              /\ r.sweep[a] >= 0 => High(r.box, a) <= High(s.box, a)
              /\ r.sweep[a] <= 0 => Low(s.box, a) <= Low(r.box, a)
    <3>1. /\ Low(s.box, a) = Low(r.box, a) + m[a]
          /\ High(s.box, a) = High(r.box, a) + m[a]
          /\ Low(r.box, a) \in Int /\ High(r.box, a) \in Int
          /\ m[a] \in Int /\ r.sweep[a] \in Int /\ s.sweep[a] \in {0, r.sweep[a] - m[a]}
      BY <1>1, AfterEdges, EdgesType, VectorAt
    <3>2. /\ r.sweep[a] >= 0 => 0 <= m[a] /\ m[a] <= r.sweep[a]
          /\ r.sweep[a] <= 0 => r.sweep[a] <= m[a] /\ m[a] <= 0
      BY <1>1, PartwayBetween
    <3>3. /\ Low(Swept(r.box, r.sweep), a) =
                Low(r.box, a) + (IF r.sweep[a] < 0 THEN r.sweep[a] ELSE 0)
          /\ High(Swept(r.box, r.sweep), a) =
                High(r.box, a) + (IF r.sweep[a] > 0 THEN r.sweep[a] ELSE 0)
          /\ Low(Swept(s.box, s.sweep), a) =
                Low(s.box, a) + (IF s.sweep[a] < 0 THEN s.sweep[a] ELSE 0)
          /\ High(Swept(s.box, s.sweep), a) =
                High(s.box, a) + (IF s.sweep[a] > 0 THEN s.sweep[a] ELSE 0)
      BY <1>1, <2>1, SweptEdges
    <3> QED BY <3>1, <3>2, <3>3
  <2>3. \A a \in Axes : /\ Low(Swept(s.box, s.sweep), a) < High(b, a)
                        /\ Low(b, a) < High(Swept(s.box, s.sweep), a)
    BY <1>3, <2>1, SweptEdges, MeetsUpright
  <2>4. Meets(Swept(r.box, r.sweep), b)
    <3>1. \A a \in Axes : /\ Low(Swept(r.box, r.sweep), a) < High(b, a)
                          /\ Low(b, a) < High(Swept(r.box, r.sweep), a)
      <4>1. \A a \in Axes : /\ Low(b, a) \in Int /\ High(b, a) \in Int
                            /\ Low(Swept(r.box, r.sweep), a) \in Int
                            /\ High(Swept(r.box, r.sweep), a) \in Int
                            /\ Low(Swept(s.box, s.sweep), a) \in Int
                            /\ High(Swept(s.box, s.sweep), a) \in Int
        BY <1>1, <2>1, SweptEdges, EdgesType
      <4> QED BY <2>2, <2>3, <4>1
    <3> QED BY <1>1, <2>1, <3>1, SweptEdges, MeetsUpright
  <2>5. b.id # r.ignored
    <3>1. b.id # NoBody
      BY NoBodyIsNone DEF Fitting, BoxesOK, BoxOK
    <3> QED BY <1>3, <3>1, DropKeeps
  <2>6. IsAbove(r.box, b) \/ IsUnder(r.box, r.sweep, b, r.scale)
    BY <1>3, <2>4, <2>5 DEF MeetsNoEdge
  <2>7. ASSUME IsUnder(r.box, r.sweep, b, r.scale)
        PROVE IsUnder(s.box, s.sweep, b, s.scale)
    <3>1. /\ "y" \in Axes /\ Tolerance * r.scale \in Int
          /\ Low(b, "y") \in Int /\ High(r.box, "y") \in Int
          /\ High(s.box, "y") = High(r.box, "y") + m["y"]
          /\ s.sweep["y"] \in {0, r.sweep["y"] - m["y"]}
          /\ m["y"] \in Int /\ r.sweep["y"] \in Int
      BY <1>1, <2>1, CollisionAssumption, ProductType, AfterEdges, EdgesType, VectorAt
         DEF Axes, Clear, Resolutions
    <3>2. /\ r.sweep["y"] >= 0 => 0 <= m["y"] /\ m["y"] <= r.sweep["y"]
          /\ r.sweep["y"] <= 0 => r.sweep["y"] <= m["y"] /\ m["y"] <= 0
      BY <1>1, <3>1, PartwayBetween
    <3> QED BY <2>7, <3>1, <3>2 DEF IsUnder
  <2>8. ASSUME IsAbove(r.box, b) PROVE IsOver(s.box, b)
    <3>1. /\ Low(r.box, "x") \in Int /\ High(r.box, "x") \in Int
          /\ Low(s.box, "x") \in Int /\ High(s.box, "x") \in Int
          /\ Low(b, "x") \in Int /\ High(b, "x") \in Int /\ r.sweep["x"] \in Int
      BY <1>1, <2>1, EdgesType, VectorAt
    <3> QED BY <1>1, <2>2, <2>3, <2>8, <3>1 DEF IsAbove, IsOver
  <2>9. b.kind \notin Passable
    BY <1>3 DEF Passable
  <2> QED BY <1>3, <2>6, <2>7, <2>8, <2>9, StaysAboveOne
<1>4. s.box.size = r.box.size
  BY DEF After
<1>5. MeetsNoEdge(r, boxes) => MeetsNoEdge(s, boxes)
  BY <1>3 DEF MeetsNoEdge
<1> QED BY <1>2, <1>4, <1>5 DEF Clear, ClearAhead

-----------------------------------------------------------------------------
(***************************************************************************)
(* A clear body hits: it moves up to the box and is not pushed.            *)
(***************************************************************************)
LEMMA ExactHit ==
    ASSUME NEW boxes, NEW k \in Nat \ {0}, Fitting(boxes, k),
           NEW r, Clear(r, boxes, k), NEW b \in boxes,
           NEW a \in Moving(r.sweep)
    PROVE LET t == Entry(r.box, r.sweep, b, a) IN
          /\ Moved(r.sweep, t) \in Vectors
          /\ Partway(r.sweep, Moved(r.sweep, t), t, Whole(r.sweep))
          /\ Multiple(r.box.at[a] + Moved(r.sweep, t)[a], k)
<1> DEFINE t == Entry(r.box, r.sweep, b, a)
           m == Moved(r.sweep, t)
<1>1. /\ r.box \in [at : Vectors, size : Vectors] /\ Upright(r.box) /\ r.sweep \in Vectors
      /\ Upright(b) /\ a \in Axes /\ t \in Int
  BY ClearUpright, GapType DEF Fitting, Moving
<1>2. /\ Low(b, a) = b.at[a] /\ High(b, a) = b.at[a] + b.size[a]
      /\ Low(r.box, a) = r.box.at[a] /\ High(r.box, a) = r.box.at[a] + r.box.size[a]
      /\ b.at[a] \in Int /\ b.size[a] \in Int /\ r.box.at[a] \in Int /\ r.box.size[a] \in Int
      /\ r.sweep[a] \in Int /\ r.sweep[a] # 0
  BY <1>1, EdgesType, VectorAt DEF Moving
<1>3. Multiple(b.at[a], k) /\ Multiple(b.size[a], k) /\ Multiple(r.box.size[a], k)
  BY <1>1 DEF Fitting, AlignedTo, Clear, Exact
<1>4. Multiple(Low(b, a), k) /\ Multiple(High(b, a), k)
  BY <1>2, <1>3, MultipleSums
<1>5. \A c \in Axes : Multiple(r.sweep[c] * t, Whole(r.sweep))
  <2>1. CASE \E c \in Axes : r.sweep[c] = 0
    <3>1. r.sweep[Other(a)] = 0
      BY <1>1, <1>2, <2>1, OtherAxis
    <3> QED BY <1>1, <3>1, ExactAlongAxis
  <2>2. CASE ~\E c \in Axes : r.sweep[c] = 0
    <3>1. /\ Multiple(r.box.at[a], k)
          /\ \E w \in Vectors :
                (\A c \in Axes : w[c] # 0) /\ k = Whole(w) /\ r.sweep = Times(w, k)
      BY <1>1, <2>2 DEF Clear, Exact
    <3>2. PICK w \in Vectors :
                (\A c \in Axes : w[c] # 0) /\ k = Whole(w) /\ r.sweep = Times(w, k)
      BY <3>1
    <3>3. Multiple(High(r.box, a), k)
      BY <1>2, <1>3, <3>1, MultipleSums
    <3>4. Multiple(Gap(r.box, r.sweep, b, a), k)
      BY <1>2, <1>4, <3>1, <3>3, MultipleSums DEF Gap
    <3> QED BY <1>1, <3>2, <3>4, ExactAtScale
  <2> QED BY <2>1, <2>2
<1>6. m \in Vectors /\ Partway(r.sweep, m, t, Whole(r.sweep))
  BY <1>1, <1>5, MovedExactly
<1>7. m[a] = IF r.sweep[a] > 0 THEN Gap(r.box, r.sweep, b, a) ELSE -Gap(r.box, r.sweep, b, a)
  BY <1>1, <1>6, StopsAtBox
<1>8. r.box.at[a] + m[a] = IF r.sweep[a] > 0 THEN Low(b, a) - r.box.size[a] ELSE High(b, a)
  <2> HIDE DEF m
  <2> QED BY <1>2, <1>7 DEF Gap
<1>9. Multiple(Low(b, a) - r.box.size[a], k)
  BY <1>2, <1>3, <1>4, MultipleSums
<1> QED BY <1>4, <1>6, <1>8, <1>9

LEMMA ClearHit ==
    ASSUME NEW boxes, NEW k \in Nat \ {0}, Fitting(boxes, k),
           NEW r, Clear(r, boxes, k), ~r.done,
           NEW b \in Hits(r, Met(r, boxes)), ~Meets(r.box, b)
    PROVE LET d == Drop(r, Met(r, boxes))
              a == HitAxis(r.box, r.sweep, b)
              t == HitTime(r.box, r.sweep, b)
          IN  /\ a \in Moving(r.sweep)
              /\ t = Entry(r.box, r.sweep, b, a)
              /\ t \in 0 .. Whole(r.sweep)
              /\ Hit(d, b) = Struck(MoveTo(d, t), b, a)
<1> DEFINE d == Drop(r, Met(r, boxes))
           a == HitAxis(r.box, r.sweep, b)
           t == HitTime(r.box, r.sweep, b)
<1>1. /\ b \in boxes /\ BoxOK(b) /\ Upright(b) /\ ~Meets(r.box, b)
      /\ Meets(Swept(r.box, r.sweep), b) /\ Collides(r.box, r.sweep, b)
  BY HitsAhead
<1>2. r.box \in [at : Vectors, size : Vectors] /\ Upright(r.box) /\ r.sweep \in Vectors
  BY ClearUpright
<1>3. Moving(r.sweep) # {} /\ t \in 0 .. Whole(r.sweep)
  BY <1>1, <1>2, HitTimeRange
<1>4. a \in Moving(r.sweep) /\ t = Entry(r.box, r.sweep, b, a)
  BY <1>1, <1>2, <1>3, HitTimeIsLastEntry
<1>5. d \in Resolutions /\ d.box = r.box /\ d.sweep = r.sweep
  BY DropKeeps
<1>6. Hit(d, b) = IF t > 0 THEN Struck(MoveTo(d, t), b, a) ELSE PushedOut(Struck(d, b, a), b, a)
  BY <1>5 DEF Hit
<1>7. CASE t > 0
  BY <1>3, <1>4, <1>6, <1>7
<1>8. CASE t = 0
  <2>1. a \in Axes /\ r.box.size[a] > 0
    BY <1>4 DEF Moving, Clear
  <2>2. Overlap(r.box, b, a) <= 0 /\ Overlap(r.box, b, a) \in Int
    <3>1. Overlap(r.box, b, a) <= 0
      BY <1>1, <1>2, <1>4, <1>8, <2>1, NoOverlapAtTouch
    <3>2. /\ Low(r.box, a) \in Int /\ High(r.box, a) \in Int
          /\ Low(b, a) \in Int /\ High(b, a) \in Int
      BY <1>1, <1>2, <2>1, EdgesType
    <3> QED BY <3>1, <3>2 DEF Overlap
  <2>3. Struck(d, b, a).box = r.box
    BY <1>5 DEF Struck, Resolutions
  <2>4. PushedOut(Struck(d, b, a), b, a) = Struck(d, b, a)
    BY <2>2, <2>3 DEF PushedOut
  <2>5. MoveTo(d, 0) = d
    <3> DEFINE moved == Parts(Times(d.sweep, 0), Whole(d.sweep))
    <3>1. moved = Zero
      <4>1. Whole(r.sweep) \in Nat \ {0} /\ \A n \in Nat \ {0} : 0 \div n = 0
        BY <1>2, WholeType, SMT
      <4>2. Times(r.sweep, 0) = Zero
        BY <1>2 DEF Vectors, Times, Zero
      <4> QED BY <1>5, <4>1, <4>2 DEF Parts, Zero
    <3>2. Plus(d.box.at, Zero) = d.box.at /\ Plus(d.sweep, Times(Zero, -1)) = d.sweep
      BY <1>5 DEF Resolutions, Places, Vectors, Plus, Times, Zero
    <3>3. MoveTo(d, 0) = [d EXCEPT !.box.at = Plus(d.box.at, moved),
                                   !.sweep = Plus(d.sweep, Times(moved, -1))]
      BY DEF MoveTo
    <3>4. MoveTo(d, 0) = [d EXCEPT !.box.at = d.box.at, !.sweep = d.sweep]
      BY <3>1, <3>2, <3>3
    <3>5. \A r0 \in Resolutions :
            [r0 EXCEPT !.box.at = r0.box.at, !.sweep = r0.sweep] = r0
      BY DEF Resolutions, Places
    <3> QED BY <1>5, <3>4, <3>5
  <2> QED BY <1>3, <1>4, <1>6, <1>8, <2>4, <2>5
<1> QED BY <1>3, <1>4, <1>7, <1>8

-----------------------------------------------------------------------------
(***************************************************************************)
(* A body that is a little too low for a one-way platform is pushed up, to *)
(* the bias above the top.                                                 *)
(***************************************************************************)
IsPushedUp(r, s, b) ==
    /\ s \in Resolutions
    /\ s.box.size = r.box.size
    /\ s.box.at.x = r.box.at.x
    /\ s.box.at.y = Low(b, "y") - r.box.size.y - Bias * r.scale
    /\ s.sweep = [r.sweep EXCEPT !.y = 0]
    /\ s.velocity = [r.velocity EXCEPT !.y = 0]
    /\ s.ground = b.id

LEMMA PushedUp ==
    ASSUME NEW boxes, NEW k \in Nat \ {0}, Fitting(boxes, k),
           NEW r, Clear(r, boxes, k), ~r.done,
           NEW b \in Hits(r, Met(r, boxes)), Meets(r.box, b)
    PROVE LET d == Drop(r, Met(r, boxes)) IN
          /\ IsPushedUp(r, Hit(d, b), b)
          /\ Hit(d, b).ignored = d.ignored /\ Hit(d, b).stood = d.stood
          /\ Hit(d, b).trying = d.trying /\ Hit(d, b).scale = d.scale
<1> DEFINE d == Drop(r, Met(r, boxes))
           c == Struck(d, b, "y")
           s == Hit(d, b)
<1>1. /\ b \in boxes /\ BoxOK(b) /\ Upright(b)
      /\ b.kind = "platform" /\ CanLand(r, b) /\ Roomy(r.box.size, boxes, k)
  BY HitsAhead
<1>2. /\ r.box \in [at : Vectors, size : Vectors] /\ Upright(r.box) /\ r.sweep \in Vectors
      /\ r \in Resolutions /\ r.scale = k /\ "y" \in Axes /\ "x" \in Axes
  BY ClearUpright DEF Clear, Axes
<1>3. d \in Resolutions /\ d.box = r.box /\ d.sweep = r.sweep /\ d.velocity = r.velocity
      /\ d.scale = r.scale
  BY DropKeeps
<1>4. /\ HitAxis(r.box, r.sweep, b) = "y" /\ r.velocity.y >= 0
      /\ High(r.box, "y") <= Low(b, "y") + Tolerance * k
  BY <1>1, <1>2 DEF CanLand
<1>5. /\ Low(r.box, "y") \in Int /\ High(r.box, "y") \in Int
      /\ Low(b, "y") \in Int /\ High(b, "y") \in Int
      /\ Low(b, "y") < High(r.box, "y") /\ Low(r.box, "y") < High(b, "y")
      /\ Low(r.box, "y") = r.box.at.y
      /\ High(r.box, "y") = r.box.at.y + r.box.size.y
      /\ High(b, "y") = Low(b, "y") + b.size.y
      /\ r.box.at.y \in Int /\ r.box.size.y \in Int /\ b.size.y \in Int /\ b.size.y >= 0
  BY <1>1, <1>2, MeetsUpright, EdgesType, VectorAt DEF Low, High, Upright
<1>6. ~(HitTime(r.box, r.sweep, b) > 0)
  <2>1. CASE Moving(r.sweep) = {}
    BY <2>1 DEF HitTime
  <2>2. CASE Moving(r.sweep) # {}
    <3>1. "y" \in Moving(r.sweep)
      BY <1>4, <2>2 DEF HitAxis, HitsSide, Moving, Axes
    <3>2. r.sweep.y > 0
      <4>1. r.sweep["y"] \in Int /\ r.sweep["y"] # 0
        BY <1>2, <3>1, VectorAt DEF Moving
      <4>2. r.velocity["y"] \in Int
        BY <1>2, VectorAt DEF Resolutions
      <4> QED BY <1>4, <4>1, <4>2 DEF Clear
    <3>3. Gap(r.box, r.sweep, b, "y") < 0 /\ Gap(r.box, r.sweep, b, "y") \in Int
      BY <1>5, <3>2 DEF Gap
    <3>4. Length(r.sweep["x"]) \in Nat \ {0}
      BY <1>2, VectorAt, LengthFacts
    <3>5. Entry(r.box, r.sweep, b, "y") = Length(r.sweep["x"]) * Gap(r.box, r.sweep, b, "y")
      BY <1>1, <1>2, GapType DEF Other
    <3>6. Length(r.sweep["x"]) * Gap(r.box, r.sweep, b, "y") < Length(r.sweep["x"]) * 0
      BY <3>3, <3>4, ProductOrder
    <3>7. Length(r.sweep["x"]) * 0 = 0
      BY <3>4
    <3>8. HitTime(r.box, r.sweep, b) < 0
      BY <1>4, <2>2, <3>5, <3>6, <3>7 DEF HitTime
    <3>9. HitTime(r.box, r.sweep, b) \in Int
      BY <1>1, <1>2, HitTimeType
    <3> QED BY <3>8, <3>9
  <2> QED BY <2>1, <2>2
<1>7. s = PushedOut(c, b, "y")
  BY <1>3, <1>4, <1>6 DEF Hit
<1>8. /\ c \in Resolutions /\ c.box = r.box
      /\ c.sweep = [r.sweep EXCEPT !.y = 0] /\ c.velocity = [r.velocity EXCEPT !.y = 0]
      /\ c.ground = b.id /\ c.ignored = d.ignored /\ c.stood = d.stood
      /\ c.trying = d.trying /\ c.scale = d.scale
  <2>1. c \in Resolutions
    BY <1>1, <1>2, <1>3, StruckFollows DEF Follows, BoxOK
  <2>2. d.velocity.y >= 0
    BY <1>3, <1>4
  <2> QED BY <1>3, <2>1, <2>2 DEF Struck, Resolutions
<1> DEFINE overlap == High(r.box, "y") - Low(b, "y")
<1>9. Tolerance * k \in Nat /\ Bias * k \in Nat /\ 2 * (Tolerance * k) < r.box.size.y
  <2>1. Tolerance * k \in Nat /\ Bias * k \in Nat
    BY CollisionAssumption
  <2> QED BY <1>1, <2>1 DEF Roomy
<1>10. /\ Overlap(r.box, b, "y") = overlap /\ overlap > 0
       /\ 2 * Low(r.box, "y") + r.box.size["y"] < 2 * Low(b, "y") + b.size["y"]
  <2>1. Low(r.box, "y") < Low(b, "y")
    BY <1>4, <1>5, <1>9
  <2> QED BY <1>4, <1>5, <1>9, <2>1 DEF Overlap
<1>11. s = [c EXCEPT !.box.at["y"] = @ + (-1) * (overlap + Bias * k)]
  <2> HIDE DEF c, overlap
  <2> QED BY <1>2, <1>3, <1>7, <1>8, <1>10 DEF PushedOut
<1>12. /\ s \in Resolutions
       /\ s.box.size = r.box.size /\ s.box.at.x = r.box.at.x
       /\ s.box.at.y = r.box.at.y + (-1) * (overlap + Bias * k)
       /\ s.sweep = c.sweep /\ s.velocity = c.velocity /\ s.ground = c.ground
       /\ s.ignored = c.ignored /\ s.stood = c.stood
       /\ s.trying = c.trying /\ s.scale = c.scale
  <2>1. s \in Resolutions
    BY <1>1, <1>2, <1>7, <1>8, PushedOutFollows DEF Follows
  <2> HIDE DEF c, s
  <2> QED BY <1>8, <1>11, <2>1 DEF Resolutions, Places, Vectors
<1>13. s.box.at.y = Low(b, "y") - r.box.size.y - Bias * r.scale
  BY <1>2, <1>5, <1>9, <1>12
<1> HIDE DEF s, c
<1> QED BY <1>8, <1>12, <1>13 DEF IsPushedUp, s

\* There he intersects no obstacle either: it would be a low ceiling.
LEMMA RoomAbove ==
    ASSUME NEW boxes, NEW k \in Nat \ {0}, Fitting(boxes, k),
           NEW r, Clear(r, boxes, k), ~r.done,
           NEW b \in Hits(r, Met(r, boxes)), Meets(r.box, b),
           NEW s, IsPushedUp(r, s, b), NEW c \in boxes, Obstacle(c)
    PROVE ~Meets(s.box, c)
<1>1. /\ b \in boxes /\ Upright(b) /\ Upright(c)
      /\ b.kind = "platform" /\ CanLand(r, b) /\ Roomy(r.box.size, boxes, k)
      /\ ~Meets(r.box, c)
  BY HitsAhead DEF Fitting, Clear, ClearAhead
<1>2. /\ Upright(r.box) /\ r \in Resolutions /\ r.scale = k /\ Upright(s.box)
      /\ "x" \in Axes /\ "y" \in Axes
  BY ClearUpright DEF Clear, Axes, IsPushedUp, Resolutions, Places, Upright, Placed
<1>3. \A e \in {b, c, r.box, s.box}, a \in Axes : Low(e, a) \in Int /\ High(e, a) \in Int
  BY <1>1, <1>2, EdgesType
<1>4. /\ High(r.box, "x") = Low(r.box, "x") + r.box.size.x
      /\ High(r.box, "y") = Low(r.box, "y") + r.box.size.y
      /\ r.box.size.x \in Int /\ r.box.size.y \in Int
      /\ Low(s.box, "x") = Low(r.box, "x") /\ High(s.box, "x") = High(r.box, "x")
      /\ High(s.box, "y") = Low(s.box, "y") + r.box.size.y
      /\ Low(s.box, "y") = Low(b, "y") - r.box.size.y - Bias * k
  BY <1>2, VectorAt DEF Low, High, IsPushedUp, Resolutions, Places
<1>5. Tolerance * k \in Nat /\ Bias * k \in Nat
  BY CollisionAssumption
<1>6. High(r.box, "y") <= Low(b, "y") + Tolerance * k
  BY <1>1, <1>2 DEF CanLand
<1>7. /\ Low(r.box, "x") < High(b, "x") /\ Low(b, "x") < High(r.box, "x")
      /\ Low(r.box, "y") < High(b, "y") /\ Low(b, "y") < High(r.box, "y")
  BY <1>1, <1>2, MeetsUpright
<1> SUFFICES ASSUME Meets(s.box, c) PROVE FALSE
  OBVIOUS
<1>8. /\ Low(s.box, "x") < High(c, "x") /\ Low(c, "x") < High(s.box, "x")
      /\ Low(s.box, "y") < High(c, "y") /\ Low(c, "y") < High(s.box, "y")
  BY <1>1, <1>2, MeetsUpright
<1>9. IsNear(b, c, r.box.size)
  BY <1>3, <1>4, <1>7, <1>8 DEF IsNear, Axes
<1>10. \/ High(c, "y") <= Low(b, "y") - Bias * k - r.box.size.y
       \/ High(c, "y") > Low(b, "y") + Tolerance * k - r.box.size.y
  BY <1>1, <1>9 DEF Roomy
<1>11. Low(r.box, "y") < High(c, "y") /\ Low(c, "y") < High(r.box, "y")
  BY <1>3, <1>4, <1>5, <1>6, <1>7, <1>8, <1>10 DEF Axes
<1>12. Meets(r.box, c)
  BY <1>1, <1>2, <1>4, <1>8, <1>11, MeetsUpright DEF Axes
<1> QED BY <1>1, <1>12

-----------------------------------------------------------------------------
(***************************************************************************)
(* One iteration, and the five of them.                                    *)
(***************************************************************************)
\* An iteration goes the way of the sweep, and no farther.
Onward(r, s) ==
    /\ r.sweep.x >= 0 =>
        /\ s.sweep.x >= 0
        /\ r.box.at.x <= s.box.at.x
        /\ s.box.at.x + s.sweep.x <= r.box.at.x + r.sweep.x
    /\ r.sweep.x <= 0 =>
        /\ s.sweep.x <= 0
        /\ s.box.at.x <= r.box.at.x
        /\ r.box.at.x + r.sweep.x <= s.box.at.x + s.sweep.x

\* What an iteration of a clear resolution does: it stays clear, goes onward, does not go
\* down when that movement has ended, and what it was above it is above or past.
Continues(r, s, boxes, k) ==
    /\ Clear(s, boxes, k)
    /\ s.box.size = r.box.size
    /\ Onward(r, s)
    /\ r.sweep.y <= 0 => High(s.box, "y") <= High(r.box, "y") /\ s.sweep.y <= 0
    /\ \A b \in boxes :
        b.kind \notin Passable /\ b.id # s.ignored /\ AboveOrPast(r, b) => AboveOrPast(s, b)
    /\ s.ignored # r.ignored => r.ignored = NoBody /\ r.trying /\ s.ignored = r.stood
    /\ s.stood \in {r.stood, NoBody}
    /\ s.trying = r.trying
    /\ s.scale = r.scale

LEMMA ContinuesOn ==
    ASSUME NEW boxes, NEW k, Fitting(boxes, k), NEW r, NEW s, NEW u, Clear(r, boxes, k),
           Continues(r, s, boxes, k), Continues(s, u, boxes, k)
    PROVE Continues(r, u, boxes, k)
<1>1. u.ignored # r.ignored => r.ignored = NoBody /\ r.trying /\ u.ignored = r.stood
  BY DEF Continues
<1>2. ASSUME NEW b \in boxes, b.kind \notin Passable, b.id # u.ignored, AboveOrPast(r, b)
      PROVE AboveOrPast(u, b)
  <2>1. b.id # NoBody
    BY NoBodyIsNone DEF Fitting, BoxesOK, BoxOK
  <2>2. b.id # s.ignored
    BY <1>2, <2>1 DEF Continues
  <2> QED BY <1>2, <2>2 DEF Continues
<1>3. r.sweep.y <= 0 => High(u.box, "y") <= High(r.box, "y") /\ u.sweep.y <= 0
  <2>1. Clear(s, boxes, k) /\ Clear(u, boxes, k) /\ "y" \in Axes
    BY DEF Continues, Axes
  <2>2. High(s.box, "y") \in Int /\ High(u.box, "y") \in Int
    BY <2>1, ClearUpright, EdgesType
  <2>3. High(r.box, "y") \in Int
    BY <2>1, ClearUpright, EdgesType
  <2> QED BY <2>2, <2>3 DEF Continues
<1>4. Onward(r, u)
  <2>1. Clear(s, boxes, k) /\ Clear(u, boxes, k)
    BY DEF Continues
  <2>2. /\ r.box.at.x \in Int /\ s.box.at.x \in Int /\ u.box.at.x \in Int
        /\ r.sweep.x \in Int /\ s.sweep.x \in Int /\ u.sweep.x \in Int
    BY <2>1, ClearUpright DEF Vectors
  <2>3. Onward(r, s) /\ Onward(s, u)
    BY DEF Continues
  <2> QED BY <2>2, <2>3 DEF Onward
<1> QED BY <1>1, <1>2, <1>3, <1>4 DEF Continues

LEMMA ClearPushed ==
    ASSUME NEW boxes, NEW k \in Nat \ {0}, Fitting(boxes, k),
           NEW r, Clear(r, boxes, k), ~r.done,
           NEW b \in Hits(r, Met(r, boxes)), Meets(r.box, b)
    PROVE Continues(r, Hit(Drop(r, Met(r, boxes)), b), boxes, k)
<1> DEFINE d == Drop(r, Met(r, boxes))
           s == Hit(d, b)
<1>1. /\ b \in boxes /\ BoxOK(b) /\ Upright(b) /\ Roomy(r.box.size, boxes, k)
  BY HitsAhead
<1>2. /\ IsPushedUp(r, s, b)
      /\ s.ignored = d.ignored /\ s.stood = d.stood /\ s.trying = d.trying
      /\ s.scale = d.scale
  BY PushedUp
<1>3. /\ DropsOnce(d, boxes) /\ d.trying = r.trying /\ d.scale = r.scale
      /\ r.ignored # NoBody => d.ignored = r.ignored
      /\ d.ignored # r.ignored => r.trying /\ d.ignored = r.stood
      /\ d.stood = r.stood \/ d.stood = NoBody
  BY DropKeeps
<1>4. /\ Upright(r.box) /\ r \in Resolutions /\ r.scale = k
      /\ r.box \in [at : Vectors, size : Vectors] /\ r.sweep \in Vectors
      /\ r.velocity \in Vectors
  BY ClearUpright DEF Clear, Resolutions
<1> HIDE DEF d, s
<1>5. /\ s \in Resolutions /\ s.box.size = r.box.size
      /\ s.sweep.x = r.sweep.x /\ s.sweep.y = 0 /\ s.velocity.y = 0 /\ s.ground = b.id
      /\ Low(s.box, "x") = Low(r.box, "x") /\ High(s.box, "x") = High(r.box, "x")
      /\ High(s.box, "y") = Low(b, "y") - Bias * k
      /\ s.box.at.y = Low(b, "y") - r.box.size.y - Bias * k
      /\ Bias * k \in Nat
  BY <1>1, <1>2, <1>4, EdgesType, CollisionAssumption
     DEF IsPushedUp, Low, High, Resolutions, Places, Vectors, BoxOK
<1>6. High(s.box, "y") <= Low(b, "y") /\ Low(b, "y") < High(r.box, "y")
      /\ Low(b, "y") \in Int /\ High(r.box, "y") \in Int
  BY <1>1, <1>4, <1>5, EdgesType, MeetsUpright DEF Axes
<1>7. ClearAhead(s, boxes)
  BY <1>1, <1>2, <1>3, <1>4, <1>5, RoomAbove DEF ClearAhead
<1>8. DropsOnce(s, boxes)
  BY <1>2, <1>3 DEF DropsOnce
<1>9. OnTop(s, boxes)
  BY <1>1, <1>5, <1>6 DEF OnTop, Fitting
<1>10. Exact(s, k)
  <2>1. \A a \in Axes : Multiple(s.box.size[a], k)
    BY <1>5 DEF Clear, Exact
  <2>2. Multiple(s.box.at.x + s.sweep.x, k)
    <3>1. Multiple(r.box.at["x"] + r.sweep["x"], k)
      BY DEF Clear, Exact, Axes
    <3> QED BY <1>5, <3>1 DEF Low
  <2>3. Multiple(s.box.at.y + s.sweep.y, k)
    <3>1. Multiple(b.at["y"], k) /\ Multiple(r.box.size["y"], k)
      BY <1>1 DEF Fitting, AlignedTo, Clear, Exact, Axes
    <3>2. Multiple(Bias * k, k)
      <4>1. Bias * k = k * Bias /\ Bias \in Int
        BY CollisionAssumption
      <4> QED BY <4>1 DEF Multiple
    <3>3. b.at["y"] \in Int /\ r.box.size["y"] \in Int /\ Bias * k \in Int
      BY <1>1, <1>4, <1>5, VectorAt DEF BoxOK, Axes
    <3>4. Multiple(b.at["y"] - r.box.size["y"], k) /\ b.at["y"] - r.box.size["y"] \in Int
      BY <3>1, <3>3, MultipleSums
    <3>5. Multiple(b.at["y"] - r.box.size["y"] - Bias * k, k)
      BY <3>2, <3>3, <3>4, MultipleSums
    <3> QED BY <1>5, <3>3, <3>5 DEF Low
  <2> QED BY <1>5, <2>1, <2>2, <2>3 DEF Exact, Axes
<1>11. Clear(s, boxes, k)
  BY <1>2, <1>3, <1>4, <1>5, <1>7, <1>8, <1>9, <1>10 DEF Clear
<1>12. ASSUME NEW c \in boxes, AboveOrPast(r, c) PROVE AboveOrPast(s, c)
  <2>1. Low(c, "y") \in Int
    BY EdgesType DEF Fitting, Axes
  <2> QED BY <1>5, <1>6, <1>12, <2>1 DEF AboveOrPast, IsAbove, IsPast, IsOver
<1>13. Onward(r, s)
  <2>1. s.box.at.x = r.box.at.x
    BY <1>2, <1>4 DEF IsPushedUp
  <2>2. r.box.at.x \in Int /\ r.sweep.x \in Int
    BY <1>4 DEF Vectors
  <2> QED BY <1>5, <2>1, <2>2 DEF Onward
<1>14. High(s.box, "y") <= High(r.box, "y") /\ s.sweep.y <= 0
  BY <1>5, <1>6
<1> QED BY <1>2, <1>3, <1>5, <1>11, <1>12, <1>13, <1>14 DEF Continues, s, d

LEMMA ClearMoved ==
    ASSUME NEW boxes, NEW k, Fitting(boxes, k), NEW r, Clear(r, boxes, k), ~r.done,
           NEW m \in Vectors, NEW n \in Nat \ {0}, NEW t \in 0 .. n,
           Partway(r.sweep, m, t, n), EndsBeforeHits(r, boxes, t, n),
           NEW s \in Resolutions, s.box = After(r.box, m),
           \A a \in Axes : s.sweep[a] \in {0, r.sweep[a] - m[a]},
           LET d == Drop(r, Met(r, boxes)) IN
               /\ s.ignored = d.ignored /\ s.stood = d.stood /\ s.trying = d.trying
               /\ s.scale = d.scale
               /\ s.velocity.y = d.velocity.y \/ (s.velocity.y = 0 /\ s.sweep.y = 0),
           OnTop(s, boxes), Exact(s, k)
    PROVE Continues(r, s, boxes, k)
<1> DEFINE d == Drop(r, Met(r, boxes))
<1>1. /\ r.box \in [at : Vectors, size : Vectors] /\ Upright(r.box) /\ r.sweep \in Vectors
      /\ "x" \in Axes /\ "y" \in Axes /\ s.sweep \in Vectors
  BY ClearUpright DEF Axes, Resolutions
<1>2. ClearAhead(s, boxes)
  BY <1>1, AheadAfter, DropKeeps
<1>3. /\ DropsOnce(d, boxes) /\ d.velocity = r.velocity
      /\ d.trying = r.trying /\ d.scale = r.scale
      /\ r.ignored # NoBody => d.ignored = r.ignored
      /\ d.ignored # r.ignored => r.trying /\ d.ignored = r.stood
      /\ d.stood = r.stood \/ d.stood = NoBody
  BY DropKeeps
<1>4. DropsOnce(s, boxes)
  BY <1>3 DEF DropsOnce
<1>5. \A a \in Axes : /\ r.sweep[a] >= 0 => 0 <= m[a] /\ m[a] <= r.sweep[a]
                      /\ r.sweep[a] <= 0 => r.sweep[a] <= m[a] /\ m[a] <= 0
                      /\ r.sweep[a] \in Int /\ m[a] \in Int
  BY <1>1, PartwayBetween, VectorAt
<1>6. s.sweep.y > 0 => s.velocity.y >= 0
  <2>1. s.sweep["y"] > 0 => r.sweep["y"] > 0
    BY <1>1, <1>5
  <2> QED BY <1>3, <2>1 DEF Clear
<1>7. s.sweep.y < 0 => s.velocity.y < 0
  <2>1. s.sweep["y"] < 0 => r.sweep["y"] < 0
    BY <1>1, <1>5
  <2> QED BY <1>3, <2>1 DEF Clear
<1>8. s.box.size = r.box.size
  BY DEF After
<1>9. Clear(s, boxes, k)
  BY <1>2, <1>3, <1>4, <1>6, <1>7, <1>8 DEF Clear
<1>10. Onward(r, s)
  <2>1. /\ r.sweep.x >= 0 => 0 <= m.x /\ m.x <= r.sweep.x
        /\ r.sweep.x <= 0 => r.sweep.x <= m.x /\ m.x <= 0
        /\ r.sweep.x \in Int /\ m.x \in Int /\ s.sweep.x \in {0, r.sweep.x - m.x}
    BY <1>1, <1>5
  <2>2. s.box.at.x = r.box.at.x + m.x /\ r.box.at.x \in Int
    BY <1>1 DEF After, Plus, Vectors
  <2> QED BY <2>1, <2>2 DEF Onward
<1>11. r.sweep.y <= 0 => High(s.box, "y") <= High(r.box, "y") /\ s.sweep.y <= 0
  <2>1. r.sweep.y <= 0 => m.y <= 0 /\ r.sweep.y <= m.y /\ s.sweep.y \in {0, r.sweep.y - m.y}
    BY <1>1, <1>5
  <2>2. /\ High(s.box, "y") = High(r.box, "y") + m.y /\ High(r.box, "y") \in Int
        /\ m.y \in Int /\ r.sweep.y \in Int
    BY <1>1, <1>5, AfterEdges, EdgesType
  <2> QED BY <2>1, <2>2
<1>12. ASSUME NEW b \in boxes, b.kind \notin Passable, b.id # s.ignored, AboveOrPast(r, b)
       PROVE AboveOrPast(s, b)
  <2>1. s.sweep.x \in {0, r.sweep.x - m.x}
    BY <1>1
  <2> QED BY <1>12, <2>1, StaysAboveOrPast
<1> QED BY <1>3, <1>8, <1>9, <1>10, <1>11, <1>12 DEF Continues

LEMMA ClearIterate ==
    ASSUME NEW boxes, NEW k \in Nat \ {0}, Fitting(boxes, k), NEW r, Clear(r, boxes, k)
    PROVE Continues(r, Iterate(r, boxes), boxes, k)
<1> DEFINE met == Met(r, boxes)
           hits == Hits(r, met)
           d == Drop(r, met)
           s == Iterate(r, boxes)
<1> SUFFICES Continues(r, s, boxes, k)
  OBVIOUS
<1>0. s = IF r.done THEN r ELSE IF hits = {} THEN MoveFreely(d)
          ELSE Hit(d, Nearest(r, hits))
  BY DEF Iterate
<1> HIDE DEF s
<1>1. /\ r.box \in [at : Vectors, size : Vectors] /\ Upright(r.box) /\ r.sweep \in Vectors
      /\ r \in Resolutions
  BY ClearUpright DEF Clear
<1>2. d \in Resolutions /\ d.box = r.box /\ d.sweep = r.sweep /\ d.velocity = r.velocity
      /\ (d.ground = r.ground \/ d.ground = NoBody)
  BY DropKeeps
<1>3. CASE r.done
  <2>1. High(r.box, "y") \in Int
    BY <1>1, EdgesType DEF Axes
  <2>2. Onward(r, r)
    BY <1>1 DEF Onward, Vectors
  <2> QED BY <1>0, <1>3, <2>1, <2>2 DEF Continues
<1>4. CASE ~r.done /\ hits = {}
  <2>1. s = MoveFreely(d)
    BY <1>0, <1>4
  <2>2. s \in Resolutions
    BY <1>2, <2>1, MoveFreelyFollows DEF Follows
  <2>3. s.box = After(r.box, r.sweep) /\ s.sweep = Zero
    BY <1>2, <2>1 DEF MoveFreely, After, Resolutions, Places
  <2>4. /\ s.ignored = d.ignored /\ s.stood = d.stood /\ s.trying = d.trying
        /\ s.scale = d.scale /\ s.velocity = d.velocity /\ s.ground = d.ground
    BY <1>2, <2>1 DEF MoveFreely, Resolutions
  <2>5. Partway(r.sweep, r.sweep, 1, 1)
    BY <1>1, VectorAt DEF Partway
  <2>6. EndsBeforeHits(r, boxes, 1, 1)
    BY <1>4 DEF EndsBeforeHits
  <2>7. \A a \in Axes : s.sweep[a] = 0
    BY <2>3 DEF Axes, Zero
  <2>8. Exact(s, k)
    <3>1. ASSUME NEW a \in Axes
          PROVE Multiple(s.box.size[a], k) /\ Multiple(s.box.at[a] + s.sweep[a], k)
      <4>1. s.box.size = r.box.size /\ Low(s.box, a) = Low(r.box, a) + r.sweep[a]
        BY <1>1, <2>3, AfterEdges
      <4>2. s.box.at[a] = r.box.at[a] + r.sweep[a] /\ s.box.at[a] \in Int
        BY <1>1, <2>2, <4>1, VectorAt DEF Low, Resolutions, Places
      <4>3. s.box.at[a] + s.sweep[a] = r.box.at[a] + r.sweep[a]
        BY <2>7, <4>2
      <4> QED BY <4>1, <4>3 DEF Clear, Exact
    <3> QED BY <2>7, <3>1 DEF Exact, Axes
  <2>9. OnTop(s, boxes)
    <3>1. High(s.box, "y") = High(r.box, "y") + r.sweep.y /\ High(r.box, "y") \in Int
      BY <1>1, <2>3, AfterEdges, EdgesType DEF Axes
    <3> QED BY <1>2, <2>4, <2>7, <3>1 DEF Clear, OnTop, Axes
  <2>10. 1 \in Nat \ {0} /\ 1 \in 0 .. 1
    OBVIOUS
  <2> QED BY <1>1, <1>4, <2>2, <2>3, <2>4, <2>5, <2>6, <2>7, <2>8, <2>9, <2>10, ClearMoved
<1>5. ASSUME ~r.done, hits # {}
      PROVE Nearest(r, hits) \in hits /\ \A c \in hits : Earlier(r, Nearest(r, hits), c)
  <2>1. hits \subseteq boxes
    BY DEF Hits, Met
  <2>2. IsFiniteSet(hits) /\ \A c \in hits : BoxOK(c)
    BY <2>1, FS_Subset DEF Fitting, BoxesOK
  <2> HIDE DEF hits
  <2> QED BY <1>1, <1>5, <2>2, NearestIsHit
<1>6. CASE ~r.done /\ hits # {} /\ Meets(r.box, Nearest(r, hits))
  <2>1. Nearest(r, hits) \in hits
    BY <1>5, <1>6
  <2>2. s = Hit(d, Nearest(r, hits))
    BY <1>0, <1>6
  <2> HIDE DEF hits
  <2> QED BY <1>6, <2>1, <2>2, ClearPushed DEF hits
<1>7. CASE ~r.done /\ hits # {} /\ ~Meets(r.box, Nearest(r, hits))
  <2> DEFINE b == Nearest(r, hits)
             a == HitAxis(r.box, r.sweep, b)
             t == HitTime(r.box, r.sweep, b)
             m == Moved(r.sweep, t)
             n == Whole(r.sweep)
  <2>1. b \in hits /\ (\A c \in hits : Earlier(r, b, c)) /\ ~Meets(r.box, b)
    BY <1>5, <1>7
  <2> HIDE DEF b
  <2>2. b \in boxes /\ BoxOK(b)
    BY <1>7, <2>1, HitsAhead
  <2>3. s = Hit(d, b)
    BY <1>0, <1>7 DEF b
  <2>4. a \in Moving(r.sweep) /\ t = Entry(r.box, r.sweep, b, a) /\ t \in 0 .. n
        /\ s = Struck(MoveTo(d, t), b, a)
    BY <1>7, <2>1, <2>3, ClearHit
  <2>5. m \in Vectors /\ Partway(r.sweep, m, t, n) /\ Multiple(r.box.at[a] + m[a], k)
    BY <2>2, <2>4, ExactHit
  <2>6. n \in Nat \ {0} /\ t \in Int /\ a \in Axes
    BY <1>1, <2>4, WholeType DEF Moving
  <2> HIDE DEF a, t, m, n
  <2>7. EndsBeforeHits(r, boxes, t, n)
    <3> SUFFICES ASSUME NEW c \in hits
                 PROVE t * n <= n * HitTime(r.box, r.sweep, c)
      BY DEF EndsBeforeHits, n
    <3>1. HitTime(r.box, r.sweep, c) \in Int
      BY <1>1, <1>7, HitsAhead, HitTimeType
    <3>2. t <= HitTime(r.box, r.sweep, c)
      BY <2>1, <2>6, <3>1 DEF Earlier, t
    <3> QED BY <2>6, <3>1, <3>2, ProductOrder
  <2>8. /\ s \in Resolutions /\ s.sweep[a] = 0
        /\ s.velocity.y = d.velocity.y \/ (s.velocity.y = 0 /\ s.sweep.y = 0)
    <3>1. Follows(d, MoveTo(d, t))
      BY <1>2, <2>6, MoveToFollows
    <3>2. Follows(MoveTo(d, t), s) /\ s.sweep[a] = 0
      BY <2>2, <2>4, <2>6, <3>1, StruckFollows DEF Follows, BoxOK
    <3>3. MoveTo(d, t).velocity = d.velocity
      BY <1>2 DEF MoveTo, Resolutions
    <3>4. CASE a = "y"
      BY <3>1, <3>2, <3>3, <3>4 DEF Follows
    <3>5. CASE a = "x"
      <4>1. s.velocity = [MoveTo(d, t).velocity EXCEPT ![a] = 0]
        BY <2>4, <3>1 DEF Struck, Follows, Resolutions
      <4> QED BY <1>2, <3>1, <3>2, <3>3, <3>5, <4>1 DEF Follows, Resolutions, Vectors
    <3> QED BY <2>6, <3>4, <3>5 DEF Axes
  <2>9. /\ s.box = After(r.box, m)
        /\ s.sweep = [Plus(r.sweep, Times(m, -1)) EXCEPT ![a] = 0]
        /\ s.ignored = d.ignored /\ s.stood = d.stood /\ s.trying = d.trying
        /\ s.scale = d.scale
    <3>1. MoveTo(d, t) = [d EXCEPT !.box.at = Plus(d.box.at, m),
                                   !.sweep = Plus(d.sweep, Times(m, -1))]
      BY <1>2 DEF MoveTo, m, Moved
    <3> QED BY <1>2, <2>4, <3>1 DEF Struck, After, Resolutions, Places
  <2>10. \A c \in Axes : s.sweep[c] = IF c = a THEN 0 ELSE r.sweep[c] - m[c]
    <3>1. Plus(r.sweep, Times(m, -1)) \in Vectors
          /\ \A c \in Axes : Plus(r.sweep, Times(m, -1))[c] = r.sweep[c] - m[c]
      <4>1. Times(m, -1) \in Vectors
        BY <2>5, TimesType
      <4>2. ASSUME NEW c \in Axes
            PROVE Plus(r.sweep, Times(m, -1))[c] = r.sweep[c] - m[c]
        <5>1. Plus(r.sweep, Times(m, -1))[c] = r.sweep[c] + m[c] * (-1)
          BY <1>1, <2>5, <4>1, VectorSums
        <5> QED BY <1>1, <2>5, <5>1, VectorAt
      <4> QED BY <1>1, <4>1, <4>2, PlusType
    <3> QED BY <2>6, <2>9, <3>1, UpdatedAxis
  <2>11. Exact(s, k)
    <3>1. ASSUME NEW c \in Axes
          PROVE Multiple(s.box.size[c], k) /\ Multiple(s.box.at[c] + s.sweep[c], k)
      <4>1. s.box.size = r.box.size /\ Low(s.box, c) = Low(r.box, c) + m[c]
        BY <1>1, <2>5, <2>9, AfterEdges
      <4>2. /\ s.box.at[c] = r.box.at[c] + m[c]
            /\ r.box.at[c] \in Int /\ m[c] \in Int /\ r.sweep[c] \in Int
        BY <1>1, <2>5, <4>1, VectorAt DEF Low
      <4>3. CASE c = a
        <5>1. s.box.at[c] + s.sweep[c] = r.box.at[a] + m[a]
          BY <2>10, <4>2, <4>3
        <5> QED BY <2>5, <4>1, <5>1 DEF Clear, Exact
      <4>4. CASE c # a
        <5>1. s.box.at[c] + s.sweep[c] = r.box.at[c] + r.sweep[c]
          BY <2>10, <4>2, <4>4
        <5> QED BY <4>1, <5>1 DEF Clear, Exact
      <4> QED BY <4>3, <4>4
    <3> QED BY <2>6, <2>8, <3>1 DEF Exact
  <2>12. t \in 0 .. n /\ \A c \in Axes : s.sweep[c] \in {0, r.sweep[c] - m[c]}
    BY <2>4, <2>10 DEF t, n
  <2>13. Partway(r.sweep, m, t, n)
    BY <2>5 DEF t, m, n
  <2>14. m \in Vectors
    BY <2>5
  <2>15. OnTop(s, boxes)
    <3>1. /\ High(s.box, "y") = High(r.box, "y") + m.y
          /\ High(r.box, "y") \in Int /\ m.y \in Int /\ r.sweep.y \in Int
          /\ Low(b, "y") \in Int /\ r.velocity.y \in Int
      BY <1>1, <2>2, <2>5, <2>9, AfterEdges, EdgesType DEF Axes, Fitting, Vectors, Resolutions
    <3>2. /\ s.velocity = [r.velocity EXCEPT ![a] = 0]
          /\ s.ground = IF a = "y" /\ r.velocity.y >= 0 THEN b.id
                        ELSE IF a = "y" /\ d.ground = b.id THEN NoBody ELSE d.ground
      <4>1. MoveTo(d, t) \in Resolutions
        BY <1>2, <2>6, MoveToFollows DEF Follows
      <4>2. MoveTo(d, t).velocity = r.velocity /\ MoveTo(d, t).ground = d.ground
        BY <1>2 DEF MoveTo, Resolutions
      <4> QED BY <2>4, <3>1, <4>1, <4>2 DEF Struck, Resolutions
    <3>3. CASE a = "y" /\ r.velocity.y >= 0
      <4>1. r.sweep.y > 0
        BY <2>4, <3>1, <3>3 DEF Clear, Moving
      <4>2. m.y = Low(b, "y") - High(r.box, "y")
        BY <1>1, <2>2, <2>4, <2>5, <3>3, <4>1, StopsAtBox DEF Gap, t, m, n, Fitting
      <4>3. High(s.box, "y") = Low(b, "y")
        BY <3>1, <4>2
      <4>4. s.velocity.y = 0 /\ s.ground = b.id
        BY <1>1, <3>2, <3>3 DEF Resolutions, Vectors
      <4>5. s.sweep.y = 0
        BY <2>8, <3>3
      <4>6. \A c \in boxes : c.id = b.id => c = b
        BY <2>2 DEF Fitting
      <4> QED BY <3>1, <4>3, <4>4, <4>5, <4>6 DEF OnTop
    <3>4. CASE a = "y" /\ ~(r.velocity.y >= 0)
      BY <1>2, <3>1, <3>2, <3>4 DEF Clear, OnTop
    <3>5. CASE a = "x"
      <4>1. s.ground # NoBody => r.ground # NoBody /\ s.ground = r.ground
        BY <1>2, <3>2, <3>5
      <4>2. s.velocity.y = r.velocity.y /\ s.sweep.y = r.sweep.y - m.y
        BY <1>1, <2>10, <3>2, <3>5 DEF Resolutions, Vectors, Axes
      <4>3. r.sweep.y = 0 => m.y = 0
        <5>1. "y" \in Axes
          BY DEF Axes
        <5>2. /\ r.sweep["y"] >= 0 => 0 <= m["y"] /\ m["y"] <= r.sweep["y"]
              /\ r.sweep["y"] <= 0 => r.sweep["y"] <= m["y"] /\ m["y"] <= 0
          BY <1>1, <2>6, <2>12, <2>13, <2>14, <5>1, PartwayBetween
        <5> QED BY <3>1, <5>2
      <4> QED BY <3>1, <4>1, <4>2, <4>3 DEF Clear, OnTop
    <3> QED BY <2>6, <3>3, <3>4, <3>5 DEF Axes
  <2> QED BY <1>7, <2>6, <2>7, <2>8, <2>9, <2>11, <2>12, <2>13, <2>14, <2>15, ClearMoved
<1> QED BY <1>3, <1>4, <1>6, <1>7

LEMMA ClearIterated ==
    ASSUME NEW boxes, NEW k \in Nat \ {0}, Fitting(boxes, k), NEW r, Clear(r, boxes, k)
    PROVE Continues(r, Iterated(r, boxes), boxes, k)
<1> DEFINE r1 == Iterate(r, boxes)
           r2 == Iterate(r1, boxes)
           r3 == Iterate(r2, boxes)
           r4 == Iterate(r3, boxes)
           r5 == Iterate(r4, boxes)
<1>1. ASSUME NEW s, Continues(r, s, boxes, k)
      PROVE Continues(r, Iterate(s, boxes), boxes, k)
  <2>1. Continues(s, Iterate(s, boxes), boxes, k)
    BY <1>1, ClearIterate DEF Continues
  <2> QED BY <1>1, <2>1, ContinuesOn
<1>2. Continues(r, r1, boxes, k)
  BY ClearIterate
<1>3. Continues(r, r3, boxes, k)
  <2> HIDE DEF r1
  <2> QED BY <1>1, <1>2
<1>4. Continues(r, r5, boxes, k)
  <2> HIDE DEF r3
  <2> QED BY <1>1, <1>3
<1> QED BY <1>4 DEF Iterated

-----------------------------------------------------------------------------
(***************************************************************************)
(* The same at the lengths of the level.                                   *)
(***************************************************************************)
AtScale(B, b, k) ==
    \A a \in Axes : Low(B, a) = k * Low(b, a) /\ High(B, a) = k * High(b, a)

LEMMA ScaleKeeps ==
    ASSUME NEW k \in Nat \ {0}, NEW B, Upright(B), NEW b, Upright(b), AtScale(B, b, k),
           NEW C, Upright(C), NEW c, Upright(c), AtScale(C, c, k)
    PROVE /\ Meets(B, C) <=> Meets(b, c)
          /\ IsOver(B, C) <=> IsOver(b, c)
          /\ IsAbove(B, C) <=> IsAbove(b, c)
<1>1. ASSUME NEW a \in Axes
      PROVE /\ Low(B, a) < High(C, a) <=> Low(b, a) < High(c, a)
            /\ Low(C, a) < High(B, a) <=> Low(c, a) < High(b, a)
            /\ High(B, a) <= Low(C, a) <=> High(b, a) <= Low(c, a)
  <2>1. /\ Low(b, a) \in Int /\ High(b, a) \in Int
        /\ Low(c, a) \in Int /\ High(c, a) \in Int
    BY EdgesType
  <2> QED BY <2>1, ProductOrder DEF AtScale
<1>2. "x" \in Axes /\ "y" \in Axes
  BY DEF Axes
<1>3. Meets(B, C) <=> Meets(b, c)
  BY <1>1, MeetsUpright
<1> QED BY <1>1, <1>2, <1>3 DEF IsOver, IsAbove

LEMMA BoxAtScale ==
    ASSUME NEW k \in Nat \ {0}, NEW at \in Vectors, NEW size \in Vectors,
           \A a \in Axes : size[a] >= 0,
           NEW b, b.at = at, b.size = size,
           NEW B, B.at = Times(at, k), B.size = Times(size, k)
    PROVE Upright(b) /\ Upright(B) /\ AtScale(B, b, k) /\ AlignedTo(B, k)
<1>1. /\ Times(at, k) \in Vectors /\ Times(size, k) \in Vectors
      /\ \A a \in Axes : /\ at[a] \in Int /\ size[a] \in Int
                         /\ Times(at, k)[a] = k * at[a] /\ Times(size, k)[a] = k * size[a]
  <2>1. ASSUME NEW v \in Vectors, NEW a \in Axes
        PROVE v[a] \in Int /\ Times(v, k)[a] = k * v[a]
    <3>1. v[a] \in Int /\ Times(v, k)[a] = v[a] * k
      BY VectorAt, VectorSums
    <3> QED BY <3>1
  <2> QED BY <2>1, TimesType
<1>2. Upright(b)
  BY DEF Upright, Placed
<1>3. \A a \in Axes : Times(size, k)[a] >= 0
  BY <1>1, ProductOrder
<1>4. Upright(B)
  BY <1>1, <1>3 DEF Upright, Placed
<1>5. \A a \in Axes : k * (at[a] + size[a]) = k * at[a] + k * size[a]
  BY <1>1
<1>6. AtScale(B, b, k)
  BY <1>1, <1>5 DEF AtScale, Low, High
<1>7. AlignedTo(B, k)
  BY <1>1 DEF AlignedTo, Multiple
<1> QED BY <1>2, <1>4, <1>6, <1>7

\* Boxes that may be resolved against: as many as the level has bodies, none upturned.
UprightBoxes(boxes) ==
    /\ BoxesOK(boxes)
    /\ \A b \in boxes :
        Upright(b) /\ b \in [id : Bodies, kind : Kinds, at : Vectors, size : Vectors]
    /\ \A b, c \in boxes : b.id = c.id => b = c

LEMMA EnlargedBox ==
    ASSUME NEW k \in Nat \ {0}, NEW boxes, UprightBoxes(boxes), NEW b \in boxes
    PROVE /\ Upright(b) /\ Upright(Enlarged(b, k))
          /\ AtScale(Enlarged(b, k), b, k) /\ AlignedTo(Enlarged(b, k), k)
          /\ Enlarged(b, k).id = b.id /\ Enlarged(b, k).kind = b.kind
<1>1. /\ b \in [id : Bodies, kind : Kinds, at : Vectors, size : Vectors]
      /\ \A a \in Axes : b.size[a] >= 0
  BY DEF UprightBoxes, Upright
<1>2. /\ Enlarged(b, k).at = Times(b.at, k) /\ Enlarged(b, k).size = Times(b.size, k)
      /\ Enlarged(b, k).id = b.id /\ Enlarged(b, k).kind = b.kind
  BY <1>1 DEF Enlarged
<1> QED BY <1>1, <1>2, BoxAtScale

LEMMA EnlargedFitting ==
    ASSUME NEW k \in Nat \ {0}, NEW boxes, UprightBoxes(boxes)
    PROVE Fitting({Enlarged(b, k) : b \in boxes}, k)
<1>1. BoxesOK({Enlarged(b, k) : b \in boxes})
  BY EnlargedOK DEF UprightBoxes
<1>2. \A b \in boxes : Upright(Enlarged(b, k)) /\ AlignedTo(Enlarged(b, k), k)
                       /\ Enlarged(b, k).id = b.id
  BY EnlargedBox
<1>3. \A b, c \in boxes : b.id = c.id => b = c
  BY DEF UprightBoxes
<1> QED BY <1>1, <1>2, <1>3 DEF Fitting

LEMMA RoomyAtScale ==
    ASSUME NEW k \in Nat \ {0}, NEW boxes, UprightBoxes(boxes), NEW size \in Vectors,
           Roomy(size, boxes, 1)
    PROVE Roomy(Times(size, k), {Enlarged(b, k) : b \in boxes}, k)
<1>1. /\ Times(size, k).x = k * size.x /\ Times(size, k).y = k * size.y
      /\ size.x \in Int /\ size.y \in Int /\ Tolerance \in Int /\ Bias \in Int
  BY CollisionAssumption DEF Times, Vectors
<1>2. 2 * (Tolerance * k) < Times(size, k).y
  <2>1. 2 * Tolerance < size.y
    BY <1>1 DEF Roomy
  <2>2. k * (2 * Tolerance) < k * size.y
    BY <1>1, <2>1, ProductOrder
  <2> QED BY <1>1, <2>2
<1>3. ASSUME NEW b \in boxes, NEW c \in boxes,
             LET B == Enlarged(b, k)
                 C == Enlarged(c, k)
             IN  B.kind = "platform" /\ Obstacle(C) /\ IsNear(B, C, Times(size, k))
      PROVE LET B == Enlarged(b, k)
                C == Enlarged(c, k)
            IN  \/ High(C, "y") <= Low(B, "y") - Bias * k - Times(size, k).y
                \/ High(C, "y") > Low(B, "y") + Tolerance * k - Times(size, k).y
  <2> DEFINE B == Enlarged(b, k)
             C == Enlarged(c, k)
  <2>1. /\ AtScale(B, b, k) /\ AtScale(C, c, k) /\ Upright(b) /\ Upright(c)
        /\ b.kind = "platform" /\ Obstacle(c)
    BY <1>3, EnlargedBox DEF Obstacle
  <2>2. \A a \in Axes : /\ Low(b, a) \in Int /\ High(b, a) \in Int
                        /\ Low(c, a) \in Int /\ High(c, a) \in Int
                        /\ Low(B, a) = k * Low(b, a) /\ High(B, a) = k * High(b, a)
                        /\ Low(C, a) = k * Low(c, a) /\ High(C, a) = k * High(c, a)
    BY <2>1, EdgesType DEF AtScale
  <2>3. IsNear(b, c, size)
    <3>1. /\ k * Low(b, "x") < k * High(c, "x") + k * size.x
          /\ k * Low(c, "x") < k * High(b, "x") + k * size.x
      BY <1>1, <1>3, <2>2 DEF IsNear, Axes
    <3>2. /\ k * High(c, "x") + k * size.x = k * (High(c, "x") + size.x)
          /\ k * High(b, "x") + k * size.x = k * (High(b, "x") + size.x)
      BY <1>1, <2>2 DEF Axes
    <3>3. /\ k * Low(b, "x") < k * (High(c, "x") + size.x)
          /\ k * Low(c, "x") < k * (High(b, "x") + size.x)
      BY <3>1, <3>2
    <3>4. /\ Low(b, "x") \in Int /\ High(c, "x") + size.x \in Int
          /\ Low(c, "x") \in Int /\ High(b, "x") + size.x \in Int
      BY <1>1, <2>2 DEF Axes
    <3> QED BY <3>3, <3>4, ProductOrder DEF IsNear
  <2>4. \/ High(c, "y") <= Low(b, "y") - Bias - size.y
        \/ High(c, "y") > Low(b, "y") + Tolerance - size.y
    BY <1>1, <2>1, <2>3 DEF Roomy
  <2>5. /\ Low(b, "y") - Bias - size.y \in Int /\ Low(b, "y") + Tolerance - size.y \in Int
        /\ k * (Low(b, "y") - Bias - size.y) = k * Low(b, "y") - Bias * k - k * size.y
        /\ k * (Low(b, "y") + Tolerance - size.y) = k * Low(b, "y") + Tolerance * k - k * size.y
    BY <1>1, <2>2 DEF Axes
  <2>6. High(c, "y") \in Int /\ "y" \in Axes
    BY <2>2 DEF Axes
  <2>7. \/ k * High(c, "y") <= k * (Low(b, "y") - Bias - size.y)
        \/ k * (Low(b, "y") + Tolerance - size.y) < k * High(c, "y")
    BY <2>4, <2>5, <2>6, ProductOrder
  <2>8. k * High(c, "y") \in Int /\ k * (Low(b, "y") + Tolerance - size.y) \in Int
    BY <2>5, <2>6, ProductType
  <2> QED BY <1>1, <2>2, <2>5, <2>6, <2>7, <2>8
<1> QED BY <1>2, <1>3 DEF Roomy

\* What the way of a player is clear of: he intersects no obstacle, and there is room over
\* the one-way platforms, or his feet are above the ones that he may meet, or out of reach
\* below their tops.
ClearOf(body, wanted, boxes) ==
    /\ \A b \in boxes : Obstacle(b) => ~Meets(body, b)
    /\ \/ Roomy(body.size, boxes, 1)
       \/ \A b \in boxes :
            b.kind = "platform" /\ Meets(Swept(body, wanted), b) =>
                IsAbove(body, b) \/ IsUnder(body, wanted, b, 1)

Body(player) == [at |-> player.at, size |-> player.size]

LEMMA BeginClear ==
    ASSUME NEW player \in Players, \A a \in Axes : player.size[a] > 0,
           NEW boxes, UprightBoxes(boxes), ClearOf(Body(player), player.velocity, boxes)
    PROVE LET k == Whole(player.velocity) IN
          Clear(Begin(player, k), {Enlarged(b, k) : b \in boxes}, k)
<1> DEFINE k == Whole(player.velocity)
           r == Begin(player, k)
           bs == {Enlarged(b, k) : b \in boxes}
           body == Body(player)
           v == player.velocity
<1>1. k \in Nat \ {0} /\ v \in Vectors
  BY WholeType DEF Players
<1>2. /\ r \in Resolutions /\ r.box.at = Times(player.at, k)
      /\ r.box.size = Times(player.size, k)
      /\ r.sweep = Times(v, k) /\ r.velocity = v /\ r.scale = k /\ r.ignored = NoBody
  BY <1>1, BeginType DEF Begin
<1> HIDE DEF k, r
<1>3. /\ player.at \in Vectors /\ player.size \in Vectors
      /\ \A a \in Axes : player.size[a] \in Int /\ player.size[a] >= 0
                         /\ player.at[a] \in Int /\ v[a] \in Int
  BY <1>1, VectorAt DEF Players
<1>4. /\ Upright(body) /\ Upright(r.box) /\ AtScale(r.box, body, k)
      /\ AlignedTo(r.box, k)
  BY <1>1, <1>2, <1>3, BoxAtScale DEF Body
<1>5. \A a \in Axes : r.sweep[a] = k * v[a] /\ r.sweep[a] \in Int
  BY <1>1, <1>2, <1>3, VectorSums
<1>6. \A a \in Axes : r.box.size[a] > 0
  <2>1. \A a \in Axes : Times(player.size, k)[a] = k * player.size[a]
    BY <1>1, <1>3, VectorSums
  <2> QED BY <1>1, <1>2, <1>3, <2>1, ProductOrder
<1>7. /\ Upright(Swept(body, v)) /\ Upright(Swept(r.box, r.sweep))
      /\ AtScale(Swept(r.box, r.sweep), Swept(body, v), k)
  <2>1. r.sweep \in Vectors
    BY <1>2 DEF Resolutions
  <2>2. ASSUME NEW a \in Axes
        PROVE /\ Low(Swept(r.box, r.sweep), a) = k * Low(Swept(body, v), a)
              /\ High(Swept(r.box, r.sweep), a) = k * High(Swept(body, v), a)
    <3>1. /\ Low(r.box, a) = k * Low(body, a) /\ High(r.box, a) = k * High(body, a)
          /\ Low(body, a) \in Int /\ High(body, a) \in Int /\ v[a] \in Int
      BY <1>3, <1>4, EdgesType DEF AtScale
    <3>2. /\ r.sweep[a] < 0 <=> v[a] < 0
          /\ r.sweep[a] > 0 <=> v[a] > 0
      BY <1>1, <1>5, <3>1, ProductOrder
    <3>3. /\ Low(Swept(body, v), a) = Low(body, a) + (IF v[a] < 0 THEN v[a] ELSE 0)
          /\ High(Swept(body, v), a) = High(body, a) + (IF v[a] > 0 THEN v[a] ELSE 0)
          /\ Low(Swept(r.box, r.sweep), a) =
                Low(r.box, a) + (IF r.sweep[a] < 0 THEN r.sweep[a] ELSE 0)
          /\ High(Swept(r.box, r.sweep), a) =
                High(r.box, a) + (IF r.sweep[a] > 0 THEN r.sweep[a] ELSE 0)
      BY <1>1, <1>4, <2>1, SweptEdges
    <3>4. \A m, n \in Int : k * (m + n) = k * m + k * n
      BY <1>1
    <3>5. r.sweep[a] = k * v[a]
      BY <1>5
    <3> QED BY <1>1, <3>1, <3>2, <3>3, <3>4, <3>5
  <2>3. Upright(Swept(body, v)) /\ Upright(Swept(r.box, r.sweep))
    <3>1. "x" \in Axes
      BY DEF Axes
    <3> QED BY <1>1, <1>4, <2>1, <3>1, SweptEdges
  <2> QED BY <2>2, <2>3 DEF AtScale
<1>8. ClearAhead(r, bs)
  <2>1. ASSUME NEW b \in boxes, Obstacle(Enlarged(b, k)) PROVE ~Meets(r.box, Enlarged(b, k))
    <3>1. Obstacle(b)
      BY <1>1, <2>1, EnlargedBox DEF Obstacle
    <3> QED BY <1>1, <1>4, <3>1, EnlargedBox, ScaleKeeps DEF ClearOf
  <2>2. ASSUME ~Roomy(body.size, boxes, 1),
               NEW b \in boxes, Enlarged(b, k).kind = "platform",
               Meets(Swept(r.box, r.sweep), Enlarged(b, k))
        PROVE IsAbove(r.box, Enlarged(b, k)) \/ IsUnder(r.box, r.sweep, Enlarged(b, k), k)
    <3>1. /\ Upright(b) /\ Upright(Enlarged(b, k)) /\ AtScale(Enlarged(b, k), b, k)
          /\ b.kind = "platform"
      BY <1>1, <2>2, EnlargedBox
    <3>2. Meets(Swept(body, v), b)
      BY <1>1, <1>7, <2>2, <3>1, ScaleKeeps
    <3>3. CASE IsAbove(body, b)
      BY <1>1, <1>4, <3>1, <3>3, ScaleKeeps
    <3>4. CASE IsUnder(body, v, b, 1)
      <4>1. /\ "y" \in Axes /\ Tolerance \in Int
            /\ High(body, "y") \in Int /\ Low(b, "y") \in Int /\ v["y"] \in Int
            /\ High(r.box, "y") = k * High(body, "y")
            /\ Low(Enlarged(b, k), "y") = k * Low(b, "y")
            /\ r.sweep["y"] = k * v["y"]
        BY <1>3, <1>4, <1>5, <3>1, EdgesType, CollisionAssumption DEF AtScale, Axes
      <4>2. /\ High(body, "y") > Low(b, "y") + Tolerance
            /\ High(body, "y") + v["y"] > Low(b, "y") + Tolerance
        BY <3>4, <4>1 DEF IsUnder
      <4>3. /\ k * (Low(b, "y") + Tolerance) < k * High(body, "y")
            /\ k * (Low(b, "y") + Tolerance) < k * (High(body, "y") + v["y"])
        BY <1>1, <4>1, <4>2, ProductOrder
      <4>4. /\ k * (Low(b, "y") + Tolerance) = k * Low(b, "y") + Tolerance * k
            /\ k * (High(body, "y") + v["y"]) = k * High(body, "y") + k * v["y"]
            /\ k * Low(b, "y") \in Int /\ Tolerance * k \in Int
            /\ k * High(body, "y") \in Int /\ k * v["y"] \in Int
        BY <1>1, <4>1
      <4> QED BY <4>1, <4>3, <4>4 DEF IsUnder
    <3> QED BY <2>2, <3>1, <3>2, <3>3, <3>4 DEF ClearOf
  <2>3. Roomy(body.size, boxes, 1) => Roomy(r.box.size, bs, k)
    BY <1>1, <1>2, <1>3, RoomyAtScale DEF Body
  <2> QED BY <1>2, <2>1, <2>2, <2>3 DEF ClearAhead, MeetsNoEdge
<1>9. DropsOnce(r, bs)
  <2>1. \A b \in boxes : Enlarged(b, k).id # NoBody
    BY <1>1, EnlargedBox, NoBodyIsNone DEF UprightBoxes, BoxesOK, BoxOK
  <2> QED BY <1>2, <2>1 DEF DropsOnce
<1>10. r.sweep.y > 0 => r.velocity.y >= 0
  <2>1. r.sweep["y"] = k * v["y"] /\ v["y"] \in Int
    BY <1>3, <1>5 DEF Axes
  <2> QED BY <1>1, <1>2, <2>1, ProductOrder
<1>11. r.sweep.y < 0 => r.velocity.y < 0
  <2>1. r.sweep["y"] = k * v["y"] /\ v["y"] \in Int
    BY <1>3, <1>5 DEF Axes
  <2> QED BY <1>1, <1>2, <2>1, ProductOrder
<1>12. Exact(r, k)
  <2>1. \A a \in Axes : Multiple(r.sweep[a], k)
    BY <1>3, <1>5 DEF Multiple
  <2>2. \A a \in Axes : /\ Multiple(r.box.size[a], k)
                        /\ Multiple(r.box.at[a], k)
                        /\ Multiple(r.box.at[a] + r.sweep[a], k)
    <3>1. \A a \in Axes : Multiple(r.box.size[a], k) /\ Multiple(r.box.at[a], k)
      BY <1>4 DEF AlignedTo
    <3>2. k \in Int
      BY <1>1
    <3> QED BY <2>1, <3>1, <3>2, MultipleSums
  <2>3. CASE \E a \in Axes : v[a] = 0
    BY <1>1, <1>5, <2>2, <2>3 DEF Exact
  <2>4. CASE \A a \in Axes : v[a] # 0
    BY <1>1, <1>2, <2>2, <2>4 DEF Exact, k
  <2> QED BY <2>3, <2>4
<1>13. OnTop(r, bs)
  BY DEF OnTop, Begin, r
<1> QED BY <1>2, <1>6, <1>8, <1>9, <1>10, <1>12, <1>11, <1>13 DEF Clear, k, r

\* Where a resolution ends, before the ground moves the player on.
EndsAt(player, boxes) == [at |-> Resolve(player, boxes).box.at, size |-> player.size]

\* The place m lies on the way from n to n + v.
Toward(n, v, m) ==
    /\ v >= 0 => n <= m /\ m <= n + v
    /\ v <= 0 => n + v <= m /\ m <= n

LEMMA ClearResolve ==
    ASSUME NEW player \in Players, \A a \in Axes : player.size[a] > 0,
           NEW boxes, UprightBoxes(boxes), ClearOf(Body(player), player.velocity, boxes)
    PROVE LET end == EndsAt(player, boxes) IN
          /\ \A b \in boxes : Obstacle(b) => ~Meets(end, b)
          /\ \A b \in boxes :
                /\ b.kind \notin Passable
                /\ ~(b.kind = "platform" /\ player.trying /\ b.id = player.ground)
                /\ IsAbove(Body(player), b)
                /\ IsOver(end, b)
                => IsAbove(end, b)
          /\ Toward(player.at.x, player.velocity.x, end.at.x)
          /\ player.velocity.y <= 0 => High(end, "y") <= High(Body(player), "y")
          /\ LET last == Resolve(player, boxes) IN
                last.ground # NoBody =>
                    /\ last.velocity.y = 0
                    /\ \A b \in boxes : b.id = last.ground => High(end, "y") <= Low(b, "y")
<1> DEFINE k == Whole(player.velocity)
           r == Begin(player, k)
           bs == {Enlarged(b, k) : b \in boxes}
           s == Iterated(r, bs)
           body == Body(player)
           end == EndsAt(player, boxes)
           v == player.velocity
<1>1. k \in Nat \ {0} /\ v \in Vectors
  BY WholeType DEF Players
<1>2. /\ r \in Resolutions /\ ~r.done
      /\ r.box.at = Times(player.at, k) /\ r.box.size = Times(player.size, k)
      /\ r.sweep = Times(v, k) /\ r.scale = k /\ r.ignored = NoBody
      /\ r.trying = player.trying /\ r.stood = player.ground
  BY <1>1, BeginType DEF Begin
<1>3. Fitting(bs, k) /\ Clear(r, bs, k)
  BY <1>1, BeginClear, EnlargedFitting
<1>4. /\ end.at = Parts(s.box.at, k) /\ end.size = player.size
      /\ Resolve(player, boxes).ground = s.ground
      /\ Resolve(player, boxes).velocity = s.velocity
  <2>1. Resolve(player, boxes) = [s EXCEPT !.box.at = Parts(s.box.at, k)]
    BY DEF Resolve
  <2>2. s \in Resolutions
    BY <1>1, <1>3, ClearIterated DEF Continues, Clear
  <2> HIDE DEF s, k
  <2> QED BY <2>1, <2>2 DEF EndsAt, Resolutions, Places
<1> HIDE DEF k, r, bs, s, end
<1>5. Continues(r, s, bs, k) /\ s.sweep = Zero
  BY <1>1, <1>2, <1>3, ClearIterated, IteratedResolves DEF Fitting, Resolved, s
<1>6. /\ s \in Resolutions /\ s.box \in [at : Vectors, size : Vectors] /\ Upright(s.box)
      /\ s.box.size = r.box.size /\ \A a \in Axes : s.sweep[a] = 0
  BY <1>5, ClearUpright, ZeroType, VectorSums DEF Continues, Clear
<1>7. /\ player.at \in Vectors /\ player.size \in Vectors
      /\ \A a \in Axes : player.size[a] \in Int /\ player.size[a] >= 0 /\ player.at[a] \in Int
  BY VectorAt DEF Players
<1>8. end.at \in Vectors /\ s.box.at = Times(end.at, k)
  <2>1. end.at \in Vectors
    BY <1>1, <1>4, <1>6, PartsType
  <2>2. ASSUME NEW a \in Axes PROVE s.box.at[a] = Times(end.at, k)[a]
    <3>1. Multiple(s.box.at[a] + s.sweep[a], k) /\ s.box.at[a] \in Int
      BY <1>5, <1>6, VectorAt DEF Continues, Clear, Exact
    <3>2. PICK q \in Int : s.box.at[a] = k * q
      BY <1>6, <3>1 DEF Multiple
    <3>3. end.at[a] = (k * q) \div k
      BY <1>1, <1>4, <1>6, <3>2, VectorSums
    <3>4. end.at[a] = q
      BY <1>1, <3>3, ExactDivision
    <3> QED BY <1>1, <2>1, <3>2, <3>4, VectorSums
  <2> QED BY <1>1, <1>6, <2>1, <2>2, TimesType, SameVector
<1>9. Upright(end) /\ AtScale(s.box, end, k)
  BY <1>1, <1>2, <1>4, <1>6, <1>7, <1>8, BoxAtScale
<1>10. Upright(body) /\ Upright(r.box) /\ AtScale(r.box, body, k)
  BY <1>1, <1>2, <1>7, BoxAtScale DEF Body
<1>11. ASSUME NEW b \in boxes
       PROVE /\ Enlarged(b, k) \in bs
             /\ Upright(b) /\ Upright(Enlarged(b, k)) /\ AtScale(Enlarged(b, k), b, k)
             /\ Enlarged(b, k).id = b.id /\ Enlarged(b, k).kind = b.kind
  BY <1>1, EnlargedBox DEF bs
<1>12. ASSUME NEW b \in boxes, Obstacle(b) PROVE ~Meets(end, b)
  <2>1. ~Meets(s.box, Enlarged(b, k))
    BY <1>5, <1>11, <1>12 DEF Continues, Clear, ClearAhead, Obstacle
  <2> QED BY <1>1, <1>6, <1>9, <1>11, <2>1, ScaleKeeps
<1>13. ASSUME NEW b \in boxes, b.kind \notin Passable,
              ~(b.kind = "platform" /\ player.trying /\ b.id = player.ground),
              IsAbove(body, b), IsOver(end, b)
       PROVE IsAbove(end, b)
  <2> DEFINE B == Enlarged(b, k)
  <2>1. B.id # s.ignored
    <3>1. b.id # NoBody
      BY NoBodyIsNone DEF UprightBoxes, BoxesOK, BoxOK
    <3>2. B.id = s.ignored => B.kind = "platform"
      BY <1>5, <1>11 DEF Continues, Clear, DropsOnce
    <3> QED BY <1>2, <1>5, <1>11, <1>13, <3>1, <3>2 DEF Continues
  <2>2. IsAbove(r.box, B)
    BY <1>1, <1>10, <1>11, <1>13, ScaleKeeps
  <2>3. AboveOrPast(s, B)
    BY <1>5, <1>11, <1>13, <2>1, <2>2 DEF Continues, AboveOrPast
  <2>4. IsOver(s.box, B)
    BY <1>1, <1>6, <1>9, <1>11, <1>13, ScaleKeeps
  <2>5. ~IsPast(s, B)
    <3>1. "x" \in Axes
      BY DEF Axes
    <3>2. /\ Low(s.box, "x") \in Int /\ High(s.box, "x") \in Int
          /\ Low(B, "x") \in Int /\ High(B, "x") \in Int
      BY <1>6, <1>11, <3>1, EdgesType
    <3> QED BY <2>4, <3>2 DEF IsOver, IsPast
  <2> QED BY <1>1, <1>6, <1>9, <1>11, <2>3, <2>5, ScaleKeeps DEF AboveOrPast
<1>14. Toward(player.at.x, v.x, end.at.x)
  <2>1. /\ end.at.x \in Int /\ player.at.x \in Int /\ v.x \in Int
        /\ player.at.x + v.x \in Int
    BY <1>1, <1>7, <1>8 DEF Vectors
  <2>2. /\ r.sweep.x = k * v.x /\ s.box.at.x = k * end.at.x /\ r.box.at.x = k * player.at.x
        /\ r.box.at.x + r.sweep.x = k * (player.at.x + v.x)
    <3>1. r.sweep.x = v.x * k /\ s.box.at.x = end.at.x * k /\ r.box.at.x = player.at.x * k
      BY <1>2, <1>8 DEF Times
    <3>2. \A n \in Int : n * k = k * n
      BY <1>1
    <3>3. \A n, i \in Int : k * n + k * i = k * (n + i)
      BY <1>1
    <3>4. r.sweep.x = k * v.x /\ s.box.at.x = k * end.at.x /\ r.box.at.x = k * player.at.x
      BY <2>1, <3>1, <3>2
    <3>5. k * player.at.x + k * v.x = k * (player.at.x + v.x)
      BY <2>1, <3>3
    <3> QED BY <3>4, <3>5
  <2>3. Onward(r, s) /\ s.sweep.x = 0
    BY <1>5 DEF Continues, Zero
  <2>4. k * end.at.x + 0 = k * end.at.x /\ k * 0 = 0
    BY <1>1, <2>1
  <2>5. ASSUME v.x >= 0
        PROVE player.at.x <= end.at.x /\ end.at.x <= player.at.x + v.x
    <3>1. k * 0 <= k * v.x
      BY <1>1, <2>1, <2>5, ProductOrder
    <3>2. r.sweep.x >= 0
      BY <1>1, <2>1, <2>2, <2>4, <3>1
    <3>3. k * player.at.x <= k * end.at.x /\ k * end.at.x <= k * (player.at.x + v.x)
      BY <2>2, <2>3, <2>4, <3>2 DEF Onward
    <3>4. player.at.x <= end.at.x
      BY <1>1, <2>1, <3>3, ProductOrder
    <3>5. end.at.x <= player.at.x + v.x
      BY <1>1, <2>1, <3>3, ProductOrder
    <3> QED BY <3>4, <3>5
  <2>6. ASSUME v.x <= 0
        PROVE player.at.x + v.x <= end.at.x /\ end.at.x <= player.at.x
    <3>1. k * v.x <= k * 0
      BY <1>1, <2>1, <2>6, ProductOrder
    <3>2. r.sweep.x <= 0
      BY <2>2, <2>4, <3>1
    <3>3. k * end.at.x <= k * player.at.x /\ k * (player.at.x + v.x) <= k * end.at.x
      BY <2>2, <2>3, <2>4, <3>2 DEF Onward
    <3>4. end.at.x <= player.at.x
      BY <1>1, <2>1, <3>3, ProductOrder
    <3>5. player.at.x + v.x <= end.at.x
      BY <1>1, <2>1, <3>3, ProductOrder
    <3> QED BY <3>4, <3>5
  <2> QED BY <2>5, <2>6 DEF Toward
<1>15. /\ "y" \in Axes
       /\ High(end, "y") \in Int /\ High(body, "y") \in Int
       /\ High(s.box, "y") = k * High(end, "y") /\ High(r.box, "y") = k * High(body, "y")
  <2>1. "y" \in Axes
    BY DEF Axes
  <2> QED BY <1>9, <1>10, <2>1, EdgesType DEF AtScale
<1>16. ASSUME v.y <= 0 PROVE High(end, "y") <= High(body, "y")
  <2>1. r.sweep.y <= 0
    <3>1. r.sweep.y = k * v.y /\ v.y \in Int /\ k * 0 = 0
      BY <1>1, <1>2 DEF Times, Vectors
    <3>2. k * v.y <= k * 0
      BY <1>1, <1>16, <3>1, ProductOrder
    <3> QED BY <3>1, <3>2
  <2> QED BY <1>1, <1>5, <1>15, <2>1, ProductOrder DEF Continues
<1>17. ASSUME s.ground # NoBody
       PROVE /\ s.velocity.y = 0
             /\ \A b \in boxes : b.id = s.ground => High(end, "y") <= Low(b, "y")
  <2>1. OnTop(s, bs)
    BY <1>5 DEF Continues, Clear
  <2>2. ASSUME NEW b \in boxes, b.id = s.ground PROVE High(end, "y") <= Low(b, "y")
    <3>1. High(s.box, "y") <= Low(Enlarged(b, k), "y")
      BY <1>11, <1>17, <2>1, <2>2 DEF OnTop
    <3>2. Low(Enlarged(b, k), "y") = k * Low(b, "y") /\ Low(b, "y") \in Int
      BY <1>11, <1>15, EdgesType DEF AtScale
    <3> QED BY <1>1, <1>15, <3>1, <3>2, ProductOrder
  <2> QED BY <1>17, <2>1, <2>2 DEF OnTop
<1> QED BY <1>4, <1>12, <1>13, <1>14, <1>16, <1>17 DEF end

-----------------------------------------------------------------------------
(***************************************************************************)
(* The updates of the player.                                              *)
(***************************************************************************)
\* No platform's size is negative.  This is so of the levels but for two walls of
\* level3.json.
UprightLevel ==
    /\ \A a \in Axes : Size[a] > 0
    /\ \A p \in Bodies, a \in Axes : Level[p].size[a] >= 0

\* An update that finds the player's way clear.
ClearWay == Update /\ ClearOf(PlayerBox, Wanted(keys', gone'), Boxes(phase', gone'))

\* Where it takes him, before what he stands on takes him on.
BeforeCarried == Plus(position', Times(LastCarried', -1))

BoxBeforeCarried == [at |-> BeforeCarried, size |-> Size]

LEMMA BackFromNext == ASSUME phase \in Phases PROVE (NextPhase - 1) % Cycle = phase
<1>1. Cycle \in Nat \ {0} /\ phase \in 0 .. Cycle - 1
  BY LevelAssumption DEF Phases
<1>2. CASE phase + 1 < Cycle
  <2>1. (phase + 1) % Cycle = phase + 1
    BY <1>1, <1>2
  <2>2. phase % Cycle = phase
    BY <1>1
  <2> QED BY <1>1, <2>1, <2>2 DEF NextPhase
<1>3. CASE phase + 1 = Cycle
  <2>1. Cycle % Cycle = 0
    BY <1>1
  <2>2. (0 - 1) % Cycle = Cycle - 1
    BY <1>1
  <2> QED BY <1>1, <1>3, <2>1, <2>2 DEF NextPhase
<1> QED BY <1>1, <1>2, <1>3

\* What an update adds to the end of the resolution is what it notes for the next one.
LEMMA CarriedIsLast ==
    ASSUME TypeOK, NEW k, NEW g, MovesBody(Resolution(k, g), k), phase' = NextPhase
    PROVE LastCarried' = Carried(Resolution(k, g)) /\ LastCarried' \in Vectors
<1> DEFINE r == Resolution(k, g)
           kind == Level[r.ground].kind
<1>1. r \in Resolutions
  BY ResolutionResolves
<1>2. /\ onGround' = (r.onGround /\ ~LandedOn(r, "spring"))
      /\ ground' = IF LandedOn(r, "spring") THEN NoBody ELSE r.ground
  BY DEF MovesBody
<1>3. phase \in Phases /\ NextPhase \in Phases /\ (phase' - 1) % Cycle = phase
  BY PhaseType, BackFromNext DEF TypeOK
<1>4. LastCarried' =
        IF ~onGround' \/ ground' = NoBody THEN Zero
        ELSE IF Level[ground'].kind = "conveyorBelt" THEN Level[ground'].surface
        ELSE Plus(Place(ground', NextPhase), Times(Place(ground', phase), -1))
  BY <1>3 DEF LastCarried, Place
<1> HIDE DEF r
<1>5. CASE ~r.onGround \/ r.ground = NoBody
  BY <1>1, <1>2, <1>4, <1>5, ZeroType DEF LandedOn, Carried, Resolutions, r
<1>6. CASE r.onGround /\ r.ground # NoBody
  <2>1. r.ground \in Bodies
    BY <1>1, <1>6 DEF Resolutions, Ids
  <2>2. \A s : LandedOn(r, s) <=> kind = s
    BY <1>6 DEF LandedOn
  <2>3. /\ Level[r.ground].surface \in Vectors
        /\ Place(r.ground, phase) \in Vectors
        /\ Place(r.ground, NextPhase) \in Vectors
    BY <1>3, <2>1, BodyType, PlaceType
  <2>4. Displacement(r.ground) = Plus(Place(r.ground, NextPhase), Times(Place(r.ground, phase), -1))
        /\ Displacement(r.ground) \in Vectors
    BY <2>3, PlusType, TimesType DEF Displacement
  <2>5. CASE kind = "spring"
    BY <1>2, <1>4, <2>2, <2>5, ZeroType DEF Carried, r
  <2>6. CASE kind = "conveyorBelt"
    BY <1>2, <1>4, <1>6, <2>2, <2>3, <2>6 DEF Carried, r
  <2>7. CASE kind = "moving"
    BY <1>2, <1>4, <1>6, <2>2, <2>4, <2>7 DEF Carried, r
  <2>8. CASE kind \notin {"spring", "conveyorBelt", "moving"}
    <3>1. Place(r.ground, NextPhase) = Level[r.ground].at /\ Place(r.ground, phase) = Level[r.ground].at
      BY <2>8 DEF Place
    <3>2. \A v \in Vectors : Plus(v, Times(v, -1)) = Zero
      BY DEF Vectors, Plus, Times, Zero
    <3>3. LastCarried' = Zero
      BY <1>2, <1>4, <1>6, <2>2, <2>3, <2>8, <3>1, <3>2
    <3>4. Carried(r) = Zero
      BY <2>2, <2>8 DEF Carried
    <3> QED BY <3>3, <3>4, ZeroType DEF r
  <2> QED BY <2>5, <2>6, <2>7, <2>8
<1> QED BY <1>1, <1>5, <1>6 DEF Resolutions

LEMMA LevelUpright ==
    ASSUME UprightLevel, NEW f \in Phases, NEW g PROVE UprightBoxes(Boxes(f, g))
<1>1. ASSUME NEW p \in Bodies
      PROVE /\ Upright(Box(p, f, g))
            /\ Box(p, f, g) \in [id : Bodies, kind : Kinds, at : Vectors, size : Vectors]
  <2>1. /\ Place(p, f) \in Vectors /\ Level[p].size \in Vectors
        /\ \A a \in Axes : Level[p].size[a] >= 0
    BY BodyType, PlaceType DEF UprightLevel
  <2>2. Box(p, f, g).kind \in Kinds
    BY BodyType DEF Box, Kinds, Passable
  <2> QED BY <2>1, <2>2 DEF Box, Upright, Placed
<1>2. \A p \in Bodies : Box(p, f, g).id = p
  BY DEF Box
<1> QED BY <1>1, <1>2, LevelBoxesOK DEF UprightBoxes, Boxes

\* A clear update, as the resolution sees it.
Mover(k, g) ==
    [at |-> position, size |-> Size, velocity |-> Wanted(k, g),
     ground |-> IF ground \in g THEN NoBody ELSE ground,
     trying |-> "drop" \in k /\ onGround]

LEMMA ClearWayResolves ==
    ASSUME UprightLevel, TypeOK, ClearWay
    PROVE /\ phase' = NextPhase
          /\ Mover(keys', gone') \in Players
          /\ BoxBeforeCarried = EndsAt(Mover(keys', gone'), Boxes(phase', gone'))
          /\ position' = Plus(BeforeCarried, LastCarried')
          /\ BeforeCarried \in Vectors /\ LastCarried' \in Vectors
          /\ UprightBoxes(Boxes(phase', gone'))
<1>1. /\ phase' = NextPhase
      /\ MovesBody(Resolution(keys', gone'), keys')
  BY DEF ClearWay, Update
<1> DEFINE k == keys'
           g == gone'
           r == Resolution(k, g)
<1>2. Mover(k, g) \in Players
  BY WantedType, LevelAssumption DEF TypeOK, Players, Ids, Mover
<1>3. r \in Resolutions /\ r = Resolve(Mover(k, g), Boxes(phase', g))
  BY <1>1, ResolutionResolves DEF Resolution, Mover
<1>4. LastCarried' = Carried(r) /\ LastCarried' \in Vectors
  BY <1>1, CarriedIsLast
<1>5. position' = Plus(r.box.at, LastCarried')
  BY <1>1, <1>4 DEF MovesBody
<1>6. r.box.at \in Vectors
  BY <1>3 DEF Resolutions, Places
<1>7. BeforeCarried = r.box.at
  <2>1. \A v, w \in Vectors : Plus(Plus(v, w), Times(w, -1)) = v
    BY DEF Vectors, Plus, Times
  <2> QED BY <1>4, <1>5, <1>6, <2>1 DEF BeforeCarried
<1>8. BoxBeforeCarried = EndsAt(Mover(k, g), Boxes(phase', g))
  BY <1>3, <1>7 DEF BoxBeforeCarried, EndsAt, Mover
<1>9. UprightBoxes(Boxes(phase', g))
  BY <1>1, PhaseType, LevelUpright DEF TypeOK
<1> QED BY <1>1, <1>2, <1>4, <1>5, <1>6, <1>7, <1>8, <1>9

LEMMA ClearWayEnds ==
    ASSUME UprightLevel, TypeOK, ClearWay
    PROVE /\ \A b \in Boxes(phase', gone') : Obstacle(b) => ~Meets(BoxBeforeCarried, b)
          /\ \A b \in Boxes(phase', gone') :
                /\ b.kind \notin Passable
                /\ ~(b.kind = "platform" /\ "drop" \in keys' /\ onGround /\ b.id = ground)
                /\ IsAbove(PlayerBox, b)
                /\ IsOver(BoxBeforeCarried, b)
                => IsAbove(BoxBeforeCarried, b)
          /\ Toward(position.x, Wanted(keys', gone').x, BeforeCarried.x)
          /\ Wanted(keys', gone').y <= 0 => BeforeCarried.y <= position.y
          /\ LET last == Resolution(keys', gone') IN
                last.ground # NoBody =>
                    /\ last.velocity.y = 0
                    /\ \A b \in Boxes(phase', gone') :
                            b.id = last.ground => Feet(BeforeCarried) <= Low(b, "y")
<1> DEFINE player == Mover(keys', gone')
           boxes == Boxes(phase', gone')
<1>1. /\ player \in Players /\ UprightBoxes(boxes)
      /\ BoxBeforeCarried = EndsAt(player, boxes)
  BY ClearWayResolves
<1>2. /\ player.size = Size /\ player.at = position /\ player.velocity = Wanted(keys', gone')
      /\ Body(player) = PlayerBox
      /\ player.trying = ("drop" \in keys' /\ onGround)
      /\ player.ground = IF ground \in gone' THEN NoBody ELSE ground
      /\ BoxBeforeCarried.at = BeforeCarried
  BY DEF Mover, Body, PlayerBox, BoxBeforeCarried
<1> HIDE DEF player, boxes
<1>3. ClearOf(Body(player), player.velocity, boxes)
  BY <1>2 DEF ClearWay, boxes
<1>4. \A a \in Axes : player.size[a] > 0
  BY <1>2 DEF UprightLevel
<1>5. \A b \in boxes : b.id # NoBody
  BY <1>1, NoBodyIsNone DEF UprightBoxes, BoxesOK, BoxOK
<1> DEFINE end == EndsAt(player, boxes)
           last == Resolve(player, boxes)
<1>6. /\ \A b \in boxes : Obstacle(b) => ~Meets(end, b)
      /\ \A b \in boxes :
            /\ b.kind \notin Passable
            /\ ~(b.kind = "platform" /\ player.trying /\ b.id = player.ground)
            /\ IsAbove(Body(player), b)
            /\ IsOver(end, b)
            => IsAbove(end, b)
      /\ Toward(player.at.x, player.velocity.x, end.at.x)
      /\ player.velocity.y <= 0 => High(end, "y") <= High(Body(player), "y")
      /\ last.ground # NoBody =>
            /\ last.velocity.y = 0
            /\ \A b \in boxes : b.id = last.ground => High(end, "y") <= Low(b, "y")
  BY <1>1, <1>3, <1>4, ClearResolve
<1>7. last = Resolution(keys', gone')
  <2>1. phase' = NextPhase
    BY DEF ClearWay, Update
  <2> QED BY <2>1 DEF Resolution, Mover, player, boxes
<1> HIDE DEF last, end
<1>8. /\ end = BoxBeforeCarried /\ end.at = BeforeCarried /\ Body(player).at = position
      /\ High(end, "y") = Feet(BeforeCarried)
      /\ High(Body(player), "y") = Feet(position)
  BY <1>1, <1>2 DEF end, Feet, High, BoxBeforeCarried, Body
<1>9. Wanted(keys', gone').y <= 0 => BeforeCarried.y <= position.y
  <2>1. BeforeCarried.y \in Int /\ position.y \in Int /\ Size.y \in Int
    BY ClearWayResolves, LevelAssumption DEF TypeOK, Vectors
  <2>2. Wanted(keys', gone').y <= 0 => Feet(BeforeCarried) <= Feet(position)
    BY <1>2, <1>6, <1>8
  <2> QED BY <2>1, <2>2 DEF Feet
<1> QED BY <1>2, <1>5, <1>6, <1>7, <1>8, <1>9 DEF boxes

\* What is passed has been left by the key.
LEMMA ClearWayPassesOnlyDropped ==
    ASSUME UprightLevel, TypeOK, ClearWay, NEW p \in Bodies, Passes(p),
           LastCarried'.x = 0, LastCarried'.y <= 0
    PROVE Level[p].kind = "platform" /\ "drop" \in keys' /\ onGround /\ ground = p
<1> DEFINE b == Box(p, phase', gone')
<1>1. /\ position' = Plus(BeforeCarried, LastCarried')
      /\ BeforeCarried \in Vectors /\ LastCarried' \in Vectors
  BY ClearWayResolves
<1>2. b \in Boxes(phase', gone') /\ b.id = p /\ b.at = Level[p].at /\ b.size = Level[p].size
      /\ b.kind = Level[p].kind /\ b.kind \notin Passable
  <2>1. Level[p].kind \in Massive \cup {"platform"}
    BY DEF Passes
  <2>2. gone' \subseteq Vanishing
    BY DEF ClearWay, Update
  <2>3. p \notin gone'
    BY <2>1, <2>2 DEF Vanishing, Massive
  <2> QED BY <2>1, <2>3 DEF Boxes, Box, Place, Massive, Passable
<1>3. /\ position \in Vectors /\ Size \in Vectors
      /\ Level[p].at \in Vectors /\ Level[p].size \in Vectors
      /\ Level[p].size.x >= 0 /\ Level[p].size.y >= 0
  BY BodyType, LevelAssumption DEF TypeOK, UprightLevel, Axes
<1>4. /\ Near(Level[p], "x") = Low(b, "x") /\ Far(Level[p], "x") = High(b, "x")
      /\ Top(p) = Low(b, "y")
  BY <1>2, <1>3 DEF Near, Far, Top, Low, High, Vectors
<1>5. /\ position'.x = BeforeCarried.x
      /\ position'.y <= BeforeCarried.y
  BY <1>1 DEF Vectors, Plus
<1>6. IsAbove(PlayerBox, b)
  BY <1>4 DEF Passes, Over, Feet, IsAbove, IsOver, PlayerBox, Low, High
<1>7. IsOver(BoxBeforeCarried, b)
  BY <1>4, <1>5 DEF Passes, Over, IsOver, BoxBeforeCarried, Low, High
<1>8. ~IsAbove(BoxBeforeCarried, b)
  <2>1. Feet(position') > Low(b, "y")
    BY <1>4 DEF Passes
  <2>2. Low(b, "y") \in Int /\ position'.y \in Int /\ BeforeCarried.y \in Int /\ Size.y \in Int
    BY <1>1, <1>2, <1>3, PlusType DEF Low, Vectors
  <2> QED BY <1>5, <2>1, <2>2 DEF IsAbove, BoxBeforeCarried, High, Feet
<1> QED BY <1>2, <1>6, <1>7, <1>8, ClearWayEnds

LEMMA ClearWayCarries ==
    ASSUME UprightLevel, TypeOK, ClearWay,
           onGround', ground' \in Movers, Direction(keys') = 0
    PROVE position'.x - position.x = Place(ground', phase').x - Place(ground', phase).x
<1>1. /\ phase' = NextPhase
      /\ position' = Plus(BeforeCarried, LastCarried')
      /\ BeforeCarried \in Vectors /\ LastCarried' \in Vectors
  BY ClearWayResolves
<1>2. BeforeCarried.x = position.x
  <2>1. Wanted(keys', gone')["x"] = 0
    <3>1. Turbo(keys') \in Int /\ MoveSpeed \in Int
      BY SpeedAssumption DEF Turbo
    <3>2. \A m, n \in Int : 0 * m * n = 0
      BY SMT
    <3> QED BY <3>1, <3>2 DEF Wanted
  <2>2. position.x \in Int /\ BeforeCarried.x \in Int
    BY <1>1 DEF TypeOK, Vectors
  <2>3. Toward(position.x, Wanted(keys', gone').x, BeforeCarried.x)
    BY ClearWayEnds
  <2> QED BY <2>1, <2>2, <2>3 DEF Toward
<1>3. ground' \in Bodies /\ ground' # NoBody /\ Level[ground'].kind = "moving"
  BY NoBodyIsNone DEF Movers
<1>4. (phase' - 1) % Cycle = phase /\ phase \in Phases /\ phase' \in Phases
  BY <1>1, PhaseType, BackFromNext DEF TypeOK
<1>5. LastCarried' = Plus(Place(ground', phase'), Times(Place(ground', phase), -1))
  BY <1>3, <1>4 DEF LastCarried, Place
<1>6. Place(ground', phase') \in Vectors /\ Place(ground', phase) \in Vectors
      /\ position \in Vectors
  BY <1>3, <1>4, PlaceType DEF TypeOK
<1> QED BY <1>1, <1>2, <1>5, <1>6 DEF Plus, Times, Vectors

-----------------------------------------------------------------------------
(***************************************************************************)
(* The theorems.                                                           *)
(***************************************************************************)
\* resolveCollisions takes a player whose way is clear into no platform, at any speed and
\* however the platforms lie: only what he then stands on can, when it carries him.
THEOREM ClearWayEndsOutside ==
    ASSUME UprightLevel
    PROVE Spec =>
            [][ClearWay =>
                /\ NeverInside'
                /\ \A b \in Boxes(phase', gone') :
                        Obstacle(b) => ~Meets(BoxBeforeCarried, b)]_vars
<1> DEFINE Ends == ClearWay =>
                    /\ NeverInside'
                    /\ \A b \in Boxes(phase', gone') :
                            Obstacle(b) => ~Meets(BoxBeforeCarried, b)
<1>1. ASSUME TypeOK, ClearWay
      PROVE /\ NeverInside'
            /\ \A b \in Boxes(phase', gone') : Obstacle(b) => ~Meets(BoxBeforeCarried, b)
  <2>1. \A b \in Boxes(phase', gone') : Obstacle(b) => ~Meets(BoxBeforeCarried, b)
    BY <1>1, ClearWayEnds
  <2>2. ASSUME NEW p \in Bodies PROVE ~Inside(BeforeCarried, Box(p, phase', gone'))
    <3>1. Box(p, phase', gone') \in Boxes(phase', gone')
      BY DEF Boxes
    <3>2. Box(p, phase', gone').kind \in Massive => Obstacle(Box(p, phase', gone'))
      BY DEF Massive, Obstacle, Passable
    <3> QED BY <2>1, <3>1, <3>2 DEF Inside, BoxBeforeCarried
  <2>3. NeverInside'
    BY <2>2 DEF NeverInside, BeforeCarried, Box, Place, Inside
  <2> QED BY <2>1, <2>3
<1>2. TypeOK /\ [Next]_vars => [Ends]_vars
  BY <1>1
<1> QED BY <1>2, PlayerTypeCorrect, PTL DEF Spec

\* Nor down past one that stays where it is: no fall is fast enough to go through the
\* thinnest platform, and a one-way platform is left downwards only by the key.
THEOREM ClearWayPassesNothing ==
    ASSUME UprightLevel
    PROVE Spec =>
            [][\A p \in Bodies :
                /\ ClearWay /\ Passes(p)
                /\ LastCarried'.x = 0 /\ LastCarried'.y <= 0
                => Level[p].kind = "platform" /\ "drop" \in keys' /\ onGround /\ ground = p]_vars
<1> DEFINE Pass == \A p \in Bodies :
                /\ ClearWay /\ Passes(p)
                /\ LastCarried'.x = 0 /\ LastCarried'.y <= 0
                => Level[p].kind = "platform" /\ "drop" \in keys' /\ onGround /\ ground = p
<1>1. ASSUME TypeOK, [Next]_vars, NEW p \in Bodies, ClearWay, Passes(p),
             LastCarried'.x = 0, LastCarried'.y <= 0
      PROVE Level[p].kind = "platform" /\ "drop" \in keys' /\ onGround /\ ground = p
  BY <1>1, ClearWayPassesOnlyDropped
<1>2. TypeOK /\ [Next]_vars => [Pass]_vars
  BY <1>1
<1> QED BY <1>2, PlayerTypeCorrect, PTL DEF Spec

\* A player whose way is clear and who ends on a mover goes exactly as far sideways as it
\* does in the same update, whatever its path.
THEOREM ClearWayCarriesExactly ==
    ASSUME UprightLevel
    PROVE Spec =>
            [][ClearWay /\ onGround' /\ ground' \in Movers /\ Direction(keys') = 0 =>
                position'.x - position.x =
                    Place(ground', phase').x - Place(ground', phase).x]_vars
<1> DEFINE Carries == ClearWay /\ onGround' /\ ground' \in Movers /\ Direction(keys') = 0 =>
                        position'.x - position.x =
                            Place(ground', phase').x - Place(ground', phase).x
<1>1. ASSUME TypeOK, ClearWay, onGround', ground' \in Movers, Direction(keys') = 0
      PROVE position'.x - position.x = Place(ground', phase').x - Place(ground', phase).x
  BY <1>1, ClearWayCarries
<1>2. TypeOK /\ [Next]_vars => [Carries]_vars
  BY <1>1
<1> QED BY <1>2, PlayerTypeCorrect, PTL DEF Spec
=============================================================================
