------------------------ MODULE PlayerPhysicsProofs ------------------------
(***************************************************************************)
(* Proofs about CollisionSystem and PlayerPhysics, for every level and     *)
(* every speed.                                                            *)
(***************************************************************************)
EXTENDS PlayerPhysics, CollisionProofs, FiniteSetTheorems, TLAPS

-----------------------------------------------------------------------------
(***************************************************************************)
(* One iteration of the resolution.                                        *)
(***************************************************************************)
Ids == Bodies \cup {NoBody}

Places == [at : Vectors, size : Vectors]

Resolutions ==
    [box : Places, velocity : Vectors, sweep : Vectors, scale : Nat \ {0},
     stood : Ids, trying : BOOLEAN, ignored : Ids, onGround : BOOLEAN, ground : Ids,
     hitCeiling : BOOLEAN, done : BOOLEAN]

BoxOK(b) == b.id \in Bodies /\ b.at \in Vectors /\ b.size \in Vectors

\* What a part of an iteration keeps: the vertical velocity, if it is not stopped, and
\* the rest along an axis that has ended.
Follows(r, s) ==
    /\ s \in Resolutions
    /\ s.velocity.y = r.velocity.y \/ s.velocity.y = 0
    /\ \A a \in Axes : r.sweep[a] = 0 => s.sweep[a] = 0

LEMMA DropFollows ==
    ASSUME NEW r \in Resolutions, NEW met
    PROVE Follows(r, Drop(r, met)) /\ Drop(r, met).sweep = r.sweep
          /\ Drop(r, met).done = r.done /\ Drop(r, met).box = r.box
BY DEF Resolutions, Follows, Drop, Ids

LEMMA MoveFreelyFollows ==
    ASSUME NEW r \in Resolutions
    PROVE Follows(r, MoveFreely(r)) /\ MoveFreely(r).sweep = Zero /\ MoveFreely(r).done
<1>1. Plus(r.box.at, r.sweep) \in Vectors
  BY PlusType DEF Resolutions, Places
<1>2. MoveFreely(r) \in Resolutions
  BY <1>1, ZeroType DEF Resolutions, Places, MoveFreely
<1>3. \A a \in Axes : Zero[a] = 0
  BY DEF Axes, Zero
<1> QED BY <1>2, <1>3 DEF Resolutions, MoveFreely, Follows

LEMMA StruckFollows ==
    ASSUME NEW r \in Resolutions, NEW b, b.id \in Bodies, NEW a \in Axes
    PROVE /\ Follows(r, Struck(r, b, a))
          /\ Struck(r, b, a).sweep[a] = 0
          /\ Struck(r, b, a).done = r.done
<1> DEFINE s == Struck(r, b, a)
<1>1. [r.velocity EXCEPT ![a] = 0] \in Vectors /\ [r.sweep EXCEPT ![a] = 0] \in Vectors
  BY UpdatedAxis DEF Resolutions
<1>2. s.velocity = [r.velocity EXCEPT ![a] = 0] /\ s.sweep = [r.sweep EXCEPT ![a] = 0]
  BY DEF Resolutions, Struck
<1>3. s \in Resolutions /\ s.done = r.done
  BY <1>1 DEF Resolutions, Struck, Ids
<1>4. s.velocity.y = r.velocity.y \/ s.velocity.y = 0
  <2>1. "y" \in Axes
    BY DEF Axes
  <2> QED BY <1>2, <2>1, UpdatedAxis DEF Resolutions
<1>5. s.sweep[a] = 0 /\ \A c \in Axes : r.sweep[c] = 0 => s.sweep[c] = 0
  BY <1>2, UpdatedAxis DEF Resolutions
<1> QED BY <1>3, <1>4, <1>5 DEF Follows

LEMMA MoveToFollows ==
    ASSUME NEW r \in Resolutions, NEW t \in Int
    PROVE Follows(r, MoveTo(r, t)) /\ MoveTo(r, t).done = r.done
<1> DEFINE w == Whole(r.sweep)
           moved == Parts(Times(r.sweep, t), w)
           s == MoveTo(r, t)
<1>1. w \in Nat \ {0} /\ moved \in Vectors
  BY WholeType, TimesType, PartsType DEF Resolutions
<1>2. Plus(r.box.at, moved) \in Vectors /\ Plus(r.sweep, Times(moved, -1)) \in Vectors
  BY <1>1, PlusType, TimesType DEF Resolutions, Places
<1>3. s \in Resolutions /\ s.velocity = r.velocity /\ s.done = r.done
  BY <1>2 DEF Resolutions, Places, MoveTo
<1>4. s.sweep = Plus(r.sweep, Times(moved, -1))
  BY DEF Resolutions, MoveTo
<1>5. ASSUME NEW a \in Axes, r.sweep[a] = 0 PROVE s.sweep[a] = 0
  <2>1. \A n \in Nat \ {0} : 0 \div n = 0
    BY SMT
  <2>2. 0 * t = 0
    BY SMT
  <2>3. moved[a] = 0
    BY <1>1, <1>5, <2>1, <2>2 DEF Axes, Parts, Times
  <2> QED BY <1>4, <1>5, <2>3 DEF Axes, Plus, Times
<1> QED BY <1>3, <1>5 DEF Follows

LEMMA PushedOutFollows ==
    ASSUME NEW r \in Resolutions, NEW b, BoxOK(b), NEW a \in Axes
    PROVE /\ Follows(r, PushedOut(r, b, a))
          /\ PushedOut(r, b, a).sweep = r.sweep
          /\ PushedOut(r, b, a).done = r.done
<1> DEFINE overlap == Overlap(r.box, b, a)
           way == IF 2 * Low(r.box, a) + r.box.size[a] < 2 * Low(b, a) + b.size[a]
                  THEN -1 ELSE 1
           n == r.box.at[a] + way * (overlap + Bias * r.scale)
<1>1. /\ r.box.at[a] \in Int /\ r.box.size[a] \in Int
      /\ b.at[a] \in Int /\ b.size[a] \in Int
  BY VectorAt DEF Resolutions, Places, BoxOK
<1>2. overlap \in Int
  BY <1>1 DEF Overlap, Low, High
<1>3. n \in Int
  BY <1>1, <1>2, CollisionAssumption DEF Resolutions
<1>4. [r.box.at EXCEPT ![a] = n] \in Vectors
  BY <1>3, UpdatedAxis DEF Resolutions, Places
<1>5. [r EXCEPT !.box.at[a] = n] \in Resolutions
  BY <1>4 DEF Resolutions, Places
<1>6. PushedOut(r, b, a) = r \/ PushedOut(r, b, a) = [r EXCEPT !.box.at[a] = n]
  BY DEF PushedOut, Resolutions, Places
<1> QED BY <1>5, <1>6 DEF Follows, Resolutions

LEMMA HitAxisMoves ==
    ASSUME NEW r \in Resolutions, NEW b
    PROVE /\ HitAxis(r.box, r.sweep, b) \in Axes
          /\ r.sweep # Zero => r.sweep[HitAxis(r.box, r.sweep, b)] # 0
<1> DEFINE a == HitAxis(r.box, r.sweep, b)
<1>1. a \in Axes
  BY DEF HitAxis, Axes
<1>2. ASSUME r.sweep # Zero, r.sweep["x"] = 0 PROVE r.sweep[a] # 0
  <2>1. r.sweep["y"] # 0
    BY <1>2, ZeroFromAxes DEF Resolutions, Axes
  <2>2. Moving(r.sweep) = {"y"}
    BY <1>2, <2>1 DEF Moving, Axes
  <2>3. ~HitsSide(r.box, r.sweep, b)
    BY <2>2 DEF HitsSide, Axes
  <2> QED BY <2>1, <2>3 DEF HitAxis
<1>3. ASSUME r.sweep["x"] # 0, r.sweep["y"] = 0 PROVE r.sweep[a] # 0
  <2>1. Moving(r.sweep) = {"x"}
    BY <1>3 DEF Moving, Axes
  <2> QED BY <1>3, <2>1 DEF HitAxis, HitsSide
<1> QED BY <1>1, <1>2, <1>3 DEF Axes

LEMMA HitTimeType ==
    ASSUME NEW r \in Resolutions, NEW b, BoxOK(b)
    PROVE HitTime(r.box, r.sweep, b) \in Int
<1>1. ASSUME NEW a \in Axes PROVE Entry(r.box, r.sweep, b, a) \in Int
  BY EntryType DEF Resolutions, Places, BoxOK, Placed
<1> QED BY <1>1, HitAxisMoves DEF HitTime

LEMMA HitFollows ==
    ASSUME NEW r \in Resolutions, NEW b, BoxOK(b)
    PROVE /\ Follows(r, Hit(r, b))
          /\ Hit(r, b).sweep[HitAxis(r.box, r.sweep, b)] = 0
          /\ Hit(r, b).done = r.done
<1> DEFINE a == HitAxis(r.box, r.sweep, b)
           t == HitTime(r.box, r.sweep, b)
<1>1. a \in Axes /\ t \in Int /\ b.id \in Bodies
  BY HitAxisMoves, HitTimeType DEF BoxOK
<1>2. CASE t > 0
  <2> DEFINE m == MoveTo(r, t)
  <2>1. Follows(r, m) /\ m.done = r.done
    BY <1>1, MoveToFollows
  <2>2. Follows(m, Struck(m, b, a)) /\ Struck(m, b, a).sweep[a] = 0
        /\ Struck(m, b, a).done = m.done
    BY <1>1, <2>1, StruckFollows DEF Follows
  <2>3. Hit(r, b) = Struck(m, b, a)
    BY <1>2 DEF Hit
  <2> QED BY <2>1, <2>2, <2>3 DEF Follows
<1>3. CASE ~(t > 0)
  <2> DEFINE m == Struck(r, b, a)
  <2>1. Follows(r, m) /\ m.sweep[a] = 0 /\ m.done = r.done
    BY <1>1, StruckFollows
  <2>2. Follows(m, PushedOut(m, b, a)) /\ PushedOut(m, b, a).sweep = m.sweep
        /\ PushedOut(m, b, a).done = m.done
    BY <1>1, <2>1, PushedOutFollows DEF Follows
  <2>3. Hit(r, b) = PushedOut(m, b, a)
    BY <1>3 DEF Hit
  <2> QED BY <2>1, <2>2, <2>3 DEF Follows
<1> QED BY <1>2, <1>3

-----------------------------------------------------------------------------
(***************************************************************************)
(* There is a nearest hit: of the sets of hits before a hit, one is        *)
(* minimal, and it has to be empty.                                        *)
(***************************************************************************)
LEMMA NearestIsHit ==
    ASSUME NEW r \in Resolutions, NEW hits, IsFiniteSet(hits), hits # {},
           \A b \in hits : BoxOK(b)
    PROVE Nearest(r, hits) \in hits /\ \A c \in hits : Earlier(r, Nearest(r, hits), c)
<1> DEFINE T(b) == HitTime(r.box, r.sweep, b)
           Before(b) == {c \in hits : ~Earlier(r, b, c)}
           Befores == {Before(b) : b \in hits}
           Inclusion == StrictSubsetOrdering(hits)
<1>1. \A b \in hits : T(b) \in Int /\ b.id \in Int
  <2>1. Bodies \subseteq Int
    BY LevelAssumption DEF Bodies
  <2> QED BY <2>1, HitTimeType DEF BoxOK
<1>2. \A b, c \in hits : Earlier(r, b, c) <=> (T(b) < T(c) \/ (T(b) = T(c) /\ b.id <= c.id))
  BY DEF Earlier
<1>3. Befores \subseteq SUBSET hits /\ Befores # {}
  OBVIOUS
<1>4. FiniteSubsetsOf(hits) = SUBSET hits
  BY FS_FiniteSubsetsOfFinite
<1>5. PICK m \in Befores : \A n \in Befores : ~(<<n, m>> \in Inclusion)
  <2>1. IsWellFoundedOn(Inclusion, SUBSET hits)
    BY <1>4, FS_StrictSubsetOrderingWellFounded
  <2> HIDE DEF Befores, Inclusion
  <2> QED BY <1>3, <2>1, WFMin
<1>6. PICK b \in hits : m = Before(b)
  OBVIOUS
<1>7. ASSUME NEW c \in Before(b) PROVE FALSE
  <2>1. c \in hits /\ ~Earlier(r, b, c)
    OBVIOUS
  <2>2. Earlier(r, c, c)
    BY <1>1, <1>2, <2>1
  <2>3. \A d \in Before(c) : d \in Before(b)
    BY <1>1, <1>2, <2>1
  <2>4. c \in Before(b) /\ c \notin Before(c)
    BY <2>2
  <2>5. <<Before(c), Before(b)>> \in Inclusion
    BY <2>3, <2>4 DEF StrictSubsetOrdering
  <2> QED BY <1>5, <1>6, <2>1, <2>5
<1>8. \A c \in hits : Earlier(r, b, c)
  BY <1>7
<1> QED BY <1>8 DEF Nearest

LEMMA ImageFinite ==
    ASSUME NEW S, IsFiniteSet(S), NEW f, DOMAIN f = S
    PROVE IsFiniteSet({f[x] : x \in S})
<1> DEFINE T == {f[x] : x \in S}
<1>1. [x \in S |-> f[x]] \in Surjection(S, T)
  BY DEF Surjection
<1> QED BY <1>1, FS_Surjection

BoxesOK(boxes) == IsFiniteSet(boxes) /\ \A b \in boxes : BoxOK(b)

LEMMA IterateFollows ==
    ASSUME NEW r \in Resolutions, NEW boxes, BoxesOK(boxes), r.done => r.sweep = Zero
    PROVE LET s == Iterate(r, boxes) IN
          /\ Follows(r, s)
          /\ s.done => s.sweep = Zero
          /\ r.sweep # Zero => \E a \in Axes : r.sweep[a] # 0 /\ s.sweep[a] = 0
<1> DEFINE met == Met(r, boxes)
           hits == Hits(r, met)
           d == Drop(r, met)
           s == Iterate(r, boxes)
<1>0. s = IF r.done THEN r ELSE IF hits = {} THEN MoveFreely(d)
          ELSE Hit(d, Nearest(r, hits))
  BY DEF Iterate
<1> HIDE DEF met, hits, d, s
<1>1. CASE r.done
  <2>1. s = r
    BY <1>0, <1>1
  <2> QED BY <1>1, <2>1 DEF Follows, s
<1>2. /\ Follows(r, d) /\ d.sweep = r.sweep /\ d.done = r.done /\ d.box = r.box
      /\ d \in Resolutions
  BY DropFollows DEF Follows, d
<1>3. CASE ~r.done /\ hits = {}
  <2>1. s = MoveFreely(d)
    BY <1>0, <1>3
  <2>2. Follows(d, s) /\ s.sweep = Zero
    BY <1>2, <2>1, MoveFreelyFollows
  <2>3. r.sweep # Zero => \E a \in Axes : r.sweep[a] # 0 /\ s.sweep[a] = 0
    <3>1. \A a \in Axes : Zero[a] = 0
      BY DEF Axes, Zero
    <3> QED BY <2>2, <3>1, ZeroFromAxes DEF Resolutions
  <2> QED BY <1>2, <2>2, <2>3 DEF Follows, s
<1>4. CASE ~r.done /\ hits # {}
  <2> DEFINE b == Nearest(r, hits)
             a == HitAxis(r.box, r.sweep, b)
  <2>1. hits \subseteq boxes
    BY DEF Hits, Met, hits, met
  <2>2. BoxOK(b)
    BY <1>4, <2>1, FS_Subset, NearestIsHit DEF BoxesOK
  <2>3. s = Hit(d, b)
    BY <1>0, <1>4
  <2>4. Follows(d, s) /\ s.sweep[a] = 0 /\ ~s.done
    BY <1>2, <1>4, <2>2, <2>3, HitFollows
  <2>5. a \in Axes /\ (r.sweep # Zero => r.sweep[a] # 0)
    BY HitAxisMoves
  <2> QED BY <1>2, <2>4, <2>5 DEF Follows, s
<1> QED BY <1>1, <1>3, <1>4

-----------------------------------------------------------------------------
(***************************************************************************)
(* The whole resolution.  The second iteration leaves nothing to sweep:    *)
(* each of the two ends an axis, or the movement.                          *)
(***************************************************************************)
Players ==
    [at : Vectors, size : Vectors, velocity : Vectors, ground : Ids, trying : BOOLEAN]

Resolved(r, s) ==
    /\ s \in Resolutions
    /\ s.sweep = Zero
    /\ s.velocity.y = r.velocity.y \/ s.velocity.y = 0

LEMMA IteratedResolves ==
    ASSUME NEW r \in Resolutions, NEW boxes, BoxesOK(boxes), ~r.done
    PROVE Resolved(r, Iterated(r, boxes))
<1> DEFINE r1 == Iterate(r, boxes)
           r2 == Iterate(r1, boxes)
           r3 == Iterate(r2, boxes)
           r4 == Iterate(r3, boxes)
           r5 == Iterate(r4, boxes)
<1>1. /\ Follows(r, r1) /\ (r1.done => r1.sweep = Zero)
      /\ r.sweep # Zero => \E a \in Axes : r.sweep[a] # 0 /\ r1.sweep[a] = 0
  BY IterateFollows
<1>2. /\ Follows(r1, r2) /\ (r2.done => r2.sweep = Zero)
      /\ r1.sweep # Zero => \E a \in Axes : r1.sweep[a] # 0 /\ r2.sweep[a] = 0
  <2> HIDE DEF r1
  <2> QED BY <1>1, IterateFollows DEF Follows
<1>3. r2.sweep = Zero
  <2>1. \A a \in Axes : Zero[a] = 0
    BY DEF Axes, Zero
  <2>2. \A a \in Axes : r.sweep[a] = 0 => r1.sweep[a] = 0
    BY <1>1 DEF Follows
  <2>3. \A a \in Axes : r1.sweep[a] = 0 => r2.sweep[a] = 0
    BY <1>2 DEF Follows
  <2>4. \A a \in Axes : r2.sweep[a] = 0
    <3> HIDE DEF r1, r2
    <3>1. CASE r.sweep = Zero
      BY <2>1, <2>2, <2>3, <3>1
    <3>2. CASE r1.sweep = Zero
      BY <2>1, <2>3, <3>2
    <3>3. CASE r.sweep # Zero /\ r1.sweep # Zero
      BY <1>1, <1>2, <2>2, <2>3, <3>3 DEF Axes
    <3> QED BY <3>1, <3>2, <3>3
  <2> HIDE DEF r2
  <2> QED BY <1>2, <2>4, ZeroFromAxes DEF Follows, Resolutions
<1>4. ASSUME NEW s, Resolved(r, s) PROVE Resolved(r, Iterate(s, boxes))
  <2>1. Follows(s, Iterate(s, boxes))
    BY <1>4, IterateFollows DEF Resolved
  <2>2. \A a \in Axes : Iterate(s, boxes).sweep[a] = 0
    BY <1>4, <2>1 DEF Resolved, Follows, Axes, Zero
  <2>3. Iterate(s, boxes).sweep = Zero
    BY <2>1, <2>2, ZeroFromAxes DEF Follows, Resolutions
  <2> QED BY <1>4, <2>1, <2>3 DEF Resolved, Follows
<1>5. Resolved(r, r2)
  <2> HIDE DEF r1, r2
  <2> QED BY <1>1, <1>2, <1>3 DEF Resolved, Follows
<1>6. Resolved(r, r5)
  <2> HIDE DEF r2
  <2> QED BY <1>4, <1>5
<1> QED BY <1>6 DEF Iterated

\* A resolution begins with all lengths at its scale.
LEMMA EnlargedOK ==
    ASSUME NEW boxes, BoxesOK(boxes), NEW k \in Nat \ {0}
    PROVE BoxesOK({Enlarged(b, k) : b \in boxes})
<1> DEFINE bs == {Enlarged(b, k) : b \in boxes}
<1>1. IsFiniteSet(bs)
  <2> DEFINE f == [b \in boxes |-> Enlarged(b, k)]
  <2>1. bs = {f[b] : b \in boxes}
    OBVIOUS
  <2> HIDE DEF bs
  <2> QED BY <2>1, ImageFinite DEF BoxesOK
<1>2. ASSUME NEW b \in boxes PROVE BoxOK(Enlarged(b, k))
  <2>1. BoxOK(b)
    BY DEF BoxesOK
  <2>2. Times(b.at, k) \in Vectors /\ Times(b.size, k) \in Vectors
    BY <2>1, TimesType DEF BoxOK
  <2> QED BY <2>1, <2>2 DEF BoxOK, Enlarged
<1> QED BY <1>1, <1>2 DEF BoxesOK

LEMMA BeginType ==
    ASSUME NEW player \in Players, NEW k \in Nat \ {0}
    PROVE /\ Begin(player, k) \in Resolutions
          /\ ~Begin(player, k).done
          /\ Begin(player, k).velocity = player.velocity
<1>1. /\ Times(player.at, k) \in Vectors
      /\ Times(player.size, k) \in Vectors
      /\ Times(player.velocity, k) \in Vectors
  BY TimesType DEF Players
<1> QED BY <1>1 DEF Players, Begin, Resolutions, Places, Ids

LEMMA ResolveResolves ==
    ASSUME NEW player \in Players, NEW boxes, BoxesOK(boxes)
    PROVE Resolved(player, Resolve(player, boxes))
<1> DEFINE k == Whole(player.velocity)
           bs == {Enlarged(b, k) : b \in boxes}
           r0 == Begin(player, k)
           r == Iterated(r0, bs)
<1>1. k \in Nat \ {0}
  BY WholeType DEF Players
<1>2. BoxesOK(bs)
  BY <1>1, EnlargedOK
<1>3. r0 \in Resolutions /\ ~r0.done /\ r0.velocity = player.velocity
  BY <1>1, BeginType
<1>4. Resolved(r0, r)
  <2> HIDE DEF r0, bs
  <2> QED BY <1>2, <1>3, IteratedResolves
<1>5. Parts(r.box.at, k) \in Vectors
  BY <1>1, <1>4, PartsType DEF Resolved, Resolutions, Places
<1>6. Resolve(player, boxes) = [r EXCEPT !.box.at = Parts(r.box.at, k)]
  BY DEF Resolve
<1> HIDE DEF k, bs, r0, r
<1> QED BY <1>3, <1>4, <1>5, <1>6 DEF Resolved, Resolutions, Places

-----------------------------------------------------------------------------
(***************************************************************************)
(* The update of the player.                                               *)
(***************************************************************************)
LEMMA BodyType ==
    ASSUME NEW p \in Bodies
    PROVE /\ Level[p].at \in Vectors
          /\ Level[p].size \in Vectors
          /\ Level[p].surface \in Vectors
          /\ Level[p].path \in [Phases -> Vectors]
          /\ Level[p].kind \in Kinds
<1> DEFINE Records == [kind : Kinds, at : Vectors, size : Vectors, surface : Vectors,
                       path : [Phases -> Vectors]]
<1>1. Level \in Seq(Records)
  BY LevelAssumption
<1>2. Level[p] \in Records
  <2> HIDE DEF Records
  <2> QED BY <1>1 DEF Bodies
<1> QED BY <1>2

LEMMA PlaceType == ASSUME NEW p \in Bodies, NEW f \in Phases PROVE Place(p, f) \in Vectors
<1>1. Level[p].at \in Vectors /\ Level[p].path[f] \in Vectors
  BY BodyType
<1> QED BY <1>1, PlusType DEF Place

LEMMA PhaseType == ASSUME phase \in Phases PROVE NextPhase \in Phases /\ 0 \in Phases
<1>1. Cycle \in Nat \ {0} /\ phase \in Int
  BY LevelAssumption DEF Phases
<1>2. (phase + 1) % Cycle \in 0 .. Cycle - 1
  BY <1>1
<1> QED BY <1>1, <1>2 DEF NextPhase, Phases

LEMMA LevelBoxesOK == ASSUME NEW f \in Phases, NEW g PROVE BoxesOK(Boxes(f, g))
<1>1. \A p \in Bodies : BoxOK(Box(p, f, g))
  BY BodyType, PlaceType DEF BoxOK, Box
<1>2. IsFiniteSet(Bodies)
  <2>1. Len(Level) \in Nat /\ Bodies = 1 .. Len(Level)
    BY LevelAssumption DEF Bodies
  <2> QED BY <2>1, FS_Interval
<1>3. IsFiniteSet(Boxes(f, g))
  <2> DEFINE m == [p \in Bodies |-> Box(p, f, g)]
  <2>1. Boxes(f, g) = {m[p] : p \in Bodies} /\ DOMAIN m = Bodies
    BY DEF Boxes
  <2> HIDE DEF m
  <2> QED BY <1>2, <2>1, ImageFinite
<1> QED BY <1>1, <1>3 DEF BoxesOK, Boxes

LEMMA VerticalSpeedType ==
    ASSUME TypeOK, NEW k, NEW g PROVE VerticalSpeed(k, g) \in Int
BY SpeedAssumption DEF TypeOK, Vectors, VerticalSpeed, Fallen

LEMMA WantedType == ASSUME TypeOK, NEW k, NEW g PROVE Wanted(k, g) \in Vectors
<1>1. Direction(k) \in Int /\ Turbo(k) \in Int /\ MoveSpeed \in Int
  BY SpeedAssumption DEF Direction, Turbo
<1>2. \A m, n \in Int : m * n \in Int
  BY SMT
<1>3. Direction(k) * Turbo(k) * MoveSpeed \in Int
  BY <1>1, <1>2
<1> QED BY <1>3, VerticalSpeedType DEF Wanted, Vectors

\* Every resolution an update may need ends with all of the movement made.
LEMMA ResolutionResolves ==
    ASSUME TypeOK, NEW k, NEW g
    PROVE LET r == Resolution(k, g) IN
          /\ r \in Resolutions
          /\ r.sweep = Zero
          /\ r.velocity.y = VerticalSpeed(k, g) \/ r.velocity.y = 0
<1> DEFINE player == [at |-> position, size |-> Size, velocity |-> Wanted(k, g),
                      ground |-> IF ground \in g THEN NoBody ELSE ground,
                      trying |-> "drop" \in k /\ onGround]
<1>1. player \in Players
  BY WantedType, LevelAssumption DEF TypeOK, Players, Ids
<1>2. BoxesOK(Boxes(NextPhase, g))
  BY PhaseType, LevelBoxesOK DEF TypeOK
<1>3. Resolution(k, g) = Resolve(player, Boxes(NextPhase, g))
  BY DEF Resolution
<1>4. player.velocity.y = VerticalSpeed(k, g)
  BY DEF Wanted
<1> HIDE DEF player
<1> QED BY <1>1, <1>2, <1>3, <1>4, ResolveResolves DEF Resolved

\* The one thing an update may make of the vertical velocity that collisions left.
LEMMA BodyMoves ==
    ASSUME TypeOK, NEW k \in KeySets, NEW g \in SUBSET Vanishing,
           MovesBody(Resolution(k, g), k)
    PROVE /\ position' \in Vectors
          /\ velocity' \in Vectors
          /\ onGround' \in BOOLEAN
          /\ ground' \in Bodies \cup {NoBody}
          /\ hold' \in 0 .. HoldUpdates
          /\ velocity'.y \in {0, -SpringSpeed, VerticalSpeed(k, g)}
<1> DEFINE r == Resolution(k, g)
<1>1. /\ r \in Resolutions
      /\ r.velocity.y = VerticalSpeed(k, g) \/ r.velocity.y = 0
  BY ResolutionResolves
<1>2. ASSUME NEW kind, LandedOn(r, kind) PROVE r.ground \in Bodies
  BY <1>1, <1>2 DEF LandedOn, Resolutions, Ids
<1>3. Carried(r) \in Vectors
  <2>1. CASE LandedOn(r, "conveyorBelt")
    BY <1>2, <2>1, BodyType DEF Carried
  <2>2. CASE LandedOn(r, "moving")
    <3>1. Place(r.ground, NextPhase) \in Vectors /\ Place(r.ground, phase) \in Vectors
      BY <1>2, <2>2, PhaseType, PlaceType DEF TypeOK
    <3>2. Displacement(r.ground) \in Vectors
      BY <3>1, PlusType, TimesType DEF Displacement
    <3> QED BY <1>2, <2>2, <3>2, BodyType DEF Carried
  <2> QED BY <2>1, <2>2, ZeroType DEF Carried
<1>4. position' \in Vectors
  BY <1>1, <1>3, PlusType DEF MovesBody, Resolutions, Places
<1>5. Bounced(r) \in {0, -SpringSpeed, VerticalSpeed(k, g)} /\ Bounced(r) \in Int
  BY <1>1, VerticalSpeedType, SpeedAssumption DEF Bounced
<1>6. velocity' = [r.velocity EXCEPT !.y = IF StopsAtCeiling(r) THEN 0 ELSE Bounced(r)]
  BY DEF MovesBody
<1>7. velocity' \in Vectors /\ velocity'.y \in {0, -SpringSpeed, VerticalSpeed(k, g)}
  <2>1. r.velocity \in Vectors
    BY <1>1 DEF Resolutions
  <2> HIDE DEF r
  <2> QED BY <1>5, <1>6, <2>1 DEF Vectors
<1>8. Held(k) \in 0 .. HoldUpdates
  BY SpeedAssumption DEF TypeOK, Held, ExtendsJump
<1>9. onGround' \in BOOLEAN /\ ground' \in Bodies \cup {NoBody} /\ hold' \in 0 .. HoldUpdates
  <2> HIDE DEF r
  <2> QED BY <1>1, <1>8, SpeedAssumption DEF MovesBody, Resolutions, Ids, r
<1> QED BY <1>4, <1>7, <1>9

-----------------------------------------------------------------------------
(***************************************************************************)
(* The theorems.                                                           *)
(***************************************************************************)
LEMMA InitTypeOK == Init => TypeOK
<1>1. 0 \in Phases /\ 0 \in 0 .. HoldUpdates
  BY LevelAssumption, SpeedAssumption DEF Phases
<1> QED BY <1>1, ZeroType, LevelAssumption DEF Init, TypeOK

LEMMA NextTypeOK == TypeOK /\ [Next]_vars => TypeOK'
<1> SUFFICES ASSUME TypeOK, [Next]_vars PROVE TypeOK'
  OBVIOUS
<1>1. CASE Update
  <2>1. PICK k \in KeySets, g \in SUBSET Vanishing :
          /\ keys' = k
          /\ gone' = g
          /\ phase' = NextPhase
          /\ MovesBody(Resolution(k, g), k)
          /\ screen' = Outcome(position', Boxes(NextPhase, g))
    BY <1>1 DEF Update
  <2>2. keys' \in SUBSET Keys /\ gone' \in SUBSET Vanishing /\ phase' \in Phases
    BY <2>1, PhaseType, LevelAssumption DEF TypeOK
  <2>3. screen' \in {"PLAYING", "TRANSITIONING"} \cup Deaths
    BY <2>1 DEF Outcome, Deaths
  <2>4. /\ position' \in Vectors /\ velocity' \in Vectors /\ onGround' \in BOOLEAN
        /\ ground' \in Bodies \cup {NoBody} /\ hold' \in 0 .. HoldUpdates
    BY <2>1, BodyMoves
  <2> QED BY <2>2, <2>3, <2>4 DEF TypeOK, Vanishing
<1>2. CASE Leave
  BY <1>2 DEF TypeOK, Leave, bodyVars, Vanishing
<1>3. CASE Enter
  <2>1. 0 \in Phases
    BY PhaseType DEF TypeOK
  <2> QED BY <1>3, <2>1, ZeroType, LevelAssumption DEF TypeOK, Enter, Vanishing
<1>4. CASE UNCHANGED vars
  BY <1>4 DEF TypeOK, vars, bodyVars, Vanishing
<1> QED BY <1>1, <1>2, <1>3, <1>4 DEF Next

\* Every variable keeps its type; the time a jump is held stays bounded.
THEOREM PlayerTypeCorrect == Spec => []TypeOK
<1> QED BY InitTypeOK, NextTypeOK, PTL DEF Spec

\* The five iterations of resolveCollisions are enough in every level and at every
\* speed: two already make all of the movement, so that the rest only pushes.
THEOREM MovementIsNeverLost == Spec => []NothingLost
<1>1. TypeOK => NothingLost
  BY ResolutionResolves DEF NothingLost
<1> QED BY <1>1, PlayerTypeCorrect, PTL

\* However a level is built, the player starts to rise only from the ground or off a
\* spring.
THEOREM RisesFromTheGround == Spec => NoMidAirJump
<1> DEFINE Rises == (velocity'.y < 0 /\ velocity.y >= 0) =>
                      \/ onGround /\ "jump" \in keys'
                      \/ velocity'.y = -SpringSpeed
<1>1. ASSUME TypeOK, [Next]_vars, velocity'.y < 0, velocity.y >= 0
      PROVE (onGround /\ "jump" \in keys') \/ velocity'.y = -SpringSpeed
  <2>1. CASE Update
    <3>1. PICK k \in KeySets, g \in SUBSET Vanishing :
            keys' = k /\ MovesBody(Resolution(k, g), k)
      BY <2>1 DEF Update
    <3>2. velocity'.y \in {0, -SpringSpeed, VerticalSpeed(k, g)}
      BY <1>1, <3>1, BodyMoves
    <3>3. CASE NewJumpPress(k)
      BY <3>1, <3>3 DEF NewJumpPress
    <3>4. CASE ~NewJumpPress(k)
      <4>1. velocity.y \in Int
        BY <1>1 DEF TypeOK, Vectors
      <4>2. VerticalSpeed(k, g) >= 0
        BY <1>1, <3>4, <4>1, SpeedAssumption DEF VerticalSpeed, LiftsOn, Fallen
      <4> QED BY <1>1, <3>2, <4>2, VerticalSpeedType
    <3> QED BY <3>3, <3>4
  <2>2. CASE Leave
    BY <1>1, <2>2 DEF Leave, bodyVars, TypeOK, Vectors
  <2>3. CASE Enter
    BY <1>1, <2>3 DEF Enter, Zero
  <2>4. CASE UNCHANGED vars
    BY <1>1, <2>4 DEF vars, bodyVars, TypeOK, Vectors
  <2> QED BY <1>1, <2>1, <2>2, <2>3, <2>4 DEF Next
<1>2. TypeOK /\ [Next]_vars => [Rises]_vars
  BY <1>1
<1> QED BY <1>2, PlayerTypeCorrect, PTL DEF Spec, NoMidAirJump
=============================================================================
