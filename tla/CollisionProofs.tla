-------------------------- MODULE CollisionProofs --------------------------
(***************************************************************************)
(* Proofs about the swept test of CollisionSystem, for every body, box and *)
(* sweep: what it finds, and where the movement to a hit ends.             *)
(***************************************************************************)
EXTENDS CollisionSystem, TLAPS

-----------------------------------------------------------------------------
(***************************************************************************)
(* Vectors.                                                                *)
(***************************************************************************)
LEMMA PlusType == ASSUME NEW v \in Vectors, NEW w \in Vectors PROVE Plus(v, w) \in Vectors
BY DEF Vectors, Plus

LEMMA TimesType == ASSUME NEW v \in Vectors, NEW k \in Int PROVE Times(v, k) \in Vectors
BY DEF Vectors, Times

LEMMA PartsType ==
    ASSUME NEW v \in Vectors, NEW k \in Nat \ {0} PROVE Parts(v, k) \in Vectors
BY DEF Vectors, Parts

LEMMA ZeroType == Zero \in Vectors
BY DEF Vectors, Zero

LEMMA VectorAt == ASSUME NEW v \in Vectors, NEW a \in Axes PROVE v[a] \in Int
BY DEF Vectors, Axes

LEMMA VectorSums ==
    ASSUME NEW v \in Vectors, NEW w \in Vectors, NEW k \in Int, NEW a \in Axes
    PROVE /\ Plus(v, w)[a] = v[a] + w[a]
          /\ Times(v, k)[a] = v[a] * k
          /\ Parts(v, k)[a] = v[a] \div k
          /\ Zero[a] = 0
BY DEF Vectors, Axes, Plus, Times, Parts, Zero

LEMMA SameVector ==
    ASSUME NEW v \in Vectors, NEW w \in Vectors, \A a \in Axes : v[a] = w[a] PROVE v = w
BY DEF Vectors, Axes

LEMMA ZeroFromAxes ==
    ASSUME NEW v \in Vectors, \A a \in Axes : v[a] = 0 PROVE v = Zero
BY DEF Vectors, Axes, Zero

LEMMA UpdatedAxis ==
    ASSUME NEW v \in Vectors, NEW a \in Axes, NEW n \in Int
    PROVE /\ [v EXCEPT ![a] = n] \in Vectors
          /\ [v EXCEPT ![a] = n][a] = n
          /\ \A c \in Axes : c # a => [v EXCEPT ![a] = n][c] = v[c]
<1>1. CASE a = "x"
  BY <1>1 DEF Vectors, Axes
<1>2. CASE a = "y"
  BY <1>2 DEF Vectors, Axes
<1> QED BY <1>1, <1>2 DEF Axes

LEMMA OtherAxis ==
    ASSUME NEW a \in Axes
    PROVE /\ Other(a) \in Axes
          /\ Other(a) # a
          /\ \A c \in Axes : c = a \/ c = Other(a)
          /\ Other(Other(a)) = a
BY DEF Axes, Other

-----------------------------------------------------------------------------
(***************************************************************************)
(* Arithmetic of fractions.                                                *)
(***************************************************************************)
LEMMA ProductType == \A m, n \in Int : m * n \in Int
BY SMT

LEMMA ProductNat == \A m, n \in Nat \ {0} : m * n \in Nat \ {0}
BY SMT

LEMMA ProductOrder ==
    ASSUME NEW k \in Nat \ {0}, NEW m \in Int, NEW n \in Int
    PROVE /\ k * m < k * n <=> m < n
          /\ k * m <= k * n <=> m <= n
          /\ k * m = k * n <=> m = n
          /\ k * m > 0 <=> m > 0
          /\ k * m >= 0 <=> m >= 0
          /\ k * m \in Int
BY SMT

\* One fraction below, another above a third.
LEMMA Between ==
    ASSUME NEW n \in Nat \ {0}, NEW s \in Nat, NEW p \in Nat \ {0}, NEW q \in Nat \ {0},
           NEW e \in Int, NEW f \in Int, n * e < s * p, s * q < n * f
    PROVE q * e < p * f
<1>1. q * (n * e) < q * (s * p)
  BY ProductOrder
<1>2. p * (s * q) < p * (n * f)
  BY ProductOrder
<1>3. n * (q * e) < n * (p * f)
  BY <1>1, <1>2
<1> QED BY <1>3, ProductOrder

LEMMA ExactDivision ==
    ASSUME NEW n \in Nat \ {0}, NEW q \in Int PROVE (n * q) \div n = q
BY SMT

LEMMA LengthFacts ==
    ASSUME NEW n \in Int
    PROVE /\ Length(n) \in Nat \ {0}
          /\ Length(n) \in Int
          /\ n > 0 => Length(n) = n
          /\ n < 0 => Length(n) = -n
          /\ n = 0 => Length(n) = 1
BY DEF Length, Abs

LEMMA WholeType == ASSUME NEW v \in Vectors PROVE Whole(v) \in Nat \ {0}
<1>1. Length(v.x) \in Nat \ {0} /\ Length(v.y) \in Nat \ {0}
  BY LengthFacts DEF Vectors
<1> QED BY <1>1, ProductNat DEF Whole

LEMMA WholeOf ==
    ASSUME NEW v \in Vectors, NEW a \in Axes
    PROVE Whole(v) = Length(v[a]) * Length(v[Other(a)])
<1>1. Length(v.x) \in Int /\ Length(v.y) \in Int
  BY LengthFacts DEF Vectors
<1>2. \A m, n \in Int : m * n = n * m
  BY SMT
<1> QED BY <1>1, <1>2 DEF Whole, Axes, Other, Vectors

-----------------------------------------------------------------------------
(***************************************************************************)
(* Boxes along an axis, when no size is negative.                          *)
(***************************************************************************)
Placed(b) == b.at \in Vectors /\ b.size \in Vectors

Upright(b) == Placed(b) /\ \A a \in Axes : b.size[a] >= 0

LEMMA PlacedEdges ==
    ASSUME NEW b, Placed(b), NEW a \in Axes
    PROVE /\ Low(b, a) \in Int /\ High(b, a) \in Int /\ b.at[a] \in Int /\ b.size[a] \in Int
          /\ Low(b, a) = b.at[a] /\ High(b, a) = b.at[a] + b.size[a]
BY VectorAt DEF Placed, Low, High

LEMMA EntryType ==
    ASSUME NEW body, Placed(body), NEW box, Placed(box), NEW sweep \in Vectors, NEW a \in Axes
    PROVE /\ Gap(body, sweep, box, a) \in Int
          /\ Reach(body, sweep, box, a) \in Int
          /\ Length(sweep[Other(a)]) \in Int
          /\ Entry(body, sweep, box, a) \in Int
          /\ Exit(body, sweep, box, a) \in Int
<1>1. Gap(body, sweep, box, a) \in Int /\ Reach(body, sweep, box, a) \in Int
  BY PlacedEdges DEF Gap, Reach
<1>2. Length(sweep[Other(a)]) \in Int
  BY OtherAxis, VectorAt, LengthFacts
<1> QED BY <1>1, <1>2, ProductType DEF Entry, Exit

LEMMA EdgesType ==
    ASSUME NEW b, Upright(b), NEW a \in Axes
    PROVE /\ Low(b, a) \in Int /\ High(b, a) \in Int /\ b.at[a] \in Int /\ b.size[a] \in Int
          /\ Low(b, a) = b.at[a] /\ High(b, a) = b.at[a] + b.size[a]
          /\ Low(b, a) <= High(b, a)
          /\ Near(b, a) = Low(b, a) /\ Far(b, a) = High(b, a)
BY PlacedEdges DEF Upright, Near, Far

\* Nothing is swapped.
LEMMA GapType ==
    ASSUME NEW body, Upright(body), NEW box, Upright(box), NEW sweep \in Vectors,
           NEW a \in Axes
    PROVE /\ Gap(body, sweep, box, a) \in Int
          /\ Reach(body, sweep, box, a) \in Int
          /\ Gap(body, sweep, box, a) <= Reach(body, sweep, box, a)
          /\ Entry(body, sweep, box, a) = Length(sweep[Other(a)]) * Gap(body, sweep, box, a)
          /\ Exit(body, sweep, box, a) = Length(sweep[Other(a)]) * Reach(body, sweep, box, a)
          /\ Entry(body, sweep, box, a) \in Int
          /\ Exit(body, sweep, box, a) \in Int
<1>1. Gap(body, sweep, box, a) \in Int /\ Reach(body, sweep, box, a) \in Int
      /\ Entry(body, sweep, box, a) \in Int /\ Exit(body, sweep, box, a) \in Int
  BY EntryType DEF Upright
<1>2. Gap(body, sweep, box, a) <= Reach(body, sweep, box, a)
  BY EdgesType DEF Gap, Reach
<1>3. ~Swaps(body, sweep, box, a)
  BY <1>1, <1>2 DEF Swaps
<1> QED BY <1>1, <1>2, <1>3 DEF Entry, Exit

LEMMA SweptEdges ==
    ASSUME NEW body, Upright(body), NEW sweep \in Vectors, NEW a \in Axes
    PROVE /\ Upright(Swept(body, sweep))
          /\ Low(Swept(body, sweep), a) =
                Low(body, a) + (IF sweep[a] < 0 THEN sweep[a] ELSE 0)
          /\ High(Swept(body, sweep), a) =
                High(body, a) + (IF sweep[a] > 0 THEN sweep[a] ELSE 0)
<1> DEFINE back(n) == IF n < 0 THEN n ELSE 0
           u == [x |-> back(sweep.x), y |-> back(sweep.y)]
           w == [x |-> Abs(sweep.x), y |-> Abs(sweep.y)]
<1>1. u \in Vectors /\ w \in Vectors
  BY DEF Vectors, Abs
<1>2. u[a] = back(sweep[a]) /\ w[a] = Abs(sweep[a])
  BY DEF Vectors, Axes
<1>3. Swept(body, sweep) = [at |-> Plus(body.at, u), size |-> Plus(body.size, w)]
  BY DEF Swept
<1>4. Upright(Swept(body, sweep))
  <2>1. Placed(Swept(body, sweep))
    BY <1>1, <1>3, PlusType DEF Upright, Placed
  <2>2. ASSUME NEW c \in Axes PROVE Swept(body, sweep).size[c] >= 0
    <3>1. Swept(body, sweep).size[c] = body.size[c] + Abs(sweep[c])
      BY <1>1, <1>3, <1>2, VectorSums DEF Upright, Placed, Vectors, Axes
    <3> QED BY <3>1, EdgesType, VectorAt DEF Upright, Abs
  <2> QED BY <2>1, <2>2 DEF Upright
<1>5. /\ Low(Swept(body, sweep), a) = body.at[a] + u[a]
      /\ High(Swept(body, sweep), a) = body.at[a] + u[a] + (body.size[a] + w[a])
  <2> HIDE DEF u, w
  <2>1. Plus(body.at, u)[a] = body.at[a] + u[a] /\ Plus(body.size, w)[a] = body.size[a] + w[a]
    BY <1>1, VectorSums DEF Upright, Placed
  <2> QED BY <1>3, <2>1 DEF Low, High
<1>6. /\ sweep[a] \in Int /\ body.at[a] \in Int /\ body.size[a] \in Int
      /\ Low(body, a) = body.at[a] /\ High(body, a) = body.at[a] + body.size[a]
  BY EdgesType, VectorAt
<1>7. /\ u[a] = IF sweep[a] < 0 THEN sweep[a] ELSE 0
      /\ u[a] + w[a] = IF sweep[a] > 0 THEN sweep[a] ELSE 0
      /\ u[a] \in Int /\ w[a] \in Int
  BY <1>2, <1>6 DEF Abs
<1> HIDE DEF u, w
<1> QED BY <1>4, <1>5, <1>6, <1>7

-----------------------------------------------------------------------------
(***************************************************************************)
(* What the swept test finds.                                              *)
(***************************************************************************)
LEMMA MeetsUpright ==
    ASSUME NEW b, Upright(b), NEW c, Upright(c)
    PROVE Meets(b, c) <=> \A a \in Axes : Low(b, a) < High(c, a) /\ Low(c, a) < High(b, a)
BY EdgesType DEF Meets

\* When the body has made s n-ths of its sweep it overlaps the box along an axis ...
MeetsAlong(body, sweep, box, a, s, n) ==
    /\ n * Low(body, a) + s * sweep[a] < n * High(box, a)
    /\ n * Low(box, a) < n * High(body, a) + s * sweep[a]

\* ... and intersects it.
MeetsAt(body, sweep, box, s, n) == \A a \in Axes : MeetsAlong(body, sweep, box, a, s, n)

\* It has then gone further than the gap and less far than it reaches.
LEMMA MeetsBetween ==
    ASSUME NEW body, Upright(body), NEW box, Upright(box), NEW sweep \in Vectors,
           NEW n \in Nat \ {0}, NEW s \in 0 .. n, NEW a \in Moving(sweep),
           MeetsAlong(body, sweep, box, a, s, n)
    PROVE /\ n * Gap(body, sweep, box, a) < s * Length(sweep[a])
          /\ s * Length(sweep[a]) < n * Reach(body, sweep, box, a)
          /\ Reach(body, sweep, box, a) > 0
<1> DEFINE v == sweep[a]
           l == Low(body, a)
           h == High(body, a)
           L == Low(box, a)
           H == High(box, a)
<1>1. a \in Axes /\ v \in Int /\ v # 0 /\ l \in Int /\ h \in Int /\ L \in Int /\ H \in Int
  BY EdgesType, VectorAt DEF Moving
<1>2. n * l + s * v < n * H /\ n * L < n * h + s * v
  BY DEF MeetsAlong
<1>3. Gap(body, sweep, box, a) = IF v > 0 THEN L - h ELSE l - H
  BY DEF Gap
<1>4. Reach(body, sweep, box, a) = IF v > 0 THEN H - l ELSE h - L
  BY DEF Reach
<1>5. Length(v) = IF v > 0 THEN v ELSE -v
  BY <1>1, LengthFacts
<1> HIDE DEF v, l, h, L, H
<1>6. n * (L - h) = n * L - n * h /\ n * (l - H) = n * l - n * H
      /\ n * (H - l) = n * H - n * l /\ n * (h - L) = n * h - n * L
      /\ s * (-v) = -(s * v)
      /\ n * l \in Int /\ n * h \in Int /\ n * L \in Int /\ n * H \in Int /\ s * v \in Int
  BY <1>1
<1>7. /\ n * Gap(body, sweep, box, a) < s * Length(v)
      /\ s * Length(v) < n * Reach(body, sweep, box, a)
  <2>1. CASE v > 0
    BY <1>2, <1>3, <1>4, <1>5, <1>6, <2>1
  <2>2. CASE v < 0
    BY <1>1, <1>2, <1>3, <1>4, <1>5, <1>6, <2>2
  <2> QED BY <1>1, <2>1, <2>2
<1>8. Length(v) \in Nat \ {0} /\ Gap(body, sweep, box, a) \in Int
      /\ Reach(body, sweep, box, a) \in Int
  BY <1>1, LengthFacts, GapType
<1>9. \A m \in Nat \ {0} : s * m <= n * m /\ s * m >= 0 /\ s * m \in Int /\ n * m \in Int
  BY SMT
<1>10. n * Reach(body, sweep, box, a) > 0
  BY <1>7, <1>8, <1>9, ProductOrder
<1>11. Reach(body, sweep, box, a) > 0
  BY <1>8, <1>10, ProductOrder
<1> QED BY <1>7, <1>11 DEF v

LEMMA SweptAlong ==
    ASSUME NEW body, Upright(body), NEW box, Upright(box), NEW sweep \in Vectors,
           NEW n \in Nat \ {0}, NEW s \in 0 .. n, NEW a \in Axes,
           MeetsAlong(body, sweep, box, a, s, n)
    PROVE /\ Low(Swept(body, sweep), a) < High(box, a)
          /\ Low(box, a) < High(Swept(body, sweep), a)
<1> DEFINE v == sweep[a]
           l == Low(body, a)
           h == High(body, a)
           L == Low(box, a)
           H == High(box, a)
           b == IF v < 0 THEN v ELSE 0
           f == IF v > 0 THEN v ELSE 0
<1>1. v \in Int /\ l \in Int /\ h \in Int /\ L \in Int /\ H \in Int
  BY EdgesType, VectorAt
<1>2. n * l + s * v < n * H /\ n * L < n * h + s * v
  BY DEF MeetsAlong
<1>3. Low(Swept(body, sweep), a) = l + b /\ High(Swept(body, sweep), a) = h + f
  BY SweptEdges
<1> HIDE DEF v, l, h, L, H
<1>4. n * b <= s * v /\ s * v <= n * f
  <2>1. CASE v > 0
    <3>1. s * v <= n * v /\ 0 <= s * v
      BY <2>1, <1>1
    <3> QED BY <1>1, <2>1, <3>1
  <2>2. CASE v < 0
    <3>1. \A m \in Nat : s * m <= n * m /\ 0 <= s * m
      BY SMT
    <3>2. -v \in Nat /\ s * (-v) = -(s * v) /\ n * (-v) = -(n * v) /\ s * v \in Int /\ n * v \in Int
      BY <1>1, <2>2
    <3>3. n * v <= s * v /\ s * v <= 0
      BY <3>1, <3>2
    <3> QED BY <1>1, <2>2, <3>3
  <2>3. CASE v = 0
    BY <2>3
  <2> QED BY <1>1, <2>1, <2>2, <2>3
<1>5. b \in Int /\ f \in Int
  BY <1>1
<1> HIDE DEF b, f
<1>6. n * (l + b) = n * l + n * b /\ n * (h + f) = n * h + n * f
  BY <1>1, <1>5
<1>7. n * (l + b) < n * H /\ n * L < n * (h + f)
  <2>1. /\ n * l \in Int /\ n * b \in Int /\ s * v \in Int /\ n * H \in Int /\ n * L \in Int
        /\ n * h \in Int /\ n * f \in Int
    BY <1>1, <1>5, ProductType
  <2> QED BY <1>2, <1>4, <1>6, <2>1
<1>8. l + b < H /\ L < h + f
  BY <1>1, <1>5, <1>7, ProductOrder
<1> QED BY <1>3, <1>8 DEF L, H

\* Multiplying an axis's own gap by the length along the other one puts both axes at
\* the same scale.
LEMMA EntryWithin ==
    ASSUME NEW body, Upright(body), NEW box, Upright(box), NEW sweep \in Vectors,
           NEW n \in Nat \ {0}, NEW s \in 0 .. n, NEW a \in Moving(sweep),
           n * Gap(body, sweep, box, a) < s * Length(sweep[a])
    PROVE /\ Entry(body, sweep, box, a) < Whole(sweep)
          /\ n * Entry(body, sweep, box, a) < s * Whole(sweep)
<1> DEFINE g == Gap(body, sweep, box, a)
           p == Length(sweep[a])
           q == Length(sweep[Other(a)])
<1>1. /\ a \in Axes /\ g \in Int /\ p \in Nat \ {0} /\ q \in Nat \ {0}
      /\ Entry(body, sweep, box, a) = q * g
      /\ Whole(sweep) = p * q
  BY GapType, OtherAxis, VectorAt, LengthFacts, WholeOf DEF Moving
<1> HIDE DEF g, p, q
<1>2. g < p
  <2>1. s * p <= n * p /\ s * p \in Int /\ n * p \in Int /\ n * g \in Int
    BY <1>1
  <2>2. n * g < n * p
    BY <2>1 DEF g, p
  <2> QED BY <1>1, <2>2, ProductOrder
<1>3. q * g < q * p /\ q * (n * g) < q * (s * p)
  <2>1. n * g < s * p
    BY DEF g, p
  <2> QED BY <1>1, <1>2, <2>1, ProductOrder, ProductType
<1>4. q * p = p * q /\ q * (n * g) = n * (q * g) /\ q * (s * p) = s * (p * q)
  BY <1>1
<1> QED BY <1>1, <1>3, <1>4

LEMMA ExitAhead ==
    ASSUME NEW body, Upright(body), NEW box, Upright(box), NEW sweep \in Vectors,
           NEW a \in Axes, Reach(body, sweep, box, a) > 0
    PROVE Exit(body, sweep, box, a) > 0
<1>1. /\ Reach(body, sweep, box, a) \in Int /\ Length(sweep[Other(a)]) \in Nat \ {0}
      /\ Exit(body, sweep, box, a) = Length(sweep[Other(a)]) * Reach(body, sweep, box, a)
  BY GapType, OtherAxis, VectorAt, LengthFacts
<1> QED BY <1>1, ProductOrder

LEMMA EntryBeforeExit ==
    ASSUME NEW body, Upright(body), NEW box, Upright(box), NEW sweep \in Vectors,
           NEW n \in Nat \ {0}, NEW s \in 0 .. n,
           NEW a \in Moving(sweep), n * Gap(body, sweep, box, a) < s * Length(sweep[a]),
           NEW c \in Moving(sweep), s * Length(sweep[c]) < n * Reach(body, sweep, box, c)
    PROVE Entry(body, sweep, box, a) <= Exit(body, sweep, box, c)
<1> DEFINE g == Gap(body, sweep, box, a)
           e == Reach(body, sweep, box, c)
           p == Length(sweep[a])
           q == Length(sweep[c])
<1>1. /\ a \in Axes /\ c \in Axes /\ g \in Int /\ e \in Int
      /\ p \in Nat \ {0} /\ q \in Nat \ {0}
  BY GapType, VectorAt, LengthFacts DEF Moving
<1>2. CASE c = a
  <2> DEFINE o == Length(sweep[Other(a)])
  <2>1. /\ o \in Nat \ {0} /\ g <= e
        /\ Entry(body, sweep, box, a) = o * g /\ Exit(body, sweep, box, c) = o * e
    BY <1>1, <1>2, GapType, OtherAxis, VectorAt, LengthFacts
  <2> HIDE DEF o, g, e
  <2>2. o * g <= o * e
    BY <1>1, <2>1, ProductOrder
  <2> QED BY <2>1, <2>2
<1>3. CASE c = Other(a)
  <2>1. Entry(body, sweep, box, a) = q * g /\ Exit(body, sweep, box, c) = p * e
    BY <1>1, <1>3, GapType, OtherAxis
  <2>2. q * g < p * e
    <3>1. n * g < s * p /\ s * q < n * e
      OBVIOUS
    <3> HIDE DEF g, e, p, q
    <3> QED BY <1>1, <3>1, Between
  <2> QED BY <1>1, <2>1, <2>2, ProductType
<1> QED BY <1>1, <1>2, <1>3, OtherAxis

LEMMA MeetsCollides ==
    ASSUME NEW body, Upright(body), NEW box, Upright(box), NEW sweep \in Vectors,
           NEW n \in Nat \ {0}, NEW s \in 0 .. n, MeetsAt(body, sweep, box, s, n)
    PROVE /\ Meets(Swept(body, sweep), box)
          /\ Collides(body, sweep, box)
<1>1. Meets(Swept(body, sweep), box)
  BY SweptAlong, SweptEdges, MeetsUpright DEF MeetsAt, Axes
<1>2. ASSUME NEW a \in Moving(sweep)
      PROVE /\ n * Gap(body, sweep, box, a) < s * Length(sweep[a])
            /\ s * Length(sweep[a]) < n * Reach(body, sweep, box, a)
            /\ Reach(body, sweep, box, a) > 0
  BY MeetsBetween DEF MeetsAt, Moving
<1>3. ASSUME Moving(sweep) = {}, NEW a \in Axes PROVE Shallower(body, box, a) > 0
  <2>1. sweep[a] = 0
    BY <1>3 DEF Moving
  <2>2. /\ Low(Swept(body, sweep), a) < High(box, a)
        /\ Low(box, a) < High(Swept(body, sweep), a)
    BY <1>1, SweptEdges, MeetsUpright
  <2> QED BY <2>1, <2>2, SweptEdges, EdgesType DEF Shallower
<1>4. ASSUME NEW a \in Moving(sweep)
      PROVE /\ Entry(body, sweep, box, a) < Whole(sweep)
            /\ Exit(body, sweep, box, a) > 0
            /\ \A c \in Moving(sweep) : Entry(body, sweep, box, a) <= Exit(body, sweep, box, c)
  BY <1>2, EntryWithin, ExitAhead, EntryBeforeExit DEF Moving
<1> QED BY <1>1, <1>3, <1>4 DEF Collides

LEMMA HitAxisIsAxis ==
    ASSUME NEW body, NEW sweep, NEW box PROVE HitAxis(body, sweep, box) \in Axes
BY DEF HitAxis, Axes

\* The axis of a hit is one that moves, and the one whose entry is the last.
LEMMA HitTimeIsLastEntry ==
    ASSUME NEW body, Upright(body), NEW box, Upright(box), NEW sweep \in Vectors,
           Moving(sweep) # {}
    PROVE /\ HitAxis(body, sweep, box) \in Moving(sweep)
          /\ HitTime(body, sweep, box) =
                Entry(body, sweep, box, HitAxis(body, sweep, box))
          /\ \A a \in Moving(sweep) :
                Entry(body, sweep, box, a) <= HitTime(body, sweep, box)
<1> DEFINE E(a) == Entry(body, sweep, box, a)
<1>1. E("x") \in Int /\ E("y") \in Int
  BY GapType DEF Axes
<1>2. HitTime(body, sweep, box) = E(HitAxis(body, sweep, box))
  BY DEF HitTime
<1> HIDE DEF E
<1>3. CASE Moving(sweep) = {"x"}
  BY <1>1, <1>2, <1>3 DEF HitAxis, HitsSide, E
<1>4. CASE Moving(sweep) = {"y"}
  <2>1. ~HitsSide(body, sweep, box)
    BY <1>4 DEF HitsSide, Axes
  <2> QED BY <1>1, <1>2, <1>4, <2>1 DEF HitAxis, E
<1>5. CASE Moving(sweep) = Axes
  <2>1. /\ HitsSide(body, sweep, box) => E("x") >= E("y")
        /\ ~HitsSide(body, sweep, box) => E("y") >= E("x")
    BY <1>1, <1>5 DEF HitsSide, Axes, E
  <2> QED BY <1>1, <1>2, <1>5, <2>1 DEF HitAxis, Axes, E
<1>6. Moving(sweep) \subseteq {"x", "y"}
  BY DEF Moving, Axes
<1> QED BY <1>3, <1>4, <1>5, <1>6 DEF Axes

\* The swept test finds every box that the body would intersect anywhere on its way, and
\* gives it a time of impact that is no later: nothing is so thin or so small, and no
\* movement so fast, that the body goes through it unseen.
THEOREM SweepMissesNothing ==
    ASSUME NEW body, Upright(body), NEW box, Upright(box), NEW sweep \in Vectors,
           NEW n \in Nat \ {0}, NEW s \in 0 .. n, MeetsAt(body, sweep, box, s, n)
    PROVE /\ Meets(Swept(body, sweep), box)
          /\ Collides(body, sweep, box)
          /\ Moving(sweep) # {} => n * HitTime(body, sweep, box) < s * Whole(sweep)
<1>1. Meets(Swept(body, sweep), box) /\ Collides(body, sweep, box)
  BY MeetsCollides
<1>2. ASSUME Moving(sweep) # {} PROVE n * HitTime(body, sweep, box) < s * Whole(sweep)
  <2>1. HitAxis(body, sweep, box) \in Moving(sweep)
        /\ HitTime(body, sweep, box) = Entry(body, sweep, box, HitAxis(body, sweep, box))
    BY <1>2, HitTimeIsLastEntry
  <2>2. MeetsAlong(body, sweep, box, HitAxis(body, sweep, box), s, n)
    BY <2>1 DEF MeetsAt, Moving
  <2> QED BY <2>1, <2>2, MeetsBetween, EntryWithin
<1> QED BY <1>1, <1>2

-----------------------------------------------------------------------------
(***************************************************************************)
(* A body that does not intersect a box yet, and hits it.                  *)
(***************************************************************************)
LEMMA SweepMoves ==
    ASSUME NEW body, Upright(body), NEW box, Upright(box), NEW sweep \in Vectors,
           ~Meets(body, box), Meets(Swept(body, sweep), box)
    PROVE \E a \in Moving(sweep) : Gap(body, sweep, box, a) >= 0
<1>1. PICK a \in Axes : ~(Low(body, a) < High(box, a) /\ Low(box, a) < High(body, a))
  BY MeetsUpright
<1>2. /\ Low(Swept(body, sweep), a) < High(box, a)
      /\ Low(box, a) < High(Swept(body, sweep), a)
  BY SweptEdges, MeetsUpright
<1>3. a \in Moving(sweep) /\ Gap(body, sweep, box, a) >= 0
  BY <1>1, <1>2, SweptEdges, EdgesType, VectorAt DEF Moving, Gap
<1> QED BY <1>3

LEMMA HitTimeRange ==
    ASSUME NEW body, Upright(body), NEW box, Upright(box), NEW sweep \in Vectors,
           ~Meets(body, box), Meets(Swept(body, sweep), box), Collides(body, sweep, box)
    PROVE /\ Moving(sweep) # {}
          /\ HitTime(body, sweep, box) \in 0 .. Whole(sweep)
          /\ HitTime(body, sweep, box) < Whole(sweep)
<1> DEFINE t == HitTime(body, sweep, box)
           h == HitAxis(body, sweep, box)
<1>1. PICK a \in Moving(sweep) : Gap(body, sweep, box, a) >= 0
  BY SweepMoves
<1>2. h \in Moving(sweep) /\ t = Entry(body, sweep, box, h)
      /\ Entry(body, sweep, box, a) <= t
  BY <1>1, HitTimeIsLastEntry
<1>3. Entry(body, sweep, box, a) >= 0
  <2>1. /\ Gap(body, sweep, box, a) \in Int /\ Length(sweep[Other(a)]) \in Nat \ {0}
        /\ Entry(body, sweep, box, a) = Length(sweep[Other(a)]) * Gap(body, sweep, box, a)
    BY GapType, OtherAxis, VectorAt, LengthFacts DEF Moving
  <2> QED BY <1>1, <2>1, ProductOrder
<1>4. t < Whole(sweep) /\ t \in Int /\ Whole(sweep) \in Int
  BY <1>2, GapType, WholeType DEF Collides, Moving
<1>5. Entry(body, sweep, box, a) \in Int
  BY GapType DEF Moving
<1> QED BY <1>1, <1>2, <1>3, <1>4, <1>5

\* A body that touches the box it hits has nothing to be pushed out of.
LEMMA NoOverlapAtTouch ==
    ASSUME NEW body, Upright(body), NEW box, Upright(box), NEW sweep \in Vectors,
           NEW a \in Moving(sweep), body.size[a] > 0, Entry(body, sweep, box, a) = 0
    PROVE /\ Overlap(body, box, a) <= 0
          /\ Gap(body, sweep, box, a) = 0
<1>1. /\ Gap(body, sweep, box, a) \in Int /\ Length(sweep[Other(a)]) \in Nat \ {0}
      /\ Entry(body, sweep, box, a) = Length(sweep[Other(a)]) * Gap(body, sweep, box, a)
  BY GapType, OtherAxis, VectorAt, LengthFacts DEF Moving
<1>2. Gap(body, sweep, box, a) = 0
  <2>1. Length(sweep[Other(a)]) * 0 = 0
    BY <1>1
  <2> QED BY <1>1, <2>1, ProductOrder
<1> QED BY <1>2, EdgesType, VectorAt DEF Gap, Overlap, Moving

-----------------------------------------------------------------------------
(***************************************************************************)
(* Movements that are a part of the sweep.                                 *)
(***************************************************************************)
\* m is s n-ths of the sweep.
Partway(sweep, m, s, n) == \A a \in Axes : n * m[a] = s * sweep[a]

After(body, m) == [body EXCEPT !.at = Plus(body.at, m)]

LEMMA AfterEdges ==
    ASSUME NEW body \in [at : Vectors, size : Vectors], Upright(body), NEW m \in Vectors,
           NEW a \in Axes
    PROVE /\ Upright(After(body, m))
          /\ After(body, m).size = body.size
          /\ Low(After(body, m), a) = Low(body, a) + m[a]
          /\ High(After(body, m), a) = High(body, a) + m[a]
<1>1. After(body, m).at = Plus(body.at, m) /\ After(body, m).size = body.size
  BY DEF After
<1>2. Plus(body.at, m) \in Vectors /\ Plus(body.at, m)[a] = body.at[a] + m[a]
  BY PlusType, VectorSums
<1>3. Upright(After(body, m))
  BY <1>1, <1>2 DEF Upright, Placed
<1> QED BY <1>1, <1>2, <1>3, EdgesType, VectorAt

LEMMA MeetsAfterAlong ==
    ASSUME NEW body \in [at : Vectors, size : Vectors], Upright(body),
           NEW box, Upright(box), NEW sweep \in Vectors, NEW m \in Vectors,
           NEW n \in Nat \ {0}, NEW s \in 0 .. n, Partway(sweep, m, s, n), NEW a \in Axes
    PROVE /\ MeetsAlong(body, sweep, box, a, s, n) <=>
                (Low(body, a) + m[a] < High(box, a) /\ Low(box, a) < High(body, a) + m[a])
          /\ n * High(body, a) + s * sweep[a] > n * Low(box, a) <=>
                High(body, a) + m[a] > Low(box, a)
<1> DEFINE l == Low(body, a)
           h == High(body, a)
           L == Low(box, a)
           H == High(box, a)
           v == sweep[a]
           w == m[a]
<1>1. l \in Int /\ h \in Int /\ L \in Int /\ H \in Int /\ v \in Int /\ w \in Int
  BY EdgesType, VectorAt
<1>2. n * w = s * v
  BY DEF Partway
<1>3. MeetsAlong(body, sweep, box, a, s, n) <=>
        (n * l + s * v < n * H /\ n * L < n * h + s * v)
  BY DEF MeetsAlong
<1> HIDE DEF l, h, L, H, v, w
<1>4. n * (l + w) = n * l + n * w /\ n * (h + w) = n * h + n * w
      /\ l + w \in Int /\ h + w \in Int
  BY <1>1
<1>5. n * l + s * v < n * H <=> l + w < H
  BY <1>1, <1>2, <1>4, ProductOrder
<1>6. n * L < n * h + s * v <=> L < h + w
  BY <1>1, <1>2, <1>4, ProductOrder
<1>7. n * L \in Int /\ n * h + s * v \in Int
  BY <1>1, ProductType
<1> QED BY <1>1, <1>3, <1>4, <1>5, <1>6, <1>7 DEF l, h, L, H, v, w

LEMMA MeetsAfter ==
    ASSUME NEW body \in [at : Vectors, size : Vectors], Upright(body),
           NEW box, Upright(box), NEW sweep \in Vectors, NEW m \in Vectors,
           NEW n \in Nat \ {0}, NEW s \in 0 .. n, Partway(sweep, m, s, n)
    PROVE Meets(After(body, m), box) <=> MeetsAt(body, sweep, box, s, n)
<1>1. Upright(After(body, m))
  BY AfterEdges DEF Axes
<1>2. \A a \in Axes : MeetsAlong(body, sweep, box, a, s, n) <=>
        (Low(After(body, m), a) < High(box, a) /\ Low(box, a) < High(After(body, m), a))
  BY MeetsAfterAlong, AfterEdges
<1> QED BY <1>1, <1>2, MeetsUpright DEF MeetsAt

\* Neither back nor further than the sweep.
LEMMA PartwayBetween ==
    ASSUME NEW sweep \in Vectors, NEW m \in Vectors,
           NEW n \in Nat \ {0}, NEW s \in 0 .. n, Partway(sweep, m, s, n), NEW a \in Axes
    PROVE /\ sweep[a] >= 0 => 0 <= m[a] /\ m[a] <= sweep[a]
          /\ sweep[a] <= 0 => sweep[a] <= m[a] /\ m[a] <= 0
<1> DEFINE v == sweep[a]
           w == m[a]
<1>1. v \in Int /\ w \in Int /\ n * w = s * v
  BY VectorAt DEF Partway
<1> HIDE DEF v, w
<1>2. \A u \in Nat : 0 <= s * u /\ s * u <= n * u
  BY SMT
<1>3. ASSUME v >= 0 PROVE 0 <= w /\ w <= v
  <2>1. 0 <= n * w /\ n * w <= n * v
    BY <1>1, <1>2, <1>3
  <2> QED BY <1>1, <2>1, ProductOrder
<1>4. ASSUME v <= 0 PROVE v <= w /\ w <= 0
  <2>1. -v \in Nat /\ s * (-v) = -(s * v) /\ n * (-v) = -(n * v) /\ n * (-w) = -(n * w)
        /\ s * v \in Int /\ n * v \in Int
    BY <1>1, <1>4
  <2>2. 0 <= -(n * w) /\ -(n * w) <= -(n * v)
    BY <1>1, <1>2, <2>1
  <2>3. 0 <= n * (-w) /\ n * (-w) <= n * (-v)
    BY <2>1, <2>2
  <2>4. 0 <= -w /\ -w <= -v
    BY <1>1, <2>3, ProductOrder
  <2> QED BY <1>1, <2>4
<1> QED BY <1>3, <1>4 DEF v, w

\* Where a movement for the time of entry along an axis ends: at the box.
LEMMA StopsAtBox ==
    ASSUME NEW body \in [at : Vectors, size : Vectors], Upright(body),
           NEW box, Upright(box), NEW sweep \in Vectors, NEW m \in Vectors,
           NEW a \in Moving(sweep),
           Partway(sweep, m, Entry(body, sweep, box, a), Whole(sweep))
    PROVE m[a] = IF sweep[a] > 0 THEN Gap(body, sweep, box, a)
                 ELSE -Gap(body, sweep, box, a)
<1> DEFINE g == Gap(body, sweep, box, a)
           v == sweep[a]
           p == Length(v)
           q == Length(sweep[Other(a)])
           w == m[a]
<1>1. /\ a \in Axes /\ g \in Int /\ p \in Nat \ {0} /\ q \in Nat \ {0} /\ v \in Int /\ w \in Int
      /\ v # 0 /\ p = IF v > 0 THEN v ELSE -v
      /\ Entry(body, sweep, box, a) = q * g /\ Whole(sweep) = p * q
  BY GapType, OtherAxis, VectorAt, LengthFacts, WholeOf DEF Moving
<1>2. Whole(sweep) * w = Entry(body, sweep, box, a) * v
  BY <1>1 DEF Partway
<1> HIDE DEF g, v, p, q, w
<1>3. q * (p * w) = q * (g * v)
  <2>1. (p * q) * w = q * (p * w) /\ (q * g) * v = q * (g * v)
    BY <1>1
  <2> QED BY <1>1, <1>2, <2>1
<1>4. p * w = g * v
  BY <1>1, <1>3, ProductOrder, ProductType
<1>5. CASE v > 0
  <2>1. v * w = v * g
    BY <1>1, <1>4, <1>5
  <2>2. w = g
    BY <1>1, <1>5, <2>1, ProductOrder
  <2> QED BY <1>5, <2>2 DEF g, v, w
<1>6. CASE v < 0
  <2>1. p * w = p * (-g)
    <3>1. p * (-g) = (-g) * (-v) /\ (-g) * (-v) = g * v
      BY <1>1, <1>6
    <3> QED BY <1>4, <3>1
  <2>2. -g \in Int
    BY <1>1
  <2>3. w = -g
    BY <1>1, <2>1, <2>2, ProductOrder
  <2> QED BY <1>1, <1>6, <2>3 DEF g, v, w
<1> QED BY <1>1, <1>5, <1>6

-----------------------------------------------------------------------------
(***************************************************************************)
(* Exactness.  A resolution works at a multiple of the level's lengths, so *)
(* that the part of the sweep made up to a hit is one in integers.         *)
(***************************************************************************)
Multiple(n, k) == \E q \in Int : n = k * q

LEMMA MultipleSums ==
    ASSUME NEW k \in Int, NEW m, NEW n, Multiple(m, k), Multiple(n, k)
    PROVE Multiple(m + n, k) /\ Multiple(m - n, k) /\ Multiple(-m, k)
<1>1. PICK p \in Int : m = k * p
  BY DEF Multiple
<1>2. PICK q \in Int : n = k * q
  BY DEF Multiple
<1>3. m + n = k * (p + q) /\ m - n = k * (p - q) /\ -m = k * (-p)
  BY <1>1, <1>2
<1>4. p + q \in Int /\ p - q \in Int /\ -p \in Int
  OBVIOUS
<1> QED BY <1>3, <1>4 DEF Multiple

\* What MoveTo moves the body by.
Moved(sweep, t) == Parts(Times(sweep, t), Whole(sweep))

LEMMA MovedExactly ==
    ASSUME NEW sweep \in Vectors, NEW t \in Int,
           \A a \in Axes : Multiple(sweep[a] * t, Whole(sweep))
    PROVE Moved(sweep, t) \in Vectors /\ Partway(sweep, Moved(sweep, t), t, Whole(sweep))
<1> DEFINE W == Whole(sweep)
<1>1. W \in Nat \ {0} /\ Times(sweep, t) \in Vectors /\ Moved(sweep, t) \in Vectors
  BY WholeType, TimesType, PartsType DEF Moved
<1>2. ASSUME NEW a \in Axes PROVE W * Moved(sweep, t)[a] = t * sweep[a]
  <2>1. PICK q \in Int : sweep[a] * t = W * q
    BY DEF Multiple
  <2>2. Moved(sweep, t)[a] = (sweep[a] * t) \div W
    BY <1>1, VectorSums DEF Moved
  <2>3. Moved(sweep, t)[a] = q
    BY <1>1, <2>1, <2>2, ExactDivision
  <2> QED BY <2>1, <2>3, VectorAt
<1> QED BY <1>1, <1>2 DEF Partway

LEMMA ExactAlongAxis ==
    ASSUME NEW body, Upright(body), NEW box, Upright(box), NEW sweep \in Vectors,
           NEW a \in Moving(sweep), sweep[Other(a)] = 0, NEW c \in Axes
    PROVE Multiple(sweep[c] * Entry(body, sweep, box, a), Whole(sweep))
<1> DEFINE g == Gap(body, sweep, box, a)
           v == sweep[a]
<1>1. /\ a \in Axes /\ g \in Int /\ v \in Int /\ v # 0
      /\ Length(sweep[Other(a)]) = 1
      /\ Length(v) = IF v > 0 THEN v ELSE -v
      /\ Entry(body, sweep, box, a) = 1 * g /\ Whole(sweep) = Length(v) * 1
  BY GapType, OtherAxis, VectorAt, LengthFacts, WholeOf DEF Moving
<1> HIDE DEF g, v
<1>2. Entry(body, sweep, box, a) = g /\ Whole(sweep) = IF v > 0 THEN v ELSE -v
  BY <1>1
<1>3. CASE c = a
  <2>1. sweep[c] * Entry(body, sweep, box, a) = v * g
    BY <1>2, <1>3 DEF v
  <2>2. v * g = (-v) * (-g) /\ -g \in Int
    BY <1>1
  <2> QED BY <1>1, <1>2, <2>1, <2>2 DEF Multiple
<1>4. CASE c = Other(a)
  <2>1. sweep[c] * Entry(body, sweep, box, a) = 0
    BY <1>1, <1>2, <1>4
  <2>2. Whole(sweep) * 0 = 0
    BY <1>1, <1>2
  <2> QED BY <2>1, <2>2 DEF Multiple
<1> QED BY <1>1, <1>3, <1>4, OtherAxis

LEMMA ExactAtScale ==
    ASSUME NEW body, Upright(body), NEW box, Upright(box), NEW sweep \in Vectors,
           NEW w \in Vectors, \A a \in Axes : w[a] # 0, sweep = Times(w, Whole(w)),
           NEW a \in Axes, Multiple(Gap(body, sweep, box, a), Whole(w)), NEW c \in Axes
    PROVE Multiple(sweep[c] * Entry(body, sweep, box, a), Whole(sweep))
<1> DEFINE k == Whole(w)
           p == Length(w[a])
           q == Length(w[Other(a)])
           o == Other(a)
<1>1. /\ k \in Nat \ {0} /\ p \in Nat \ {0} /\ q \in Nat \ {0} /\ k = p * q
      /\ o \in Axes /\ w[a] \in Int /\ w[o] \in Int /\ w[a] # 0 /\ w[o] # 0
      /\ p = (IF w[a] > 0 THEN w[a] ELSE -w[a]) /\ q = (IF w[o] > 0 THEN w[o] ELSE -w[o])
  BY WholeType, WholeOf, OtherAxis, VectorAt, LengthFacts
<1>2. sweep[a] = k * w[a] /\ sweep[o] = k * w[o]
  BY <1>1, VectorSums
<1> HIDE DEF k
<1>3. Length(sweep[a]) = k * p /\ Length(sweep[o]) = k * q
  <2>1. ASSUME NEW n \in Int, n # 0 PROVE Length(k * n) = k * (IF n > 0 THEN n ELSE -n)
    <3>1. k * n \in Int /\ k * (-n) = -(k * n)
      BY <1>1
    <3>2. n > 0 => k * n > 0
      BY <1>1, ProductOrder
    <3>3. n < 0 => k * (-n) > 0
      BY <1>1, ProductOrder
    <3> QED BY <2>1, <3>1, <3>2, <3>3, LengthFacts
  <2> QED BY <1>1, <1>2, <2>1
<1>4. PICK g \in Int : Gap(body, sweep, box, a) = k * g
  BY DEF Multiple, k
<1>5. Entry(body, sweep, box, a) = (k * q) * (k * g) /\ Whole(sweep) = (k * p) * (k * q)
  BY <1>3, <1>4, GapType, WholeOf
<1> HIDE DEF p, q, o
<1>6. CASE c = a
  <2> DEFINE n == IF w[a] > 0 THEN k * g ELSE -(k * g)
  <2>1. n \in Int /\ k * g \in Int
    BY <1>1
  <2>2. w[a] * (k * g) = p * n
    <3>1. w[a] * (k * g) = (-w[a]) * (-(k * g))
      BY <1>1, <2>1
    <3> QED BY <1>1, <2>1, <3>1
  <2> HIDE DEF n
  <2>3. (k * w[a]) * ((k * q) * (k * g)) = (k * (k * q)) * (w[a] * (k * g))
    BY <1>1
  <2>4. ((k * p) * (k * q)) * n = (k * (k * q)) * (p * n)
    BY <1>1, <2>1
  <2>5. sweep[c] * Entry(body, sweep, box, a) = Whole(sweep) * n
    BY <1>2, <1>5, <1>6, <2>2, <2>3, <2>4
  <2> QED BY <2>1, <2>5 DEF Multiple
<1>7. CASE c = o
  <2> DEFINE n == w[o] * (q * g)
  <2>1. n \in Int
    BY <1>1, ProductType
  <2>2. (k * w[o]) * ((k * q) * (k * g)) = (k * (k * q)) * (w[o] * (k * g))
    BY <1>1
  <2>3. w[o] * (k * g) = p * n
    <3>1. k * g = p * (q * g)
      BY <1>1
    <3>2. w[o] * (p * (q * g)) = p * (w[o] * (q * g))
      BY <1>1
    <3> QED BY <3>1, <3>2
  <2> HIDE DEF n
  <2>4. ((k * p) * (k * q)) * n = (k * (k * q)) * (p * n)
    BY <1>1, <2>1
  <2>5. sweep[c] * Entry(body, sweep, box, a) = Whole(sweep) * n
    BY <1>2, <1>5, <1>7, <2>2, <2>3, <2>4
  <2> QED BY <2>1, <2>5 DEF Multiple
<1> QED BY <1>6, <1>7, OtherAxis DEF o

-----------------------------------------------------------------------------
(***************************************************************************)
(* A body above a box: over it and not below its top.                      *)
(***************************************************************************)
IsOver(body, box) == Low(body, "x") < High(box, "x") /\ Low(box, "x") < High(body, "x")

IsAbove(body, box) == IsOver(body, box) /\ High(body, "y") <= Low(box, "y")

\* If it is still over the box when it has come below its top, it has hit the top: a
\* movement passes no box downwards, however thin.
LEMMA PassesNone ==
    ASSUME NEW body, Upright(body), body.size["y"] > 0, NEW box, Upright(box),
           NEW sweep \in Vectors, NEW n \in Nat \ {0}, NEW s \in 0 .. n,
           IsAbove(body, box), MeetsAlong(body, sweep, box, "x", s, n),
           n * High(body, "y") + s * sweep["y"] > n * Low(box, "y")
    PROVE /\ sweep["y"] > 0
          /\ Meets(Swept(body, sweep), box)
          /\ Collides(body, sweep, box)
          /\ HitAxis(body, sweep, box) = "y"
          /\ n * HitTime(body, sweep, box) < s * Whole(sweep)
<1> DEFINE h == High(body, "y")
           L == Low(box, "y")
           v == sweep["y"]
           g == Gap(body, sweep, box, "y")
<1>0. "x" \in Axes /\ "y" \in Axes /\ Other("x") = "y" /\ Other("y") = "x"
  BY DEF Axes, Other
<1>1. h \in Int /\ L \in Int /\ v \in Int /\ h <= L /\ n * h + s * v > n * L
  BY <1>0, EdgesType, VectorAt DEF IsAbove
<1>2. v > 0 /\ n * (L - h) < s * v
  <2> HIDE DEF h, L, v
  <2>1. n * h <= n * L /\ n * h \in Int /\ n * L \in Int /\ s * v \in Int
    BY <1>1, ProductOrder
  <2>2. s * v > 0
    BY <1>1, <2>1
  <2>3. v <= 0 => s * v <= 0
    <3>1. \A u \in Nat : s * u >= 0
      BY SMT
    <3>2. s * (-v) = -(s * v) /\ (v <= 0 => -v \in Nat)
      BY <1>1
    <3> QED BY <2>1, <3>1, <3>2
  <2>4. n * (L - h) = n * L - n * h
    BY <1>1
  <2> QED BY <1>1, <2>1, <2>2, <2>3, <2>4
<1>3. g = L - h /\ "y" \in Moving(sweep) /\ Length(v) = v /\ g >= 0 /\ g \in Int
  BY <1>0, <1>1, <1>2, LengthFacts DEF Gap, Moving
<1>4. n * g < s * Length(v)
  BY <1>2, <1>3
<1>5. /\ Reach(body, sweep, box, "y") > 0
      /\ Low(body, "y") < High(box, "y")
  BY <1>0, <1>1, <1>2, EdgesType DEF Reach, Upright
<1>6. Meets(Swept(body, sweep), box)
  <2>1. /\ Low(Swept(body, sweep), "x") < High(box, "x")
        /\ Low(box, "x") < High(Swept(body, sweep), "x")
    BY <1>0, SweptAlong
  <2>2. /\ Low(Swept(body, sweep), "y") = Low(body, "y")
        /\ High(Swept(body, sweep), "y") = h + v
    BY <1>0, <1>1, <1>2, SweptEdges, EdgesType
  <2>3. L < h + v
    <3> HIDE DEF h, L, v
    <3>1. s * v <= n * v /\ s * v \in Int /\ n * v \in Int /\ n * (L - h) \in Int
      BY <1>1, <1>2
    <3>2. n * (L - h) < n * v
      BY <1>2, <3>1
    <3>3. L - h \in Int
      BY <1>1
    <3>4. L - h < v
      BY <1>1, <3>2, <3>3, ProductOrder
    <3> QED BY <1>1, <3>4
  <2> QED BY <1>0, <1>5, <2>1, <2>2, <2>3, SweptEdges, MeetsUpright DEF Axes
<1>7. ASSUME "x" \in Moving(sweep)
      PROVE /\ Gap(body, sweep, box, "x") < 0
            /\ n * Gap(body, sweep, box, "x") < s * Length(sweep["x"])
            /\ s * Length(sweep["x"]) < n * Reach(body, sweep, box, "x")
            /\ Reach(body, sweep, box, "x") > 0
            /\ Entry(body, sweep, box, "x") < 0
  <2>1. Gap(body, sweep, box, "x") < 0
    BY <1>0, EdgesType, VectorAt DEF Gap, IsAbove, IsOver
  <2>2. Entry(body, sweep, box, "x") < 0
    <3>1. /\ Entry(body, sweep, box, "x") = Length(v) * Gap(body, sweep, box, "x")
          /\ Gap(body, sweep, box, "x") \in Int /\ Length(v) \in Nat \ {0}
      BY <1>0, <1>1, GapType, LengthFacts
    <3>2. Length(v) * Gap(body, sweep, box, "x") < Length(v) * 0
      BY <2>1, <3>1, ProductOrder
    <3> QED BY <3>1, <3>2
  <2> QED BY <1>7, <2>1, <2>2, MeetsBetween
<1>8. Entry(body, sweep, box, "y") >= 0
  <2>1. /\ Entry(body, sweep, box, "y") = Length(sweep["x"]) * g
        /\ Length(sweep["x"]) \in Nat \ {0}
    BY <1>0, GapType, VectorAt, LengthFacts
  <2> QED BY <1>3, <2>1, ProductOrder
<1>9. Exit(body, sweep, box, "y") > 0
  BY <1>0, <1>5, ExitAhead
<1>10. /\ Entry(body, sweep, box, "y") < Whole(sweep)
       /\ n * Entry(body, sweep, box, "y") < s * Whole(sweep)
  BY <1>3, <1>4, EntryWithin
<1>11. Collides(body, sweep, box)
  <2>1. ASSUME "x" \in Moving(sweep)
        PROVE /\ Entry(body, sweep, box, "x") < Whole(sweep)
              /\ Exit(body, sweep, box, "x") > 0
              /\ Entry(body, sweep, box, "x") <= Exit(body, sweep, box, "x")
              /\ Entry(body, sweep, box, "y") <= Exit(body, sweep, box, "x")
              /\ Entry(body, sweep, box, "x") <= Exit(body, sweep, box, "y")
    <3>1. Exit(body, sweep, box, "x") > 0
      BY <1>0, <1>7, <2>1, ExitAhead
    <3>2. Entry(body, sweep, box, "x") < Whole(sweep)
      BY <1>7, <2>1, EntryWithin
    <3>3. Entry(body, sweep, box, "y") <= Exit(body, sweep, box, "x")
      BY <1>3, <1>4, <1>7, <2>1, EntryBeforeExit
    <3>4. Exit(body, sweep, box, "x") \in Int /\ Exit(body, sweep, box, "y") \in Int
          /\ Entry(body, sweep, box, "x") \in Int
      BY <1>0, GapType
    <3> QED BY <1>7, <1>9, <2>1, <3>1, <3>2, <3>3, <3>4
  <2>2. Entry(body, sweep, box, "y") <= Exit(body, sweep, box, "y")
    <3>1. /\ g <= Reach(body, sweep, box, "y") /\ Reach(body, sweep, box, "y") \in Int
          /\ Entry(body, sweep, box, "y") = Length(sweep["x"]) * g
          /\ Exit(body, sweep, box, "y") = Length(sweep["x"]) * Reach(body, sweep, box, "y")
          /\ Length(sweep["x"]) \in Nat \ {0}
      BY <1>0, GapType, VectorAt, LengthFacts
    <3> HIDE DEF g
    <3> QED BY <1>3, <3>1, ProductOrder
  <2>3. Moving(sweep) # {}
    BY <1>3
  <2> QED BY <1>9, <1>10, <2>1, <2>2, <2>3 DEF Collides, Moving, Axes
<1>12. HitAxis(body, sweep, box) = "y"
  <2>1. CASE "x" \in Moving(sweep)
    <3>1. Entry(body, sweep, box, "x") < Entry(body, sweep, box, "y")
      BY <1>0, <1>7, <1>8, <2>1, GapType
    <3>2. Entry(body, sweep, box, "x") \in Int /\ Entry(body, sweep, box, "y") \in Int
      BY <1>0, GapType
    <3>3. ~HitsSide(body, sweep, box)
      BY <1>3, <3>1, <3>2 DEF HitsSide
    <3> QED BY <3>3 DEF HitAxis
  <2>2. CASE "x" \notin Moving(sweep)
    <3>1. ~HitsSide(body, sweep, box)
      BY <1>3, <2>2 DEF HitsSide, Axes
    <3> QED BY <3>1 DEF HitAxis
  <2> QED BY <2>1, <2>2
<1>13. HitTime(body, sweep, box) = Entry(body, sweep, box, "y")
  BY <1>3, <1>12 DEF HitTime
<1> QED BY <1>2, <1>6, <1>10, <1>11, <1>12, <1>13
=============================================================================
