------------------------ MODULE CompositionPlanProofs ------------------------
(***************************************************************************)
(* separate_rects is right for any rectangles, the squash framebuffer is   *)
(* never shown stale, no plane is used twice in a composition, and no      *)
(* protected layer is drawn by the GPU, for every number of displays,      *)
(* planes and layers.                                                      *)
(*                                                                         *)
(* The line sweep: when it has passed the stops up to x, every point left  *)
(* of x is under exactly one rectangle of the output or of those that are  *)
(* started, with the ids of the rectangles over the point (SweptTo).       *)
(*                                                                         *)
(* The squash history: SquashFresh is about the frames that are queued;    *)
(* SquashInv follows a display through the call that plans them.  Until    *)
(* its history is recorded, the framebuffer holds the last buffers of the  *)
(* squashed regions; from then on it holds them or will be rendered.  The  *)
(* call does not fail between the two because a plane is left for every    *)
(* display: the planner only uses planes the display supports (PlanIn).    *)
(*                                                                         *)
(* The planes: OwnInv says that a plane is in one pool, free in the plan   *)
(* under construction, or used in one entry of one composition.  SoloInv   *)
(* follows the protected layer through the stages of the planner.          *)
(***************************************************************************)
EXTENDS CompositionPlan, FiniteSetTheorems, WellFoundedInduction, TLAPS

-----------------------------------------------------------------------------
(* Orders *)

LEMMA LeastOf ==
  ASSUME NEW I \in SUBSET Nat, I # {}
  PROVE  \E x \in I : \A y \in I : x <= y
<1>1. PICK x \in I : \A y \in I : ~ (<<y, x>> \in OpToRel(<, Nat))
  BY WFMin, NatLessThanWellFounded, Zenon
<1>2. ASSUME NEW y \in I PROVE ~ (y < x)
  BY <1>1, Zenon DEF OpToRel
<1>3. \A y \in I : x <= y
  BY <1>2
<1> QED BY <1>3

\* What holds at 1 and is passed on holds up to n; Good is where it holds.
LEMMA ByPlace ==
  ASSUME NEW n \in Nat, NEW Good, 1 \in Good,
         \A i \in 1..n : i # 1 /\ i - 1 \in Good => i \in Good
  PROVE  1..n \subseteq Good
<1> DEFINE Bad == {i \in 1..n : i \notin Good}
<1> SUFFICES ASSUME Bad # {} PROVE FALSE
  OBVIOUS
<1>1. PICK m \in Bad : \A k \in Bad : m <= k
  <2>1. Bad \in SUBSET Nat
    OBVIOUS
  <2> QED BY <2>1, LeastOf
<1>2. m # 1 /\ m - 1 \in 1..n
  BY <1>1
<1>3. m - 1 \notin Bad
  BY <1>1
<1> QED BY <1>2, <1>3

Below(S, x) == {y \in S : y < x}

LEMMA RanksGrow ==
  ASSUME NEW S \in SUBSET Int, IsFiniteSet(S), NEW x \in S
  PROVE  /\ Cardinality(Below(S, x)) \in 0..(Cardinality(S) - 1) /\ Cardinality(S) \in Nat
         /\ \A w \in S : x < w => Cardinality(Below(S, x)) < Cardinality(Below(S, w))
<1>1. /\ IsFiniteSet(S \ {x}) /\ Cardinality(S \ {x}) = Cardinality(S) - 1
      /\ Cardinality(S) \in Nat
  BY FS_RemoveElement, FS_CardinalityType
<1>2. Below(S, x) \in SUBSET (S \ {x})
  BY DEF Below
<1>3. /\ IsFiniteSet(Below(S, x)) /\ Cardinality(Below(S, x)) <= Cardinality(S) - 1
      /\ Cardinality(Below(S, x)) \in Nat
  BY <1>1, <1>2, FS_Subset, FS_CardinalityType
<1>4. ASSUME NEW w \in S, x < w
      PROVE  Cardinality(Below(S, x)) < Cardinality(Below(S, w))
  <2>0. x \in Int /\ w \in Int /\ \A y \in S : y \in Int /\ ~ (x < x) /\ (y < x => y < w)
    BY <1>4
  <2>1. Below(S, x) \cup {x} \in SUBSET Below(S, w) /\ x \notin Below(S, x)
    BY <1>4, <2>0 DEF Below
  <2>2. Below(S, w) \in SUBSET S
    BY DEF Below
  <2>3. IsFiniteSet(Below(S, w)) /\ Cardinality(Below(S, w)) \in Nat
    BY <2>2, FS_Subset, FS_CardinalityType
  <2>4. Cardinality(Below(S, x) \cup {x}) = Cardinality(Below(S, x)) + 1
    BY <1>3, <2>1, FS_AddElement
  <2>5. Cardinality(Below(S, x) \cup {x}) <= Cardinality(Below(S, w))
    BY <2>1, <2>3, FS_Subset
  <2> QED BY <1>3, <2>3, <2>4, <2>5
<1> QED BY <1>1, <1>3, <1>4

\* Ascending lists a finite set, each element behind those that are smaller.
LEMMA AscendingRanks ==
  ASSUME NEW S \in SUBSET Int, IsFiniteSet(S), NEW n \in 1..Cardinality(S)
  PROVE  Ascending(S)[n] \in S /\ Cardinality(Below(S, Ascending(S)[n])) = n - 1
<1> DEFINE k == Cardinality(S)
           f == [x \in S |-> Cardinality(Below(S, x))]
           R == 0..(k - 1)
<1>1. k \in Nat
  BY FS_CardinalityType
<1>2. ASSUME NEW x \in S PROVE f[x] \in R /\ \A w \in S : x < w => f[x] < f[w]
  BY RanksGrow
<1> HIDE DEF k
<1>3. IsFiniteSet(R) /\ Cardinality(R) = k
  <2>1. 0 \in Int /\ k - 1 \in Int /\ (IF 0 > k - 1 THEN 0 ELSE (k - 1) - 0 + 1) = k
    BY <1>1
  <2> QED BY <2>1, FS_Interval
<1>4. f \in Injection(S, R)
  <2>1. f \in [S -> R]
    BY <1>2
  <2>2. ASSUME NEW x \in S, NEW w \in S, f[x] = f[w] PROVE x = w
    <3> HIDE DEF f
    <3>1. f[x] \in Int /\ f[w] \in Int /\ x \in Int /\ w \in Int
      BY <1>1, <1>2
    <3> QED BY <1>2, <2>2, <3>1
  <2> QED BY <2>1, <2>2 DEF Injection, IsInjective
<1>5. f \in Surjection(S, R)
  BY <1>3, <1>4, FS_Injection DEF k
<1>6. n - 1 \in R
  BY <1>1 DEF k
<1>7. \E x \in S : f[x] = n - 1
  BY <1>5, <1>6 DEF Surjection
<1>8. \E x \in S : Cardinality({y \in S : y < x}) = n - 1
  BY <1>7 DEF Below
<1>9. Ascending(S)[n] = CHOOSE x \in S : Cardinality({y \in S : y < x}) = n - 1
  BY DEF Ascending
<1> QED BY <1>8, <1>9 DEF Below

\* a lists S from the smallest to the largest, and leaves nothing out.
Lists(a, S) ==
  /\ Len(a) = Cardinality(S) /\ Len(a) \in Nat
  /\ \A n \in 1..Len(a) : a[n] \in S
  /\ \A n \in 1..(Len(a) - 1) : /\ a[n] < a[n + 1]
                                /\ \A w \in S : w <= a[n] \/ w >= a[n + 1]
  /\ \A w \in S : Len(a) > 0 /\ a[1] <= w /\ w <= a[Len(a)]

LEMMA AscendingLists ==
  ASSUME NEW S \in SUBSET Int, IsFiniteSet(S)
  PROVE  Lists(Ascending(S), S)
<1> DEFINE a == Ascending(S)
           k == Cardinality(S)
           rank(x) == Cardinality(Below(S, x))
<1>1. k \in Nat
  BY FS_CardinalityType
<1>2. Len(a) = k
  BY <1>1 DEF Ascending
<1>3. \A n \in 1..k : a[n] \in S /\ rank(a[n]) = n - 1
  BY AscendingRanks
<1>4. \A x \in S : rank(x) \in 0..(k - 1) /\ \A w \in S : x < w => rank(x) < rank(w)
  BY RanksGrow
<1> HIDE DEF a, k, rank
<1>a. \A x \in S : x \in Int /\ rank(x) \in Int /\ rank(x) >= 0 /\ rank(x) <= k - 1
  BY <1>1, <1>4
<1>b. ASSUME NEW x \in S, NEW w \in S PROVE x < w => rank(x) < rank(w)
  BY <1>4
<1>5. ASSUME NEW n \in 1..(k - 1)
      PROVE  a[n] < a[n + 1] /\ \A w \in S : w <= a[n] \/ w >= a[n + 1]
  <2>1. /\ n \in 1..k /\ n + 1 \in 1..k /\ a[n] \in S /\ a[n + 1] \in S
        /\ rank(a[n]) = n - 1 /\ rank(a[n + 1]) = n /\ n \in Int
    <3>1. n \in 1..k /\ n + 1 \in 1..k /\ (n + 1) - 1 = n /\ n \in Int
      BY <1>1
    <3> QED BY <1>3, <3>1
  <2>2. a[n] \in Int /\ a[n + 1] \in Int
    BY <2>1
  <2>3. ~ (a[n + 1] < a[n]) /\ a[n] # a[n + 1]
    <3>1. a[n + 1] < a[n] => rank(a[n + 1]) < rank(a[n])
      BY <1>b, <2>1
    <3>2. rank(a[n]) # rank(a[n + 1]) /\ ~ (rank(a[n + 1]) < rank(a[n]))
      BY <2>1
    <3> QED BY <3>1, <3>2
  <2>4. ASSUME NEW w \in S, a[n] < w, w < a[n + 1] PROVE FALSE
    <3>1. rank(w) \in Int /\ rank(a[n]) < rank(w) /\ rank(w) < rank(a[n + 1])
      BY <1>a, <1>b, <2>1, <2>4
    <3> QED BY <2>1, <3>1
  <2> QED BY <2>2, <2>3, <2>4
<1>6. ASSUME NEW w \in S PROVE k > 0 /\ a[1] <= w /\ w <= a[k]
  <2>1. rank(w) \in 0..(k - 1) /\ k > 0 /\ 1 \in 1..k /\ k \in 1..k
    BY <1>1, <1>4
  <2>2. a[1] \in S /\ rank(a[1]) = 0 /\ a[k] \in S /\ rank(a[k]) = k - 1
    BY <1>3, <2>1
  <2>3. ~ (w < a[1]) /\ ~ (a[k] < w)
    <3>1. (w < a[1] => rank(w) < 0) /\ (a[k] < w => k - 1 < rank(w))
      BY <1>b, <2>2
    <3> QED BY <1>1, <2>1, <3>1
  <2>4. w \in Int /\ a[1] \in Int /\ a[k] \in Int
    BY <2>2
  <2> QED BY <2>1, <2>3, <2>4
<1>7. \A n \in 1..k : a[n] \in S
  BY <1>3
<1> QED BY <1>1, <1>2, <1>5, <1>6, <1>7 DEF Lists, a, k
-----------------------------------------------------------------------------
(* The line sweep of separate_rects *)

RectType == [left : Int, top : Int, right : Int, bottom : Int]
Point == Int \X Int

Over(in, p) == {i \in DOMAIN in : Covers(in[i], p)}

\* The rectangles that the line at x crosses, and their horizontal edges.
Crossed(in, x) == {i \in DOMAIN in : ~Empty(in[i]) /\ in[i].left <= x /\ x < in[i].right}
Ys(in, x) == {in[i].top : i \in Crossed(in, x)} \cup {in[i].bottom : i \in Crossed(in, x)}
AtY(in, x, y) == {i \in Crossed(in, x) : in[i].top <= y /\ y < in[i].bottom}

\* No edge lies between y and z, which are edges.
Neighbours(in, x, y, z) ==
  /\ y \in Ys(in, x) /\ z \in Ys(in, x) /\ y < z
  /\ \A w \in Ys(in, x) : w <= y \/ w >= z

LEMMA RectEdges ==
  ASSUME NEW in \in Seq(RectType), NEW i \in DOMAIN in
  PROVE  /\ in[i].left \in Int /\ in[i].right \in Int
         /\ in[i].top \in Int /\ in[i].bottom \in Int
<1>1. in[i] \in RectType
  <2> HIDE DEF RectType
  <2> QED OBVIOUS
<1> QED BY <1>1 DEF RectType

LEMMA OverAtY ==
  ASSUME NEW in \in Seq(RectType), NEW x \in Int, NEW y \in Int
  PROVE  Over(in, <<x, y>>) = AtY(in, x, y) /\ Ys(in, x) \subseteq Int
<1>1. \A i \in DOMAIN in : /\ in[i].left \in Int /\ in[i].right \in Int
                           /\ in[i].top \in Int /\ in[i].bottom \in Int
  BY RectEdges
<1>2. Over(in, <<x, y>>) = AtY(in, x, y)
  BY <1>1 DEF Over, AtY, Crossed, Covers, Empty
<1>3. Ys(in, x) \subseteq Int
  BY <1>1 DEF Ys, Crossed
<1> QED BY <1>2, <1>3

\* Between neighbours the line crosses the same rectangles.
LEMMA SameBetween ==
  ASSUME NEW in \in Seq(RectType), NEW x \in Int, NEW lo, NEW hi, Neighbours(in, x, lo, hi),
         NEW y \in Int, lo <= y, y < hi
  PROVE  AtY(in, x, y) = AtY(in, x, lo)
<1>1. lo \in Int /\ hi \in Int
  BY OverAtY DEF Neighbours
<1>2. ASSUME NEW i \in Crossed(in, x)
      PROVE  (in[i].top <= y /\ y < in[i].bottom) <=> (in[i].top <= lo /\ lo < in[i].bottom)
  <2>1. in[i].top \in Ys(in, x) /\ in[i].bottom \in Ys(in, x)
    BY DEF Ys
  <2>2. in[i].top \in Int /\ in[i].bottom \in Int
    BY <2>1, OverAtY
  <2> QED BY <1>1, <2>1, <2>2 DEF Neighbours
<1> QED BY <1>2 DEF AtY

LEMMA ActiveIs ==
  ASSUME NEW in, NEW x, NEW k
  PROVE  k \in ActiveRegions(in, x) <=>
           \E lo, hi : /\ lo \in Ys(in, x) /\ hi \in Ys(in, x) /\ lo < hi
                       /\ ~ \E w \in Ys(in, x) : lo < w /\ w < hi
                       /\ AtY(in, x, lo) # {}
                       /\ k = [ids |-> AtY(in, x, lo), top |-> lo, bottom |-> hi]
<1> DEFINE ids == {i \in DOMAIN in : ~Empty(in[i]) /\ in[i].left <= x /\ x < in[i].right}
           ys == {in[i].top : i \in ids} \cup {in[i].bottom : i \in ids}
           At(y) == {i \in ids : in[i].top <= y /\ y < in[i].bottom}
           Z == {z \in ys \X ys : /\ z[1] < z[2]
                                  /\ ~ \E w \in ys : z[1] < w /\ w < z[2]
                                  /\ At(z[1]) # {}}
<1>1. ActiveRegions(in, x) = {[ids |-> At(y[1]), top |-> y[1], bottom |-> y[2]] : y \in Z}
  BY DEF ActiveRegions
<1>2. ids = Crossed(in, x) /\ ys = Ys(in, x)
  BY DEF Crossed, Ys
<1>3. \A y : At(y) = AtY(in, x, y)
  BY <1>2 DEF AtY
<1> HIDE DEF ids, ys, At
<1>4. \A z : z \in Z <=> \E lo, hi : /\ z = <<lo, hi>> /\ lo \in ys /\ hi \in ys /\ lo < hi
                                     /\ ~ \E w \in ys : lo < w /\ w < hi
                                     /\ At(lo) # {}
  OBVIOUS
<1> HIDE DEF Z
<1>5. k \in ActiveRegions(in, x) <=>
        \E lo, hi : /\ lo \in ys /\ hi \in ys /\ lo < hi
                    /\ ~ \E w \in ys : lo < w /\ w < hi
                    /\ At(lo) # {}
                    /\ k = [ids |-> At(lo), top |-> lo, bottom |-> hi]
  <2>1. ASSUME k \in ActiveRegions(in, x)
        PROVE  \E lo, hi : /\ lo \in ys /\ hi \in ys /\ lo < hi
                           /\ ~ \E w \in ys : lo < w /\ w < hi
                           /\ At(lo) # {}
                           /\ k = [ids |-> At(lo), top |-> lo, bottom |-> hi]
    <3>1. PICK z \in Z : k = [ids |-> At(z[1]), top |-> z[1], bottom |-> z[2]]
      BY <1>1, <2>1
    <3> QED BY <1>4, <3>1
  <2>2. ASSUME NEW lo, NEW hi, lo \in ys, hi \in ys, lo < hi,
               ~ \E w \in ys : lo < w /\ w < hi, At(lo) # {},
               k = [ids |-> At(lo), top |-> lo, bottom |-> hi]
        PROVE  k \in ActiveRegions(in, x)
    <3>1. <<lo, hi>> \in Z
      BY <1>4, <2>2
    <3>2. k = [ids |-> At(<<lo, hi>>[1]), top |-> <<lo, hi>>[1], bottom |-> <<lo, hi>>[2]]
      BY <2>2
    <3> QED BY <1>1, <3>1, <3>2
  <2> QED BY <2>1, <2>2
<1> QED BY <1>2, <1>3, <1>5

\* The edge below y next to it and the edge above.
LEMMA EdgesAround ==
  ASSUME NEW E \in SUBSET Int, NEW y \in Int, \E w \in E : w <= y, \E w \in E : y < w
  PROVE  \E lo \in E, hi \in E : /\ lo <= y /\ y < hi
                                 /\ \A w \in E : w <= lo \/ w >= hi
<1> DEFINE A == {n \in Nat : y - n \in E}
           B == {n \in Nat : y + 1 + n \in E}
<1>1. A # {} /\ B # {}
  <2>1. PICK w \in E : w <= y
    OBVIOUS
  <2>2. y - w \in Nat /\ y - (y - w) = w
    BY <2>1
  <2>3. PICK v \in E : y < v
    OBVIOUS
  <2>4. v - y - 1 \in Nat /\ y + 1 + (v - y - 1) = v
    BY <2>3
  <2> QED BY <2>1, <2>2, <2>3, <2>4
<1>2. PICK a \in A : \A n \in A : a <= n
  BY <1>1, LeastOf
<1>3. PICK b \in B : \A n \in B : b <= n
  BY <1>1, LeastOf
<1>4. ASSUME NEW w \in E PROVE w <= y - a \/ w >= y + 1 + b
  <2>1. CASE w <= y
    <3>1. y - w \in Nat /\ y - (y - w) = w
      BY <2>1
    <3>2. a <= y - w
      BY <1>2, <3>1
    <3> QED BY <1>2, <2>1, <3>2
  <2>2. CASE w > y
    <3>1. w - y - 1 \in Nat /\ y + 1 + (w - y - 1) = w
      BY <2>2
    <3>2. b <= w - y - 1
      BY <1>3, <3>1
    <3> QED BY <1>3, <2>2, <3>2
  <2>3. w <= y \/ w > y
    OBVIOUS
  <2> QED BY <2>1, <2>2, <2>3
<1>5. y - a \in E /\ y + 1 + b \in E /\ y - a <= y /\ y < y + 1 + b
  BY <1>2, <1>3
<1> QED BY <1>4, <1>5

Around(k, y) == k.top <= y /\ y < k.bottom

\* At most one active region meets a point of the line, and it has the ids of
\* the rectangles over the point; there is one if a rectangle is over it.
LEMMA ActiveRight ==
  ASSUME NEW in \in Seq(RectType), NEW x \in Int, NEW y \in Int
  PROVE  /\ \A k \in ActiveRegions(in, x) :
              Around(k, y) => k.ids = Over(in, <<x, y>>) /\ Over(in, <<x, y>>) # {}
         /\ \A k, j \in ActiveRegions(in, x) : Around(k, y) /\ Around(j, y) => k = j
         /\ Over(in, <<x, y>>) # {} => \E k \in ActiveRegions(in, x) : Around(k, y)
         /\ \A k \in ActiveRegions(in, x) :
              /\ k.top \in Int /\ k.bottom \in Int
              /\ k = [ids |-> k.ids, top |-> k.top, bottom |-> k.bottom]
<1> DEFINE E == Ys(in, x)
           At(z) == AtY(in, x, z)
<1>1. Over(in, <<x, y>>) = At(y) /\ E \subseteq Int
  BY OverAtY
<1>2. ASSUME NEW k \in ActiveRegions(in, x)
      PROVE  /\ k = [ids |-> k.ids, top |-> k.top, bottom |-> k.bottom]
             /\ k.ids = At(k.top) /\ k.ids # {} /\ k.top \in E /\ k.bottom \in E
             /\ Neighbours(in, x, k.top, k.bottom)
  <2>1. PICK lo, hi : /\ lo \in E /\ hi \in E /\ lo < hi
                      /\ ~ \E w \in E : lo < w /\ w < hi
                      /\ At(lo) # {}
                      /\ k = [ids |-> At(lo), top |-> lo, bottom |-> hi]
    BY ActiveIs
  <2>2. \A w \in E : w <= lo \/ w >= hi
    BY <1>1, <2>1
  <2>3. k.top = lo /\ k.bottom = hi /\ k.ids = At(lo)
    BY <2>1
  <2> HIDE DEF E, At
  <2>4. k = [ids |-> k.ids, top |-> k.top, bottom |-> k.bottom]
    BY <2>1, <2>3
  <2> QED BY <2>1, <2>2, <2>3, <2>4 DEF Neighbours, E
<1>3. ASSUME NEW k \in ActiveRegions(in, x), Around(k, y)
      PROVE  k.ids = At(y) /\ At(y) # {}
  BY <1>2, <1>3, SameBetween DEF Around
<1>4. ASSUME NEW k \in ActiveRegions(in, x), NEW j \in ActiveRegions(in, x),
             Around(k, y), Around(j, y)
      PROVE  k = j
  <2>1. k.top = j.top /\ k.bottom = j.bottom
    <3>1. /\ k.top \in E /\ j.top \in E /\ k.bottom \in E /\ j.bottom \in E
          /\ \A w \in E : w <= k.top \/ w >= k.bottom
          /\ \A w \in E : w <= j.top \/ w >= j.bottom
      BY <1>2 DEF Neighbours
    <3>2. /\ k.top \in Int /\ j.top \in Int /\ k.bottom \in Int /\ j.bottom \in Int
      BY <1>1, <3>1
    <3>3. /\ k.top <= j.top /\ j.top <= k.top /\ k.bottom <= j.bottom /\ j.bottom <= k.bottom
      <4> HIDE DEF E
      <4>1. k.top <= j.top \/ k.top >= j.bottom
        BY <3>1
      <4>2. j.top <= k.top \/ j.top >= k.bottom
        BY <3>1
      <4>3. k.bottom <= j.top \/ k.bottom >= j.bottom
        BY <3>1
      <4>4. j.bottom <= k.top \/ j.bottom >= k.bottom
        BY <3>1
      <4> QED BY <1>4, <3>2, <4>1, <4>2, <4>3, <4>4 DEF Around
    <3> QED BY <3>2, <3>3
  <2>2. k.ids = j.ids
    BY <1>2, <2>1
  <2> QED BY <1>2, <2>1, <2>2
<1>5. ASSUME At(y) # {} PROVE \E k \in ActiveRegions(in, x) : Around(k, y)
  <2>1. PICK i \in Crossed(in, x) : in[i].top <= y /\ y < in[i].bottom
    BY <1>5 DEF AtY
  <2>2. in[i].top \in E /\ in[i].bottom \in E
    BY DEF Ys
  <2>3. PICK lo \in E, hi \in E : lo <= y /\ y < hi /\ \A w \in E : w <= lo \/ w >= hi
    BY <1>1, <2>1, <2>2, EdgesAround
  <2>4. lo \in Int /\ hi \in Int /\ lo < hi
    BY <1>1, <2>3
  <2>5. Neighbours(in, x, lo, hi)
    BY <2>3, <2>4 DEF Neighbours
  <2>6. At(lo) # {}
    BY <1>5, <2>3, <2>5, SameBetween
  <2>7. ~ \E w \in E : lo < w /\ w < hi
    BY <1>1, <2>3, <2>4
  <2> DEFINE k == [ids |-> At(lo), top |-> lo, bottom |-> hi]
  <2>8. k \in ActiveRegions(in, x)
    BY <2>3, <2>4, <2>6, <2>7, ActiveIs
  <2>9. Around(k, y)
    BY <2>3 DEF Around
  <2> QED BY <2>8, <2>9
<1> QED BY <1>1, <1>2, <1>3, <1>4, <1>5

\* As long as no rectangle begins or ends, the line crosses the same ones.
LEMMA SameAlong ==
  ASSUME NEW in \in Seq(RectType), NEW x \in Int, NEW y \in Int, NEW z \in Int, x <= z,
         \A i \in DOMAIN in : ~Empty(in[i]) =>
           /\ in[i].left <= x \/ in[i].left > z
           /\ in[i].right <= x \/ in[i].right > z
  PROVE  Over(in, <<z, y>>) = Over(in, <<x, y>>)
<1>1. ASSUME NEW i \in DOMAIN in PROVE Covers(in[i], <<z, y>>) <=> Covers(in[i], <<x, y>>)
  <2>1. /\ in[i].left \in Int /\ in[i].right \in Int
        /\ in[i].top \in Int /\ in[i].bottom \in Int
    BY RectEdges
  <2> QED BY <2>1 DEF Covers, Empty
<1> QED BY <1>1 DEF Over

Begun(s, p) == s.left <= p[1] /\ Around(s, p[2])

\* The rectangles that are output over p, and those that are started.
OutOver(sw, p) == {o \in sw.out : Covers(o.rect, p)}
StartedOver(sw, p) == {s \in sw.started : Begun(s, p)}

\* Of what is output and what is started one is over p if a rectangle is,
\* with the ids of all rectangles that are.
Single(S, ids) == \E o : S = {o} /\ o.ids = ids

OneOver(in, sw, p) ==
  IF Over(in, p) = {} THEN OutOver(sw, p) = {} /\ StartedOver(sw, p) = {}
  ELSE \/ Single(OutOver(sw, p), Over(in, p)) /\ StartedOver(sw, p) = {}
       \/ Single(StartedOver(sw, p), Over(in, p)) /\ OutOver(sw, p) = {}

\* The sweep has reached x.
Started(sw, x) == \A s \in sw.started : s.left \in Int /\ s.left <= x

KeysRight(in, sw, x) ==
  /\ \A s \in sw.started : \E k \in ActiveRegions(in, x) : Key(k) = Key(s)
  /\ \A k \in ActiveRegions(in, x) : \E s \in sw.started : Key(k) = Key(s)
  /\ \A s, t \in sw.started : Key(s) = Key(t) => s = t

SweptTo(in, sw, x) ==
  /\ Started(sw, x)
  /\ KeysRight(in, sw, x)
  /\ \A o \in sw.out : o.ids \subseteq DOMAIN in
  /\ \A p \in Point : p[1] < x => OneOver(in, sw, p)
  /\ \A p \in Point : p[1] >= x => OutOver(sw, p) = {}

\* What is started, as it goes on to the next stop.
LEMMA StartedRight ==
  ASSUME NEW in \in Seq(RectType), NEW x \in Int, NEW sw, SweptTo(in, sw, x),
         NEW p \in Point, x <= p[1],
         \A i \in DOMAIN in : ~Empty(in[i]) =>
           /\ in[i].left <= x \/ in[i].left > p[1]
           /\ in[i].right <= x \/ in[i].right > p[1]
  PROVE  OneOver(in, sw, p)
<1> DEFINE y == p[2]
           AR == ActiveRegions(in, x)
<1>1. p = <<p[1], y>> /\ p[1] \in Int /\ y \in Int
  BY DEF Point
<1>2. Over(in, p) = Over(in, <<x, y>>)
  BY <1>1, SameAlong
<1>3. OutOver(sw, p) = {}
  BY DEF SweptTo
<1>4. \A s \in sw.started : s.left <= p[1]
  BY <1>1 DEF SweptTo, Started
<1>5. \A s \in sw.started, k \in AR :
        Key(k) = Key(s) => k.ids = s.ids /\ (Around(k, y) <=> Around(s, y))
  BY DEF Key, Around
<1>6. /\ \A s \in sw.started : \E k \in AR : Key(k) = Key(s)
      /\ \A k \in AR : \E s \in sw.started : Key(k) = Key(s)
      /\ \A s, t \in sw.started : Key(s) = Key(t) => s = t
  BY DEF SweptTo, KeysRight
<1>7. /\ \A k \in AR : Around(k, y) => k.ids = Over(in, p) /\ Over(in, p) # {}
      /\ \A k, j \in AR : Around(k, y) /\ Around(j, y) => k = j
      /\ Over(in, p) # {} => \E k \in AR : Around(k, y)
  BY <1>1, <1>2, ActiveRight
<1> HIDE DEF AR, y
<1>8. StartedOver(sw, p) = {s \in sw.started : Around(s, y)}
  BY <1>4 DEF StartedOver, Begun, y
<1>9. CASE Over(in, p) = {}
  BY <1>3, <1>5, <1>6, <1>7, <1>8, <1>9 DEF OneOver
<1>10. CASE Over(in, p) # {}
  <2>1. PICK k \in AR : Around(k, y) /\ k.ids = Over(in, p)
    BY <1>7, <1>10
  <2>2. PICK s \in sw.started : Key(k) = Key(s)
    BY <1>6
  <2>3. Around(s, y) /\ s.ids = Over(in, p)
    BY <1>5, <2>1, <2>2
  <2>4. ASSUME NEW t \in sw.started, Around(t, y) PROVE t = s
    <3>1. PICK j \in AR : Key(j) = Key(t)
      BY <1>6
    <3>2. j = k
      BY <1>5, <1>7, <2>1, <2>4, <3>1
    <3> QED BY <1>6, <2>2, <3>1, <3>2
  <2>5. StartedOver(sw, p) = {s}
    BY <1>8, <2>3, <2>4
  <2> QED BY <1>3, <1>10, <2>3, <2>5 DEF OneOver, Single
<1> QED BY <1>9, <1>10

Seen(in, sw, x) == {s \in sw.started : \E k \in ActiveRegions(in, x) : Key(k) = Key(s)}
Closed(s, x) == [ids |-> s.ids, rect |-> Rect(s.left, s.top, x, s.bottom)]
Opened(k, x) == [ids |-> k.ids, top |-> k.top, bottom |-> k.bottom, left |-> x]
New(in, sw, x) == {k \in ActiveRegions(in, x) : \A s \in sw.started : Key(s) # Key(k)}

LEMMA SweepIs ==
  ASSUME NEW in, NEW sw, NEW x
  PROVE  /\ Sweep(in, sw, x).started = Seen(in, sw, x) \cup {Opened(k, x) : k \in New(in, sw, x)}
         /\ Sweep(in, sw, x).out =
              sw.out \cup {Closed(s, x) : s \in sw.started \ Seen(in, sw, x)}
BY DEF Sweep, Seen, Closed, Opened, New

\* Points the line has passed keep what they have.
LEMMA PassedKept ==
  ASSUME NEW in, NEW sw, NEW x \in Int, NEW p \in Point, p[1] < x, OneOver(in, sw, p)
  PROVE  OneOver(in, Sweep(in, sw, x), p)
<1> DEFINE nw == Sweep(in, sw, x)
           seen == Seen(in, sw, x)
<1>1. p[1] \in Int /\ p[2] \in Int
  BY DEF Point
<1>2. /\ nw.started = seen \cup {Opened(k, x) : k \in New(in, sw, x)}
      /\ nw.out = sw.out \cup {Closed(s, x) : s \in sw.started \ seen}
      /\ seen \subseteq sw.started
  BY SweepIs DEF Seen
<1>3. ASSUME NEW k PROVE ~ Begun(Opened(k, x), p)
  BY <1>1 DEF Begun, Opened
<1>4. ASSUME NEW s PROVE /\ Covers(Closed(s, x).rect, p) <=> Begun(s, p)
                         /\ Closed(s, x).ids = s.ids
  BY <1>1 DEF Covers, Closed, Rect, Begun, Around
<1> HIDE DEF nw, seen
<1>5. StartedOver(nw, p) = StartedOver(sw, p) \cap seen
  BY <1>2, <1>3 DEF StartedOver
<1>6. OutOver(nw, p) = OutOver(sw, p) \cup {Closed(s, x) : s \in StartedOver(sw, p) \ seen}
  BY <1>2, <1>4 DEF StartedOver, OutOver
<1>7. CASE Over(in, p) = {}
  BY <1>5, <1>6, <1>7 DEF OneOver, nw
<1>8. CASE Over(in, p) # {} /\ Single(OutOver(sw, p), Over(in, p)) /\ StartedOver(sw, p) = {}
  BY <1>5, <1>6, <1>8 DEF OneOver, nw
<1>9. CASE Over(in, p) # {} /\ Single(StartedOver(sw, p), Over(in, p)) /\ OutOver(sw, p) = {}
  <2>1. PICK s : StartedOver(sw, p) = {s} /\ s.ids = Over(in, p)
    BY <1>9 DEF Single
  <2>2. CASE s \in seen
    <3>1. StartedOver(nw, p) = {s} /\ OutOver(nw, p) = {}
      BY <1>5, <1>6, <1>9, <2>1, <2>2
    <3> QED BY <1>9, <2>1, <3>1 DEF OneOver, Single, nw
  <2>3. CASE s \notin seen
    <3>1. StartedOver(nw, p) = {} /\ OutOver(nw, p) = {Closed(s, x)}
      BY <1>5, <1>6, <1>9, <2>1, <2>3
    <3>2. Closed(s, x).ids = Over(in, p)
      BY <1>4, <2>1
    <3> QED BY <1>9, <3>1, <3>2 DEF OneOver, Single, nw
  <2> QED BY <2>2, <2>3
<1> QED BY <1>7, <1>8, <1>9 DEF OneOver

LEMMA SweepKeys ==
  ASSUME NEW in \in Seq(RectType), NEW x \in Int, NEW sw,
         \A s, t \in sw.started : Key(s) = Key(t) => s = t
  PROVE  KeysRight(in, Sweep(in, sw, x), x)
<1> DEFINE nw == Sweep(in, sw, x)
           seen == Seen(in, sw, x)
           AR == ActiveRegions(in, x)
<1>1. /\ nw.started = seen \cup {Opened(k, x) : k \in New(in, sw, x)}
      /\ seen \subseteq sw.started
  BY SweepIs DEF Seen
<1>2. ASSUME NEW k PROVE Key(Opened(k, x)) = Key(k) /\ Opened(k, x).left = x
  BY DEF Key, Opened
<1>3. ASSUME NEW s \in nw.started PROVE \E k \in AR : Key(k) = Key(s)
  BY <1>1, <1>2 DEF Seen, New
<1>4. ASSUME NEW k \in AR PROVE \E s \in nw.started : Key(k) = Key(s)
  <2>1. CASE k \in New(in, sw, x)
    BY <1>1, <1>2, <2>1
  <2>2. CASE k \notin New(in, sw, x)
    <3>1. PICK s \in sw.started : Key(s) = Key(k)
      BY <2>2 DEF New
    <3>2. s \in seen
      BY <3>1 DEF Seen
    <3> QED BY <1>1, <3>1, <3>2
  <2> QED BY <2>1, <2>2
<1>5. ASSUME NEW s \in nw.started, NEW t \in nw.started, Key(s) = Key(t) PROVE s = t
  <2>1. CASE s \in seen /\ t \in seen
    BY <1>1, <1>5, <2>1
  <2>2. ASSUME NEW k \in New(in, sw, x), NEW r \in seen PROVE Key(Opened(k, x)) # Key(r)
    BY <1>1, <1>2 DEF New
  <2>3. ASSUME NEW k \in New(in, sw, x), NEW j \in New(in, sw, x), Key(k) = Key(j)
        PROVE  Opened(k, x) = Opened(j, x)
    BY <2>3 DEF Key, Opened
  <2> QED BY <1>1, <1>2, <1>5, <2>1, <2>2, <2>3
<1> QED BY <1>3, <1>4, <1>5 DEF KeysRight

\* One stop of the sweep, from the stop before.
LEMMA SweepStep ==
  ASSUME NEW in \in Seq(RectType), NEW x \in Int, NEW z \in Int, x < z, NEW sw,
         SweptTo(in, sw, x),
         \A i \in DOMAIN in : ~Empty(in[i]) =>
           /\ in[i].left <= x \/ in[i].left >= z
           /\ in[i].right <= x \/ in[i].right >= z
  PROVE  SweptTo(in, Sweep(in, sw, z), z)
<1> DEFINE nw == Sweep(in, sw, z)
           seen == Seen(in, sw, z)
<1>1. /\ nw.started = seen \cup {Opened(k, z) : k \in New(in, sw, z)}
      /\ nw.out = sw.out \cup {Closed(s, z) : s \in sw.started \ seen}
      /\ seen \subseteq sw.started
  BY SweepIs DEF Seen
<1>2. /\ \A s \in sw.started : s.left \in Int /\ s.left <= x
      /\ \A s, t \in sw.started : Key(s) = Key(t) => s = t
  BY DEF SweptTo, Started, KeysRight
<1>3. Started(nw, z)
  <2>1. \A k : Opened(k, z).left = z
    BY DEF Opened
  <2> HIDE DEF nw, seen
  <2>2. ASSUME NEW s \in nw.started PROVE s.left \in Int /\ s.left <= z
    BY <1>1, <1>2, <2>1
  <2> QED BY <2>2 DEF Started
<1>4. KeysRight(in, nw, z)
  BY <1>2, SweepKeys
<1>5. ASSUME NEW p \in Point, p[1] < z PROVE OneOver(in, nw, p)
  <2>1. p[1] \in Int
    BY DEF Point
  <2>2. CASE p[1] < x
    <3>1. OneOver(in, sw, p)
      BY <2>2 DEF SweptTo
    <3> QED BY <1>5, <3>1, PassedKept
  <2>3. CASE p[1] >= x
    <3>1. ASSUME NEW i \in DOMAIN in, ~Empty(in[i])
          PROVE  /\ in[i].left <= x \/ in[i].left > p[1]
                 /\ in[i].right <= x \/ in[i].right > p[1]
      <4>1. in[i].left \in Int /\ in[i].right \in Int
        BY RectEdges
      <4> QED BY <1>5, <2>1, <3>1, <4>1
    <3>2. OneOver(in, sw, p)
      BY <2>1, <2>3, <3>1, StartedRight
    <3> QED BY <1>5, <3>2, PassedKept
  <2> QED BY <2>1, <2>2, <2>3
<1>6. ASSUME NEW p \in Point, p[1] >= z PROVE OutOver(nw, p) = {}
  <2>1. p[1] \in Int /\ p[1] >= x
    BY <1>6 DEF Point
  <2>2. OutOver(sw, p) = {}
    BY <2>1 DEF SweptTo
  <2>3. ASSUME NEW s PROVE ~ Covers(Closed(s, z).rect, p)
    BY <1>6, <2>1 DEF Covers, Closed, Rect
  <2> HIDE DEF nw, seen
  <2> QED BY <1>1, <2>2, <2>3 DEF OutOver
<1>7. ASSUME NEW o \in nw.out PROVE o.ids \subseteq DOMAIN in
  <2>1. CASE o \in sw.out
    BY <2>1 DEF SweptTo
  <2>2. CASE o \notin sw.out
    <3>1. PICK s \in sw.started : o = Closed(s, z)
      BY <1>1, <2>2
    <3>2. PICK k \in ActiveRegions(in, x) : Key(k) = Key(s)
      BY DEF SweptTo, KeysRight
    <3>3. k.ids \subseteq DOMAIN in
      BY ActiveIs DEF AtY, Crossed
    <3> QED BY <3>1, <3>2, <3>3 DEF Closed, Key
  <2> QED BY <2>1, <2>2
<1> QED BY <1>3, <1>4, <1>5, <1>6, <1>7 DEF SweptTo

Nothing == [started |-> {}, out |-> {}]

\* g is the list of what the sweep holds after each of the first m stops.
Swept(in, stops, m, g) ==
  g = [n \in 0..m |-> IF n = 0 THEN [started |-> {}, out |-> {}] ELSE Sweep(in, g[n - 1], stops[n])]

LEMMA SweptExists ==
  ASSUME NEW in, NEW stops, NEW n \in Nat
  PROVE  \E g : Swept(in, stops, n, g)
<1> DEFINE Bad == {m \in Nat : ~ \E g : Swept(in, stops, m, g)}
<1> SUFFICES ASSUME Bad # {} PROVE FALSE
  OBVIOUS
<1>1. PICK m \in Bad : \A k \in Bad : m <= k
  BY LeastOf
<1>2. m # 0
  <2> SUFFICES ASSUME m = 0 PROVE FALSE
    OBVIOUS
  <2> DEFINE g == [i \in 0..m |-> Nothing]
  <2>1. \A i \in 0..m : i = 0
    OBVIOUS
  <2>2. g = [i \in 0..m |-> IF i = 0 THEN [started |-> {}, out |-> {}]
                            ELSE Sweep(in, g[i - 1], stops[i])]
    BY <2>1 DEF Nothing
  <2>3. Swept(in, stops, m, g)
    BY <2>2 DEF Swept
  <2> QED BY <2>3
<1>3. m - 1 \in Nat /\ m - 1 \notin Bad
  BY <1>1, <1>2
<1>4. PICK g : Swept(in, stops, m - 1, g)
  BY <1>3
<1> DEFINE h == [i \in 0..m |-> IF i < m THEN g[i] ELSE Sweep(in, g[i - 1], stops[i])]
<1>5. ASSUME NEW i \in 0..m
      PROVE  h[i] = IF i = 0 THEN [started |-> {}, out |-> {}] ELSE Sweep(in, h[i - 1], stops[i])
  <2>1. CASE i < m
    <3>1. i \in 0..(m - 1) /\ (i # 0 => i - 1 \in 0..(m - 1) /\ i - 1 \in 0..m /\ i - 1 < m)
      BY <1>1, <2>1
    <3>2. g[i] = IF i = 0 THEN [started |-> {}, out |-> {}] ELSE Sweep(in, g[i - 1], stops[i])
      BY <1>4, <3>1 DEF Swept
    <3> QED BY <2>1, <3>1, <3>2
  <2>2. CASE i = m
    <3>1. i # 0 /\ i - 1 \in 0..m /\ i - 1 < m
      BY <1>1, <1>2, <2>2
    <3> QED BY <2>2, <3>1
  <2> QED BY <1>1, <2>1, <2>2
<1>6. h = [i \in 0..m |-> IF i = 0 THEN [started |-> {}, out |-> {}]
                          ELSE Sweep(in, h[i - 1], stops[i])]
  <2> HIDE DEF h
  <2>1. DOMAIN h = 0..m /\ h = [i \in 0..m |-> h[i]]
    BY DEF h
  <2> QED BY <1>5, <2>1
<1>7. Swept(in, stops, m, h)
  BY <1>6 DEF Swept
<1> QED BY <1>7

\* separate_rects returns what the sweep has output after the last stop.
LEMMA SeparateIsLast ==
  ASSUME NEW in, Len(in) \in Nat, Len(in) <= MaxIds, Len(Stops(in)) \in Nat
  PROVE  \E g : /\ separate_rects(in) = g[Len(Stops(in))].out /\ g[0] = Nothing
                /\ \A n \in 1..Len(Stops(in)) : g[n] = Sweep(in, g[n - 1], Stops(in)[n])
<1> DEFINE stops == Stops(in)
           f == CHOOSE g : g = [n \in 0..Len(stops) |->
                  IF n = 0 THEN [started |-> {}, out |-> {}] ELSE Sweep(in, g[n - 1], stops[n])]
<1>1. \E g : g = [n \in 0..Len(stops) |->
                 IF n = 0 THEN [started |-> {}, out |-> {}] ELSE Sweep(in, g[n - 1], stops[n])]
  <2>1. \E g : Swept(in, stops, Len(stops), g)
    <3>1. Len(stops) \in Nat
      OBVIOUS
    <3> HIDE DEF stops
    <3> QED BY <3>1, SweptExists
  <2> HIDE DEF stops
  <2> QED BY <2>1 DEF Swept
<1>2. f = [n \in 0..Len(stops) |->
             IF n = 0 THEN [started |-> {}, out |-> {}] ELSE Sweep(in, f[n - 1], stops[n])]
  BY <1>1
<1>3. separate_rects(in) = f[Len(stops)].out
  <2>1. ~ (Len(in) > MaxIds)
    BY MaxIdsAssumption
  <2> QED BY <2>1 DEF separate_rects
<1> HIDE DEF f, stops
<1>4. \A n \in 0..Len(stops) :
        f[n] = IF n = 0 THEN [started |-> {}, out |-> {}] ELSE Sweep(in, f[n - 1], stops[n])
  BY <1>2
<1>5. Len(stops) \in Nat
  BY DEF stops
<1>6. f[0] = Nothing
  BY <1>4, <1>5 DEF Nothing
<1>7. \A n \in 1..Len(stops) : f[n] = Sweep(in, f[n - 1], stops[n])
  BY <1>4, <1>5
<1> QED BY <1>3, <1>6, <1>7 DEF stops

\* The vertical edges of the rectangles that are not empty.
Shapes(in) == {i \in DOMAIN in : ~Empty(in[i])}
Edges(in) == {in[i].left : i \in Shapes(in)} \cup {in[i].right : i \in Shapes(in)}

LEMMA StopsList ==
  ASSUME NEW in \in Seq(RectType)
  PROVE  Lists(Stops(in), Edges(in)) /\ Edges(in) \subseteq Int
<1> DEFINE I == Shapes(in)
           L == {in[i].left : i \in I}
           R == {in[i].right : i \in I}
<1>1. IsFiniteSet(I)
  <2>1. IsFiniteSet(1..Len(in)) /\ I \in SUBSET (1..Len(in))
    BY FS_Interval DEF Shapes
  <2> QED BY <2>1, FS_Subset
<1>2. L \in SUBSET Int /\ R \in SUBSET Int
  BY RectEdges DEF Shapes
<1>3. IsFiniteSet(L) /\ IsFiniteSet(R)
  <2> DEFINE l == [i \in I |-> in[i].left]
             r == [i \in I |-> in[i].right]
  <2> HIDE DEF I
  <2>1. l \in Surjection(I, L) /\ r \in Surjection(I, R)
    BY DEF Surjection
  <2> HIDE DEF l, r, L, R
  <2> QED BY <1>1, <2>1, FS_Surjection
<1>4. Edges(in) = L \cup R
  BY DEF Edges
<1>5. Stops(in) = Ascending(L \cup R)
  BY DEF Stops, Shapes
<1> HIDE DEF L, R
<1>6. IsFiniteSet(L \cup R)
  BY <1>3, FS_Union
<1> QED BY <1>2, <1>4, <1>5, <1>6, AscendingLists

LEMMA FirstStop ==
  ASSUME NEW in \in Seq(RectType), NEW x \in Int, \A w \in Edges(in) : x <= w
  PROVE  SweptTo(in, Sweep(in, Nothing, x), x)
<1> DEFINE nw == Sweep(in, Nothing, x)
<1>1. /\ nw.started = {Opened(k, x) : k \in New(in, Nothing, x)} /\ nw.out = {}
  BY SweepIs DEF Seen, Nothing
<1>2. \A k : Opened(k, x).left = x
  BY DEF Opened
<1>3. \A s \in nw.started : s.left = x
  BY <1>1, <1>2
<1>4. KeysRight(in, nw, x)
  BY SweepKeys DEF Nothing
<1> HIDE DEF nw
<1>5. Started(nw, x)
  BY <1>3 DEF Started
<1>6. ASSUME NEW p \in Point, p[1] < x PROVE OneOver(in, nw, p)
  <2>1. p[1] \in Int /\ p[2] \in Int
    BY DEF Point
  <2>2. ASSUME NEW i \in DOMAIN in PROVE ~ Covers(in[i], p)
    <3>1. /\ in[i].left \in Int /\ in[i].right \in Int
          /\ in[i].top \in Int /\ in[i].bottom \in Int
      BY RectEdges
    <3>2. ~ Empty(in[i]) => x <= in[i].left
      BY DEF Edges, Shapes
    <3> QED BY <1>6, <2>1, <3>1, <3>2 DEF Covers, Empty
  <2>3. Over(in, p) = {}
    BY <2>2 DEF Over
  <2>4. StartedOver(nw, p) = {}
    BY <1>3, <1>6, <2>1 DEF StartedOver, Begun
  <2> QED BY <1>1, <2>3, <2>4 DEF OneOver, OutOver
<1>7. \A p \in Point : OutOver(nw, p) = {}
  BY <1>1 DEF OutOver
<1> QED BY <1>1, <1>4, <1>5, <1>6, <1>7 DEF SweptTo, nw

\* The sweep ends at the last stop with nothing started.
Ended(in, sw) ==
  \/ Edges(in) = {} /\ sw = Nothing
  \/ \E x \in Edges(in) : (\A w \in Edges(in) : w <= x) /\ SweptTo(in, sw, x)

LEMMA SweepEnds ==
  ASSUME NEW in \in Seq(RectType), Len(in) <= MaxIds
  PROVE  \E sw : separate_rects(in) = sw.out /\ Ended(in, sw)
<1> DEFINE a == Stops(in)
           E == Edges(in)
           k == Len(a)
<1>1. Lists(a, E) /\ E \subseteq Int
  BY StopsList
<1>2. k \in Nat /\ \A n \in 1..k : a[n] \in Int
  BY <1>1 DEF Lists
<1>3. PICK g : /\ separate_rects(in) = g[k].out /\ g[0] = Nothing
               /\ \A n \in 1..k : g[n] = Sweep(in, g[n - 1], a[n])
  <2>1. Len(in) \in Nat
    OBVIOUS
  <2> QED BY <1>2, <2>1, SeparateIsLast
<1> HIDE DEF a, E, k
<1>4. ASSUME NEW i \in DOMAIN in, ~Empty(in[i]) PROVE in[i].left \in E /\ in[i].right \in E
  BY <1>4 DEF E, Edges, Shapes
<1>5. ASSUME k # 0 PROVE SweptTo(in, g[k], a[k])
  <2> DEFINE Good == {n \in 1..k : SweptTo(in, g[n], a[n])}
  <2>1. 1 \in Good
    <3>1. 1 \in 1..k /\ 1 - 1 = 0
      BY <1>2, <1>5
    <3>2. \A w \in E : a[1] <= w
      BY <1>1 DEF Lists
    <3>3. g[1] = Sweep(in, Nothing, a[1])
      BY <1>3, <3>1
    <3> QED BY <1>2, <3>1, <3>2, <3>3, FirstStop DEF E
  <2>2. ASSUME NEW n \in 1..k, n # 1, n - 1 \in Good PROVE n \in Good
    <3>1. n - 1 \in 1..(k - 1) /\ n - 1 \in 1..k /\ (n - 1) + 1 = n
      BY <1>2, <2>2
    <3>2. SweptTo(in, g[n - 1], a[n - 1]) /\ g[n] = Sweep(in, g[n - 1], a[n])
      BY <1>3, <2>2
    <3>3. a[n - 1] < a[n] /\ \A w \in E : w <= a[n - 1] \/ w >= a[n]
      BY <1>1, <3>1 DEF Lists, k
    <3>4. SweptTo(in, g[n], a[n])
      BY <1>2, <1>4, <3>1, <3>2, <3>3, SweepStep
    <3> QED BY <3>4
  <2>3. 1..k \subseteq Good
    <3> HIDE DEF Good
    <3> QED BY <1>2, <2>1, <2>2, ByPlace
  <2>4. k \in 1..k
    BY <1>2, <1>5
  <2> QED BY <2>3, <2>4
<1>6. CASE k = 0
  <2>1. E = {} /\ g[k] = Nothing
    BY <1>1, <1>3, <1>6 DEF Lists, k
  <2> QED BY <1>3, <2>1 DEF Ended, E
<1>7. CASE k # 0
  <2>1. k \in 1..k /\ a[k] \in E /\ \A w \in E : w <= a[k]
    <3>1. k \in 1..k
      BY <1>2, <1>7
    <3> QED BY <1>1, <3>1 DEF Lists, k
  <2>2. Ended(in, g[k])
    BY <1>5, <1>7, <2>1 DEF Ended, E
  <2> QED BY <1>3, <2>2
<1> QED BY <1>6, <1>7

LEMMA SeparateIds ==
  ASSUME NEW in \in Seq(RectType), Len(in) <= MaxIds, NEW o \in separate_rects(in)
  PROVE  o.ids \subseteq DOMAIN in
<1>1. PICK sw : separate_rects(in) = sw.out /\ Ended(in, sw)
  BY SweepEnds
<1>2. o \in sw.out
  BY <1>1
<1>3. sw # Nothing
  BY <1>2 DEF Nothing
<1> QED BY <1>1, <1>2, <1>3 DEF Ended, SweptTo

\* separate_rects: for any rectangles the id sets have room for, the output
\* covers the same points, each once, with the ids of the rectangles over it.
THEOREM SeparateRight ==
  ASSUME NEW in \in Seq(RectType), Len(in) <= MaxIds, NEW pixels \in SUBSET Point
  PROVE  Separated(in, separate_rects(in), pixels)
<1> DEFINE E == Edges(in)
           out == separate_rects(in)
<1>1. E \subseteq Int
  BY StopsList
<1>2. PICK sw : out = sw.out /\ Ended(in, sw)
  BY SweepEnds
<1> HIDE DEF E
<1>4. ASSUME NEW i \in DOMAIN in, ~Empty(in[i]) PROVE in[i].right \in E
  BY <1>4 DEF E, Edges, Shapes
<1>6. ASSUME NEW p \in pixels
      PROVE  IF Over(in, p) = {} THEN {o \in out : Covers(o.rect, p)} = {}
             ELSE Single({o \in out : Covers(o.rect, p)}, Over(in, p))
  <2>1. p \in Point /\ p[1] \in Int /\ p[2] \in Int
    BY DEF Point
  <2>2. {o \in out : Covers(o.rect, p)} = OutOver(sw, p)
    BY <1>2 DEF OutOver
  <2>3. ASSUME NEW x \in Int, \A w \in E : w <= x, x <= p[1] PROVE Over(in, p) = {}
    <3>1. ASSUME NEW i \in DOMAIN in PROVE ~ Covers(in[i], p)
      <4>1. /\ in[i].left \in Int /\ in[i].right \in Int
            /\ in[i].top \in Int /\ in[i].bottom \in Int
        BY RectEdges
      <4>2. ~ Empty(in[i]) => in[i].right <= x
        BY <1>4, <2>3
      <4> QED BY <2>1, <2>3, <4>1, <4>2 DEF Covers, Empty
    <3> QED BY <3>1 DEF Over
  <2>4. CASE E = {} /\ sw = Nothing
    <3>1. Over(in, p) = {}
      BY <2>1, <2>3, <2>4
    <3>2. OutOver(sw, p) = {}
      BY <2>4 DEF OutOver, Nothing
    <3> QED BY <2>2, <3>1, <3>2
  <2>5. ASSUME NEW x \in E, \A w \in E : w <= x, SweptTo(in, sw, x)
        PROVE  IF Over(in, p) = {} THEN OutOver(sw, p) = {}
               ELSE Single(OutOver(sw, p), Over(in, p))
    <3>0. x \in Int
      BY <1>1
    <3>1. CASE p[1] >= x
      <4>1. Over(in, p) = {}
        BY <2>1, <2>3, <2>5, <3>0, <3>1
      <4>2. OutOver(sw, p) = {}
        BY <2>1, <2>5, <3>1 DEF SweptTo
      <4> QED BY <4>1, <4>2
    <3>2. CASE p[1] < x
      <4>1. OneOver(in, sw, p) /\ KeysRight(in, sw, x)
        BY <2>1, <2>5, <3>2 DEF SweptTo
      <4>2. Crossed(in, x) = {}
        <5>1. ASSUME NEW i \in DOMAIN in, ~Empty(in[i]), x < in[i].right PROVE FALSE
          <6>1. in[i].right \in Int /\ in[i].right <= x
            BY <1>4, <2>5, <5>1, RectEdges
          <6> QED BY <3>0, <5>1, <6>1
        <5> QED BY <5>1 DEF Crossed
      <4>3. ActiveRegions(in, x) = {}
        <5>1. Ys(in, x) = {}
          BY <4>2 DEF Ys
        <5> QED BY <5>1, ActiveIs
      <4>4. StartedOver(sw, p) = {}
        BY <4>1, <4>3 DEF KeysRight, StartedOver
      <4>5. ~ Single(StartedOver(sw, p), Over(in, p))
        BY <4>4 DEF Single
      <4> QED BY <4>1, <4>4, <4>5 DEF OneOver
    <3> QED BY <2>1, <3>0, <3>1, <3>2
  <2> QED BY <1>2, <2>2, <2>4, <2>5 DEF Ended, E
<1> HIDE DEF out
<1>7. ASSUME NEW p \in pixels, Over(in, p) # {}
      PROVE  /\ Cardinality({o \in out : Covers(o.rect, p)}) = 1
             /\ \A o \in {u \in out : Covers(u.rect, p)} : o.ids = Over(in, p)
  <2>1. PICK o : {u \in out : Covers(u.rect, p)} = {o} /\ o.ids = Over(in, p)
    BY <1>6, <1>7 DEF Single
  <2> QED BY <2>1, FS_Singleton
<1>8. \A p \in pixels : {i \in DOMAIN in : Covers(in[i], p)} = Over(in, p)
  BY DEF Over
<1> QED BY <1>6, <1>7, <1>8 DEF Separated, out
-----------------------------------------------------------------------------
(* The squash history *)

\* A stack of layers that SurfaceFlinger may ask for.
LayerType == [frame : RectType, protected : BOOLEAN, rotated : BOOLEAN,
              format : {"rgb", "yuv"}, premult : BOOLEAN, src : Int \X Int]

Stack == {g \in Seq(LayerType) : Len(g) <= MaxIds}

\* Stacks are no higher than an id set is wide, and every display has a primary
\* plane that no other can use.
FollowsFit == \A d \in D, s \in [D -> Stack] : Follow(d, s) \subseteq Stack
OwnPrimary(d) == {p \in DOMAIN Planes : Planes[p].type = "primary" /\ Planes[p].crtcs = {d}}
PlanesFit == \A d \in D : OwnPrimary(d) # {}

Supported(d) == {p \in DOMAIN Planes : d \in Planes[p].crtcs}
PlaneUse(U) == [type : {"layer", "precomp", "squash", "disable"}, plane : U, source : SUBSET Nat]
PlanIn(pl, U) == /\ pl = [comp |-> pl.comp, layers |-> pl.layers, planes |-> pl.planes]
                 /\ pl.comp \in Seq(PlaneUse(U)) /\ pl.planes \in Seq(U)
                 /\ pl.layers \in SUBSET Nat /\ IsFiniteSet(pl.layers)

Stages == {"NvLimits", "ProtectedRotated", "Protected", "Precomp", "Greedy", "finalize"}
Planning == {"history"} \cup Stages

\* Display m of the list has its squash history recorded in this call.
Passed(m) == \/ job.at \in {"disable", "queue"}
             \/ m < job.n
             \/ m = job.n /\ job.at \in Stages

PlanShape(p) == p = [layers |-> p.layers, comp |-> p.comp, regions |-> p.regions,
                     stable |-> p.stable, fence |-> p.fence, current |-> p.current]

SquashShape(s) == s = [regions |-> s.regions, history |-> s.history, squashed |-> s.squashed,
                       last |-> s.last, valid |-> s.valid]

JobFields(j) == j = [at |-> j.at, n |-> j.n, on |-> j.on, changed |-> j.changed,
                     layers |-> j.layers, plan |-> j.plan, rendered |-> j.rendered,
                     primary |-> j.primary, overlay |-> j.overlay, pl |-> j.pl]

JobShape ==
  /\ JobFields(job)
  /\ job.at \in Planning \cup {"disable", "queue"}
  /\ job.n \in DOMAIN Displays /\ job.on \subseteq D /\ job.changed \subseteq job.on
  /\ DOMAIN job.plan = job.on /\ DOMAIN job.rendered = job.on
  /\ \A d \in job.on : PlanShape(job.plan[d])
  /\ job.primary \in Seq(DOMAIN Planes) /\ job.overlay \in Seq(DOMAIN Planes)

\* How far the call is, and the planes it has for the displays to come.
JobInv ==
  job # NoJob =>
    /\ JobShape
    /\ \A m \in DOMAIN Displays :
         Displays[m] \in job.on => job.plan[Displays[m]].current = Passed(m)
    /\ job.at \in Planning => \A m \in DOMAIN Displays :
         m >= job.n => OwnPrimary(Displays[m]) \subseteq Range(job.primary)
    /\ job.at \in Stages => Cur \in job.on /\ PlanIn(job.pl, Supported(Cur))

Handles(layers) == [i \in DOMAIN layers |-> layers[i].handle]

\* The squash framebuffer of d holds the last buffers of the squashed regions.
Holds(d) == \A r \in squash[d].squashed :
              r \in DOMAIN squash_fb[d] /\ squash_fb[d][r] = [l \in r.ids |-> squash[d].last[l]]

\* The history of d is that of the layers shown.
HistoryOf(d) ==
  /\ squash[d].regions = separate_rects(FramesOf(stack[d]))
  /\ DOMAIN squash[d].last = DOMAIN stack[d] /\ Len(squash[d].last) = Len(stack[d])
  /\ squash[d].squashed \subseteq squash[d].regions

Asked(d) == job # NoJob /\ d \in job.on
Recorded(d) == Asked(d) /\ job.plan[d].current

SquashOf(d) ==
  /\ SquashShape(squash[d])
  /\ ~ Recorded(d) => Holds(d)
  /\ HistoryOf(d) \/ (Asked(d) /\ d \in job.changed /\ ~ Recorded(d))
  /\ Asked(d) => /\ FramesOf(job.layers[d]) = FramesOf(stack[d])
                 /\ DOMAIN job.layers[d] = DOMAIN stack[d] /\ Len(job.layers[d]) = Len(stack[d])
  /\ Recorded(d) =>
       /\ job.plan[d].layers = job.layers[d] /\ job.plan[d].stable = squash[d].squashed
       /\ squash[d].last = Handles(job.layers[d])
       /\ job.rendered[d] = squash[d].squashed \/ (job.rendered[d] = {} /\ Holds(d))
  /\ planned[d].current =>
       /\ job = NoJob
       /\ planned[d].stable = squash[d].squashed
       /\ squash[d].last = Handles(planned[d].layers)
       /\ DOMAIN planned[d].layers = DOMAIN stack[d]

SquashInv ==
  /\ stack \in [D -> Stack]
  /\ DOMAIN squash = D /\ DOMAIN squash_fb = D /\ DOMAIN planned = D
  /\ JobInv
  /\ \A d \in D : SquashOf(d)
-----------------------------------------------------------------------------
(* The planner uses the planes it was given *)

LEMMA AscendingAll ==
  ASSUME NEW S \in SUBSET Int, IsFiniteSet(S), NEW w \in S
  PROVE  \E n \in 1..Cardinality(S) : Ascending(S)[n] = w
<1> DEFINE rank(x) == Cardinality(Below(S, x))
           n == rank(w) + 1
           v == Ascending(S)[n]
<1>1. n \in 1..Cardinality(S) /\ rank(w) = n - 1
  BY RanksGrow
<1>2. v \in S /\ rank(v) = n - 1
  BY <1>1, AscendingRanks
<1>3. /\ \A x \in S : v < x => rank(v) < rank(x)
      /\ \A x \in S : w < x => rank(w) < rank(x)
  BY <1>2, RanksGrow
<1> HIDE DEF rank, n, v
<1>4. n \in Int
  BY <1>1
<1>5. v \in Int /\ w \in Int /\ ~ (v < w) /\ ~ (w < v)
  BY <1>1, <1>2, <1>3, <1>4
<1>6. v = w
  BY <1>5
<1> QED BY <1>1, <1>6 DEF v

LEMMA AscendingSeq ==
  ASSUME NEW S \in SUBSET Int, IsFiniteSet(S)
  PROVE  Ascending(S) \in Seq(S) /\ Len(Ascending(S)) = Cardinality(S)
<1>1. Cardinality(S) \in Nat /\ \A n \in 1..Cardinality(S) : Ascending(S)[n] \in S
  BY AscendingRanks, FS_CardinalityType
<1>2. Ascending(S) = [n \in 1..Cardinality(S) |-> Ascending(S)[n]]
  <2> DEFINE c(n) == CHOOSE x \in S : Cardinality({y \in S : y < x}) = n - 1
  <2>1. Ascending(S) = [n \in 1..Cardinality(S) |-> c(n)]
    BY Zenon DEF Ascending
  <2> HIDE DEF c
  <2> QED BY <2>1
<1>3. Ascending(S) \in [1..Cardinality(S) -> S]
  BY <1>1, <1>2
<1> QED BY <1>1, <1>3

LEMMA PlacesFinite ==
  ASSUME NEW T, NEW s \in Seq(T), NEW P \in SUBSET DOMAIN s
  PROVE  IsFiniteSet(P) /\ P \in SUBSET Int
<1>1. DOMAIN s = 1..Len(s) /\ Len(s) \in Nat
  OBVIOUS
<1>2. IsFiniteSet(1..Len(s))
  BY <1>1, FS_Interval
<1>3. P \in SUBSET (1..Len(s))
  BY <1>1
<1> QED BY <1>1, <1>2, <1>3, FS_Subset

LEMMA EntriesIn ==
  ASSUME NEW T, NEW s \in Seq(T), NEW P \in SUBSET DOMAIN s
  PROVE  /\ EntriesAt(s, P) \in Seq(T)
         /\ Range(EntriesAt(s, P)) = {s[i] : i \in P}
<1> DEFINE order == Ascending(P)
           e == [n \in DOMAIN order |-> s[order[n]]]
<1>1. IsFiniteSet(P) /\ P \in SUBSET Int
  BY PlacesFinite
<1>2. order \in Seq(P) /\ Len(order) = Cardinality(P)
  BY <1>1, AscendingSeq
<1>3. \A w \in P : \E n \in 1..Cardinality(P) : order[n] = w
  BY <1>1, AscendingAll
<1>4. EntriesAt(s, P) = e
  BY DEF EntriesAt
<1> HIDE DEF order
<1>5. /\ DOMAIN order = 1..Len(order) /\ Len(order) \in Nat
      /\ \A n \in 1..Len(order) : order[n] \in P
  BY <1>2
<1>6. \A n \in 1..Len(order) : s[order[n]] \in T
  BY <1>5
<1>7. e \in Seq(T)
  <2>1. e \in [1..Len(order) -> T]
    BY <1>5, <1>6
  <2> QED BY <1>5, <2>1
<1>8. Range(e) = {s[i] : i \in P}
  BY <1>2, <1>3, <1>5 DEF Range
<1> QED BY <1>4, <1>7, <1>8

LEMMA LeftIn ==
  ASSUME NEW T, NEW pool \in Seq(T), NEW used
  PROVE  Left(pool, used) \in Seq(T) /\ Range(Left(pool, used)) = Range(pool) \ used
<1> DEFINE P == {i \in DOMAIN pool : pool[i] \notin used}
<1>1. Left(pool, used) \in Seq(T) /\ Range(Left(pool, used)) = {pool[i] : i \in P}
  BY EntriesIn DEF Left
<1> QED BY <1>1 DEF Range

LEMMA UsableIn ==
  ASSUME NEW d, NEW primary \in Seq(DOMAIN Planes), NEW overlay \in Seq(DOMAIN Planes)
  PROVE  /\ GetUsablePlanes(d, primary, overlay) \in Seq(Supported(d))
         /\ Supported(d) \cap Range(primary) # {} => GetUsablePlanes(d, primary, overlay) # <<>>
<1> DEFINE Good(pool) == {i \in DOMAIN pool : GetCrtcSupported(pool[i], d)}
           u(pool) == EntriesAt(pool, Good(pool))
<1>1. ASSUME NEW pool \in Seq(DOMAIN Planes)
      PROVE  /\ u(pool) \in Seq(Supported(d))
             /\ Supported(d) \cap Range(pool) # {} => Len(u(pool)) > 0
  <2>1. u(pool) \in Seq(DOMAIN Planes) /\ Range(u(pool)) = {pool[i] : i \in Good(pool)}
    BY EntriesIn
  <2>2. \A i \in Good(pool) : pool[i] \in Supported(d)
    BY DEF Supported, GetCrtcSupported
  <2>3. Supported(d) \cap Range(pool) # {} => Good(pool) # {}
    BY DEF Supported, GetCrtcSupported, Range
  <2> HIDE DEF u, Good
  <2>4. \A n \in DOMAIN u(pool) : u(pool)[n] \in Supported(d)
    BY <2>1, <2>2 DEF Range
  <2>5. u(pool) \in Seq(Supported(d))
    <3>1. u(pool) \in [1..Len(u(pool)) -> Supported(d)]
      BY <2>1, <2>4
    <3> QED BY <2>1, <3>1
  <2>6. ASSUME Good(pool) # {} PROVE Len(u(pool)) > 0
    <3>1. PICK i \in Good(pool) : pool[i] \in Range(u(pool))
      BY <2>1, <2>6
    <3>2. PICK n \in DOMAIN u(pool) : u(pool)[n] = pool[i]
      BY <3>1 DEF Range
    <3> QED BY <2>1, <3>2
  <2> QED BY <2>3, <2>5, <2>6
<1>2. GetUsablePlanes(d, primary, overlay) = u(primary) \o u(overlay)
  BY DEF GetUsablePlanes
<1> HIDE DEF u
<1>3. u(primary) \in Seq(Supported(d)) /\ u(overlay) \in Seq(Supported(d))
  BY <1>1
<1>4. u(primary) \o u(overlay) \in Seq(Supported(d))
  BY <1>3
<1>5. Len(u(primary)) > 0 => u(primary) \o u(overlay) # <<>>
  BY <1>3
<1> QED BY <1>1, <1>2, <1>4, <1>5

LEMMA ConcatIn ==
  ASSUME NEW S, NEW a \in Seq(S), NEW b \in Seq(S)
  PROVE  a \o b \in Seq(S)
OBVIOUS

LEMMA ToPrecompIn ==
  ASSUME NEW U, NEW pl, PlanIn(pl, U), NEW S \in SUBSET Nat
  PROVE  PlanIn(ToPrecomp(pl, S), U)
<1> DEFINE C == PlaneUse(U)
<1>1. /\ pl = [comp |-> pl.comp, layers |-> pl.layers, planes |-> pl.planes]
      /\ pl.comp \in Seq(C) /\ pl.planes \in Seq(U)
      /\ pl.layers \in SUBSET Nat /\ IsFiniteSet(pl.layers)
  BY DEF PlanIn
<1>2. pl.layers \ S \in SUBSET Nat /\ IsFiniteSet(pl.layers \ S)
  BY <1>1, FS_Difference
<1>3. CASE S = {}
  BY <1>3 DEF ToPrecomp
<1>4. CASE S # {} /\ PrecompAt(pl.comp) # {}
  <2> DEFINE Join(x) == IF x.type = "precomp" THEN [x EXCEPT !.source = x.source \cup S] ELSE x
             c == [i \in DOMAIN pl.comp |-> Join(pl.comp[i])]
  <2>1. ToPrecomp(pl, S) = [comp |-> c, layers |-> pl.layers \ S, planes |-> pl.planes]
    BY <1>4 DEF ToPrecomp
  <2>2. ASSUME NEW i \in DOMAIN pl.comp PROVE c[i] \in C
    <3>1. pl.comp[i] \in C
      <4> HIDE DEF C
      <4> QED BY <1>1
    <3> QED BY <3>1 DEF PlaneUse
  <2> HIDE DEF C
  <2>3. c \in Seq(C)
    <3>1. DOMAIN pl.comp = 1..Len(pl.comp) /\ Len(pl.comp) \in Nat
      BY <1>1
    <3>2. c \in [1..Len(pl.comp) -> C]
      BY <2>2, <3>1
    <3> QED BY <3>1, <3>2
  <2> HIDE DEF c
  <2> QED BY <1>1, <1>2, <2>1, <2>3 DEF PlanIn, C
<1>5. CASE S # {} /\ PrecompAt(pl.comp) = {} /\ pl.planes = <<>>
  <2>1. ToPrecomp(pl, S) = [pl EXCEPT !.layers = pl.layers \ S]
    BY <1>5 DEF ToPrecomp
  <2>2. ToPrecomp(pl, S) = [comp |-> pl.comp, layers |-> pl.layers \ S, planes |-> pl.planes]
    BY <1>1, <2>1
  <2> QED BY <1>1, <1>2, <2>2 DEF PlanIn
<1>6. CASE S # {} /\ PrecompAt(pl.comp) = {} /\ pl.planes # <<>>
  <2> DEFINE e == [type |-> "precomp", plane |-> Last(pl.planes), source |-> S]
  <2>1. ToPrecomp(pl, S) = [comp |-> Append(pl.comp, e), layers |-> pl.layers \ S,
                            planes |-> Front(pl.planes)]
    BY <1>6 DEF ToPrecomp
  <2>2. Last(pl.planes) \in U /\ Front(pl.planes) \in Seq(U)
    BY <1>1, <1>6 DEF Last, Front
  <2>3. e \in C
    BY <2>2 DEF PlaneUse
  <2> HIDE DEF C, e
  <2>4. Append(pl.comp, e) \in Seq(C)
    BY <1>1, <2>3
  <2> QED BY <1>2, <2>1, <2>2, <2>4 DEF PlanIn, C
<1> QED BY <1>3, <1>4, <1>5, <1>6

LEMMA EmplaceIn ==
  ASSUME NEW U, NEW pl, PlanIn(pl, U), NEW S \in SUBSET pl.layers, NEW drop \in BOOLEAN
  PROVE  PlanIn(Emplace(pl, S, drop), U)
<1> DEFINE C == PlaneUse(U)
           order == Ascending(S)
           k == IF Cardinality(S) <= Len(pl.planes) THEN Cardinality(S) ELSE Len(pl.planes)
           placed == [n \in 1..k |-> Dedicated(order[n], pl.planes[n])]
           before == EntriesAt(pl.comp, DOMAIN pl.comp \ PrecompAt(pl.comp))
           after == EntriesAt(pl.comp, PrecompAt(pl.comp))
           gone == IF drop THEN S ELSE {order[n] : n \in 1..k}
<1>1. /\ pl.comp \in Seq(C) /\ pl.planes \in Seq(U)
      /\ pl.layers \in SUBSET Nat /\ IsFiniteSet(pl.layers)
  BY DEF PlanIn
<1>2. Emplace(pl, S, drop) = [comp |-> before \o placed \o after, layers |-> pl.layers \ gone,
                              planes |-> SubSeq(pl.planes, k + 1, Len(pl.planes))]
  BY DEF Emplace
<1>3. pl.layers \ gone \in SUBSET Nat /\ IsFiniteSet(pl.layers \ gone)
  BY <1>1, FS_Difference
<1>4. IsFiniteSet(S) /\ S \in SUBSET Int /\ Cardinality(S) \in Nat
  BY <1>1, FS_Subset, FS_CardinalityType
<1>5. \A n \in 1..Cardinality(S) : order[n] \in S
  BY <1>4, AscendingRanks
<1>6. k \in Nat /\ k <= Cardinality(S) /\ k <= Len(pl.planes)
  BY <1>1, <1>4
<1> HIDE DEF k, order
<1>7. ASSUME NEW n \in 1..k PROVE placed[n] \in C
  <2>1. n \in 1..Cardinality(S) /\ n \in 1..Len(pl.planes) /\ Len(pl.planes) \in Nat
    BY <1>1, <1>4, <1>6
  <2>2. order[n] \in Nat /\ pl.planes[n] \in U
    BY <1>1, <1>5, <2>1
  <2> QED BY <2>2 DEF PlaneUse, Dedicated
<1> HIDE DEF C
<1>8. placed \in Seq(C)
  <2>1. placed \in [1..k -> C]
    BY <1>7
  <2> QED BY <1>6, <2>1
<1>9. before \in Seq(C) /\ after \in Seq(C)
  <2>1. PrecompAt(pl.comp) \in SUBSET DOMAIN pl.comp
    BY DEF PrecompAt
  <2> QED BY <1>1, <2>1, EntriesIn
<1> HIDE DEF before, after, placed, gone
<1>10. before \o placed \o after \in Seq(C)
  BY <1>8, <1>9, ConcatIn
<1>11. SubSeq(pl.planes, k + 1, Len(pl.planes)) \in Seq(U)
  BY <1>1, <1>6
<1> QED BY <1>2, <1>3, <1>10, <1>11 DEF PlanIn, C

LEMMA NvLimitsIn ==
  ASSUME NEW U, NEW pl, PlanIn(pl, U), NEW layers
  PROVE  PlanIn(PlanStageNvLimits(layers, pl), U)
<1> DEFINE bad == {l \in pl.layers : ~CheckLayer(l, layers[l])}
           drop == {l \in bad : layers[l].protected}
           q == [pl EXCEPT !.layers = pl.layers \ drop]
<1>1. PlanStageNvLimits(layers, pl) = ToPrecomp(q, bad \ drop)
  BY DEF PlanStageNvLimits
<1>2. bad \ drop \in SUBSET Nat
  BY DEF PlanIn
<1>3. PlanIn(q, U)
  <2> HIDE DEF drop
  <2>1. IsFiniteSet(pl.layers \ drop) /\ pl.layers \ drop \in SUBSET Nat
    BY FS_Difference DEF PlanIn
  <2>2. q = [comp |-> pl.comp, layers |-> pl.layers \ drop, planes |-> pl.planes]
    <3>1. pl = [comp |-> pl.comp, layers |-> pl.layers, planes |-> pl.planes]
      BY DEF PlanIn
    <3> HIDE DEF q
    <3>2. q = [pl EXCEPT !.layers = pl.layers \ drop]
      BY DEF q
    <3> QED BY <3>1, <3>2
  <2> QED BY <2>1, <2>2 DEF PlanIn
<1> QED BY <1>1, <1>2, <1>3, ToPrecompIn

LEMMA BelowProtectedIn ==
  ASSUME NEW U, NEW pl, PlanIn(pl, U), NEW placed
  PROVE  PlanIn(BelowProtected(pl, placed), U)
<1>1. {l \in pl.layers : \E p \in placed : l < p} \in SUBSET Nat
  BY DEF PlanIn
<1> QED BY <1>1, ToPrecompIn DEF BelowProtected

LEMMA ProtectedRotatedIn ==
  ASSUME NEW U, NEW pl, PlanIn(pl, U), NEW layers
  PROVE  PlanIn(PlanStageProtectedRotated(layers, pl), U)
<1> DEFINE C == PlaneUse(U)
           M == {l \in pl.layers : layers[l].protected /\ layers[l].rotated}
           mine == Ascending(M)
           P == {i \in DOMAIN pl.planes : Planes[pl.planes[i]].type = "primary"}
           prim == EntriesAt(pl.planes, P)
           k == IF Len(mine) <= Len(prim) THEN Len(mine) ELSE Len(prim)
           placed == [n \in 1..k |-> Dedicated(mine[k + 1 - n], prim[k + 1 - n])]
           left == Left(pl.planes, {prim[n] : n \in 1..k})
           q == [comp |-> placed \o pl.comp, layers |-> pl.layers \ Range(mine), planes |-> left]
<1>1. /\ pl.comp \in Seq(C) /\ pl.planes \in Seq(U)
      /\ pl.layers \in SUBSET Nat /\ IsFiniteSet(pl.layers)
  BY DEF PlanIn
<1>2. PlanStageProtectedRotated(layers, pl) = BelowProtected(q, {mine[n] : n \in 1..k})
  BY DEF PlanStageProtectedRotated
<1>3. pl.layers \ Range(mine) \in SUBSET Nat /\ IsFiniteSet(pl.layers \ Range(mine))
  <2> HIDE DEF mine
  <2> QED BY <1>1, FS_Difference
<1>4. IsFiniteSet(M) /\ M \in SUBSET Int /\ M \in SUBSET Nat
  BY <1>1, FS_Subset
<1>5. mine \in Seq(M)
  BY <1>4, AscendingSeq
<1>6. prim \in Seq(U) /\ left \in Seq(U)
  BY <1>1, EntriesIn, LeftIn
<1> HIDE DEF mine, prim, left, M
<1>7. Len(mine) \in Nat /\ Len(prim) \in Nat /\ k \in Nat /\ k <= Len(mine) /\ k <= Len(prim)
  BY <1>5, <1>6
<1> HIDE DEF k
<1>8. ASSUME NEW n \in 1..k PROVE placed[n] \in C
  <2>1. k + 1 - n \in 1..Len(mine) /\ k + 1 - n \in 1..Len(prim)
    BY <1>7
  <2>2. mine[k + 1 - n] \in Nat /\ prim[k + 1 - n] \in U
    <3>1. mine[k + 1 - n] \in M
      BY <1>5, <2>1
    <3>2. prim[k + 1 - n] \in U
      BY <1>6, <2>1
    <3> QED BY <1>4, <3>1, <3>2
  <2> QED BY <2>2 DEF PlaneUse, Dedicated
<1> HIDE DEF C
<1>9. placed \in Seq(C)
  <2>1. placed \in [1..k -> C]
    BY <1>8
  <2> QED BY <1>7, <2>1
<1> HIDE DEF placed
<1>10. PlanIn(q, U)
  <2>1. placed \o pl.comp \in Seq(C)
    BY <1>1, <1>9, ConcatIn
  <2> QED BY <1>3, <1>6, <2>1 DEF PlanIn, C
<1> HIDE DEF q
<1> QED BY <1>2, <1>10, BelowProtectedIn

LEMMA ProtectedIn ==
  ASSUME NEW U, NEW pl, PlanIn(pl, U), NEW layers
  PROVE  PlanIn(PlanStageProtected(layers, pl), U)
<1> DEFINE mine == {l \in pl.layers : layers[l].protected}
<1>1. PlanIn(Emplace(pl, mine, TRUE), U)
  BY EmplaceIn
<1> QED BY <1>1, BelowProtectedIn DEF PlanStageProtected

LEMMA PrecompIn ==
  ASSUME NEW U, NEW pl, PlanIn(pl, U)
  PROVE  PlanIn(PlanStagePrecomp(pl), U)
<1> DEFINE source == UNION {pl.comp[i].source : i \in PrecompAt(pl.comp)}
           S == {l \in pl.layers : \E s \in source : s <= l}
<1>1. S \in SUBSET Nat
  BY DEF PlanIn
<1>2. PlanStagePrecomp(pl) = ToPrecomp(pl, S)
  BY DEF PlanStagePrecomp
<1> HIDE DEF S
<1> QED BY <1>1, <1>2, ToPrecompIn

LEMMA GreedyIn ==
  ASSUME NEW U, NEW pl, PlanIn(pl, U)
  PROVE  PlanIn(PlanStageGreedy(pl), U)
<1> DEFINE done == Emplace(pl, pl.layers, FALSE)
<1>1. PlanIn(done, U)
  BY EmplaceIn
<1>2. PlanStageGreedy(pl) = IF PrecompAt(done.comp) = {} THEN done ELSE ToPrecomp(done, done.layers)
  BY DEF PlanStageGreedy
<1> HIDE DEF done
<1>3. done.layers \in SUBSET Nat
  BY <1>1 DEF PlanIn
<1> QED BY <1>1, <1>2, <1>3, ToPrecompIn

LEMMA ReserveIn ==
  ASSUME NEW U, NEW usable \in Seq(U), usable # <<>>, NEW squashed \in BOOLEAN,
         NEW composite \in SUBSET Nat, IsFiniteSet(composite)
  PROVE  PlanIn(ReservePlanes(composite, squashed, usable), U)
<1> DEFINE C == PlaneUse(U)
           below == IF squashed THEN Front(usable) ELSE usable
           short == Cardinality(composite) > Len(below) /\ below # <<>>
           e == [type |-> "precomp", plane |-> Last(below), source |-> {}]
<1>1. ReservePlanes(composite, squashed, usable) =
        [comp |-> IF short THEN <<e>> ELSE <<>>, layers |-> composite,
         planes |-> IF short THEN Front(below) ELSE below]
  BY DEF ReservePlanes
<1>2. below \in Seq(U)
  BY DEF Front
<1> HIDE DEF below
<1>3. short => Last(below) \in U /\ Front(below) \in Seq(U)
  BY <1>2 DEF Last, Front
<1>4. short => e \in C
  BY <1>3 DEF PlaneUse
<1> HIDE DEF short, e, C
<1>5. (IF short THEN <<e>> ELSE <<>>) \in Seq(C)
  BY <1>4
<1>6. (IF short THEN Front(below) ELSE below) \in Seq(U)
  BY <1>2, <1>3
<1> QED BY <1>1, <1>5, <1>6 DEF PlanIn, C
-----------------------------------------------------------------------------
(* Every step keeps the squash history in order *)

LEMMA LenOf ==
  ASSUME NEW n \in Nat, NEW f, DOMAIN f = 1..n, f = [i \in 1..n |-> f[i]]
  PROVE  Len(f) = n
<1> DEFINE R == {f[i] : i \in 1..n}
<1>1. f \in [1..n -> R]
  OBVIOUS
<1> HIDE DEF R
<1> QED BY <1>1

\* The frames of a stack are rectangles that separate_rects takes.
LEMMA FramesFit ==
  ASSUME NEW g \in Stack
  PROVE  /\ FramesOf(g) \in Seq(RectType) /\ Len(FramesOf(g)) <= MaxIds
         /\ DOMAIN FramesOf(g) = DOMAIN g
<1>1. g \in Seq(LayerType) /\ Len(g) <= MaxIds /\ Len(g) \in Nat /\ DOMAIN g = 1..Len(g)
  BY DEF Stack
<1>2. \A i \in 1..Len(g) : g[i] \in LayerType
  BY <1>1
<1>3. \A i \in 1..Len(g) : g[i].frame \in RectType
  BY <1>2 DEF LayerType
<1> DEFINE f == [i \in 1..Len(g) |-> g[i].frame]
<1>4. f \in [1..Len(g) -> RectType]
  BY <1>3
<1>5. FramesOf(g) = f
  BY <1>1 DEF FramesOf
<1> HIDE DEF f
<1>6. f \in Seq(RectType) /\ Len(f) = Len(g) /\ DOMAIN f = 1..Len(g)
  BY <1>1, <1>4
<1> QED BY <1>1, <1>5, <1>6

LEMMA SeparateNone == separate_rects(FramesOf(<<>>)) = {}
<1> DEFINE f == FramesOf(<<>>)
<1>1. f = <<>>
  BY DEF FramesOf
<1>2. <<>> \in Seq(RectType) /\ Len(<<>>) = 0 /\ 0 <= MaxIds /\ DOMAIN <<>> = {}
  BY MaxIdsAssumption
<1>3. PICK sw : separate_rects(<<>>) = sw.out /\ Ended(<<>>, sw)
  <2>1. Len(<<>>) <= MaxIds
    BY <1>2
  <2> QED BY <1>2, <2>1, SweepEnds
<1>4. Edges(<<>>) = {}
  BY <1>2 DEF Edges, Shapes
<1>5. sw = Nothing
  BY <1>3, <1>4 DEF Ended
<1> QED BY <1>1, <1>3, <1>5 DEF Nothing

LEMMA SquashInit0 == PlanInit => SquashInv
<1> SUFFICES ASSUME PlanInit PROVE SquashInv
  OBVIOUS
<1>1. <<>> \in Stack
  BY MaxIdsAssumption DEF Stack
<1>2. /\ stack \in [D -> Stack] /\ DOMAIN squash = D /\ DOMAIN squash_fb = D /\ DOMAIN planned = D
      /\ job = NoJob
  BY <1>1 DEF PlanInit
<1>3. JobInv
  BY <1>2 DEF JobInv
<1>4. ASSUME NEW d \in D PROVE SquashOf(d)
  <2>1. stack[d] = <<>> /\ squash[d] = NewSquash /\ planned[d] = NoPlan
    BY DEF PlanInit
  <2>2. ~Asked(d) /\ ~Recorded(d)
    BY <1>2 DEF Asked, Recorded
  <2>3. SquashShape(squash[d])
    BY <2>1 DEF SquashShape, NewSquash
  <2>4. Holds(d)
    BY <2>1 DEF Holds, NewSquash
  <2>5. HistoryOf(d)
    BY <2>1, SeparateNone DEF HistoryOf, NewSquash
  <2>6. planned[d].current = FALSE
    BY <2>1 DEF NoPlan
  <2> QED BY <2>2, <2>3, <2>4, <2>5, <2>6 DEF SquashOf
<1> QED BY <1>2, <1>3, <1>4 DEF SquashInv

\* Where the job is when there is one.
LEMMA JobAt ==
  ASSUME SquashInv
  PROVE  /\ (job = NoJob) <=> (job.at = "idle")
         /\ job.at # "idle" => JobShape
<1>1. job = NoJob => job.at = "idle"
  BY DEF NoJob
<1>2. job # NoJob => JobShape
  BY DEF SquashInv, JobInv
<1>3. JobShape => job.at # "idle"
  BY DEF JobShape, Planning, Stages
<1> QED BY <1>1, <1>2, <1>3

\* A step that only goes on with the plan.
Continues ==
  /\ UNCHANGED <<stack, squash, squash_fb, planned>>
  /\ job # NoJob /\ job' # NoJob
  /\ job'.on = job.on /\ job'.changed = job.changed /\ job'.layers = job.layers
  /\ job'.rendered = job.rendered
  /\ \A d \in job.on : /\ job'.plan[d].current = job.plan[d].current
                       /\ job'.plan[d].layers = job.plan[d].layers
                       /\ job'.plan[d].stable = job.plan[d].stable

LEMMA ContinuesKeeps ==
  ASSUME SquashInv, Continues, JobInv'
  PROVE  SquashInv'
<1>1. /\ stack' \in [D -> Stack] /\ DOMAIN squash' = D /\ DOMAIN squash_fb' = D
      /\ DOMAIN planned' = D
  BY DEF SquashInv, Continues
<1>2. ASSUME NEW d \in D PROVE SquashOf(d)'
  <2>1. SquashOf(d)
    BY DEF SquashInv
  <2>2. /\ squash'[d] = squash[d] /\ squash_fb'[d] = squash_fb[d] /\ stack'[d] = stack[d]
        /\ planned'[d] = planned[d]
    BY DEF Continues
  <2>3. Asked(d)' <=> Asked(d)
    BY DEF Continues, Asked
  <2>4. Recorded(d)' <=> Recorded(d)
    BY <2>3 DEF Continues, Recorded, Asked
  <2>5. Holds(d)' <=> Holds(d)
    BY <2>2 DEF Holds
  <2>6. HistoryOf(d)' <=> HistoryOf(d)
    BY <2>2 DEF HistoryOf
  <2>7. ~planned[d].current
    BY <2>1 DEF Continues, SquashOf
  <2>8. Asked(d) => d \in job.on
    BY DEF Asked
  <2>9. Recorded(d) => d \in job.on
    BY DEF Asked, Recorded
  <2>10. d \in job.on => /\ job'.plan[d].layers = job.plan[d].layers
                         /\ job'.plan[d].stable = job.plan[d].stable
    BY DEF Continues
  <2>11. job'.changed = job.changed /\ job'.layers = job.layers /\ job'.rendered = job.rendered
    BY DEF Continues
  <2> QED BY <2>1, <2>2, <2>3, <2>4, <2>5, <2>6, <2>7, <2>8, <2>9, <2>10, <2>11 DEF SquashOf
<1> QED BY <1>1, <1>2 DEF SquashInv

LEMMA DisplaysLen ==
  /\ Len(Displays) \in Nat \ {0} /\ DOMAIN Displays = 1..Len(Displays)
  /\ \A m \in DOMAIN Displays : Displays[m] \in D
  /\ \A i, j \in DOMAIN Displays : Displays[i] = Displays[j] => i = j
<1>1. Displays \in Seq(Range(Displays)) /\ Displays # <<>>
  BY PlanAssumption
<1>2. Len(Displays) \in Nat \ {0} /\ DOMAIN Displays = 1..Len(Displays)
  <2> DEFINE R == Range(Displays)
  <2> HIDE DEF R
  <2> QED BY <1>1 DEF R
<1> QED BY <1>2, PlanAssumption DEF D

\* The job at its next display, when j is the job with the current one done.
LEMMA NextDisplayKeeps ==
  ASSUME SquashInv, job # NoJob, job.at \in Planning, NEW j, job' = PlanNextDisplay(j),
         JobFields(j), j.n = job.n, j.on = job.on, j.changed = job.changed,
         j.layers = job.layers, j.rendered = job.rendered,
         DOMAIN j.plan = job.on,
         \A d \in job.on : /\ PlanShape(j.plan[d])
                           /\ j.plan[d].current = job.plan[d].current
                           /\ j.plan[d].layers = job.plan[d].layers
                           /\ j.plan[d].stable = job.plan[d].stable,
         Cur \in job.on => job.plan[Cur].current,
         j.primary \in Seq(DOMAIN Planes), j.overlay \in Seq(DOMAIN Planes),
         \A m \in DOMAIN Displays :
           m > job.n => OwnPrimary(Displays[m]) \subseteq Range(j.primary),
         UNCHANGED <<stack, squash, squash_fb, planned>>
  PROVE  SquashInv'
<1>1. JobShape /\ JobInv
  BY DEF SquashInv, JobInv
<1>2. /\ job.n \in 1..Len(Displays) /\ Len(Displays) \in Nat \ {0}
      /\ DOMAIN Displays = 1..Len(Displays)
  BY <1>1, DisplaysLen DEF JobShape
<1>4. /\ JobFields(job')
      /\ job'.at = IF job.n < Len(Displays) THEN "history" ELSE "disable"
      /\ job'.n = IF job.n < Len(Displays) THEN job.n + 1 ELSE 1
      /\ job'.on = job.on /\ job'.changed = job.changed /\ job'.layers = job.layers
      /\ job'.plan = j.plan /\ job'.rendered = job.rendered
      /\ job'.primary = j.primary /\ job'.overlay = j.overlay
  <2> DEFINE Rest == /\ JobFields(job')
                     /\ job'.on = j.on /\ job'.changed = j.changed /\ job'.layers = j.layers
                     /\ job'.plan = j.plan /\ job'.rendered = j.rendered
                     /\ job'.primary = j.primary /\ job'.overlay = j.overlay
  <2>1. CASE job.n < Len(Displays)
    <3>1. job' = [j EXCEPT !.at = "history", !.n = j.n + 1, !.pl = <<>>]
      BY <2>1 DEF PlanNextDisplay
    <3>2. Rest /\ job'.at = "history" /\ job'.n = j.n + 1
      BY <3>1 DEF JobFields
    <3> QED BY <2>1, <3>2
  <2>2. CASE ~(job.n < Len(Displays))
    <3>1. job' = [j EXCEPT !.at = "disable", !.n = 1, !.pl = <<>>]
      BY <2>2 DEF PlanNextDisplay
    <3>2. Rest /\ job'.at = "disable" /\ job'.n = 1
      BY <3>1 DEF JobFields
    <3> QED BY <2>2, <3>2
  <2> QED BY <2>1, <2>2
<1>5. job'.at \in {"history", "disable"} /\ job'.at \notin Stages /\ job'.at # "idle"
  BY <1>4 DEF Stages
<1>6. job' # NoJob
  BY <1>5 DEF NoJob
<1>7. Continues
  BY <1>4, <1>6 DEF Continues
<1>8. JobShape'
  <2>1. JobFields(job)'
    BY <1>4 DEF JobFields
  <2>2. job'.n \in DOMAIN Displays
    BY <1>2, <1>4
  <2>3. \A d \in job'.on : PlanShape(job'.plan[d])
    BY <1>4
  <2>4. /\ job'.on \subseteq D /\ job'.changed \subseteq job'.on /\ DOMAIN job'.plan = job'.on
        /\ DOMAIN job'.rendered = job'.on
    BY <1>1, <1>4 DEF JobShape
  <2>5. job'.primary \in Seq(DOMAIN Planes) /\ job'.overlay \in Seq(DOMAIN Planes)
    BY <1>4
  <2>6. job'.at \in Planning \cup {"disable", "queue"}
    BY <1>5 DEF Planning
  <2> QED BY <2>1, <2>2, <2>3, <2>4, <2>5, <2>6 DEF JobShape, PlanShape
<1>9. ASSUME NEW m \in DOMAIN Displays, Displays[m] \in job'.on
      PROVE  job'.plan[Displays[m]].current = Passed(m)'
  <2>1. job'.plan[Displays[m]].current = job.plan[Displays[m]].current
    BY <1>4, <1>9
  <2>2. job.plan[Displays[m]].current = Passed(m)
    BY <1>1, <1>4, <1>9 DEF JobInv
  <2>3. m = job.n => job.plan[Displays[m]].current = TRUE
    BY <1>4, <1>9, <2>2 DEF Cur, Passed
  <2>4. job.at \notin {"disable", "queue"}
    BY DEF Planning, Stages
  <2>5. m # job.n => (Passed(m) <=> m < job.n)
    BY <2>4 DEF Passed
  <2>6. Passed(m)' <=> (m < job.n \/ m = job.n)
    BY <1>2, <1>4, <1>5 DEF Passed
  <2>7. m # job.n => Passed(m)' = Passed(m)
    BY <1>2, <2>5, <2>6 DEF Passed
  <2>8. m = job.n => Passed(m)' = TRUE
    BY <2>6 DEF Passed
  <2> QED BY <2>1, <2>2, <2>3, <2>7, <2>8
<1>10. ASSUME job'.at \in Planning, NEW m \in DOMAIN Displays, m >= job'.n
       PROVE  OwnPrimary(Displays[m]) \subseteq Range(job'.primary)
  <2>1. job'.n = job.n + 1
    BY <1>4, <1>10 DEF Planning, Stages
  <2>2. m > job.n
    BY <1>2, <1>10, <2>1
  <2> QED BY <1>4, <2>2
<1>11. JobInv'
  <2>1. \A m \in DOMAIN Displays :
          Displays[m] \in job'.on => job'.plan[Displays[m]].current = Passed(m)'
    BY <1>9
  <2>2. job'.at \in Planning => \A m \in DOMAIN Displays :
          m >= job'.n => OwnPrimary(Displays[m]) \subseteq Range(job'.primary)
    BY <1>10
  <2> QED BY <1>5, <1>8, <2>1, <2>2 DEF JobInv, OwnPrimary
<1> QED BY <1>7, <1>11, ContinuesKeeps

LEMMA SkipKeeps ==
  ASSUME SquashInv, SkipDisplay
  PROVE  SquashInv'
<1>1. /\ job.at = "history" /\ Cur \notin job.on /\ job' = PlanNextDisplay(job)
      /\ UNCHANGED <<stack, squash, squash_fb, planned>>
  BY DEF SkipDisplay
<1>2. job # NoJob /\ JobShape /\ job.at \in Planning
  BY <1>1, JobAt DEF Planning
<1>3. JobInv
  BY DEF SquashInv
<1>4. \A m \in DOMAIN Displays : m > job.n => OwnPrimary(Displays[m]) \subseteq Range(job.primary)
  BY <1>2, <1>3, DisplaysLen DEF JobInv, JobShape
<1> QED BY <1>1, <1>2, <1>4, NextDisplayKeeps DEF JobShape

LEMMA StageKeeps ==
  ASSUME SquashInv, NEW name \in Stages, NEW next \in Stages, NEW pl, Stage(name, next, pl),
         PlanIn(pl, Supported(Cur))
  PROVE  SquashInv'
<1>1. /\ job.at = name /\ job' = [job EXCEPT !.at = next, !.pl = pl]
      /\ UNCHANGED <<stack, squash, squash_fb, planned>>
  BY DEF Stage
<1>2. /\ job.at \in Stages /\ job.at # "idle" /\ job.at \in Planning /\ next # "idle"
      /\ next \in Planning
      /\ job.at \notin {"disable", "queue"} /\ next \notin {"disable", "queue"}
  BY <1>1 DEF Stages, Planning
<1>3. job # NoJob /\ JobShape /\ JobInv
  BY <1>2, JobAt DEF SquashInv
<1>4. /\ JobFields(job') /\ job'.at = next /\ job'.pl = pl /\ job'.n = job.n
      /\ job'.on = job.on /\ job'.changed = job.changed /\ job'.layers = job.layers
      /\ job'.plan = job.plan /\ job'.rendered = job.rendered
      /\ job'.primary = job.primary /\ job'.overlay = job.overlay
  <2>1. JobFields(job)
    BY <1>3 DEF JobShape
  <2> QED BY <1>1, <2>1 DEF JobFields
<1>5. job' # NoJob
  BY <1>2, <1>4 DEF NoJob
<1>6. Continues
  BY <1>1, <1>3, <1>4, <1>5 DEF Continues
<1>7. JobShape'
  <2>1. JobFields(job)'
    BY <1>4 DEF JobFields
  <2>2. \A d \in job'.on : PlanShape(job.plan[d])'
    BY <1>3, <1>4 DEF JobShape, PlanShape
  <2> QED BY <1>2, <1>3, <1>4, <2>1, <2>2 DEF JobShape, PlanShape
<1>8. ASSUME NEW m \in DOMAIN Displays PROVE Passed(m)' = Passed(m)
  BY <1>2, <1>4 DEF Passed
<1>9. Cur' = Cur /\ Cur \in job.on
  BY <1>2, <1>3, <1>4 DEF Cur, JobInv
<1>10. PlanIn(job.pl, Supported(Cur))'
  BY <1>4, <1>9 DEF PlanIn, Supported, PlaneUse
<1>11. JobInv'
  BY <1>2, <1>3, <1>4, <1>7, <1>8, <1>9, <1>10 DEF JobInv, OwnPrimary
<1> QED BY <1>6, <1>11, ContinuesKeeps

LEMMA ProvisionKeeps ==
  ASSUME SquashInv, ProvisionPlanes
  PROVE  SquashInv'
<1> DEFINE U == Supported(Cur)
<1>1. ASSUME job.at \in Stages PROVE PlanIn(job.pl, U)
  <2>1. job.at # "idle"
    BY <1>1 DEF Stages
  <2> QED BY <1>1, <2>1, JobAt DEF SquashInv, JobInv
<1> HIDE DEF U
<1>2. {"NvLimits", "ProtectedRotated", "Protected", "Precomp", "Greedy", "finalize"}
         \subseteq Stages
  BY DEF Stages
<1>3. CASE Stage("NvLimits", "ProtectedRotated", PlanStageNvLimits(CurLayers, job.pl))
  <2>1. PlanIn(PlanStageNvLimits(CurLayers, job.pl), U)
    BY <1>1, <1>2, <1>3, NvLimitsIn DEF Stage
  <2> QED BY <1>2, <1>3, <2>1, StageKeeps DEF U
<1>4. CASE Stage("ProtectedRotated", "Protected", PlanStageProtectedRotated(CurLayers, job.pl))
  <2>1. PlanIn(PlanStageProtectedRotated(CurLayers, job.pl), U)
    BY <1>1, <1>2, <1>4, ProtectedRotatedIn DEF Stage
  <2> QED BY <1>2, <1>4, <2>1, StageKeeps DEF U
<1>5. CASE Stage("Protected", "Precomp", PlanStageProtected(CurLayers, job.pl))
  <2>1. PlanIn(PlanStageProtected(CurLayers, job.pl), U)
    BY <1>1, <1>2, <1>5, ProtectedIn DEF Stage
  <2> QED BY <1>2, <1>5, <2>1, StageKeeps DEF U
<1>6. CASE Stage("Precomp", "Greedy", PlanStagePrecomp(job.pl))
  <2>1. PlanIn(PlanStagePrecomp(job.pl), U)
    BY <1>1, <1>2, <1>6, PrecompIn DEF Stage
  <2> QED BY <1>2, <1>6, <2>1, StageKeeps DEF U
<1>7. CASE Stage("Greedy", "finalize", PlanStageGreedy(job.pl))
  <2>1. PlanIn(PlanStageGreedy(job.pl), U)
    BY <1>1, <1>2, <1>7, GreedyIn DEF Stage
  <2> QED BY <1>2, <1>7, <2>1, StageKeeps DEF U
<1> QED BY <1>3, <1>4, <1>5, <1>6, <1>7 DEF ProvisionPlanes

LEMMA FinalizeKeeps ==
  ASSUME SquashInv, PlanesFit, FinalizeComposition
  PROVE  SquashInv'
<1> DEFINE U == Supported(Cur)
           stable == job.plan[Cur].stable
           usable == GetUsablePlanes(Cur, job.primary, job.overlay)
           top == [type |-> "squash", source |-> {}, plane |-> Last(usable)]
           comp == IF stable = {} THEN job.pl.comp ELSE Append(job.pl.comp, top)
           regions == SeparateLayers(CurLayers, comp, Listed(stable))
           fence == CreateAndAssignReleaseFences(CurLayers, comp, regions, job.rendered[Cur])
           j == [job EXCEPT !.plan[Cur].comp = comp, !.plan[Cur].regions = regions,
                            !.plan[Cur].fence = fence,
                            !.primary = TakePlanes(@, comp), !.overlay = TakePlanes(@, comp)]
<1>1. /\ job.at = "finalize" /\ job' = PlanNextDisplay(j)
      /\ UNCHANGED <<stack, squash, squash_fb, planned>>
  BY Zenon DEF FinalizeComposition
<1>2. job # NoJob /\ JobShape /\ JobInv /\ job.at \in Planning /\ job.at \in Stages
  BY <1>1, JobAt DEF SquashInv, Stages, Planning
<1>3. Cur \in job.on /\ PlanIn(job.pl, U)
  BY <1>2 DEF JobInv
<1>4. job.primary \in Seq(DOMAIN Planes) /\ job.overlay \in Seq(DOMAIN Planes)
  BY <1>2 DEF JobShape
<1>5. usable \in Seq(U) /\ usable # <<>>
  <2>1. usable \in Seq(U) /\ (U \cap Range(job.primary) # {} => usable # <<>>)
    BY <1>4, UsableIn DEF U
  <2>2. OwnPrimary(Cur) \subseteq Range(job.primary) /\ OwnPrimary(Cur) # {}
    BY <1>2, DisplaysLen DEF JobInv, JobShape, Cur, PlanesFit
  <2>3. OwnPrimary(Cur) \subseteq U
    BY DEF OwnPrimary, Supported, U
  <2> QED BY <2>1, <2>2, <2>3
<1>6. UsedPlanes(comp) \subseteq U
  <2> DEFINE C == PlaneUse(U)
  <2>1. top \in C
    <3>1. Last(usable) \in U
      <4> HIDE DEF usable, U
      <4> QED BY <1>5 DEF Last
    <3> HIDE DEF usable, U
    <3> QED BY <3>1 DEF PlaneUse
  <2>2. job.pl.comp \in Seq(C)
    BY <1>3 DEF PlanIn
  <2>3. comp \in Seq(C)
    <3> HIDE DEF C, top, stable
    <3> QED BY <2>1, <2>2
  <2>4. ASSUME NEW i \in DOMAIN comp PROVE comp[i].plane \in U
    <3>1. comp[i] \in C
      <4> HIDE DEF C, comp
      <4> QED BY <2>3, <2>4
    <3> HIDE DEF comp, U
    <3> QED BY <3>1 DEF PlaneUse
  <2> QED BY <2>4 DEF UsedPlanes
<1> DEFINE primary == TakePlanes(job.primary, comp)
           overlay == TakePlanes(job.overlay, comp)
<1>7. /\ primary \in Seq(DOMAIN Planes) /\ overlay \in Seq(DOMAIN Planes)
      /\ Range(primary) = Range(job.primary) \ UsedPlanes(comp)
  <2> DEFINE used == UsedPlanes(comp)
  <2>1. primary = Left(job.primary, used) /\ overlay = Left(job.overlay, used)
    BY DEF TakePlanes
  <2> HIDE DEF used, primary, overlay
  <2>2. /\ primary \in Seq(DOMAIN Planes) /\ overlay \in Seq(DOMAIN Planes)
        /\ Range(primary) = Range(job.primary) \ used
    BY <1>4, <2>1, LeftIn
  <2> QED BY <2>2 DEF used
<1> HIDE DEF comp, regions, fence
<1>8. /\ JobFields(j) /\ j.n = job.n /\ j.on = job.on /\ j.changed = job.changed
      /\ j.layers = job.layers /\ j.rendered = job.rendered
      /\ j.primary = primary /\ j.overlay = overlay
  <2>1. JobFields(job)
    BY <1>2 DEF JobShape
  <2> HIDE DEF j
  <2>2. j = [job EXCEPT !.plan[Cur].comp = comp, !.plan[Cur].regions = regions,
                        !.plan[Cur].fence = fence, !.primary = primary, !.overlay = overlay]
    BY DEF j, primary, overlay
  <2> HIDE DEF primary, overlay
  <2> QED BY <2>1, <2>2 DEF JobFields
<1>9. /\ DOMAIN j.plan = job.on
      /\ \A d \in job.on : /\ PlanShape(j.plan[d])
                           /\ j.plan[d].current = job.plan[d].current
                           /\ j.plan[d].layers = job.plan[d].layers
                           /\ j.plan[d].stable = job.plan[d].stable
  <2>1. JobFields(job) /\ DOMAIN job.plan = job.on /\ \A d \in job.on : PlanShape(job.plan[d])
    BY <1>2 DEF JobShape
  <2> DEFINE q == [job.plan[Cur] EXCEPT !.comp = comp, !.regions = regions, !.fence = fence]
  <2>2. /\ DOMAIN j.plan = job.on /\ j.plan[Cur] = q
        /\ \A d \in job.on \ {Cur} : j.plan[d] = job.plan[d]
    BY <1>3, <2>1 DEF JobFields
  <2>3. /\ PlanShape(q) /\ q.current = job.plan[Cur].current /\ q.layers = job.plan[Cur].layers
        /\ q.stable = job.plan[Cur].stable
    <3>1. PlanShape(job.plan[Cur])
      BY <1>3, <2>1
    <3> HIDE DEF q
    <3>2. q = [job.plan[Cur] EXCEPT !.comp = comp, !.regions = regions, !.fence = fence]
      BY DEF q
    <3> QED BY <3>1, <3>2 DEF PlanShape
  <2> HIDE DEF q, j
  <2> QED BY <2>1, <2>2, <2>3
<1>10. job.plan[Cur].current
  BY <1>2, <1>3, DisplaysLen DEF JobInv, Cur, Passed, JobShape
<1>11. ASSUME NEW m \in DOMAIN Displays, m > job.n
       PROVE  OwnPrimary(Displays[m]) \subseteq Range(j.primary)
  <2>1. OwnPrimary(Displays[m]) \subseteq Range(job.primary)
    BY <1>2, <1>11, DisplaysLen DEF JobInv, JobShape
  <2>2. Displays[m] # Cur
    BY <1>2, <1>11, DisplaysLen DEF Cur, JobShape
  <2>3. OwnPrimary(Displays[m]) \cap U = {}
    BY <2>2 DEF OwnPrimary, Supported, U
  <2> QED BY <1>6, <1>7, <1>8, <2>1, <2>3
<1> HIDE DEF j
<1> QED BY <1>1, <1>2, <1>7, <1>8, <1>9, <1>10, <1>11, NextDisplayKeeps

LEMMA DisableKeeps ==
  ASSUME SquashInv, DisableUnusedPlanes
  PROVE  SquashInv'
<1> DEFINE off == IF Cur \in job.on THEN Unused(Cur, job.primary, job.overlay) ELSE <<>>
           at == IF job.n < Len(Displays) THEN "disable" ELSE "queue"
           n == IF job.n < Len(Displays) THEN job.n + 1 ELSE job.n
           primary == Left(job.primary, Range(off))
           overlay == Left(job.overlay, Range(off))
           rest == [job EXCEPT !.primary = primary, !.overlay = overlay, !.at = at, !.n = n]
           more == [i \in DOMAIN off |-> [type |-> "disable", plane |-> off[i], source |-> {}]]
<1>1. /\ job.at = "disable" /\ UNCHANGED <<stack, squash, squash_fb, planned>>
      /\ job' = IF off = <<>> THEN rest ELSE [rest EXCEPT !.plan[Cur].comp = @ \o more]
  BY Zenon DEF DisableUnusedPlanes
<1>2. job # NoJob /\ JobShape /\ JobInv
  BY <1>1, JobAt DEF SquashInv
<1>3. JobFields(job) /\ DOMAIN job.plan = job.on /\ \A d \in job.on : PlanShape(job.plan[d])
  BY <1>2 DEF JobShape
<1>4. off # <<>> => Cur \in job.on
  OBVIOUS
<1>5. primary \in Seq(DOMAIN Planes) /\ overlay \in Seq(DOMAIN Planes)
  <2>1. job.primary \in Seq(DOMAIN Planes) /\ job.overlay \in Seq(DOMAIN Planes)
    BY <1>2 DEF JobShape
  <2> DEFINE used == Range(off)
  <2> HIDE DEF used
  <2> QED BY <2>1, LeftIn DEF used
<1>6. n \in DOMAIN Displays /\ at \in {"disable", "queue"}
  BY <1>2, DisplaysLen DEF JobShape
<1> HIDE DEF off, at, n, primary, overlay, more
<1>7. /\ JobFields(rest) /\ rest.at = at /\ rest.n = n
      /\ rest.on = job.on /\ rest.changed = job.changed /\ rest.layers = job.layers
      /\ rest.plan = job.plan /\ rest.rendered = job.rendered
      /\ rest.primary = primary /\ rest.overlay = overlay
  <2> HIDE DEF rest
  <2>1. rest = [job EXCEPT !.primary = primary, !.overlay = overlay, !.at = at, !.n = n]
    BY DEF rest
  <2> QED BY <1>3, <2>1 DEF JobFields
<1> HIDE DEF rest
<1>8. /\ JobFields(job') /\ job'.at = at /\ job'.n = n
      /\ job'.on = job.on /\ job'.changed = job.changed /\ job'.layers = job.layers
      /\ job'.rendered = job.rendered /\ job'.primary = primary /\ job'.overlay = overlay
  <2>1. CASE off = <<>>
    <3>1. job' = rest
      BY <1>1, <2>1
    <3> QED BY <1>7, <3>1
  <2>2. CASE off # <<>>
    <3>1. job' = [rest EXCEPT !.plan[Cur].comp = rest.plan[Cur].comp \o more]
      BY <1>1, <2>2
    <3>2. /\ JobFields(job') /\ job'.at = rest.at /\ job'.n = rest.n
          /\ job'.on = rest.on /\ job'.changed = rest.changed /\ job'.layers = rest.layers
          /\ job'.rendered = rest.rendered
          /\ job'.primary = rest.primary /\ job'.overlay = rest.overlay
      BY <1>7, <3>1 DEF JobFields
    <3> QED BY <1>7, <3>2
  <2> QED BY <2>1, <2>2
<1>9. /\ DOMAIN job'.plan = job.on
      /\ \A d \in job.on : /\ PlanShape(job'.plan[d])
                           /\ job'.plan[d].current = job.plan[d].current
                           /\ job'.plan[d].layers = job.plan[d].layers
                           /\ job'.plan[d].stable = job.plan[d].stable
  <2>1. CASE off = <<>>
    BY <1>1, <1>3, <1>7, <2>1
  <2>2. CASE off # <<>>
    <3> DEFINE comp == job.plan[Cur].comp \o more
               q == [job.plan[Cur] EXCEPT !.comp = comp]
    <3>1. Cur \in job.on /\ PlanShape(job.plan[Cur])
      BY <1>3, <1>4, <2>2
    <3>2. job' = [rest EXCEPT !.plan[Cur].comp = comp]
      BY <1>1, <1>7, <2>2
    <3> HIDE DEF comp
    <3>3. /\ DOMAIN job'.plan = job.on /\ job'.plan[Cur] = q
          /\ \A d \in job.on \ {Cur} : job'.plan[d] = job.plan[d]
      BY <1>3, <1>7, <3>1, <3>2 DEF JobFields
    <3>4. /\ PlanShape(q) /\ q.current = job.plan[Cur].current /\ q.layers = job.plan[Cur].layers
          /\ q.stable = job.plan[Cur].stable
      <4> HIDE DEF q
      <4>1. q = [job.plan[Cur] EXCEPT !.comp = comp]
        BY DEF q
      <4> QED BY <3>1, <4>1 DEF PlanShape
    <3> HIDE DEF q
    <3> QED BY <1>3, <3>3, <3>4
  <2> QED BY <2>1, <2>2
<1>10. /\ job'.at # "idle" /\ job'.at \notin Planning /\ job'.at \notin Stages
       /\ job'.at \in {"disable", "queue"}
  BY <1>6, <1>8 DEF Planning, Stages
<1>11. job' # NoJob
  BY <1>10 DEF NoJob
<1>12. Continues
  BY <1>1, <1>2, <1>8, <1>9, <1>11 DEF Continues
<1>13. JobShape'
  <2>1. JobFields(job)'
    BY <1>8 DEF JobFields
  <2>2. \A d \in job'.on : PlanShape(job.plan[d])'
    BY <1>8, <1>9 DEF PlanShape
  <2>3. /\ job'.on \subseteq D /\ job'.changed \subseteq job'.on /\ DOMAIN job'.plan = job'.on
        /\ DOMAIN job'.rendered = job'.on
    BY <1>2, <1>8, <1>9 DEF JobShape
  <2> QED BY <1>5, <1>6, <1>8, <1>10, <2>1, <2>2, <2>3 DEF JobShape
<1>14. ASSUME NEW m \in DOMAIN Displays, Displays[m] \in job'.on
       PROVE  job'.plan[Displays[m]].current = Passed(m)'
  <2>1. job.plan[Displays[m]].current = Passed(m)
    BY <1>2, <1>8, <1>14 DEF JobInv
  <2>2. Passed(m) = TRUE /\ Passed(m)' = TRUE
    BY <1>1, <1>10 DEF Passed
  <2> QED BY <1>8, <1>9, <1>14, <2>1, <2>2
<1>15. JobInv'
  BY <1>10, <1>13, <1>14 DEF JobInv
<1> QED BY <1>12, <1>15, ContinuesKeeps

\* The history t that a frame of a display makes of s, with the regions it takes
\* from the squash framebuffer.
Records(s, layers, new, stable, t) ==
  LET changed == GenerateHistory(s, layers)
  IN  /\ stable = IF new THEN {} ELSE StableRegions(s, changed)
      /\ t = IF new THEN SquashInit(layers)
             ELSE [RecordHistory(s, layers, changed) EXCEPT !.squashed = stable]

\* What recording the history of a display leaves behind: the regions are those
\* of the layers, the last buffers theirs, and a region that is squashed and was
\* so before has not changed since.
LEMMA RecordedRight ==
  ASSUME NEW s, SquashShape(s), NEW g \in Stack, NEW layers,
         DOMAIN layers = DOMAIN g, Len(layers) = Len(g), FramesOf(layers) = FramesOf(g),
         NEW new \in BOOLEAN,
         ~new => /\ s.regions = separate_rects(FramesOf(g))
                 /\ DOMAIN s.last = DOMAIN g /\ Len(s.last) = Len(g),
         NEW stable, NEW t, Records(s, layers, new, stable, t)
  PROVE  /\ SquashShape(t) /\ t.squashed = stable /\ t.last = Handles(layers)
         /\ t.regions = separate_rects(FramesOf(g)) /\ stable \subseteq t.regions
         /\ DOMAIN t.last = DOMAIN g /\ Len(t.last) = Len(g)
         /\ ~new => \A r \in stable : \A l \in r.ids : s.last[l] = t.last[l]
<1> DEFINE changed == GenerateHistory(s, layers)
<1>0. /\ stable = IF new THEN {} ELSE StableRegions(s, changed)
      /\ new => t = SquashInit(layers)
      /\ ~new => t = [RecordHistory(s, layers, changed) EXCEPT !.squashed = stable]
  BY Zenon DEF Records
<1> HIDE DEF changed
<1>1. g \in Seq(LayerType) /\ Len(g) \in Nat /\ DOMAIN g = 1..Len(g)
  BY DEF Stack
<1>2. DOMAIN Handles(layers) = DOMAIN g /\ Len(Handles(layers)) = Len(g)
  <2>1. /\ DOMAIN Handles(layers) = 1..Len(g)
        /\ Handles(layers) = [i \in 1..Len(g) |-> Handles(layers)[i]]
    BY <1>1 DEF Handles
  <2> QED BY <1>1, <2>1, LenOf
<1>3. CASE new
  <2> DEFINE R == separate_rects(FramesOf(layers))
  <2>1. t = [regions |-> R, history |-> [r \in R |-> {}], squashed |-> {},
             last |-> Handles(layers), valid |-> 0]
    BY <1>0, <1>3 DEF SquashInit, Handles
  <2> HIDE DEF R
  <2>2. /\ SquashShape(t) /\ t.squashed = {} /\ t.last = Handles(layers) /\ t.regions = R
    BY <2>1 DEF SquashShape
  <2> QED BY <1>0, <1>2, <1>3, <2>2 DEF R
<1>4. CASE ~new
  <2> DEFINE H == [r \in s.regions |->
                     {a + 1 : a \in s.history[r] \ {HistoryLength - 1}}
                       \cup (IF r \in changed THEN {0} ELSE {})]
             v == IF s.valid < HistoryLength THEN s.valid + 1 ELSE s.valid
             u == RecordHistory(s, layers, changed)
  <2>1. u = [s EXCEPT !.last = Handles(layers), !.history = H, !.valid = v]
    BY <1>4 DEF RecordHistory, Handles
  <2> HIDE DEF H, v, u
  <2>2. /\ SquashShape(u) /\ u.last = Handles(layers) /\ u.regions = s.regions
    BY <2>1 DEF SquashShape
  <2>3. t = [u EXCEPT !.squashed = stable]
    BY <1>0, <1>4 DEF u
  <2>4. /\ SquashShape(t) /\ t.squashed = stable /\ t.last = u.last /\ t.regions = u.regions
    BY <2>2, <2>3 DEF SquashShape
  <2>5. stable \subseteq s.regions \ changed
    BY <1>0, <1>4 DEF StableRegions
  <2>6. ASSUME NEW r \in stable, NEW l \in r.ids PROVE s.last[l] = t.last[l]
    <3>1. changed = {q \in s.regions :
                       \E i \in q.ids : layers[i].protected \/ s.last[i] # layers[i].handle}
      BY <1>4 DEF GenerateHistory, changed
    <3>2. s.last[l] = layers[l].handle
      BY <2>5, <2>6, <3>1
    <3>3. /\ FramesOf(g) \in Seq(RectType) /\ Len(FramesOf(g)) <= MaxIds
          /\ DOMAIN FramesOf(g) = DOMAIN g
      BY FramesFit
    <3>4. r \in separate_rects(FramesOf(g))
      BY <1>4, <2>5, <2>6
    <3>5. l \in DOMAIN layers
      BY <2>6, <3>3, <3>4, SeparateIds
    <3>6. Handles(layers)[l] = layers[l].handle
      BY <3>5 DEF Handles
    <3> QED BY <2>2, <2>4, <3>2, <3>6
  <2> QED BY <1>0, <1>2, <1>4, <2>2, <2>4, <2>5, <2>6
<1> QED BY <1>3, <1>4

LEMMA RecordKeeps ==
  ASSUME SquashInv, PlanesFit, RecordSquash
  PROVE  SquashInv'
<1> DEFINE d == Cur
           s == squash[d]
           layers == CurLayers
           new == d \in job.changed
           changed == GenerateHistory(s, layers)
           stable == IF new THEN {} ELSE StableRegions(s, changed)
           usable == GetUsablePlanes(d, job.primary, job.overlay)
           t == IF new THEN SquashInit(layers)
                ELSE [RecordHistory(s, layers, changed) EXCEPT !.squashed = stable]
           drawn == IF ~new /\ RecordAndCompareSquashed(s, stable) THEN stable ELSE {}
           pl == ReservePlanes(ToComposite(layers, stable), stable # {}, usable)
<1>1. /\ job.at = "history" /\ d \in job.on /\ UNCHANGED <<stack, squash_fb, planned>>
      /\ squash' = [squash EXCEPT ![d] = t]
      /\ IF usable = <<>> THEN job' = NoJob
         ELSE job' = [job EXCEPT
            !.at = "NvLimits",
            !.plan[d].layers = layers, !.plan[d].stable = stable, !.plan[d].current = TRUE,
            !.rendered[d] = drawn, !.pl = pl]
  <2>1. job.at = "history" /\ d \in job.on /\ UNCHANGED <<stack, squash_fb, planned>>
    BY DEF RecordSquash
  <2> DEFINE A(c, u, st, us) ==
        /\ squash' = [squash EXCEPT ![d] =
             IF new THEN SquashInit(layers)
             ELSE [RecordHistory(u, layers, c) EXCEPT !.squashed = st]]
        /\ IF us = <<>> THEN job' = NoJob
           ELSE job' = [job EXCEPT
              !.at = "NvLimits",
              !.plan[d].layers = layers, !.plan[d].stable = st, !.plan[d].current = TRUE,
              !.rendered[d] = IF ~new /\ RecordAndCompareSquashed(u, st) THEN st ELSE {},
              !.pl = ReservePlanes(ToComposite(layers, st), st # {}, us)]
  <2>2. \E c \in {changed}, u \in {s} : \E st \in {IF new THEN {} ELSE StableRegions(u, c)} :
        \E us \in {usable} : A(c, u, st, us)
    BY Zenon DEF RecordSquash
  <2>3. A(changed, s, stable, usable)
    <3> HIDE DEF A, changed, s, usable
    <3> QED BY <2>2
  <2> QED BY <2>1, <2>3, Zenon
<1>2. job # NoJob /\ JobShape /\ JobInv /\ job.at \in Planning
  BY <1>1, JobAt DEF SquashInv, Planning
<1>3. d \in D /\ job.n \in DOMAIN Displays /\ d = Displays[job.n]
  BY <1>2, DisplaysLen DEF JobShape, Cur
<1>4. ~job.plan[d].current /\ Asked(d) /\ ~Recorded(d)
  <2>1. ~Passed(job.n)
    BY <1>1, <1>2, DisplaysLen DEF Passed, Stages, JobShape
  <2>2. job.plan[d].current = Passed(job.n)
    BY <1>1, <1>2, <1>3 DEF JobInv
  <2> QED BY <1>1, <1>2, <2>1, <2>2 DEF Asked, Recorded
<1>5. /\ SquashShape(s) /\ Holds(d) /\ (~new => HistoryOf(d))
      /\ FramesOf(layers) = FramesOf(stack[d])
      /\ DOMAIN layers = DOMAIN stack[d] /\ Len(layers) = Len(stack[d])
  BY <1>3, <1>4 DEF SquashInv, SquashOf, CurLayers
<1>6. /\ stack[d] \in Stack /\ DOMAIN squash = D /\ DOMAIN squash_fb = D /\ DOMAIN planned = D
      /\ stack \in [D -> Stack]
  BY <1>3 DEF SquashInv
<1>7. /\ SquashShape(t) /\ t.squashed = stable /\ t.last = Handles(layers)
      /\ t.regions = separate_rects(FramesOf(stack[d])) /\ stable \subseteq t.regions
      /\ DOMAIN t.last = DOMAIN stack[d] /\ Len(t.last) = Len(stack[d])
      /\ ~new => \A r \in stable : \A l \in r.ids : s.last[l] = t.last[l]
  <2> DEFINE g == stack[d]
  <2>1. ~new => /\ s.regions = separate_rects(FramesOf(g))
                /\ DOMAIN s.last = DOMAIN g /\ Len(s.last) = Len(g)
    BY <1>5 DEF HistoryOf
  <2>2. g \in Stack /\ SquashShape(s) /\ FramesOf(layers) = FramesOf(g)
        /\ DOMAIN layers = DOMAIN g /\ Len(layers) = Len(g) /\ new \in BOOLEAN
    BY <1>5, <1>6
  <2>3. Records(s, layers, new, stable, t)
    BY Zenon DEF Records
  <2> HIDE DEF g, s, layers, new, changed, stable, t
  <2>4. /\ SquashShape(t) /\ t.squashed = stable /\ t.last = Handles(layers)
        /\ t.regions = separate_rects(FramesOf(g)) /\ stable \subseteq t.regions
        /\ DOMAIN t.last = DOMAIN g /\ Len(t.last) = Len(g)
        /\ ~new => \A r \in stable : \A l \in r.ids : s.last[l] = t.last[l]
    BY <2>1, <2>2, <2>3, RecordedRight
  <2> QED BY <2>4 DEF g
<1>8. usable \in Seq(Supported(d)) /\ usable # <<>>
  <2>1. /\ usable \in Seq(Supported(d))
        /\ Supported(d) \cap Range(job.primary) # {} => usable # <<>>
    BY <1>2, UsableIn DEF JobShape
  <2>2. OwnPrimary(d) \subseteq Range(job.primary) /\ OwnPrimary(d) # {}
    BY <1>2, <1>3, DisplaysLen DEF JobInv, PlanesFit
  <2>3. OwnPrimary(d) \subseteq Supported(d)
    BY DEF OwnPrimary, Supported
  <2> QED BY <2>1, <2>2, <2>3
<1>9. PlanIn(pl, Supported(d))
  <2> DEFINE composite == ToComposite(layers, stable)
             U == Supported(d)
             b == stable # {}
  <2>1. Len(stack[d]) \in Nat /\ DOMAIN stack[d] = 1..Len(stack[d])
    BY <1>6 DEF Stack
  <2>2. composite \subseteq 1..Len(stack[d])
    BY <1>5, <2>1 DEF ToComposite
  <2>3. composite \in SUBSET Nat /\ IsFiniteSet(composite)
    <3> HIDE DEF composite
    <3>1. IsFiniteSet(1..Len(stack[d]))
      BY <2>1, FS_Interval
    <3>2. IsFiniteSet(composite)
      BY <2>2, <3>1, FS_Subset
    <3> QED BY <2>1, <2>2, <3>2
  <2>4. b \in BOOLEAN
    OBVIOUS
  <2> HIDE DEF composite, U, b, usable
  <2>5. PlanIn(ReservePlanes(composite, b, usable), U)
    BY <1>8, <2>3, <2>4, ReserveIn DEF U
  <2> QED BY <2>5, Zenon DEF composite, U, b
<1> HIDE DEF s, t, stable, drawn, pl, layers, usable, new
<1>10. job' = [job EXCEPT !.at = "NvLimits",
            !.plan[d].layers = layers, !.plan[d].stable = stable, !.plan[d].current = TRUE,
            !.rendered[d] = drawn, !.pl = pl]
  BY <1>1, <1>8
<1>11. /\ JobFields(job) /\ DOMAIN job.plan = job.on /\ DOMAIN job.rendered = job.on
       /\ \A e \in job.on : PlanShape(job.plan[e])
  BY <1>2 DEF JobShape
<1>12. /\ JobFields(job') /\ job'.at = "NvLimits" /\ job'.pl = pl /\ job'.n = job.n
       /\ job'.on = job.on /\ job'.changed = job.changed /\ job'.layers = job.layers
       /\ job'.primary = job.primary /\ job'.overlay = job.overlay
  BY <1>10, <1>11 DEF JobFields
<1>13. /\ DOMAIN job'.rendered = job.on /\ job'.rendered[d] = drawn
       /\ \A e \in job.on \ {d} : job'.rendered[e] = job.rendered[e]
  BY <1>1, <1>10, <1>11 DEF JobFields
<1>14. /\ DOMAIN job'.plan = job.on
       /\ \A e \in job.on \ {d} : job'.plan[e] = job.plan[e]
       /\ PlanShape(job'.plan[d]) /\ job'.plan[d].layers = layers /\ job'.plan[d].stable = stable
       /\ job'.plan[d].current = TRUE
  <2> DEFINE q == [job.plan[d] EXCEPT !.layers = layers, !.stable = stable, !.current = TRUE]
  <2>1. /\ DOMAIN job'.plan = job.on /\ job'.plan[d] = q
        /\ \A e \in job.on \ {d} : job'.plan[e] = job.plan[e]
    BY <1>1, <1>10, <1>11 DEF JobFields
  <2>2. PlanShape(job.plan[d])
    BY <1>1, <1>11
  <2> HIDE DEF q
  <2>3. q = [job.plan[d] EXCEPT !.layers = layers, !.stable = stable, !.current = TRUE]
    BY DEF q
  <2>4. PlanShape(q) /\ q.layers = layers /\ q.stable = stable /\ q.current = TRUE
    BY <2>2, <2>3 DEF PlanShape
  <2> QED BY <2>1, <2>4
<1>15. /\ DOMAIN squash' = D /\ squash'[d] = t /\ \A e \in D \ {d} : squash'[e] = squash[e]
  BY <1>1, <1>3, <1>6
<1>16. job' # NoJob
  BY <1>12 DEF NoJob
<1>17. JobInv'
  <2>1. JobShape'
    <3>1. JobFields(job)'
      BY <1>12 DEF JobFields
    <3>2. \A e \in job'.on : PlanShape(job.plan[e])'
      BY <1>11, <1>12, <1>14 DEF PlanShape
    <3>3. job'.at \in Planning
      BY <1>12 DEF Planning, Stages
    <3> QED BY <1>2, <1>12, <1>13, <1>14, <3>1, <3>2, <3>3 DEF JobShape
  <2>2. ASSUME NEW m \in DOMAIN Displays, Displays[m] \in job'.on
        PROVE  job'.plan[Displays[m]].current = Passed(m)'
    <3>1. CASE m = job.n
      <4>1. Passed(m)' = TRUE
        BY <1>12, <3>1 DEF Passed, Stages
      <4> QED BY <1>3, <1>14, <3>1, <4>1
    <3>2. CASE m # job.n
      <4>1. Displays[m] # d
        BY <1>3, <3>2, DisplaysLen
      <4>2. job.plan[Displays[m]].current = Passed(m)
        BY <1>2, <1>12, <2>2 DEF JobInv
      <4>3. Passed(m)' = Passed(m)
        BY <1>1, <1>12, <3>2 DEF Passed, Stages
      <4> QED BY <1>12, <1>14, <2>2, <4>1, <4>2, <4>3
    <3> QED BY <3>1, <3>2
  <2>3. \A m \in DOMAIN Displays :
          m >= job'.n => OwnPrimary(Displays[m]) \subseteq Range(job'.primary)
    BY <1>2, <1>12 DEF JobInv
  <2>4. Cur' = d
    BY <1>12 DEF Cur
  <2>5. PlanIn(job.pl, Supported(Cur))'
    BY <1>9, <1>12, <2>4 DEF PlanIn, Supported, PlaneUse
  <2> QED BY <1>1, <1>12, <2>1, <2>2, <2>3, <2>4, <2>5 DEF JobInv, OwnPrimary
<1>18. ASSUME NEW e \in D PROVE SquashOf(e)'
  <2>1. SquashOf(e) /\ ~planned'[e].current
    BY <1>1, <1>2 DEF SquashInv, SquashOf
  <2>2. /\ stack'[e] = stack[e] /\ squash_fb'[e] = squash_fb[e] /\ job'.changed = job.changed
        /\ job'.layers = job.layers
    BY <1>1, <1>12
  <2>3. Asked(e)' <=> Asked(e)
    BY <1>2, <1>12, <1>16 DEF Asked
  <2>4. CASE e # d
    <3>1. squash'[e] = squash[e]
      BY <1>15, <2>4
    <3>2. e \in job.on => job'.plan[e] = job.plan[e] /\ job'.rendered[e] = job.rendered[e]
      BY <1>13, <1>14, <2>4
    <3>3. Asked(e) => e \in job.on
      BY DEF Asked
    <3>4. Recorded(e)' <=> Recorded(e)
      BY <2>3, <3>2, <3>3 DEF Recorded
    <3>5. Holds(e)' <=> Holds(e)
      BY <2>2, <3>1 DEF Holds
    <3>6. HistoryOf(e)' <=> HistoryOf(e)
      BY <2>2, <3>1 DEF HistoryOf
    <3>7. Recorded(e) => e \in job.on
      BY <3>3 DEF Recorded
    <3> QED BY <2>1, <2>2, <2>3, <3>1, <3>2, <3>4, <3>5, <3>6, <3>7 DEF SquashOf
  <2>5. CASE e = d
    <3> DEFINE f == squash_fb[d]
    <3>1. squash'[e] = t
      BY <1>15, <2>5
    <3>2. Recorded(e)'
      BY <1>4, <1>14, <2>3, <2>5 DEF Recorded
    <3>3. HistoryOf(e)'
      BY <1>7, <2>2, <2>5, <3>1 DEF HistoryOf
    <3>4. SquashShape(squash[e])'
      BY <1>7, <3>1 DEF SquashShape
    <3>5. job'.plan[e].layers = job'.layers[e] /\ job'.plan[e].stable = squash'[e].squashed
      BY <1>7, <1>14, <2>2, <2>5, <3>1 DEF layers, CurLayers
    <3>6. squash'[e].last = Handles(job.layers[e])'
      BY <1>7, <2>2, <2>5, <3>1 DEF layers, CurLayers, Handles
    <3>7. job'.rendered[e] = squash'[e].squashed \/ (job'.rendered[e] = {} /\ Holds(e)')
      <4>1. CASE drawn = stable
        BY <1>7, <1>13, <2>5, <3>1, <4>1
      <4>2. CASE drawn # stable
        <5>1. drawn = {} /\ ~new /\ s.squashed = stable
          BY <4>2 DEF drawn, stable, RecordAndCompareSquashed
        <5>2. ASSUME NEW r \in t.squashed
              PROVE  r \in DOMAIN f /\ f[r] = [l \in r.ids |-> t.last[l]]
          <6>1. r \in s.squashed /\ r \in stable
            BY <1>7, <5>1, <5>2
          <6>2. r \in DOMAIN f /\ f[r] = [l \in r.ids |-> s.last[l]]
            BY <1>5, <6>1 DEF Holds, s
          <6>3. \A l \in r.ids : s.last[l] = t.last[l]
            BY <1>7, <5>1, <6>1
          <6> QED BY <6>2, <6>3
        <5>3. Holds(e)'
          BY <2>2, <2>5, <3>1, <5>2 DEF Holds
        <5> QED BY <1>13, <2>5, <5>1, <5>3
      <4> QED BY <4>1, <4>2
    <3>8. /\ FramesOf(job.layers[e])' = FramesOf(stack[e])'
          /\ DOMAIN job'.layers[e] = DOMAIN stack'[e] /\ Len(job'.layers[e]) = Len(stack'[e])
      BY <1>5, <2>2, <2>5 DEF FramesOf, layers, CurLayers
    <3> QED BY <2>1, <3>2, <3>3, <3>4, <3>5, <3>6, <3>7, <3>8 DEF SquashOf
  <2> QED BY <2>4, <2>5
<1> QED BY <1>1, <1>6, <1>15, <1>17, <1>18 DEF SquashInv

\* The buffers of a squashed region are among the last ones.
LEMMA RegionHandles ==
  ASSUME NEW g \in Stack, NEW r \in separate_rects(FramesOf(g)),
         NEW layers, DOMAIN layers = DOMAIN g
  PROVE  HandlesOf(layers, r) = [l \in r.ids |-> Handles(layers)[l]]
<1>1. r.ids \subseteq DOMAIN layers
  BY FramesFit, SeparateIds
<1> QED BY <1>1 DEF HandlesOf, Handles

LEMMA QueueKeeps ==
  ASSUME SquashInv, "lost" \notin PlanEnv, QueueComposition
  PROVE  SquashInv'
<1> DEFINE Fb(d) == [r \in job.rendered[d] |-> HandlesOf(job.layers[d], r)]
<1>1. /\ job.at = "queue" /\ job' = NoJob /\ stack' = stack /\ squash' = squash
      /\ planned' = [d \in D |-> IF d \in job.on THEN job.plan[d] ELSE NoPlan]
      /\ squash_fb' = [d \in D |-> IF d \notin job.on \/ job.rendered[d] = {} THEN squash_fb[d]
                                   ELSE Fb(d)]
  BY DEF QueueComposition
<1> HIDE DEF Fb
<1>2. job # NoJob /\ JobShape /\ JobInv
  BY <1>1, JobAt DEF SquashInv
<1>3. JobInv'
  BY <1>1 DEF JobInv
<1>4. ASSUME NEW d \in D PROVE SquashOf(d)'
  <2>1. SquashOf(d) /\ stack[d] \in Stack
    BY DEF SquashInv
  <2>2. ~Asked(d)' /\ ~Recorded(d)'
    BY <1>1 DEF Asked, Recorded
  <2>3. HistoryOf(d)' <=> HistoryOf(d)
    BY <1>1 DEF HistoryOf
  <2>4. SquashShape(squash[d])'
    BY <1>1, <2>1 DEF SquashOf, SquashShape
  <2>5. CASE d \notin job.on
    <3>1. planned'[d] = NoPlan /\ squash_fb'[d] = squash_fb[d]
      BY <1>1, <2>5
    <3>2. ~planned'[d].current
      BY <3>1 DEF NoPlan
    <3>3. Holds(d) /\ HistoryOf(d)
      BY <2>1, <2>5 DEF SquashOf, Asked, Recorded
    <3>4. Holds(d)'
      BY <1>1, <3>1, <3>3 DEF Holds
    <3> QED BY <2>2, <2>3, <2>4, <3>2, <3>3, <3>4 DEF SquashOf
  <2>6. CASE d \in job.on
    <3> DEFINE s == squash[d]
    <3>1. Recorded(d) /\ Asked(d)
      <4>1. PICK m \in DOMAIN Displays : Displays[m] = d
        BY DEF D
      <4>2. job.plan[d].current = Passed(m) /\ Passed(m) = TRUE
        BY <1>1, <1>2, <2>6, <4>1 DEF JobInv, Passed
      <4> QED BY <1>2, <2>6, <4>2 DEF Recorded, Asked
    <3>2. /\ HistoryOf(d) /\ job.plan[d].layers = job.layers[d] /\ job.plan[d].stable = s.squashed
          /\ s.last = Handles(job.layers[d]) /\ DOMAIN job.layers[d] = DOMAIN stack[d]
          /\ job.rendered[d] = s.squashed \/ (job.rendered[d] = {} /\ Holds(d))
      BY <2>1, <3>1 DEF SquashOf
    <3>3. planned'[d] = job.plan[d]
      BY <1>1, <2>6
    <3>4. Holds(d)'
      <4>1. CASE job.rendered[d] = {}
        <5>1. Holds(d)
          BY <3>2, <4>1 DEF Holds
        <5>2. squash_fb'[d] = squash_fb[d]
          BY <1>1, <4>1
        <5> QED BY <1>1, <5>1, <5>2 DEF Holds
      <4>2. CASE job.rendered[d] # {}
        <5>1. squash_fb'[d] = Fb(d) /\ job.rendered[d] = s.squashed
          BY <1>1, <2>6, <3>2, <4>2
        <5>2. ASSUME NEW r \in s.squashed
              PROVE  r \in DOMAIN Fb(d) /\ Fb(d)[r] = [l \in r.ids |-> s.last[l]]
          <6>1. r \in separate_rects(FramesOf(stack[d]))
            BY <3>2, <5>2 DEF HistoryOf
          <6>2. HandlesOf(job.layers[d], r) = [l \in r.ids |-> Handles(job.layers[d])[l]]
            BY <2>1, <3>2, <6>1, RegionHandles
          <6>3. r \in DOMAIN Fb(d) /\ Fb(d)[r] = HandlesOf(job.layers[d], r)
            BY <5>1, <5>2 DEF Fb
          <6> QED BY <3>2, <6>2, <6>3
        <5> QED BY <1>1, <5>1, <5>2 DEF Holds
      <4> QED BY <4>1, <4>2
    <3>5. squash'[d].last = Handles(planned[d].layers)'
      BY <1>1, <3>2, <3>3 DEF Handles
    <3>6. planned'[d].stable = squash'[d].squashed /\ DOMAIN planned'[d].layers = DOMAIN stack'[d]
      BY <1>1, <3>2, <3>3
    <3> QED BY <1>1, <2>2, <2>3, <2>4, <3>2, <3>4, <3>5, <3>6 DEF SquashOf
  <2> QED BY <2>5, <2>6
<1>5. /\ stack' \in [D -> Stack] /\ DOMAIN squash' = D /\ DOMAIN squash_fb' = D
      /\ DOMAIN planned' = D
  BY <1>1 DEF SquashInv
<1> QED BY <1>3, <1>4, <1>5 DEF SquashInv

\* The pools a composition begins with.
LEMMA PoolsIn ==
  ASSUME NEW type
  PROVE  /\ PlanesOf(type) \in Seq(DOMAIN Planes)
         /\ Range(PlanesOf(type)) = {p \in DOMAIN Planes : Planes[p].type = type}
<1> DEFINE P == DOMAIN Planes
           all == [i \in P |-> i]
           other == {i \in P : Planes[i].type # type}
<1>1. P = 1..Len(Planes) /\ Len(Planes) \in Nat
  <2> DEFINE R == Range(Planes)
  <2>1. Planes \in Seq(R)
    BY PlanAssumption
  <2> HIDE DEF R
  <2> QED BY <2>1
<1>2. all \in Seq(P) /\ Range(all) = P
  <2> HIDE DEF P
  <2>1. all \in [1..Len(Planes) -> P]
    BY <1>1
  <2> QED BY <1>1, <2>1 DEF Range
<1>3. PlanesOf(type) = Left(all, other)
  BY DEF PlanesOf
<1> HIDE DEF all
<1>4. Left(all, other) \in Seq(P) /\ Range(Left(all, other)) = P \ other
  <2> HIDE DEF other, P
  <2> QED BY <1>2, LeftIn
<1> QED BY <1>3, <1>4

\* A buffer for every layer changes nothing else about it.
LEMMA WithHandlesKeeps ==
  ASSUME NEW g \in Stack, NEW h
  PROVE  /\ FramesOf(WithHandles(g, h)) = FramesOf(g)
         /\ DOMAIN WithHandles(g, h) = DOMAIN g /\ Len(WithHandles(g, h)) = Len(g)
<1> DEFINE w == WithHandles(g, h)
           L(i) == [x \in DOMAIN g[i] \cup {"handle"} |-> IF x = "handle" THEN h[i] ELSE g[i][x]]
<1>1. g \in Seq(LayerType) /\ Len(g) \in Nat /\ DOMAIN g = 1..Len(g)
  BY DEF Stack
<1>2. w = [i \in 1..Len(g) |-> L(i)]
  BY <1>1, Zenon DEF WithHandles
<1>3. ASSUME NEW i \in 1..Len(g) PROVE L(i).frame = g[i].frame
  <2>1. g[i] \in LayerType
    BY <1>1
  <2>2. "frame" \in DOMAIN g[i]
    BY <2>1 DEF LayerType
  <2> QED BY <2>2
<1> HIDE DEF L, w
<1>4. DOMAIN w = 1..Len(g) /\ w = [i \in 1..Len(g) |-> w[i]] /\ \A i \in 1..Len(g) : w[i] = L(i)
  BY <1>2
<1>5. Len(w) = Len(g)
  BY <1>1, <1>4, LenOf
<1>6. FramesOf(w) = FramesOf(g)
  BY <1>1, <1>3, <1>4 DEF FramesOf
<1> QED BY <1>1, <1>4, <1>5, <1>6 DEF w

\* What SetLayers chose: the displays, their new stacks and buffers.
SetWith(on, changed, g, h) ==
  /\ on \subseteq D /\ changed \subseteq on
  /\ \A d \in changed : g[d] \in Follow(d, stack)
  /\ stack' = [d \in D |-> IF d \in changed THEN g[d] ELSE stack[d]]
  /\ job' = [at |-> "history", n |-> 1, on |-> on, changed |-> changed,
             layers |-> [d \in on |-> WithHandles(stack'[d], h[d])],
             plan |-> [d \in on |-> NoPlan], rendered |-> [d \in on |-> {}],
             primary |-> PlanesOf("primary"), overlay |-> PlanesOf("overlay"), pl |-> <<>>]

LEMMA SetStep ==
  ASSUME SetLayers
  PROVE  \E on, changed, g, h : SetWith(on, changed, g, h)
<1> DEFINE Job(on, changed, h) ==
             [at |-> "history", n |-> 1, on |-> on, changed |-> changed,
              layers |-> [d \in on |-> WithHandles(stack'[d], h[d])],
              plan |-> [d \in on |-> NoPlan], rendered |-> [d \in on |-> {}],
              primary |-> PlanesOf("primary"), overlay |-> PlanesOf("overlay"), pl |-> <<>>]
<1> DEFINE Room(on, h) == \A d \in on, i \in 1..MaxLayers : h[d][i] <= LayerBuffers[d][i]
<1>1. PICK on \in (SUBSET D) \ {{}}, changed \in SUBSET D :
        /\ changed \subseteq on
        /\ \A d \in on \ changed : stack[d] # <<>>
        /\ \A d \in changed : Follow(d, stack) # {}
        /\ \E g \in [changed -> UNION {Follow(d, stack) : d \in changed}] :
             /\ \A d \in changed : g[d] \in Follow(d, stack)
             /\ stack' = [d \in D |-> IF d \in changed THEN g[d] ELSE stack[d]]
        /\ \E h \in [on -> [1..MaxLayers -> 1..2]] : Room(on, h) /\ job' = Job(on, changed, h)
  BY DEF SetLayers
<1>2. PICK g : /\ \A d \in changed : g[d] \in Follow(d, stack)
               /\ stack' = [d \in D |-> IF d \in changed THEN g[d] ELSE stack[d]]
  BY <1>1, Zenon
<1>3. PICK h : job' = Job(on, changed, h)
  BY <1>1, Zenon
<1> HIDE DEF Job
<1>4. on \subseteq D /\ changed \subseteq on
  BY <1>1
<1> QED BY <1>2, <1>3, <1>4, Zenon DEF Job, SetWith

LEMMA SetKeeps ==
  ASSUME SquashInv, FollowsFit, SetLayers
  PROVE  SquashInv'
<1>1. /\ job.at = "idle" /\ planned' = [d \in D |-> NoPlan] /\ squash' = squash
      /\ squash_fb' = squash_fb
  BY DEF SetLayers
<1>2. PICK on, changed, g, h :
        /\ on \subseteq D /\ changed \subseteq on
        /\ \A d \in changed : g[d] \in Follow(d, stack)
        /\ stack' = [d \in D |-> IF d \in changed THEN g[d] ELSE stack[d]]
        /\ job' = [at |-> "history", n |-> 1, on |-> on, changed |-> changed,
                   layers |-> [d \in on |-> WithHandles(stack'[d], h[d])],
                   plan |-> [d \in on |-> NoPlan], rendered |-> [d \in on |-> {}],
                   primary |-> PlanesOf("primary"), overlay |-> PlanesOf("overlay"), pl |-> <<>>]
  <2>1. PICK on, changed, g, h : SetWith(on, changed, g, h)
    BY SetStep
  <2> QED BY <2>1, Zenon DEF SetWith
<1>3. job = NoJob
  BY <1>1, JobAt
<1>4. /\ job'.at = "history" /\ job'.n = 1 /\ job'.on = on /\ job'.changed = changed
      /\ job'.layers = [d \in on |-> WithHandles(stack'[d], h[d])]
      /\ job'.plan = [d \in on |-> NoPlan] /\ job'.rendered = [d \in on |-> {}]
      /\ job'.primary = PlanesOf("primary") /\ job'.overlay = PlanesOf("overlay")
      /\ JobFields(job')
  BY <1>2 DEF JobFields
<1>5. job' # NoJob
  BY <1>4 DEF NoJob
<1>6. stack' \in [D -> Stack]
  <2>1. stack \in [D -> Stack]
    BY DEF SquashInv
  <2>2. \A d \in changed : g[d] \in Stack
    BY <1>2, <2>1 DEF FollowsFit
  <2> QED BY <1>2, <2>1, <2>2
<1>7. ASSUME NEW d \in on
      PROVE  /\ PlanShape(job'.plan[d])
             /\ ~job'.plan[d].current /\ job'.plan[d].current = FALSE
  BY <1>4 DEF PlanShape, NoPlan
<1>8. JobInv'
  <2>1. JobShape'
    <3>1. JobFields(job)'
      BY <1>4 DEF JobFields
    <3>2. \A d \in job'.on : PlanShape(job.plan[d])'
      BY <1>4, <1>7 DEF PlanShape
    <3>3. job'.at \in Planning /\ job'.n \in DOMAIN Displays
      BY <1>4, DisplaysLen DEF Planning
    <3>4. job'.primary \in Seq(DOMAIN Planes) /\ job'.overlay \in Seq(DOMAIN Planes)
      BY <1>4, PoolsIn
    <3>5. /\ job'.on \subseteq D /\ job'.changed \subseteq job'.on
          /\ DOMAIN job'.plan = job'.on /\ DOMAIN job'.rendered = job'.on
      BY <1>2, <1>4
    <3> QED BY <3>1, <3>2, <3>3, <3>4, <3>5 DEF JobShape
  <2>2. ASSUME NEW m \in DOMAIN Displays, Displays[m] \in job'.on
        PROVE  job'.plan[Displays[m]].current = Passed(m)'
    <3>1. Passed(m)' = FALSE
      BY <1>4, DisplaysLen DEF Passed, Stages
    <3> QED BY <1>4, <1>7, <2>2, <3>1
  <2>3. ASSUME NEW m \in DOMAIN Displays PROVE OwnPrimary(Displays[m]) \subseteq Range(job'.primary)
    BY <1>4, PoolsIn DEF OwnPrimary
  <2>4. job'.at \notin Stages
    BY <1>4 DEF Stages
  <2> QED BY <2>1, <2>2, <2>3, <2>4 DEF JobInv, OwnPrimary
<1>9. ASSUME NEW d \in D PROVE SquashOf(d)'
  <2>1. SquashOf(d)
    BY DEF SquashInv
  <2>2. ~Asked(d) /\ ~Recorded(d)
    BY <1>3 DEF Asked, Recorded
  <2>3. (Asked(d)' <=> d \in on) /\ ~Recorded(d)'
    BY <1>4, <1>5, <1>7 DEF Asked, Recorded
  <2>4. ~planned'[d].current
    BY <1>1 DEF NoPlan
  <2>5. Holds(d)' /\ SquashShape(squash[d])'
    BY <1>1, <2>1, <2>2 DEF SquashOf, Holds, SquashShape
  <2>6. d \notin changed => HistoryOf(d)'
    <3>1. HistoryOf(d)
      BY <2>1, <2>2 DEF SquashOf
    <3>2. d \notin changed => stack'[d] = stack[d]
      BY <1>2
    <3> QED BY <1>1, <3>1, <3>2 DEF HistoryOf
  <2>7. d \in changed => d \in on /\ d \in job'.changed
    BY <1>2, <1>4
  <2>8. ASSUME d \in on
        PROVE  /\ FramesOf(job.layers[d])' = FramesOf(stack[d])'
               /\ DOMAIN job'.layers[d] = DOMAIN stack'[d] /\ Len(job'.layers[d]) = Len(stack'[d])
    <3>1. job'.layers[d] = WithHandles(stack'[d], h[d]) /\ stack'[d] \in Stack
      BY <1>4, <1>6, <2>8
    <3> QED BY <3>1, WithHandlesKeeps DEF FramesOf
  <2> QED BY <2>3, <2>4, <2>5, <2>6, <2>7, <2>8 DEF SquashOf
<1> QED BY <1>1, <1>6, <1>8, <1>9 DEF SquashInv

LEMMA SquashInvFresh == SquashInv => SquashFresh
<1> SUFFICES ASSUME SquashInv, NEW d \in D, planned[d].current
             PROVE  /\ Separated(FramesOf(stack[d]), squash[d].regions, Pixels)
                    /\ \A r \in planned[d].stable :
                         /\ r \in DOMAIN squash_fb[d]
                         /\ squash_fb[d][r] = HandlesOf(planned[d].layers, r)
  BY DEF SquashFresh
<1>1. SquashOf(d) /\ stack[d] \in Stack
  BY DEF SquashInv
<1>2. /\ job = NoJob /\ planned[d].stable = squash[d].squashed
      /\ squash[d].last = Handles(planned[d].layers) /\ DOMAIN planned[d].layers = DOMAIN stack[d]
  BY <1>1 DEF SquashOf
<1>3. Holds(d) /\ HistoryOf(d)
  BY <1>1, <1>2 DEF SquashOf, Asked, Recorded
<1>4. Separated(FramesOf(stack[d]), squash[d].regions, Pixels)
  <2>1. Pixels \in SUBSET Point
    BY PlanAssumption DEF Point
  <2>2. FramesOf(stack[d]) \in Seq(RectType) /\ Len(FramesOf(stack[d])) <= MaxIds
    BY <1>1, FramesFit
  <2>3. squash[d].regions = separate_rects(FramesOf(stack[d]))
    BY <1>3 DEF HistoryOf
  <2> QED BY <2>1, <2>2, <2>3, SeparateRight
<1>5. ASSUME NEW r \in planned[d].stable
      PROVE  r \in DOMAIN squash_fb[d] /\ squash_fb[d][r] = HandlesOf(planned[d].layers, r)
  <2>1. r \in squash[d].squashed /\ r \in separate_rects(FramesOf(stack[d]))
    BY <1>2, <1>3, <1>5 DEF HistoryOf
  <2>2. r \in DOMAIN squash_fb[d] /\ squash_fb[d][r] = [l \in r.ids |-> squash[d].last[l]]
    BY <1>3, <2>1 DEF Holds
  <2>3. HandlesOf(planned[d].layers, r) = [l \in r.ids |-> Handles(planned[d].layers)[l]]
    BY <1>1, <1>2, <2>1, RegionHandles
  <2> QED BY <1>2, <2>2, <2>3
<1> QED BY <1>4, <1>5

LEMMA SquashNext ==
  ASSUME SquashInv, FollowsFit, PlanesFit, "lost" \notin PlanEnv, [PlanNext]_planvars
  PROVE  SquashInv'
<1>1. CASE UNCHANGED planvars
  <2>1. /\ stack' = stack /\ squash' = squash /\ squash_fb' = squash_fb /\ planned' = planned
        /\ job' = job
    BY <1>1 DEF planvars
  <2>2. JobInv'
    <3>1. JobShape => JobShape'
      BY <2>1 DEF JobShape, JobFields, PlanShape
    <3>2. \A m : Passed(m)' = Passed(m)
      BY <2>1 DEF Passed
    <3>3. Cur' = Cur
      BY <2>1 DEF Cur
    <3>4. PlanIn(job.pl, Supported(Cur)) => PlanIn(job.pl, Supported(Cur))'
      BY <2>1, <3>3 DEF PlanIn, Supported, PlaneUse
    <3> QED BY <2>1, <3>1, <3>2, <3>3, <3>4 DEF SquashInv, JobInv, OwnPrimary
  <2>3. ASSUME NEW d \in D PROVE SquashOf(d)'
    <3>1. SquashOf(d)
      BY DEF SquashInv
    <3>2. (Asked(d)' <=> Asked(d)) /\ (Recorded(d)' <=> Recorded(d))
      BY <2>1 DEF Asked, Recorded
    <3>3. (Holds(d)' <=> Holds(d)) /\ (HistoryOf(d)' <=> HistoryOf(d))
      BY <2>1 DEF Holds, HistoryOf
    <3> QED BY <2>1, <3>1, <3>2, <3>3 DEF SquashOf, SquashShape, FramesOf, Handles
  <2> QED BY <2>1, <2>2, <2>3 DEF SquashInv
<1> QED BY <1>1, SetKeeps, RecordKeeps, SkipKeeps, ProvisionKeeps, FinalizeKeeps, DisableKeeps,
        QueueKeeps DEF PlanNext

(***************************************************************************)
(* SquashState: a region is taken from the squash framebuffer only when    *)
(* the framebuffer holds the buffers its layers have now, and the regions  *)
(* are the separation of the layers' frames.  Every display has a primary  *)
(* plane of its own (PlanesFit; otherwise Plan fails for one display after *)
(* the history of an earlier one is recorded), its stacks fit an id set    *)
(* (FollowsFit), and the compositors take the frames that are queued: a    *)
(* frame lost after Plan leaves the framebuffer behind the history.        *)
(***************************************************************************)
THEOREM SquashIsFresh ==
  ASSUME FollowsFit, PlanesFit, "lost" \notin PlanEnv
  PROVE  PlanSpec => []SquashFresh
<1>1. PlanInit => SquashInv
  BY SquashInit0
<1>2. SquashInv /\ [PlanNext]_planvars => SquashInv'
  BY SquashNext
<1>3. SquashInv => SquashFresh
  BY SquashInvFresh
<1> QED BY <1>1, <1>2, <1>3, PTL DEF PlanSpec
-----------------------------------------------------------------------------
(* Every plane has one owner *)

LEMMA AscendingGrows ==
  ASSUME NEW S \in SUBSET Int, IsFiniteSet(S), NEW m \in 1..Cardinality(S),
         NEW n \in 1..Cardinality(S), m < n
  PROVE  Ascending(S)[m] < Ascending(S)[n]
<1> DEFINE rank(x) == Cardinality(Below(S, x))
           v == Ascending(S)[m]
           w == Ascending(S)[n]
<1>1. v \in S /\ rank(v) = m - 1 /\ w \in S /\ rank(w) = n - 1
  BY AscendingRanks
<1>2. \A x \in S : w < x => rank(w) < rank(x)
  BY <1>1, RanksGrow
<1>3. Cardinality(S) \in Nat
  BY FS_CardinalityType
<1> HIDE DEF rank, v, w
<1>4. v \in Int /\ w \in Int /\ m \in Int /\ n \in Int
  BY <1>1, <1>3
<1>5. v # w /\ ~ (w < v)
  BY <1>1, <1>2, <1>4
<1> QED BY <1>4, <1>5 DEF v, w

\* EntriesAt picks entries in their order; o says which.
PickedBy(s, P, o) ==
  /\ DOMAIN EntriesAt(s, P) = 1..Cardinality(P)
  /\ \A n \in 1..Cardinality(P) : o[n] \in P /\ EntriesAt(s, P)[n] = s[o[n]]
  /\ \A m, n \in 1..Cardinality(P) : m < n => o[m] < o[n]

LEMMA EntriesPicked ==
  ASSUME NEW T, NEW s \in Seq(T), NEW P \in SUBSET DOMAIN s
  PROVE  PickedBy(s, P, Ascending(P)) /\ Cardinality(P) \in Nat
<1>1. IsFiniteSet(P) /\ P \in SUBSET Int
  BY PlacesFinite
<1>2. Ascending(P) \in Seq(P) /\ Len(Ascending(P)) = Cardinality(P) /\ Cardinality(P) \in Nat
  BY <1>1, AscendingSeq, FS_CardinalityType
<1>3. \A m, n \in 1..Cardinality(P) : m < n => Ascending(P)[m] < Ascending(P)[n]
  BY <1>1, AscendingGrows
<1> DEFINE o == Ascending(P)
<1>4. EntriesAt(s, P) = [n \in DOMAIN o |-> s[o[n]]]
  BY DEF EntriesAt
<1> HIDE DEF o
<1>5. DOMAIN o = 1..Cardinality(P) /\ \A n \in 1..Cardinality(P) : o[n] \in P
  BY <1>2 DEF o
<1> QED BY <1>2, <1>3, <1>4, <1>5 DEF PickedBy, o

\* No plane is in a pool, or in a composition, twice.
Once(s) == \A i, j \in DOMAIN s : s[i] = s[j] => i = j
OncePlanes(c) == \A i, j \in DOMAIN c : c[i].plane = c[j].plane => i = j

\* What is known of the entries e at the places P of s, and of two lists in a row.
TakesEntries(e, s, P) ==
  /\ Range(e) = {s[i] : i \in P} /\ UsedPlanes(e) = {s[i].plane : i \in P}
  /\ Once(s) => Once(e)
  /\ OncePlanes(s) => OncePlanes(e)
JoinsLists(c, a, b) ==
  /\ Range(c) = Range(a) \cup Range(b) /\ UsedPlanes(c) = UsedPlanes(a) \cup UsedPlanes(b)
  /\ OncePlanes(a) /\ OncePlanes(b) /\ UsedPlanes(a) \cap UsedPlanes(b) = {} => OncePlanes(c)
  /\ Once(a) /\ Once(b) /\ Range(a) \cap Range(b) = {} => Once(c)

LEMMA EntriesOnce ==
  ASSUME NEW T, NEW s \in Seq(T), NEW P \in SUBSET DOMAIN s
  PROVE  EntriesAt(s, P) \in Seq(T) /\ TakesEntries(EntriesAt(s, P), s, P)
<1> DEFINE e == EntriesAt(s, P)
           k == Cardinality(P)
<1>1. PICK o : PickedBy(s, P, o) /\ k \in Nat
  BY EntriesPicked
<1>2. P \subseteq Int
  BY PlacesFinite
<1>3. Range(e) = {s[i] : i \in P}
  BY EntriesIn
<1> HIDE DEF k
<1>4. /\ DOMAIN e = 1..k /\ \A n \in 1..k : o[n] \in P /\ e[n] = s[o[n]]
      /\ \A m, n \in 1..k : m < n => o[m] < o[n]
  BY <1>1 DEF PickedBy, k
<1> HIDE DEF e
<1>5. ASSUME NEW m \in 1..k, NEW n \in 1..k, o[m] = o[n] PROVE m = n
  <2>1. m \in Int /\ n \in Int /\ o[m] \in Int /\ o[n] \in Int
    BY <1>1, <1>2, <1>4
  <2> QED BY <1>4, <1>5, <2>1
<1>6. Once(s) => Once(e)
  BY <1>4, <1>5 DEF Once
<1>7. OncePlanes(s) => OncePlanes(e)
  BY <1>4, <1>5 DEF OncePlanes
<1>8. UsedPlanes(e) = {s[i].plane : i \in P}
  <2>1. UsedPlanes(e) = {x.plane : x \in Range(e)}
    BY DEF UsedPlanes, Range
  <2> QED BY <1>3, <2>1
<1> QED BY <1>3, <1>6, <1>7, <1>8, EntriesIn DEF e, TakesEntries

LEMMA ConcatOnce ==
  ASSUME NEW T, NEW a \in Seq(T), NEW b \in Seq(T)
  PROVE  a \o b \in Seq(T) /\ JoinsLists(a \o b, a, b)
<1>1. /\ Len(a) \in Nat /\ Len(b) \in Nat /\ DOMAIN a = 1..Len(a) /\ DOMAIN b = 1..Len(b)
      /\ DOMAIN (a \o b) = 1..(Len(a) + Len(b))
      /\ \A i \in 1..Len(a) : (a \o b)[i] = a[i]
      /\ \A i \in 1..(Len(a) + Len(b)) : i > Len(a) => (a \o b)[i] = b[i - Len(a)]
  OBVIOUS
<1> DEFINE c == a \o b
           k == Len(a)
           n == Len(b)
<1>2. /\ k \in Nat /\ n \in Nat /\ DOMAIN a = 1..k /\ DOMAIN b = 1..n /\ DOMAIN c = 1..(k + n)
      /\ \A i \in 1..k : c[i] = a[i]
      /\ \A i \in 1..(k + n) : i > k => c[i] = b[i - k]
  BY <1>1
<1> HIDE DEF c, k, n
<1>3. \A i \in DOMAIN c : \/ i \in DOMAIN a /\ c[i] = a[i]
                          \/ i > k /\ i - k \in DOMAIN b /\ c[i] = b[i - k]
  BY <1>2
<1>4. \A i \in DOMAIN a : i \in DOMAIN c /\ c[i] = a[i]
  BY <1>2
<1>5. \A i \in DOMAIN b : i + k \in DOMAIN c /\ c[i + k] = b[i]
  <2>1. ASSUME NEW i \in 1..n PROVE i + k \in 1..(k + n) /\ i + k > k /\ (i + k) - k = i
    BY <1>2
  <2> QED BY <1>2, <2>1
<1>6. Range(c) = Range(a) \cup Range(b)
  BY <1>3, <1>4, <1>5 DEF Range
<1>7. UsedPlanes(c) = UsedPlanes(a) \cup UsedPlanes(b)
  BY <1>3, <1>4, <1>5 DEF UsedPlanes
<1>8. ASSUME NEW i \in DOMAIN c, NEW j \in DOMAIN c, i > k, j > k, i - k = j - k PROVE i = j
  BY <1>2, <1>8
<1>9. ASSUME OncePlanes(a), OncePlanes(b), UsedPlanes(a) \cap UsedPlanes(b) = {},
             NEW i \in DOMAIN c, NEW j \in DOMAIN c, c[i].plane = c[j].plane
      PROVE  i = j
  <2>1. \A x \in DOMAIN a, y \in DOMAIN b : a[x].plane # b[y].plane
    BY <1>9 DEF UsedPlanes
  <2> QED BY <1>3, <1>8, <1>9, <2>1 DEF OncePlanes
<1>10. ASSUME Once(a), Once(b), Range(a) \cap Range(b) = {},
              NEW i \in DOMAIN c, NEW j \in DOMAIN c, c[i] = c[j]
       PROVE  i = j
  <2>1. \A x \in DOMAIN a, y \in DOMAIN b : a[x] # b[y]
    BY <1>10 DEF Range
  <2> QED BY <1>3, <1>8, <1>10, <2>1 DEF Once
<1>11. OncePlanes(a) /\ OncePlanes(b) /\ UsedPlanes(a) \cap UsedPlanes(b) = {} => OncePlanes(c)
  BY <1>9 DEF OncePlanes
<1>12. Once(a) /\ Once(b) /\ Range(a) \cap Range(b) = {} => Once(c)
  BY <1>10 DEF Once
<1> QED BY <1>6, <1>7, <1>11, <1>12 DEF c, JoinsLists

\* The free planes after the first k of them are taken.
LEMMA RestOnce ==
  ASSUME NEW U, NEW s \in Seq(U), Once(s), NEW k \in 0..Len(s)
  PROVE  /\ Once(SubSeq(s, k + 1, Len(s)))
         /\ Range(SubSeq(s, k + 1, Len(s))) = {s[n] : n \in (k + 1)..Len(s)}
         /\ \A n \in 1..k : s[n] \notin Range(SubSeq(s, k + 1, Len(s)))
<1> DEFINE r == SubSeq(s, k + 1, Len(s))
           n == Len(s)
<1>1. n \in Nat /\ k \in Nat /\ k <= n /\ DOMAIN s = 1..n
  OBVIOUS
<1>2. DOMAIN r = 1..(n - k) /\ \A i \in 1..(n - k) : r[i] = s[i + k]
  OBVIOUS
<1> HIDE DEF r, n
<1>3. Once(r)
  <2> SUFFICES ASSUME NEW i \in DOMAIN r, NEW j \in DOMAIN r, r[i] = r[j] PROVE i = j
    BY DEF Once
  <2>1. /\ i \in Int /\ j \in Int /\ i + k \in 1..n /\ j + k \in 1..n
        /\ r[i] = s[i + k] /\ r[j] = s[j + k]
    BY <1>1, <1>2
  <2>2. i + k = j + k
    BY <1>1, <2>1 DEF Once
  <2> QED BY <1>1, <2>1, <2>2
<1>4. Range(r) = {s[i] : i \in (k + 1)..n}
  <2>1. \A i \in DOMAIN r : i + k \in (k + 1)..n
    BY <1>1, <1>2
  <2>2. \A i \in (k + 1)..n : i - k \in DOMAIN r /\ (i - k) + k = i
    BY <1>1, <1>2
  <2> QED BY <1>2, <2>1, <2>2 DEF Range
<1>5. \A i \in 1..k : s[i] \notin Range(r)
  <2> SUFFICES ASSUME NEW i \in 1..k, NEW j \in (k + 1)..n, s[i] = s[j] PROVE FALSE
    BY <1>4
  <2>1. i \in 1..n /\ j \in 1..n /\ i # j
    BY <1>1
  <2> QED BY <1>1, <2>1 DEF Once
<1> QED BY <1>3, <1>4, <1>5 DEF r, n

LEMMA FrontOnce ==
  ASSUME NEW U, NEW s \in Seq(U), s # <<>>, Once(s)
  PROVE  /\ Once(Front(s)) /\ Front(s) \in Seq(U) /\ Last(s) \in U
         /\ Last(s) \notin Range(Front(s)) /\ Range(s) = Range(Front(s)) \cup {Last(s)}
<1> DEFINE r == SubSeq(s, 1, Len(s) - 1)
           n == Len(s)
<1>1. n \in Nat /\ n > 0 /\ DOMAIN s = 1..n /\ s[n] \in U /\ r \in Seq(U)
  OBVIOUS
<1>2. DOMAIN r = 1..(n - 1) /\ \A i \in 1..(n - 1) : r[i] = s[i]
  OBVIOUS
<1>3. Front(s) = r /\ Last(s) = s[n]
  BY DEF Front, Last
<1> HIDE DEF r, n
<1>4. Once(r)
  BY <1>1, <1>2 DEF Once
<1>5. s[n] \notin Range(r)
  BY <1>1, <1>2 DEF Once, Range
<1>6. Range(s) = Range(r) \cup {s[n]}
  <2>1. \A i \in 1..n : i \in 1..(n - 1) \/ i = n
    BY <1>1
  <2>2. n \in DOMAIN s /\ \A i \in 1..(n - 1) : i \in 1..n
    BY <1>1
  <2> QED BY <1>1, <1>2, <2>1, <2>2 DEF Range
<1> QED BY <1>1, <1>3, <1>4, <1>5, <1>6

\* A plan under construction: what is used is not free, and used once.
Owned(pl) == Once(pl.planes) /\ OncePlanes(pl.comp) /\ UsedPlanes(pl.comp) \cap Range(pl.planes) = {}

LEMMA ToPrecompOwned ==
  ASSUME NEW U, NEW pl, PlanIn(pl, U), Owned(pl), NEW S
  PROVE  Owned(ToPrecomp(pl, S))
<1> DEFINE C == PlaneUse(U)
<1>1. /\ pl = [comp |-> pl.comp, layers |-> pl.layers, planes |-> pl.planes]
      /\ pl.comp \in Seq(C) /\ pl.planes \in Seq(U)
  BY DEF PlanIn
<1>2. /\ Once(pl.planes) /\ OncePlanes(pl.comp)
      /\ UsedPlanes(pl.comp) \cap Range(pl.planes) = {}
  BY DEF Owned
<1>3. CASE S = {}
  BY <1>3 DEF ToPrecomp
<1>4. CASE S # {} /\ PrecompAt(pl.comp) # {}
  <2> DEFINE Join(x) == IF x.type = "precomp" THEN [x EXCEPT !.source = x.source \cup S] ELSE x
             c == [i \in DOMAIN pl.comp |-> Join(pl.comp[i])]
  <2>1. ToPrecomp(pl, S) = [comp |-> c, layers |-> pl.layers \ S, planes |-> pl.planes]
    BY <1>4 DEF ToPrecomp
  <2>2. ASSUME NEW i \in DOMAIN pl.comp PROVE c[i].plane = pl.comp[i].plane
    <3>1. pl.comp[i] \in C
      <4> HIDE DEF C
      <4> QED BY <1>1
    <3> QED BY <3>1 DEF PlaneUse
  <2>3. DOMAIN c = DOMAIN pl.comp
    OBVIOUS
  <2> HIDE DEF c
  <2>4. OncePlanes(c) /\ UsedPlanes(c) = UsedPlanes(pl.comp)
    BY <1>2, <2>2, <2>3 DEF OncePlanes, UsedPlanes
  <2> QED BY <1>2, <2>1, <2>4 DEF Owned
<1>5. CASE S # {} /\ PrecompAt(pl.comp) = {} /\ pl.planes = <<>>
  <2>1. ToPrecomp(pl, S) = [pl EXCEPT !.layers = pl.layers \ S]
    BY <1>5 DEF ToPrecomp
  <2>2. ToPrecomp(pl, S) = [comp |-> pl.comp, layers |-> pl.layers \ S, planes |-> pl.planes]
    BY <1>1, <2>1
  <2> QED BY <1>2, <2>2 DEF Owned
<1>6. CASE S # {} /\ PrecompAt(pl.comp) = {} /\ pl.planes # <<>>
  <2> DEFINE e == [type |-> "precomp", plane |-> Last(pl.planes), source |-> S]
             E == {e} \cup C
  <2>1. ToPrecomp(pl, S) = [comp |-> Append(pl.comp, e), layers |-> pl.layers \ S,
                            planes |-> Front(pl.planes)]
    BY <1>6 DEF ToPrecomp
  <2>2. /\ Once(Front(pl.planes)) /\ Last(pl.planes) \notin Range(Front(pl.planes))
        /\ Range(pl.planes) = Range(Front(pl.planes)) \cup {Last(pl.planes)}
    BY <1>1, <1>2, <1>6, FrontOnce
  <2>3. pl.comp \in Seq(E) /\ <<e>> \in Seq(E) /\ Append(pl.comp, e) = pl.comp \o <<e>>
    <3> HIDE DEF e, C
    <3> QED BY <1>1
  <2>4. OncePlanes(<<e>>) /\ UsedPlanes(<<e>>) = {Last(pl.planes)}
    BY DEF OncePlanes, UsedPlanes
  <2> HIDE DEF e, E
  <2>5. UsedPlanes(pl.comp) \cap UsedPlanes(<<e>>) = {}
    BY <1>2, <2>2, <2>4
  <2>6. /\ OncePlanes(pl.comp \o <<e>>)
        /\ UsedPlanes(pl.comp \o <<e>>) = UsedPlanes(pl.comp) \cup {Last(pl.planes)}
    <3> DEFINE one == <<e>>
    <3> HIDE DEF one
    <3>1. one \in Seq(E) /\ OncePlanes(one) /\ UsedPlanes(one) = {Last(pl.planes)}
          /\ UsedPlanes(pl.comp) \cap UsedPlanes(one) = {}
      BY <2>3, <2>4, <2>5 DEF one
    <3>2. /\ OncePlanes(pl.comp \o one)
          /\ UsedPlanes(pl.comp \o one) = UsedPlanes(pl.comp) \cup UsedPlanes(one)
      BY <1>2, <2>3, <3>1, ConcatOnce DEF JoinsLists
    <3> QED BY <3>1, <3>2 DEF one
  <2>7. Owned([comp |-> pl.comp \o <<e>>, layers |-> pl.layers \ S, planes |-> Front(pl.planes)])
    <3> DEFINE f == Front(pl.planes)
               c == pl.comp \o <<e>>
               z == Last(pl.planes)
    <3>1. UsedPlanes(c) \cap Range(f) = {}
      <4> HIDE DEF f, c, z
      <4> QED BY <1>2, <2>2, <2>6 DEF f, c, z
    <3> QED BY <2>2, <2>6, <3>1 DEF Owned
  <2> QED BY <2>1, <2>3, <2>7
<1> QED BY <1>3, <1>4, <1>5, <1>6

LEMMA EmplaceOwned ==
  ASSUME NEW U, NEW pl, PlanIn(pl, U), Owned(pl), NEW S \in SUBSET pl.layers,
         NEW drop \in BOOLEAN
  PROVE  Owned(Emplace(pl, S, drop))
<1> DEFINE C == PlaneUse(U)
           order == Ascending(S)
           k == IF Cardinality(S) <= Len(pl.planes) THEN Cardinality(S) ELSE Len(pl.planes)
           placed == [n \in 1..k |-> Dedicated(order[n], pl.planes[n])]
           before == EntriesAt(pl.comp, DOMAIN pl.comp \ PrecompAt(pl.comp))
           after == EntriesAt(pl.comp, PrecompAt(pl.comp))
           gone == IF drop THEN S ELSE {order[n] : n \in 1..k}
           rest == SubSeq(pl.planes, k + 1, Len(pl.planes))
<1>1. /\ pl.comp \in Seq(C) /\ pl.planes \in Seq(U)
      /\ Once(pl.planes) /\ OncePlanes(pl.comp) /\ UsedPlanes(pl.comp) \cap Range(pl.planes) = {}
  BY DEF PlanIn, Owned
<1>2. Emplace(pl, S, drop) = [comp |-> before \o placed \o after, layers |-> pl.layers \ gone,
                              planes |-> rest]
  BY DEF Emplace
<1>3. k \in 0..Len(pl.planes) /\ Len(pl.planes) \in Nat /\ DOMAIN pl.planes = 1..Len(pl.planes)
  <2>1. Cardinality(S) \in Nat
    BY FS_Subset, FS_CardinalityType DEF PlanIn
  <2> HIDE DEF C
  <2> QED BY <1>1, <2>1
<1> HIDE DEF k, order
<1>4. Once(rest) /\ \A n \in 1..k : pl.planes[n] \notin Range(rest)
  BY <1>1, <1>3, RestOnce
<1>5. Range(rest) \subseteq Range(pl.planes)
  <2>1. Range(rest) = {pl.planes[n] : n \in (k + 1)..Len(pl.planes)}
    BY <1>1, <1>3, RestOnce
  <2>2. (k + 1)..Len(pl.planes) \subseteq DOMAIN pl.planes
    BY <1>3
  <2> QED BY <2>1, <2>2 DEF Range
<1>6. /\ placed \in Seq(Range(placed))
      /\ OncePlanes(placed) /\ UsedPlanes(placed) = {pl.planes[n] : n \in 1..k}
  <2>1. DOMAIN placed = 1..k /\ \A n \in 1..k : placed[n].plane = pl.planes[n]
    BY DEF Dedicated
  <2>2. placed \in [1..k -> Range(placed)]
    BY DEF Range
  <2> HIDE DEF placed
  <2>3. placed \in Seq(Range(placed))
    BY <1>3, <2>2
  <2>4. \A n \in 1..k : n \in DOMAIN pl.planes
    BY <1>3
  <2> QED BY <1>1, <2>1, <2>3, <2>4 DEF OncePlanes, UsedPlanes, Once
<1> DEFINE P == PrecompAt(pl.comp)
           Q == DOMAIN pl.comp \ P
<1>7. P \in SUBSET DOMAIN pl.comp /\ Q \in SUBSET DOMAIN pl.comp /\ P \cap Q = {}
  BY DEF PrecompAt
<1> HIDE DEF P, C
<1>8. /\ before \in Seq(C) /\ after \in Seq(C) /\ OncePlanes(before) /\ OncePlanes(after)
      /\ UsedPlanes(before) = {pl.comp[i].plane : i \in Q}
      /\ UsedPlanes(after) = {pl.comp[i].plane : i \in P}
  <2>1. before = EntriesAt(pl.comp, Q) /\ after = EntriesAt(pl.comp, P)
    BY DEF P
  <2> HIDE DEF before, after, Q
  <2>2. /\ before \in Seq(C) /\ TakesEntries(before, pl.comp, Q)
        /\ after \in Seq(C) /\ TakesEntries(after, pl.comp, P)
    BY <1>1, <1>7, <2>1, EntriesOnce
  <2> QED BY <1>1, <2>2 DEF TakesEntries
<1>9. /\ UsedPlanes(before) \cap UsedPlanes(after) = {}
      /\ UsedPlanes(before) \cup UsedPlanes(after) \subseteq UsedPlanes(pl.comp)
  <2> HIDE DEF before, after
  <2>1. P \subseteq DOMAIN pl.comp /\ Q \subseteq DOMAIN pl.comp
    BY <1>7
  <2> HIDE DEF Q
  <2>2. ASSUME NEW i \in Q, NEW j \in P PROVE pl.comp[i].plane # pl.comp[j].plane
    <3>1. i \in DOMAIN pl.comp /\ j \in DOMAIN pl.comp /\ i # j
      BY <1>7, <2>1, <2>2
    <3> QED BY <1>1, <3>1 DEF OncePlanes
  <2>3. UsedPlanes(before) \cap UsedPlanes(after) = {}
    BY <1>8, <2>2
  <2> QED BY <1>8, <2>1, <2>3 DEF UsedPlanes
<1>10. UsedPlanes(placed) \subseteq Range(pl.planes) /\ UsedPlanes(placed) \cap Range(rest) = {}
  <2>1. \A n \in 1..k : n \in DOMAIN pl.planes
    BY <1>3
  <2> QED BY <1>4, <1>6, <2>1 DEF Range
<1> DEFINE T == C \cup Range(placed)
<1>11. before \in Seq(T) /\ after \in Seq(T) /\ placed \in Seq(T)
  <2> HIDE DEF before, after, placed
  <2> QED BY <1>6, <1>8
<1> HIDE DEF before, placed, after, rest, gone, T
<1>12. /\ OncePlanes(before \o placed) /\ before \o placed \in Seq(T)
       /\ UsedPlanes(before \o placed) = UsedPlanes(before) \cup UsedPlanes(placed)
  <2>1. UsedPlanes(before) \cap UsedPlanes(placed) = {}
    BY <1>1, <1>9, <1>10
  <2>2. before \o placed \in Seq(T) /\ JoinsLists(before \o placed, before, placed)
    BY <1>11, ConcatOnce
  <2> QED BY <1>6, <1>8, <2>1, <2>2 DEF JoinsLists
<1>13. /\ OncePlanes(before \o placed \o after)
       /\ UsedPlanes(before \o placed \o after)
            = UsedPlanes(before) \cup UsedPlanes(placed) \cup UsedPlanes(after)
  <2> DEFINE b == before \o placed
  <2> HIDE DEF b
  <2>1. UsedPlanes(b) \cap UsedPlanes(after) = {} /\ OncePlanes(b) /\ b \in Seq(T)
        /\ UsedPlanes(b) = UsedPlanes(before) \cup UsedPlanes(placed)
    BY <1>1, <1>9, <1>10, <1>12 DEF b
  <2>2. OncePlanes(b \o after) /\ UsedPlanes(b \o after) = UsedPlanes(b) \cup UsedPlanes(after)
    <3>1. JoinsLists(b \o after, b, after)
      BY <1>11, <2>1, ConcatOnce
    <3> QED BY <1>8, <2>1, <3>1 DEF JoinsLists
  <2> QED BY <2>1, <2>2 DEF b
<1> DEFINE c == before \o placed \o after
<1> HIDE DEF c
<1>14. UsedPlanes(c) \cap Range(rest) = {}
  BY <1>1, <1>5, <1>9, <1>10, <1>13 DEF c
<1> QED BY <1>2, <1>4, <1>13, <1>14 DEF Owned, c

LEMMA LeftOnce ==
  ASSUME NEW T, NEW pool \in Seq(T), Once(pool), NEW used
  PROVE  Once(Left(pool, used))
<1> DEFINE P == {i \in DOMAIN pool : pool[i] \notin used}
<1>1. P \in SUBSET DOMAIN pool /\ Left(pool, used) = EntriesAt(pool, P)
  BY DEF Left
<1> HIDE DEF P
<1> QED BY <1>1, EntriesOnce DEF TakesEntries

LEMMA RotatedOwned ==
  ASSUME NEW U, NEW pl, PlanIn(pl, U), Owned(pl), NEW layers
  PROVE  Owned(PlanStageProtectedRotated(layers, pl))
<1> DEFINE C == PlaneUse(U)
           M == {l \in pl.layers : layers[l].protected /\ layers[l].rotated}
           mine == Ascending(M)
           P == {i \in DOMAIN pl.planes : Planes[pl.planes[i]].type = "primary"}
           prim == EntriesAt(pl.planes, P)
           k == IF Len(mine) <= Len(prim) THEN Len(mine) ELSE Len(prim)
           placed == [n \in 1..k |-> Dedicated(mine[k + 1 - n], prim[k + 1 - n])]
           taken == {prim[n] : n \in 1..k}
           left == Left(pl.planes, taken)
           q == [comp |-> placed \o pl.comp, layers |-> pl.layers \ Range(mine), planes |-> left]
<1>1. /\ pl.comp \in Seq(C) /\ pl.planes \in Seq(U)
      /\ Once(pl.planes) /\ OncePlanes(pl.comp) /\ UsedPlanes(pl.comp) \cap Range(pl.planes) = {}
      /\ pl.layers \in SUBSET Nat /\ IsFiniteSet(pl.layers)
  BY DEF PlanIn, Owned
<1>2. PlanStageProtectedRotated(layers, pl) = BelowProtected(q, {mine[n] : n \in 1..k})
  BY DEF PlanStageProtectedRotated
<1>3. IsFiniteSet(M) /\ M \in SUBSET Int /\ M \in SUBSET Nat
  BY <1>1, FS_Subset
<1>4. mine \in Seq(M)
  BY <1>3, AscendingSeq
<1>5. P \in SUBSET DOMAIN pl.planes
  OBVIOUS
<1>6. prim \in Seq(U) /\ Once(prim) /\ Range(prim) = {pl.planes[i] : i \in P}
  <2> HIDE DEF P
  <2>1. prim \in Seq(U) /\ TakesEntries(prim, pl.planes, P)
    BY <1>1, <1>5, EntriesOnce
  <2> QED BY <1>1, <2>1 DEF TakesEntries
<1>7. left \in Seq(U) /\ Once(left) /\ Range(left) = Range(pl.planes) \ taken
  <2> HIDE DEF taken
  <2> QED BY <1>1, LeftIn, LeftOnce
<1> HIDE DEF mine, prim, left, M, C
<1>8. /\ Len(mine) \in Nat /\ Len(prim) \in Nat /\ k \in Nat /\ k <= Len(mine) /\ k <= Len(prim)
      /\ DOMAIN prim = 1..Len(prim)
  BY <1>4, <1>6
<1> HIDE DEF k
<1>9. taken \subseteq Range(pl.planes)
  <2>1. \A n \in 1..k : n \in DOMAIN prim
    BY <1>8
  <2> QED BY <1>5, <1>6, <2>1 DEF Range
<1>10. /\ OncePlanes(placed) /\ UsedPlanes(placed) = taken /\ placed \in Seq(Range(placed))
  <2>1. DOMAIN placed = 1..k /\ \A n \in 1..k : placed[n].plane = prim[k + 1 - n]
    BY DEF Dedicated
  <2>2. placed \in [1..k -> Range(placed)]
    BY DEF Range
  <2> HIDE DEF placed
  <2>3. placed \in Seq(Range(placed))
    BY <1>8, <2>2
  <2>4. \A n \in 1..k : k + 1 - n \in 1..k /\ k + 1 - n \in DOMAIN prim /\ k + 1 - (k + 1 - n) = n
    BY <1>8
  <2>5. UsedPlanes(placed) = taken
    BY <2>1, <2>4 DEF UsedPlanes
  <2>6. ASSUME NEW m \in 1..k, NEW n \in 1..k, placed[m].plane = placed[n].plane PROVE m = n
    <3>1. k + 1 - m = k + 1 - n
      <4>1. k + 1 - m \in DOMAIN prim /\ k + 1 - n \in DOMAIN prim
        BY <2>4
      <4>2. prim[k + 1 - m] = prim[k + 1 - n]
        BY <2>1, <2>6
      <4> QED BY <1>6, <4>1, <4>2 DEF Once
    <3> QED BY <1>8, <3>1
  <2> QED BY <2>1, <2>3, <2>5, <2>6 DEF OncePlanes
<1> DEFINE T == C \cup Range(placed)
<1>11. placed \in Seq(T) /\ pl.comp \in Seq(T)
  <2> HIDE DEF placed
  <2> QED BY <1>1, <1>10
<1> HIDE DEF placed, T, taken
<1> DEFINE c == placed \o pl.comp
<1>12. OncePlanes(c) /\ UsedPlanes(c) = taken \cup UsedPlanes(pl.comp)
  <2>1. UsedPlanes(placed) \cap UsedPlanes(pl.comp) = {}
    BY <1>1, <1>9, <1>10
  <2>2. JoinsLists(c, placed, pl.comp)
    BY <1>11, ConcatOnce
  <2> QED BY <1>1, <1>10, <2>1, <2>2 DEF JoinsLists
<1>13. Owned(q)
  <2> HIDE DEF c
  <2>1. UsedPlanes(c) \cap Range(left) = {}
    BY <1>1, <1>7, <1>12
  <2> QED BY <1>7, <1>12, <2>1 DEF Owned, c
<1>14. PlanIn(q, U)
  <2>1. ASSUME NEW n \in 1..k PROVE placed[n] \in C
    <3>1. k + 1 - n \in 1..Len(mine) /\ k + 1 - n \in 1..Len(prim)
      BY <1>8
    <3>2. mine[k + 1 - n] \in Nat /\ prim[k + 1 - n] \in U
      <4>1. mine[k + 1 - n] \in M
        BY <1>4, <3>1
      <4>2. prim[k + 1 - n] \in U
        BY <1>6, <3>1
      <4> QED BY <1>3, <4>1, <4>2
    <3> QED BY <3>2 DEF placed, PlaneUse, Dedicated, C
  <2>2. placed \in Seq(C)
    <3>1. placed \in [1..k -> C]
      BY <2>1 DEF placed
    <3> QED BY <1>8, <3>1
  <2>3. c \in Seq(C)
    BY <1>1, <2>2, ConcatIn
  <2>4. pl.layers \ Range(mine) \in SUBSET Nat /\ IsFiniteSet(pl.layers \ Range(mine))
    BY <1>1, FS_Difference
  <2> HIDE DEF c
  <2> QED BY <1>7, <2>3, <2>4 DEF PlanIn, C, c
<1> HIDE DEF q, c
<1> QED BY <1>2, <1>13, <1>14, ToPrecompOwned DEF BelowProtected

\* A plan whose layers are fewer uses the same planes.
LEMMA FewerLayers ==
  ASSUME NEW U, NEW pl, PlanIn(pl, U), NEW gone
  PROVE  /\ PlanIn([pl EXCEPT !.layers = pl.layers \ gone], U)
         /\ Owned(pl) => Owned([pl EXCEPT !.layers = pl.layers \ gone])
<1> DEFINE q == [pl EXCEPT !.layers = pl.layers \ gone]
<1>1. IsFiniteSet(pl.layers \ gone) /\ pl.layers \ gone \in SUBSET Nat
  BY FS_Difference DEF PlanIn
<1>2. q = [comp |-> pl.comp, layers |-> pl.layers \ gone, planes |-> pl.planes]
  <2>1. pl = [comp |-> pl.comp, layers |-> pl.layers, planes |-> pl.planes]
    BY DEF PlanIn
  <2> HIDE DEF q
  <2>2. q = [pl EXCEPT !.layers = pl.layers \ gone]
    BY DEF q
  <2> QED BY <2>1, <2>2
<1> HIDE DEF q
<1>3. PlanIn(q, U)
  BY <1>1, <1>2 DEF PlanIn
<1>4. Owned(pl) => Owned(q)
  BY <1>2 DEF Owned
<1> QED BY <1>3, <1>4 DEF q

LEMMA NvLimitsOwned ==
  ASSUME NEW U, NEW pl, PlanIn(pl, U), Owned(pl), NEW layers
  PROVE  Owned(PlanStageNvLimits(layers, pl))
<1> DEFINE bad == {l \in pl.layers : ~CheckLayer(l, layers[l])}
           drop == {l \in bad : layers[l].protected}
           q == [pl EXCEPT !.layers = pl.layers \ drop]
<1>1. PlanStageNvLimits(layers, pl) = ToPrecomp(q, bad \ drop)
  BY DEF PlanStageNvLimits
<1>2. PlanIn(q, U) /\ Owned(q)
  <2> HIDE DEF drop
  <2> QED BY FewerLayers
<1> HIDE DEF q
<1> QED BY <1>1, <1>2, ToPrecompOwned

LEMMA ProtectedOwned ==
  ASSUME NEW U, NEW pl, PlanIn(pl, U), Owned(pl), NEW layers
  PROVE  Owned(PlanStageProtected(layers, pl))
<1> DEFINE mine == {l \in pl.layers : layers[l].protected}
           q == Emplace(pl, mine, TRUE)
<1>1. PlanIn(q, U) /\ Owned(q)
  BY EmplaceIn, EmplaceOwned
<1> HIDE DEF q
<1> QED BY <1>1, ToPrecompOwned DEF PlanStageProtected, BelowProtected, q

LEMMA PrecompOwned ==
  ASSUME NEW U, NEW pl, PlanIn(pl, U), Owned(pl)
  PROVE  Owned(PlanStagePrecomp(pl))
BY ToPrecompOwned DEF PlanStagePrecomp

LEMMA GreedyOwned ==
  ASSUME NEW U, NEW pl, PlanIn(pl, U), Owned(pl)
  PROVE  Owned(PlanStageGreedy(pl))
<1> DEFINE done == Emplace(pl, pl.layers, FALSE)
<1>1. PlanIn(done, U) /\ Owned(done)
  BY EmplaceIn, EmplaceOwned
<1>2. PlanStageGreedy(pl) = IF PrecompAt(done.comp) = {} THEN done ELSE ToPrecomp(done, done.layers)
  BY DEF PlanStageGreedy
<1> HIDE DEF done
<1> QED BY <1>1, <1>2, ToPrecompOwned

\* The planes the stages have: all but the one the squash framebuffer takes.
WithoutSquash(squashed, usable) == IF squashed THEN Front(usable) ELSE usable

LEMMA ReserveOwned ==
  ASSUME NEW U, NEW usable \in Seq(U), usable # <<>>, Once(usable), NEW squashed \in BOOLEAN,
         NEW composite \in SUBSET Nat, IsFiniteSet(composite)
  PROVE  /\ Owned(ReservePlanes(composite, squashed, usable))
         /\ PlanIn(ReservePlanes(composite, squashed, usable),
                   Range(WithoutSquash(squashed, usable)))
<1> DEFINE below == WithoutSquash(squashed, usable)
           short == Cardinality(composite) > Len(below) /\ below # <<>>
           e == [type |-> "precomp", plane |-> Last(below), source |-> {}]
           comp == IF short THEN <<e>> ELSE <<>>
           planes == IF short THEN Front(below) ELSE below
           V == Range(below)
<1>1. ReservePlanes(composite, squashed, usable) = [comp |-> comp, layers |-> composite,
                                                    planes |-> planes]
  BY DEF ReservePlanes, WithoutSquash
<1>2. below \in Seq(U) /\ Once(below)
  <2>1. Front(usable) \in Seq(U) /\ Once(Front(usable))
    BY FrontOnce
  <2> QED BY <2>1 DEF WithoutSquash
<1> HIDE DEF below
<1>3. below \in Seq(V)
  <2>1. below \in [1..Len(below) -> V] /\ Len(below) \in Nat
    BY <1>2 DEF Range
  <2> HIDE DEF V
  <2> QED BY <2>1
<1>4. below # <<>> => /\ Once(Front(below)) /\ Front(below) \in Seq(V) /\ Last(below) \in V
                      /\ Last(below) \notin Range(Front(below))
  BY <1>2, <1>3, FrontOnce
<1>5. planes \in Seq(V) /\ Once(planes) /\ (short => Last(below) \notin Range(planes))
  BY <1>2, <1>3, <1>4
<1>6. comp \in Seq(PlaneUse(V))
  <2>1. short => e \in PlaneUse(V)
    BY <1>4 DEF PlaneUse
  <2> HIDE DEF e, V, short
  <2> QED BY <2>1
<1>7. OncePlanes(comp) /\ UsedPlanes(comp) \subseteq (IF short THEN {Last(below)} ELSE {})
  BY DEF OncePlanes, UsedPlanes
<1> HIDE DEF comp, planes, V
<1>8. UsedPlanes(comp) \cap Range(planes) = {}
  BY <1>5, <1>7
<1> QED BY <1>1, <1>5, <1>6, <1>7, <1>8 DEF Owned, PlanIn, V, below

\* A pool holds no plane twice, and the pools share none.
PoolsOnce(primary, overlay) ==
  Once(primary) /\ Once(overlay) /\ Range(primary) \cap Range(overlay) = {}

LEMMA UsableOnce ==
  ASSUME NEW d, NEW primary \in Seq(DOMAIN Planes), NEW overlay \in Seq(DOMAIN Planes),
         PoolsOnce(primary, overlay)
  PROVE  /\ Once(GetUsablePlanes(d, primary, overlay))
         /\ Range(GetUsablePlanes(d, primary, overlay))
              = (Range(primary) \cup Range(overlay)) \cap Supported(d)
<1> DEFINE Good(pool) == {i \in DOMAIN pool : GetCrtcSupported(pool[i], d)}
           u(pool) == EntriesAt(pool, Good(pool))
<1>1. GetUsablePlanes(d, primary, overlay) = u(primary) \o u(overlay)
  BY DEF GetUsablePlanes
<1>2. ASSUME NEW pool \in Seq(DOMAIN Planes), Once(pool)
      PROVE  /\ u(pool) \in Seq(DOMAIN Planes) /\ Once(u(pool))
             /\ Range(u(pool)) = Range(pool) \cap Supported(d)
  <2>1. Good(pool) \in SUBSET DOMAIN pool
    OBVIOUS
  <2>2. {pool[i] : i \in Good(pool)} = Range(pool) \cap Supported(d)
    <3>1. \A i \in DOMAIN pool : pool[i] \in DOMAIN Planes
      BY <1>2
    <3> QED BY <3>1 DEF Range, Supported, GetCrtcSupported
  <2> HIDE DEF Good
  <2>3. u(pool) \in Seq(DOMAIN Planes) /\ TakesEntries(u(pool), pool, Good(pool))
    BY <2>1, EntriesOnce
  <2> HIDE DEF u
  <2> QED BY <1>2, <2>2, <2>3 DEF TakesEntries
<1> DEFINE p == u(primary)
           o == u(overlay)
<1>3. /\ p \in Seq(DOMAIN Planes) /\ o \in Seq(DOMAIN Planes) /\ Once(p) /\ Once(o)
      /\ Range(p) = Range(primary) \cap Supported(d) /\ Range(o) = Range(overlay) \cap Supported(d)
  BY <1>2 DEF PoolsOnce
<1> HIDE DEF p, o
<1>4. JoinsLists(p \o o, p, o)
  BY <1>3, ConcatOnce
<1>5. Range(p) \cap Range(o) = {}
  BY <1>3 DEF PoolsOnce
<1> QED BY <1>1, <1>3, <1>4, <1>5 DEF JoinsLists, p, o

LEMMA LeftPools ==
  ASSUME NEW primary \in Seq(DOMAIN Planes), NEW overlay \in Seq(DOMAIN Planes),
         PoolsOnce(primary, overlay), NEW used
  PROVE  /\ PoolsOnce(Left(primary, used), Left(overlay, used))
         /\ Range(Left(primary, used)) = Range(primary) \ used
         /\ Range(Left(overlay, used)) = Range(overlay) \ used
<1>1. /\ Range(Left(primary, used)) = Range(primary) \ used
      /\ Range(Left(overlay, used)) = Range(overlay) \ used
  BY LeftIn
<1>2. Once(Left(primary, used)) /\ Once(Left(overlay, used))
  BY LeftOnce DEF PoolsOnce
<1> QED BY <1>1, <1>2 DEF PoolsOnce

LEMMA PoolsBegin == PoolsOnce(PlanesOf("primary"), PlanesOf("overlay"))
<1>1. ASSUME NEW type PROVE Once(PlanesOf(type))
  <2> DEFINE P == DOMAIN Planes
             all == [i \in P |-> i]
             other == {i \in P : Planes[i].type # type}
  <2>1. all \in Seq(P)
    <3> DEFINE R == Range(Planes)
    <3>1. Planes \in Seq(R)
      BY PlanAssumption
    <3> HIDE DEF R
    <3>2. P = 1..Len(Planes) /\ Len(Planes) \in Nat
      BY <3>1
    <3> HIDE DEF P
    <3>3. all \in [1..Len(Planes) -> P]
      BY <3>2
    <3> QED BY <3>2, <3>3
  <2>2. Once(all)
    BY DEF Once
  <2>3. PlanesOf(type) = Left(all, other)
    BY DEF PlanesOf
  <2> HIDE DEF all, other
  <2> QED BY <2>1, <2>2, <2>3, LeftOnce
<1>2. \A type : Range(PlanesOf(type)) = {p \in DOMAIN Planes : Planes[p].type = type}
  BY PoolsIn
<1>3. Range(PlanesOf("primary")) \cap Range(PlanesOf("overlay")) = {}
  <2>1. /\ Range(PlanesOf("primary")) = {p \in DOMAIN Planes : Planes[p].type = "primary"}
        /\ Range(PlanesOf("overlay")) = {p \in DOMAIN Planes : Planes[p].type = "overlay"}
    BY <1>2
  <2> QED BY <2>1
<1> QED BY <1>1, <1>3 DEF PoolsOnce
-----------------------------------------------------------------------------
(* What the steps of a job leave behind *)

Usable == GetUsablePlanes(Cur, job.primary, job.overlay)

\* The plans of the displays other than the current one, and the job itself,
\* are as they were.
OthersKept ==
  /\ job' # NoJob /\ job'.on = job.on /\ job'.layers = job.layers
  /\ \A d \in job.on \ {Cur} : job'.plan[d] = job.plan[d]

\* The display is done: the next one, or the disabling of planes.
ToNext == /\ job'.at = IF job.n < Len(Displays) THEN "history" ELSE "disable"
          /\ job'.n = IF job.n < Len(Displays) THEN job.n + 1 ELSE 1

PlanKept(d) == /\ job'.plan[d].layers = job.plan[d].layers
               /\ job'.plan[d].stable = job.plan[d].stable
               /\ job'.plan[d].current = job.plan[d].current

\* The composition of the current display with its squash plane.
WholeComp ==
  IF job.plan[Cur].stable = {} THEN job.pl.comp
  ELSE Append(job.pl.comp, [type |-> "squash", source |-> {}, plane |-> Last(Usable)])

Finalized ==
  /\ OthersKept /\ ToNext /\ PlanKept(Cur)
  /\ job'.plan[Cur].comp = WholeComp
  /\ job'.plan[Cur].regions =
       SeparateLayers(CurLayers, WholeComp, Listed(job.plan[Cur].stable))
  /\ job'.primary = TakePlanes(job.primary, WholeComp)
  /\ job'.overlay = TakePlanes(job.overlay, WholeComp)

LEMMA FinalizeStep ==
  ASSUME SquashInv, FinalizeComposition
  PROVE  Finalized /\ Cur \in job.on /\ job.at = "finalize"
<1> DEFINE stable == job.plan[Cur].stable
           comp == WholeComp
           regions == SeparateLayers(CurLayers, comp, Listed(stable))
           fence == CreateAndAssignReleaseFences(CurLayers, comp, regions, job.rendered[Cur])
           primary == TakePlanes(job.primary, comp)
           overlay == TakePlanes(job.overlay, comp)
           j == [job EXCEPT !.plan[Cur].comp = comp, !.plan[Cur].regions = regions,
                            !.plan[Cur].fence = fence, !.primary = primary, !.overlay = overlay]
<1>1. /\ job.at = "finalize" /\ job' = PlanNextDisplay(j)
      /\ UNCHANGED <<stack, squash, squash_fb, planned>>
  BY Zenon DEF FinalizeComposition, WholeComp, Usable
<1>2. job # NoJob /\ JobShape /\ JobInv /\ job.at \in Planning /\ job.at \in Stages
  BY <1>1, JobAt DEF SquashInv, Stages, Planning
<1>3. /\ JobFields(job) /\ DOMAIN job.plan = job.on /\ \A d \in job.on : PlanShape(job.plan[d])
      /\ Cur \in job.on /\ job.n \in Nat /\ Len(Displays) \in Nat
  BY <1>2, DisplaysLen DEF JobShape, JobInv
<1> HIDE DEF comp, regions, fence, primary, overlay
<1>4. /\ JobFields(j) /\ j.n = job.n /\ j.on = job.on /\ j.layers = job.layers
      /\ j.primary = primary /\ j.overlay = overlay
  <2> HIDE DEF j
  <2>1. j = [job EXCEPT !.plan[Cur].comp = comp, !.plan[Cur].regions = regions,
                        !.plan[Cur].fence = fence, !.primary = primary, !.overlay = overlay]
    BY DEF j
  <2> QED BY <1>3, <2>1 DEF JobFields
<1> DEFINE q == [job.plan[Cur] EXCEPT !.comp = comp, !.regions = regions, !.fence = fence]
<1>5. j.plan[Cur] = q /\ \A d \in job.on \ {Cur} : j.plan[d] = job.plan[d]
  BY <1>3 DEF JobFields
<1>6. /\ q.comp = comp /\ q.regions = regions /\ q.current = job.plan[Cur].current
      /\ q.layers = job.plan[Cur].layers /\ q.stable = job.plan[Cur].stable
  <2>1. PlanShape(job.plan[Cur])
    BY <1>3
  <2> HIDE DEF q
  <2>2. q = [job.plan[Cur] EXCEPT !.comp = comp, !.regions = regions, !.fence = fence]
    BY DEF q
  <2> QED BY <2>1, <2>2 DEF PlanShape
<1> HIDE DEF j, q
<1>7. /\ ToNext /\ job'.on = j.on /\ job'.layers = j.layers /\ job'.plan = j.plan
      /\ job'.primary = j.primary /\ job'.overlay = j.overlay
  <2> DEFINE Rest == /\ job'.on = j.on /\ job'.layers = j.layers /\ job'.plan = j.plan
                     /\ job'.primary = j.primary /\ job'.overlay = j.overlay
  <2>1. CASE job.n < Len(Displays)
    <3>1. job' = [j EXCEPT !.at = "history", !.n = j.n + 1, !.pl = <<>>]
      BY <1>1, <1>4, <2>1 DEF PlanNextDisplay
    <3>2. Rest /\ job'.at = "history" /\ job'.n = j.n + 1
      BY <1>4, <3>1 DEF JobFields
    <3> QED BY <1>4, <2>1, <3>2 DEF ToNext
  <2>2. CASE ~(job.n < Len(Displays))
    <3>1. job' = [j EXCEPT !.at = "disable", !.n = 1, !.pl = <<>>]
      BY <1>1, <1>4, <2>2 DEF PlanNextDisplay
    <3>2. Rest /\ job'.at = "disable" /\ job'.n = 1
      BY <1>4, <3>1 DEF JobFields
    <3> QED BY <1>4, <2>2, <3>2 DEF ToNext
  <2> QED BY <2>1, <2>2
<1>8. job' # NoJob
  BY <1>7 DEF ToNext, NoJob
<1>9. OthersKept
  BY <1>4, <1>5, <1>7, <1>8 DEF OthersKept
<1>10. PlanKept(Cur) /\ job'.plan[Cur].comp = comp /\ job'.plan[Cur].regions = regions
  BY <1>5, <1>6, <1>7 DEF PlanKept
<1>11. job'.primary = primary /\ job'.overlay = overlay
  BY <1>4, <1>7
<1>12. Finalized
  BY <1>7, <1>9, <1>10, <1>11 DEF Finalized, comp, regions, stable, primary, overlay
<1> QED BY <1>1, <1>3, <1>12

\* The planes a display disables.
Off == IF Cur \in job.on THEN Unused(Cur, job.primary, job.overlay) ELSE <<>>
Disabled(off) == [i \in DOMAIN off |-> [type |-> "disable", plane |-> off[i], source |-> {}]]

SwitchedOff ==
  /\ OthersKept /\ job'.at \in {"disable", "queue"}
  /\ job'.primary = Left(job.primary, Range(Off)) /\ job'.overlay = Left(job.overlay, Range(Off))
  /\ Cur \in job.on => /\ PlanKept(Cur) /\ job'.plan[Cur].regions = job.plan[Cur].regions
                       /\ job'.plan[Cur].comp = IF Off = <<>> THEN job.plan[Cur].comp
                                                ELSE job.plan[Cur].comp \o Disabled(Off)

LEMMA DisableStep ==
  ASSUME SquashInv, DisableUnusedPlanes
  PROVE  SwitchedOff /\ job.at = "disable"
<1> DEFINE off == Off
           at == IF job.n < Len(Displays) THEN "disable" ELSE "queue"
           n == IF job.n < Len(Displays) THEN job.n + 1 ELSE job.n
           primary == Left(job.primary, Range(off))
           overlay == Left(job.overlay, Range(off))
           rest == [job EXCEPT !.primary = primary, !.overlay = overlay, !.at = at, !.n = n]
           more == Disabled(off)
<1>1. /\ job.at = "disable"
      /\ job' = IF off = <<>> THEN rest ELSE [rest EXCEPT !.plan[Cur].comp = @ \o more]
  BY Zenon DEF DisableUnusedPlanes, Off, Disabled
<1>2. job # NoJob /\ JobShape /\ JobInv
  BY <1>1, JobAt DEF SquashInv
<1>3. JobFields(job) /\ DOMAIN job.plan = job.on /\ \A d \in job.on : PlanShape(job.plan[d])
  BY <1>2 DEF JobShape
<1>4. off # <<>> => Cur \in job.on
  BY DEF Off
<1>5. at \in {"disable", "queue"}
  OBVIOUS
<1> HIDE DEF off, at, n, primary, overlay, more
<1>6. /\ JobFields(rest) /\ rest.at = at /\ rest.on = job.on /\ rest.layers = job.layers
      /\ rest.plan = job.plan /\ rest.primary = primary /\ rest.overlay = overlay
  <2> HIDE DEF rest
  <2>1. rest = [job EXCEPT !.primary = primary, !.overlay = overlay, !.at = at, !.n = n]
    BY DEF rest
  <2> QED BY <1>3, <2>1 DEF JobFields
<1> HIDE DEF rest
<1> DEFINE comp == IF off = <<>> THEN job.plan[Cur].comp ELSE job.plan[Cur].comp \o more
           Same == /\ job'.at = at /\ job'.on = job.on /\ job'.layers = job.layers
                   /\ job'.primary = primary /\ job'.overlay = overlay
<1>7. /\ Same /\ \A d \in job.on \ {Cur} : job'.plan[d] = job.plan[d]
      /\ Cur \in job.on => /\ PlanKept(Cur) /\ job'.plan[Cur].regions = job.plan[Cur].regions
                           /\ job'.plan[Cur].comp = comp
  <2>1. CASE off = <<>>
    <3>1. job' = rest
      BY <1>1, <2>1
    <3> QED BY <1>6, <2>1, <3>1 DEF PlanKept
  <2>2. CASE off # <<>>
    <3> DEFINE q == [job.plan[Cur] EXCEPT !.comp = comp]
    <3>1. Cur \in job.on /\ PlanShape(job.plan[Cur])
      BY <1>3, <1>4, <2>2
    <3>2. job' = [rest EXCEPT !.plan[Cur].comp = comp]
      BY <1>1, <1>6, <2>2
    <3> HIDE DEF comp
    <3>3. /\ job'.plan[Cur] = q /\ \A d \in job.on \ {Cur} : job'.plan[d] = job.plan[d]
          /\ job'.at = rest.at /\ job'.on = rest.on /\ job'.layers = rest.layers
          /\ job'.primary = rest.primary /\ job'.overlay = rest.overlay
      BY <1>3, <1>6, <3>1, <3>2 DEF JobFields
    <3>4. /\ q.comp = comp /\ q.regions = job.plan[Cur].regions
          /\ q.current = job.plan[Cur].current /\ q.layers = job.plan[Cur].layers
          /\ q.stable = job.plan[Cur].stable
      <4> HIDE DEF q
      <4>1. q = [job.plan[Cur] EXCEPT !.comp = comp]
        BY DEF q
      <4> QED BY <3>1, <4>1 DEF PlanShape
    <3> HIDE DEF q
    <3> QED BY <1>6, <3>3, <3>4 DEF PlanKept
  <2> QED BY <2>1, <2>2
<1>8. job' # NoJob
  BY <1>5, <1>7 DEF NoJob
<1>9. OthersKept
  BY <1>7, <1>8 DEF OthersKept
<1> QED BY <1>1, <1>5, <1>7, <1>9 DEF SwitchedOff, off, more, primary, overlay

\* The plan begins: nothing is composed yet.
PlanBegun(stable) ==
  /\ OthersKept /\ job'.at = "NvLimits" /\ job'.n = job.n
  /\ job'.primary = job.primary /\ job'.overlay = job.overlay
  /\ job'.plan[Cur].layers = CurLayers /\ job'.plan[Cur].stable = stable
  /\ job'.plan[Cur].comp = job.plan[Cur].comp
  /\ job'.pl = ReservePlanes(ToComposite(CurLayers, stable), stable # {}, Usable)

\* The regions of the current display that are squashed in this frame.
NowStable ==
  IF Cur \in job.changed THEN {}
  ELSE StableRegions(squash[Cur], GenerateHistory(squash[Cur], CurLayers))

LEMMA RecordStep ==
  ASSUME SquashInv, PlanesFit, RecordSquash
  PROVE  /\ \E stable : PlanBegun(stable) /\ stable = NowStable
         /\ Cur \in job.on /\ job.at = "history" /\ Usable # <<>> /\ Usable \in Seq(Supported(Cur))
<1> DEFINE d == Cur
           s == squash[d]
           layers == CurLayers
           new == d \in job.changed
           changed == GenerateHistory(s, layers)
           stable == IF new THEN {} ELSE StableRegions(s, changed)
           drawn == IF ~new /\ RecordAndCompareSquashed(s, stable) THEN stable ELSE {}
           pl == ReservePlanes(ToComposite(layers, stable), stable # {}, Usable)
<1>1. /\ job.at = "history" /\ d \in job.on
      /\ IF Usable = <<>> THEN job' = NoJob
         ELSE job' = [job EXCEPT
            !.at = "NvLimits",
            !.plan[d].layers = layers, !.plan[d].stable = stable, !.plan[d].current = TRUE,
            !.rendered[d] = drawn, !.pl = pl]
  <2>1. job.at = "history" /\ d \in job.on
    BY DEF RecordSquash
  <2> DEFINE A(c, u, st, us) ==
        /\ squash' = [squash EXCEPT ![d] =
             IF new THEN SquashInit(layers)
             ELSE [RecordHistory(u, layers, c) EXCEPT !.squashed = st]]
        /\ IF us = <<>> THEN job' = NoJob
           ELSE job' = [job EXCEPT
              !.at = "NvLimits",
              !.plan[d].layers = layers, !.plan[d].stable = st, !.plan[d].current = TRUE,
              !.rendered[d] = IF ~new /\ RecordAndCompareSquashed(u, st) THEN st ELSE {},
              !.pl = ReservePlanes(ToComposite(layers, st), st # {}, us)]
  <2>2. \E c \in {changed}, u \in {s} : \E st \in {IF new THEN {} ELSE StableRegions(u, c)} :
        \E us \in {Usable} : A(c, u, st, us)
    BY Zenon DEF RecordSquash, Usable
  <2>3. A(changed, s, stable, Usable)
    <3> HIDE DEF A, changed, s
    <3> QED BY <2>2
  <2> QED BY <2>1, <2>3, Zenon
<1>2. job # NoJob /\ JobShape /\ JobInv /\ job.at \in Planning
  BY <1>1, JobAt DEF SquashInv, Planning
<1>3. Usable \in Seq(Supported(d)) /\ Usable # <<>>
  <2>1. /\ Usable \in Seq(Supported(d))
        /\ Supported(d) \cap Range(job.primary) # {} => Usable # <<>>
    BY <1>2, UsableIn DEF JobShape, Usable
  <2>2. OwnPrimary(d) \subseteq Range(job.primary) /\ OwnPrimary(d) # {}
    BY <1>2, DisplaysLen DEF JobInv, PlanesFit, JobShape, Cur
  <2>3. OwnPrimary(d) \subseteq Supported(d)
    BY DEF OwnPrimary, Supported
  <2> QED BY <2>1, <2>2, <2>3
<1>4. stable = NowStable
  BY DEF NowStable
<1>5. /\ JobFields(job) /\ DOMAIN job.plan = job.on /\ DOMAIN job.rendered = job.on
      /\ \A e \in job.on : PlanShape(job.plan[e])
  BY <1>2 DEF JobShape
<1> HIDE DEF s, stable, drawn, pl, layers, new
<1>6. job' = [job EXCEPT !.at = "NvLimits",
            !.plan[d].layers = layers, !.plan[d].stable = stable, !.plan[d].current = TRUE,
            !.rendered[d] = drawn, !.pl = pl]
  BY <1>1, <1>3
<1>7. /\ job'.at = "NvLimits" /\ job'.pl = pl /\ job'.n = job.n
      /\ job'.on = job.on /\ job'.layers = job.layers
      /\ job'.primary = job.primary /\ job'.overlay = job.overlay
  BY <1>5, <1>6 DEF JobFields
<1> DEFINE q == [job.plan[d] EXCEPT !.layers = layers, !.stable = stable, !.current = TRUE]
<1>8. job'.plan[d] = q /\ \A e \in job.on \ {d} : job'.plan[e] = job.plan[e]
  BY <1>1, <1>5, <1>6 DEF JobFields
<1>9. q.layers = layers /\ q.stable = stable /\ q.comp = job.plan[d].comp
  <2>1. PlanShape(job.plan[d])
    BY <1>1, <1>5
  <2> HIDE DEF q
  <2>2. q = [job.plan[d] EXCEPT !.layers = layers, !.stable = stable, !.current = TRUE]
    BY DEF q
  <2> QED BY <2>1, <2>2 DEF PlanShape
<1> HIDE DEF q
<1>10. job' # NoJob
  BY <1>7 DEF NoJob
<1>11. OthersKept
  BY <1>7, <1>8, <1>10 DEF OthersKept
<1>12. PlanBegun(stable)
  BY <1>7, <1>8, <1>9, <1>11 DEF PlanBegun, layers, pl
<1> QED BY <1>1, <1>3, <1>4, <1>12

PlansApart(plan, on) ==
  \A d, e \in on : \A i \in DOMAIN plan[d].comp, k \in DOMAIN plan[e].comp :
    plan[d].comp[i].plane = plan[e].comp[k].plane => d = e /\ i = k

Free == Range(job.primary) \cup Range(job.overlay)

\* The planes a display of the job has, in the pools or in its plan.
OwnJob ==
  job # NoJob =>
    /\ PoolsOnce(job.primary, job.overlay) /\ PlansApart(job.plan, job.on)
    /\ \A d \in job.on : /\ job.plan[d].comp \in Seq(PlaneUse(DOMAIN Planes))
                         /\ UsedPlanes(job.plan[d].comp) \cap Free = {}
    /\ job.at \in Planning => \A m \in DOMAIN Displays :
         m >= job.n /\ Displays[m] \in job.on => job.plan[Displays[m]].comp = <<>>
    /\ job.at \in Stages =>
         Owned(job.pl) /\ PlanIn(job.pl, Range(WithoutSquash(job.plan[Cur].stable # {}, Usable)))

OwnInv == SquashInv /\ OwnJob /\ PlanesOwned

LEMMA OwnInit == PlanInit => OwnInv
<1> SUFFICES ASSUME PlanInit PROVE OwnInv
  OBVIOUS
<1>1. SquashInv
  BY SquashInit0
<1>2. OwnJob
  BY DEF PlanInit, OwnJob
<1>3. PlanesOwned
  BY DEF PlanInit, PlanesOwned, NoPlan
<1> QED BY <1>1, <1>2, <1>3 DEF OwnInv

\* While a composition is planned, none is shown.
LEMMA NoneShown ==
  ASSUME SquashInv, job # NoJob, planned' = planned
  PROVE  PlanesOwned'
<1>1. \A d \in D : ~planned[d].current
  BY DEF SquashInv, SquashOf
<1> QED BY <1>1 DEF PlanesOwned

\* The compositions stay apart when the current one grows by planes that were
\* free, and these leave the pools.
LEMMA ApartKept ==
  ASSUME OwnJob, JobShape, job # NoJob, OthersKept, NEW used,
         Cur \in job.on =>
           /\ OncePlanes(job'.plan[Cur].comp)
           /\ job'.plan[Cur].comp \in Seq(PlaneUse(DOMAIN Planes))
           /\ UsedPlanes(job'.plan[Cur].comp)
                \subseteq UsedPlanes(job.plan[Cur].comp) \cup (used \cap Free),
         job'.primary = Left(job.primary, used), job'.overlay = Left(job.overlay, used)
  PROVE  /\ PoolsOnce(job'.primary, job'.overlay) /\ PlansApart(job'.plan, job'.on)
         /\ \A d \in job'.on : /\ job'.plan[d].comp \in Seq(PlaneUse(DOMAIN Planes))
                               /\ UsedPlanes(job'.plan[d].comp) \cap Free' = {}
<1>1. /\ PoolsOnce(job.primary, job.overlay) /\ PlansApart(job.plan, job.on)
      /\ \A d \in job.on : /\ job.plan[d].comp \in Seq(PlaneUse(DOMAIN Planes))
                           /\ UsedPlanes(job.plan[d].comp) \cap Free = {}
  BY DEF OwnJob
<1>2. job.primary \in Seq(DOMAIN Planes) /\ job.overlay \in Seq(DOMAIN Planes)
  BY DEF JobShape
<1>3. /\ PoolsOnce(job'.primary, job'.overlay)
      /\ Range(job'.primary) = Range(job.primary) \ used
      /\ Range(job'.overlay) = Range(job.overlay) \ used
  BY <1>1, <1>2, LeftPools
<1>4. Free' = Free \ used
  BY <1>3 DEF Free
<1>5. job'.on = job.on /\ \A d \in job.on \ {Cur} : job'.plan[d] = job.plan[d]
  BY DEF OthersKept
<1>6. ASSUME NEW d \in job.on, NEW e \in job.on, d # e
      PROVE  UsedPlanes(job'.plan[d].comp) \cap UsedPlanes(job'.plan[e].comp) = {}
  <2>1. UsedPlanes(job.plan[d].comp) \cap UsedPlanes(job.plan[e].comp) = {}
    BY <1>1, <1>6 DEF PlansApart, UsedPlanes
  <2>2. d # Cur => UsedPlanes(job'.plan[d].comp) = UsedPlanes(job.plan[d].comp)
    BY <1>5
  <2>3. e # Cur => UsedPlanes(job'.plan[e].comp) = UsedPlanes(job.plan[e].comp)
    BY <1>5
  <2> QED BY <1>1, <1>6, <2>1, <2>2, <2>3
<1>7. ASSUME NEW d \in job.on PROVE OncePlanes(job'.plan[d].comp)
  <2>1. OncePlanes(job.plan[d].comp)
    BY <1>1 DEF PlansApart, OncePlanes
  <2> QED BY <1>5, <2>1
<1>8. PlansApart(job'.plan, job'.on)
  <2> SUFFICES ASSUME NEW d \in job.on, NEW e \in job.on, NEW i \in DOMAIN job'.plan[d].comp,
                      NEW k \in DOMAIN job'.plan[e].comp,
                      job'.plan[d].comp[i].plane = job'.plan[e].comp[k].plane
               PROVE  d = e /\ i = k
    BY <1>5 DEF PlansApart
  <2>1. d = e
    BY <1>6 DEF UsedPlanes
  <2> QED BY <1>7, <2>1 DEF OncePlanes
<1>9. ASSUME NEW d \in job.on
      PROVE  /\ job'.plan[d].comp \in Seq(PlaneUse(DOMAIN Planes))
             /\ UsedPlanes(job'.plan[d].comp) \cap Free' = {}
  <2>1. CASE d = Cur
    BY <1>1, <1>4, <2>1
  <2>2. CASE d # Cur
    BY <1>1, <1>4, <1>5, <2>2
  <2> QED BY <2>1, <2>2
<1> QED BY <1>3, <1>5, <1>8, <1>9

LEMMA OwnSkip ==
  ASSUME OwnInv, SkipDisplay
  PROVE  OwnInv'
<1>1. SquashInv'
  BY SkipKeeps DEF OwnInv
<1>2. /\ job.at = "history" /\ Cur \notin job.on /\ job' = PlanNextDisplay(job)
      /\ planned' = planned
  BY DEF SkipDisplay
<1>3. job # NoJob /\ JobShape /\ job.at \in Planning /\ OwnJob
  BY <1>2, JobAt DEF Planning, OwnInv
<1>4. /\ job'.at \in {"history", "disable"} /\ (job'.at = "history" => job'.n = job.n + 1)
      /\ job'.on = job.on /\ job'.plan = job.plan
      /\ job'.primary = job.primary /\ job'.overlay = job.overlay
  <2>1. JobFields(job)
    BY <1>3 DEF JobShape
  <2>2. CASE job.n < Len(Displays)
    <3>1. job' = [job EXCEPT !.at = "history", !.n = job.n + 1, !.pl = <<>>]
      BY <1>2, <2>2 DEF PlanNextDisplay
    <3> QED BY <2>1, <3>1 DEF JobFields
  <2>3. CASE ~(job.n < Len(Displays))
    <3>1. job' = [job EXCEPT !.at = "disable", !.n = 1, !.pl = <<>>]
      BY <1>2, <2>3 DEF PlanNextDisplay
    <3> QED BY <2>1, <3>1 DEF JobFields
  <2> QED BY <2>2, <2>3
<1>5. OwnJob'
  <2>1. job'.at \notin Stages
    BY <1>4 DEF Stages
  <2>2. job'.at \in Planning => job'.n = job.n + 1
    BY <1>4 DEF Planning, Stages
  <2>3. job.n \in Nat /\ \A m \in DOMAIN Displays : m \in Nat
    BY <1>3, DisplaysLen DEF JobShape
  <2>4. \A m \in DOMAIN Displays : job'.at \in Planning /\ m >= job'.n => m >= job.n
    BY <2>2, <2>3
  <2>5. Free' = Free
    BY <1>4 DEF Free
  <2> QED BY <1>3, <1>4, <2>1, <2>4, <2>5 DEF OwnJob, PoolsOnce, PlansApart
<1>6. PlanesOwned'
  BY <1>2, <1>3, NoneShown DEF OwnInv
<1> QED BY <1>1, <1>5, <1>6 DEF OwnInv

LEMMA OwnStage ==
  ASSUME OwnInv, NEW name \in Stages, NEW next \in Stages, NEW pl, Stage(name, next, pl),
         Owned(pl), PlanIn(pl, Range(WithoutSquash(job.plan[Cur].stable # {}, Usable)))
  PROVE  OwnJob' /\ PlanesOwned'
<1>1. job.at = name /\ job' = [job EXCEPT !.at = next, !.pl = pl] /\ planned' = planned
  BY DEF Stage
<1>2. job.at # "idle" /\ job.at \in Planning
  BY <1>1 DEF Stages, Planning
<1>3. job # NoJob /\ JobShape /\ OwnJob
  BY <1>2, JobAt DEF OwnInv
<1>4. /\ job'.at = next /\ job'.pl = pl /\ job'.n = job.n /\ job'.on = job.on
      /\ job'.plan = job.plan /\ job'.primary = job.primary /\ job'.overlay = job.overlay
  <2>1. JobFields(job)
    BY <1>3 DEF JobShape
  <2> QED BY <1>1, <2>1 DEF JobFields
<1>5. Free' = Free /\ Usable' = Usable /\ Cur' = Cur
  BY <1>4 DEF Free, Usable, Cur
<1> DEFINE V == Range(WithoutSquash(job.plan[Cur].stable # {}, Usable))
<1>6. V' = V
  BY <1>4, <1>5
<1>7. PlanIn(job'.pl, V') /\ Owned(job'.pl)
  <2>1. PlanIn(pl, V)
    OBVIOUS
  <2> HIDE DEF V
  <2> QED BY <1>4, <1>6, <2>1
<1>8. (Owned(job.pl) /\ PlanIn(job.pl, V))'
  BY <1>7 DEF Owned, PlanIn, Once, OncePlanes, PlaneUse, UsedPlanes, Range
<1>9. OwnJob'
  BY <1>2, <1>3, <1>4, <1>5, <1>8 DEF OwnJob, PoolsOnce, PlansApart
<1>10. PlanesOwned'
  BY <1>1, <1>3, NoneShown DEF OwnInv
<1> QED BY <1>9, <1>10

LEMMA OwnProvision ==
  ASSUME OwnInv, ProvisionPlanes
  PROVE  OwnInv'
<1> DEFINE V == Range(WithoutSquash(job.plan[Cur].stable # {}, Usable))
<1>1. ASSUME job.at \in Stages PROVE Owned(job.pl) /\ PlanIn(job.pl, V)
  <2>1. job # NoJob
    BY <1>1 DEF Stages, NoJob
  <2> QED BY <1>1, <2>1 DEF OwnInv, OwnJob
<1> HIDE DEF V
<1>2. {"NvLimits", "ProtectedRotated", "Protected", "Precomp", "Greedy", "finalize"}
         \subseteq Stages
  BY DEF Stages
<1>3. CASE Stage("NvLimits", "ProtectedRotated", PlanStageNvLimits(CurLayers, job.pl))
  <2>1. /\ Owned(PlanStageNvLimits(CurLayers, job.pl))
        /\ PlanIn(PlanStageNvLimits(CurLayers, job.pl), V)
    BY <1>1, <1>2, <1>3, NvLimitsIn, NvLimitsOwned DEF Stage
  <2> QED BY <1>2, <1>3, <2>1, OwnStage, ProvisionKeeps DEF V, OwnInv
<1>4. CASE Stage("ProtectedRotated", "Protected", PlanStageProtectedRotated(CurLayers, job.pl))
  <2>1. /\ Owned(PlanStageProtectedRotated(CurLayers, job.pl))
        /\ PlanIn(PlanStageProtectedRotated(CurLayers, job.pl), V)
    BY <1>1, <1>2, <1>4, ProtectedRotatedIn, RotatedOwned DEF Stage
  <2> QED BY <1>2, <1>4, <2>1, OwnStage, ProvisionKeeps DEF V, OwnInv
<1>5. CASE Stage("Protected", "Precomp", PlanStageProtected(CurLayers, job.pl))
  <2>1. /\ Owned(PlanStageProtected(CurLayers, job.pl))
        /\ PlanIn(PlanStageProtected(CurLayers, job.pl), V)
    BY <1>1, <1>2, <1>5, ProtectedIn, ProtectedOwned DEF Stage
  <2> QED BY <1>2, <1>5, <2>1, OwnStage, ProvisionKeeps DEF V, OwnInv
<1>6. CASE Stage("Precomp", "Greedy", PlanStagePrecomp(job.pl))
  <2>1. Owned(PlanStagePrecomp(job.pl)) /\ PlanIn(PlanStagePrecomp(job.pl), V)
    BY <1>1, <1>2, <1>6, PrecompIn, PrecompOwned DEF Stage
  <2> QED BY <1>2, <1>6, <2>1, OwnStage, ProvisionKeeps DEF V, OwnInv
<1>7. CASE Stage("Greedy", "finalize", PlanStageGreedy(job.pl))
  <2>1. Owned(PlanStageGreedy(job.pl)) /\ PlanIn(PlanStageGreedy(job.pl), V)
    BY <1>1, <1>2, <1>7, GreedyIn, GreedyOwned DEF Stage
  <2> QED BY <1>2, <1>7, <2>1, OwnStage, ProvisionKeeps DEF V, OwnInv
<1> QED BY <1>3, <1>4, <1>5, <1>6, <1>7 DEF ProvisionPlanes

\* The composition with its squash plane: planes of the pools, each once.
LEMMA WholeOwned ==
  ASSUME OwnInv, PlanesFit, job.at = "finalize"
  PROVE  /\ OncePlanes(WholeComp) /\ WholeComp \in Seq(PlaneUse(DOMAIN Planes))
         /\ UsedPlanes(WholeComp) \subseteq Free
<1> DEFINE stable == job.plan[Cur].stable
           V == Range(WithoutSquash(stable # {}, Usable))
           C == PlaneUse(DOMAIN Planes)
           e == [type |-> "squash", source |-> {}, plane |-> Last(Usable)]
           comp == job.pl.comp
<1>1. job # NoJob /\ job.at \in Stages /\ job.at \in Planning /\ JobShape /\ JobInv /\ OwnJob
  BY JobAt DEF OwnInv, SquashInv, Stages, Planning
<1>2. Owned(job.pl) /\ PlanIn(job.pl, V) /\ PoolsOnce(job.primary, job.overlay)
  BY <1>1 DEF OwnJob
<1>3. job.primary \in Seq(DOMAIN Planes) /\ job.overlay \in Seq(DOMAIN Planes)
  BY <1>1 DEF JobShape
<1>4. /\ Once(Usable) /\ Range(Usable) \subseteq Free
      /\ Usable \in Seq(Supported(Cur)) /\ Usable # <<>>
  <2>1. OwnPrimary(Cur) \subseteq Range(job.primary) /\ OwnPrimary(Cur) # {}
    BY <1>1, DisplaysLen DEF JobInv, JobShape, Cur, PlanesFit
  <2>2. OwnPrimary(Cur) \subseteq Supported(Cur)
    BY DEF OwnPrimary, Supported
  <2> QED BY <1>2, <1>3, <2>1, <2>2, UsableOnce, UsableIn DEF Usable, Free
<1>5. /\ Last(Usable) \in Supported(Cur) /\ Last(Usable) \notin Range(Front(Usable))
      /\ Range(Usable) = Range(Front(Usable)) \cup {Last(Usable)}
  BY <1>4, FrontOnce
<1>6. V \subseteq Free /\ (stable # {} => Last(Usable) \notin V) /\ Last(Usable) \in Free
  BY <1>4, <1>5 DEF WithoutSquash
<1>7. Free \subseteq DOMAIN Planes
  <2>1. \A s \in Seq(DOMAIN Planes) : Range(s) \subseteq DOMAIN Planes
    BY DEF Range
  <2> QED BY <1>3, <2>1 DEF Free
<1>8. /\ comp \in Seq(PlaneUse(V)) /\ OncePlanes(comp)
  BY <1>2 DEF PlanIn, Owned
<1> HIDE DEF V, stable
<1>9. UsedPlanes(comp) \subseteq V
  <2>1. \A i \in DOMAIN comp : comp[i] \in PlaneUse(V)
    BY <1>8
  <2> QED BY <2>1 DEF UsedPlanes, PlaneUse
<1>10. comp \in Seq(C)
  <2>1. PlaneUse(V) \subseteq C
    BY <1>6, <1>7 DEF PlaneUse
  <2> HIDE DEF C, comp
  <2> QED BY <1>8, <2>1
<1>11. CASE stable = {}
  BY <1>6, <1>8, <1>9, <1>10, <1>11 DEF WholeComp, stable
<1>12. CASE stable # {}
  <2> DEFINE one == <<e>>
  <2>1. e \in C
    BY <1>6, <1>7 DEF PlaneUse
  <2>2. OncePlanes(one) /\ UsedPlanes(one) = {Last(Usable)}
    BY DEF OncePlanes, UsedPlanes
  <2>3. WholeComp = Append(comp, e)
    BY <1>12 DEF WholeComp, stable
  <2> HIDE DEF e, C, comp
  <2>4. one \in Seq(C) /\ Append(comp, e) = comp \o one
    BY <1>10, <2>1
  <2> HIDE DEF one
  <2>5. comp \o one \in Seq(C) /\ JoinsLists(comp \o one, comp, one)
    BY <1>10, <2>4, ConcatOnce
  <2>6. UsedPlanes(comp) \cap UsedPlanes(one) = {}
    BY <1>6, <1>9, <1>12, <2>2
  <2>7. OncePlanes(comp \o one) /\ UsedPlanes(comp \o one) \subseteq Free
    BY <1>6, <1>8, <1>9, <2>2, <2>5, <2>6 DEF JoinsLists
  <2> QED BY <2>3, <2>4, <2>5, <2>7 DEF C
<1> QED BY <1>11, <1>12

LEMMA OwnFinalize ==
  ASSUME OwnInv, PlanesFit, FinalizeComposition
  PROVE  OwnInv'
<1> DEFINE used == UsedPlanes(WholeComp)
<1>1. SquashInv' /\ Finalized /\ Cur \in job.on /\ job.at = "finalize" /\ planned' = planned
  BY FinalizeKeeps, FinalizeStep DEF OwnInv, FinalizeComposition
<1>2. job # NoJob /\ JobShape /\ OwnJob /\ job.at \in Planning
  BY <1>1, JobAt DEF OwnInv, Planning, Stages
<1>3. /\ OncePlanes(WholeComp) /\ WholeComp \in Seq(PlaneUse(DOMAIN Planes)) /\ used \subseteq Free
  BY <1>1, WholeOwned
<1>4. /\ OthersKept /\ ToNext /\ job'.plan[Cur].comp = WholeComp
      /\ job'.primary = Left(job.primary, used) /\ job'.overlay = Left(job.overlay, used)
  BY <1>1 DEF Finalized, TakePlanes
<1> HIDE DEF used
<1>5. UsedPlanes(job'.plan[Cur].comp) \subseteq UsedPlanes(job.plan[Cur].comp) \cup (used \cap Free)
  BY <1>3, <1>4 DEF used
<1>6. /\ PoolsOnce(job'.primary, job'.overlay) /\ PlansApart(job'.plan, job'.on)
      /\ \A d \in job'.on : /\ job'.plan[d].comp \in Seq(PlaneUse(DOMAIN Planes))
                            /\ UsedPlanes(job'.plan[d].comp) \cap Free' = {}
  BY <1>2, <1>3, <1>4, <1>5, ApartKept
<1>7. job'.at \notin Stages
  BY <1>4 DEF ToNext, Stages
<1>8. ASSUME job'.at \in Planning, NEW m \in DOMAIN Displays, m >= job'.n, Displays[m] \in job'.on
      PROVE  job'.plan[Displays[m]].comp = <<>>
  <2>1. /\ job.n \in DOMAIN Displays /\ job'.n = job.n + 1 /\ m \in Nat /\ job.n \in Nat
    BY <1>2, <1>4, <1>8, DisplaysLen DEF ToNext, JobShape, Planning, Stages
  <2>2. m >= job.n /\ m # job.n
    BY <1>8, <2>1
  <2>3. Displays[m] # Cur
    BY <2>1, <2>2, DisplaysLen DEF Cur
  <2>4. Displays[m] \in job.on /\ job'.plan[Displays[m]] = job.plan[Displays[m]]
    BY <1>4, <1>8, <2>3 DEF OthersKept
  <2> QED BY <1>2, <2>2, <2>4 DEF OwnJob
<1>9. OwnJob'
  BY <1>6, <1>7, <1>8 DEF OwnJob, PoolsOnce, PlansApart, Once, UsedPlanes, PlaneUse
<1>10. PlanesOwned'
  BY <1>1, <1>2, NoneShown DEF OwnInv
<1> QED BY <1>1, <1>9, <1>10 DEF OwnInv

LEMMA UnusedOnce ==
  ASSUME NEW d, NEW primary \in Seq(DOMAIN Planes), NEW overlay \in Seq(DOMAIN Planes),
         PoolsOnce(primary, overlay)
  PROVE  /\ Unused(d, primary, overlay) \in Seq(DOMAIN Planes) /\ Once(Unused(d, primary, overlay))
         /\ Range(Unused(d, primary, overlay)) \subseteq Range(primary) \cup Range(overlay)
<1> DEFINE P == DOMAIN Planes
           prim == GetUsablePlanes(d, primary, <<>>)
           over == GetUsablePlanes(d, <<>>, overlay)
           first == IF prim = <<>> THEN <<>> ELSE <<Head(prim)>>
<1>1. /\ <<>> \in Seq(P) /\ Once(<<>>) /\ Range(<<>>) = {}
  BY DEF Once, Range
<1>2. PoolsOnce(primary, <<>>) /\ PoolsOnce(<<>>, overlay)
  BY <1>1 DEF PoolsOnce
<1>3. /\ Range(prim) \subseteq Range(primary) /\ Range(over) \subseteq Range(overlay)
      /\ Once(prim) /\ Once(over) /\ prim \in Seq(Supported(d)) /\ over \in Seq(Supported(d))
  <2>1. /\ Once(prim) /\ Range(prim) = (Range(primary) \cup Range(<<>>)) \cap Supported(d)
        /\ prim \in Seq(Supported(d))
    BY <1>1, <1>2, UsableOnce, UsableIn
  <2>2. /\ Once(over) /\ Range(over) = (Range(<<>>) \cup Range(overlay)) \cap Supported(d)
        /\ over \in Seq(Supported(d))
    BY <1>1, <1>2, UsableOnce, UsableIn
  <2> QED BY <1>1, <2>1, <2>2
<1>4. Supported(d) \subseteq P
  BY DEF Supported
<1> HIDE DEF prim, over, P
<1>5. prim \in Seq(P) /\ over \in Seq(P)
  BY <1>3, <1>4
<1>6. first \in Seq(P) /\ Once(first) /\ Range(first) \subseteq Range(prim)
  <2>1. prim # <<>> => Head(prim) \in P /\ Head(prim) \in Range(prim)
    BY <1>5 DEF Range
  <2>2. CASE prim = <<>>
    BY <1>1, <2>2 DEF P
  <2>3. CASE prim # <<>>
    <3> DEFINE x == Head(prim)
    <3> HIDE DEF x
    <3>1. <<x>> \in Seq(P) /\ Once(<<x>>) /\ Range(<<x>>) = {x}
      BY <2>1, <2>3 DEF x, Once, Range
    <3> QED BY <2>1, <2>3, <3>1 DEF x
  <2> QED BY <2>2, <2>3
<1>7. Unused(d, primary, overlay) = first \o over
  BY DEF Unused, prim, over
<1> HIDE DEF first
<1>8. first \o over \in Seq(P) /\ JoinsLists(first \o over, first, over)
  BY <1>5, <1>6, ConcatOnce
<1>9. Range(first) \cap Range(over) = {}
  BY <1>3, <1>6 DEF PoolsOnce
<1> QED BY <1>3, <1>6, <1>7, <1>8, <1>9 DEF JoinsLists, P

LEMMA OwnDisable ==
  ASSUME OwnInv, DisableUnusedPlanes
  PROVE  OwnInv'
<1> DEFINE used == Range(Off)
           C == PlaneUse(DOMAIN Planes)
           comp == job.plan[Cur].comp
           more == Disabled(Off)
<1>1. SquashInv' /\ SwitchedOff /\ job.at = "disable" /\ planned' = planned
  BY DisableKeeps, DisableStep DEF OwnInv, DisableUnusedPlanes
<1>2. job # NoJob /\ JobShape /\ OwnJob
  BY <1>1, JobAt DEF OwnInv
<1>3. job.primary \in Seq(DOMAIN Planes) /\ job.overlay \in Seq(DOMAIN Planes)
      /\ PoolsOnce(job.primary, job.overlay)
  BY <1>2 DEF JobShape, OwnJob
<1>4. Off \in Seq(DOMAIN Planes) /\ Once(Off) /\ used \subseteq Free
  <2>1. Off = <<>> => Off \in Seq(DOMAIN Planes) /\ Once(Off) /\ used = {}
    BY DEF Once, Range
  <2>2. Off # <<>> => Off = Unused(Cur, job.primary, job.overlay)
    BY DEF Off
  <2>3. LET u == Unused(Cur, job.primary, job.overlay)
        IN  u \in Seq(DOMAIN Planes) /\ Once(u) /\ Range(u) \subseteq Free
    BY <1>3, UnusedOnce DEF Free
  <2> QED BY <2>1, <2>2, <2>3
<1>5. more \in Seq(C) /\ OncePlanes(more) /\ UsedPlanes(more) = used
  <2> DEFINE off == Off
  <2>1. off \in Seq(DOMAIN Planes) /\ Once(off) /\ more = Disabled(off) /\ used = Range(off)
    BY <1>4
  <2> HIDE DEF off, more
  <2>2. Len(off) \in Nat /\ DOMAIN off = 1..Len(off)
    BY <2>1
  <2>3. /\ DOMAIN more = 1..Len(off) /\ more = [i \in 1..Len(off) |-> more[i]]
        /\ \A i \in 1..Len(off) : more[i] = [type |-> "disable", plane |-> off[i], source |-> {}]
    BY <2>1, <2>2 DEF Disabled
  <2>4. \A i \in 1..Len(off) : more[i] \in C /\ more[i].plane = off[i]
    <3> SUFFICES ASSUME NEW i \in 1..Len(off) PROVE more[i] \in C /\ more[i].plane = off[i]
      OBVIOUS
    <3>1. off[i] \in DOMAIN Planes
      BY <2>1, <2>2
    <3> QED BY <2>3, <3>1 DEF PlaneUse
  <2> HIDE DEF C
  <2>5. more \in [1..Len(off) -> C]
    BY <2>3, <2>4
  <2>6. more \in Seq(C)
    BY <2>2, <2>5
  <2>7. OncePlanes(more)
    BY <2>1, <2>2, <2>3, <2>4 DEF OncePlanes, Once
  <2>8. UsedPlanes(more) = Range(off)
    BY <2>2, <2>3, <2>4 DEF UsedPlanes, Range
  <2> QED BY <2>1, <2>6, <2>7, <2>8
<1>6. ASSUME Cur \in job.on
      PROVE  /\ OncePlanes(job'.plan[Cur].comp) /\ job'.plan[Cur].comp \in Seq(C)
             /\ UsedPlanes(job'.plan[Cur].comp) \subseteq UsedPlanes(comp) \cup (used \cap Free)
  <2>1. job'.plan[Cur].comp = IF Off = <<>> THEN comp ELSE comp \o more
    BY <1>1, <1>6 DEF SwitchedOff
  <2>2. comp \in Seq(C) /\ UsedPlanes(comp) \cap Free = {} /\ OncePlanes(comp)
    BY <1>2, <1>6 DEF OwnJob, PlansApart, OncePlanes
  <2> HIDE DEF comp, more, C, used
  <2>3. comp \o more \in Seq(C) /\ JoinsLists(comp \o more, comp, more)
    BY <1>5, <2>2, ConcatOnce
  <2>4. UsedPlanes(comp) \cap UsedPlanes(more) = {}
    BY <1>4, <1>5, <2>2
  <2>5. OncePlanes(comp \o more) /\ UsedPlanes(comp \o more) = UsedPlanes(comp) \cup used
    BY <1>5, <2>2, <2>3, <2>4 DEF JoinsLists
  <2> QED BY <1>4, <2>1, <2>2, <2>3, <2>5
<1>7. /\ OthersKept /\ job'.at \in {"disable", "queue"}
      /\ job'.primary = Left(job.primary, used) /\ job'.overlay = Left(job.overlay, used)
  BY <1>1 DEF SwitchedOff
<1> HIDE DEF used
<1>8. /\ PoolsOnce(job'.primary, job'.overlay) /\ PlansApart(job'.plan, job'.on)
      /\ \A d \in job'.on : /\ job'.plan[d].comp \in Seq(PlaneUse(DOMAIN Planes))
                            /\ UsedPlanes(job'.plan[d].comp) \cap Free' = {}
  BY <1>2, <1>6, <1>7, ApartKept
<1>9. job'.at \notin Stages /\ job'.at \notin Planning
  BY <1>7 DEF Stages, Planning
<1>10. OwnJob'
  BY <1>8, <1>9 DEF OwnJob, PoolsOnce, PlansApart, Once, UsedPlanes, PlaneUse
<1>11. PlanesOwned'
  BY <1>1, <1>2, NoneShown DEF OwnInv
<1> QED BY <1>1, <1>10, <1>11 DEF OwnInv

LEMMA CompositeFinite ==
  ASSUME SquashInv, job # NoJob, Cur \in job.on, NEW stable
  PROVE  ToComposite(CurLayers, stable) \in SUBSET Nat /\ IsFiniteSet(ToComposite(CurLayers, stable))
<1> DEFINE composite == ToComposite(CurLayers, stable)
           g == stack[Cur]
<1>1. Cur \in D
  BY DEF SquashInv, JobInv, JobShape
<1>2. DOMAIN CurLayers = DOMAIN g /\ g \in Stack
  BY <1>1 DEF SquashInv, SquashOf, Asked, CurLayers
<1>3. Len(g) \in Nat /\ DOMAIN g = 1..Len(g)
  BY <1>2 DEF Stack
<1>4. composite \subseteq 1..Len(g)
  BY <1>2, <1>3 DEF ToComposite
<1> HIDE DEF composite
<1>5. IsFiniteSet(1..Len(g))
  BY <1>3, FS_Interval
<1>6. IsFiniteSet(composite)
  BY <1>4, <1>5, FS_Subset
<1> QED BY <1>3, <1>4, <1>6 DEF composite

LEMMA OwnRecord ==
  ASSUME OwnInv, PlanesFit, RecordSquash
  PROVE  OwnInv'
<1>1. SquashInv' /\ planned' = planned
  BY RecordKeeps DEF OwnInv, RecordSquash
<1>2. /\ Cur \in job.on /\ job.at = "history" /\ Usable # <<>> /\ Usable \in Seq(Supported(Cur))
  BY RecordStep DEF OwnInv
<1>3. PICK stable : PlanBegun(stable)
  BY RecordStep DEF OwnInv
<1>4. job # NoJob /\ JobShape /\ OwnJob /\ job.at \in Planning
  BY <1>2, JobAt DEF OwnInv, Planning
<1>5. /\ OthersKept /\ job'.at = "NvLimits" /\ job'.n = job.n
      /\ job'.primary = job.primary /\ job'.overlay = job.overlay
      /\ job'.plan[Cur].stable = stable /\ job'.plan[Cur].comp = job.plan[Cur].comp
      /\ job'.pl = ReservePlanes(ToComposite(CurLayers, stable), stable # {}, Usable)
  BY <1>3 DEF PlanBegun
<1>6. Cur' = Cur /\ Usable' = Usable /\ Free' = Free
  BY <1>5 DEF Cur, Usable, Free
<1>7. Once(Usable)
  BY <1>4, UsableOnce DEF JobShape, OwnJob, Usable
<1> DEFINE composite == ToComposite(CurLayers, stable)
           b == stable # {}
           V == Range(WithoutSquash(b, Usable))
<1>8. composite \in SUBSET Nat /\ IsFiniteSet(composite) /\ b \in BOOLEAN
  BY <1>2, <1>4, CompositeFinite DEF OwnInv
<1> HIDE DEF composite, b
<1>9. Owned(job'.pl) /\ PlanIn(job'.pl, V)
  <2>1. job'.pl = ReservePlanes(composite, b, Usable)
    BY <1>5 DEF composite, b
  <2> QED BY <1>2, <1>7, <1>8, <2>1, ReserveOwned
<1>10. Range(WithoutSquash(job.plan[Cur].stable # {}, Usable))' = V
  BY <1>5, <1>6 DEF b
<1> HIDE DEF V
<1>11. (Owned(job.pl) /\ PlanIn(job.pl, Range(WithoutSquash(job.plan[Cur].stable # {}, Usable))))'
  BY <1>9, <1>10 DEF Owned, PlanIn, Once, OncePlanes, PlaneUse, UsedPlanes
<1>12. \A d \in job.on : job'.plan[d].comp = job.plan[d].comp
  BY <1>5 DEF OthersKept
<1>13. PlansApart(job'.plan, job'.on)
  <2>1. job'.on = job.on
    BY <1>5 DEF OthersKept
  <2>2. PlansApart(job.plan, job.on)
    BY <1>4 DEF OwnJob
  <2> SUFFICES ASSUME NEW d \in job.on, NEW e \in job.on, NEW i \in DOMAIN job'.plan[d].comp,
                      NEW k \in DOMAIN job'.plan[e].comp,
                      job'.plan[d].comp[i].plane = job'.plan[e].comp[k].plane
               PROVE  d = e /\ i = k
    BY <2>1 DEF PlansApart
  <2>3. job'.plan[d].comp = job.plan[d].comp /\ job'.plan[e].comp = job.plan[e].comp
    BY <1>12
  <2> QED BY <2>2, <2>3 DEF PlansApart
<1>14. OwnJob'
  <2>1. job'.on = job.on
    BY <1>5 DEF OthersKept
  <2> QED BY <1>4, <1>5, <1>6, <1>11, <1>12, <1>13, <2>1 DEF OwnJob, PoolsOnce, PlansApart
<1>15. PlanesOwned'
  BY <1>1, <1>4, NoneShown DEF OwnInv
<1> QED BY <1>1, <1>14, <1>15 DEF OwnInv

LEMMA OwnSet ==
  ASSUME OwnInv, FollowsFit, SetLayers
  PROVE  OwnInv'
<1>1. SquashInv' /\ planned' = [d \in D |-> NoPlan]
  BY SetKeeps DEF OwnInv, SetLayers
<1>2. PICK on, layers, changed, rendered :
        job' = [at |-> "history", n |-> 1, on |-> on, changed |-> changed,
                layers |-> layers, plan |-> [d \in on |-> NoPlan], rendered |-> rendered,
                primary |-> PlanesOf("primary"), overlay |-> PlanesOf("overlay"), pl |-> <<>>]
  BY Zenon DEF SetLayers
<1>3. /\ job'.at = "history" /\ job'.on = on /\ job'.plan = [d \in on |-> NoPlan]
      /\ job'.primary = PlanesOf("primary") /\ job'.overlay = PlanesOf("overlay")
  BY <1>2
<1>4. \A d \in on : job'.plan[d].comp = <<>>
  BY <1>3 DEF NoPlan
<1>5. PoolsOnce(job'.primary, job'.overlay)
  BY <1>3, PoolsBegin
<1>6. PlansApart(job'.plan, job'.on)
  BY <1>3, <1>4 DEF PlansApart
<1>7. \A d \in job'.on : /\ job'.plan[d].comp \in Seq(PlaneUse(DOMAIN Planes))
                         /\ UsedPlanes(job'.plan[d].comp) \cap Free' = {}
  <2>1. <<>> \in Seq(PlaneUse(DOMAIN Planes)) /\ UsedPlanes(<<>>) = {}
    BY DEF UsedPlanes
  <2> QED BY <1>3, <1>4, <2>1
<1>8. job'.at \notin Stages
  BY <1>3 DEF Stages
<1>9. OwnJob'
  BY <1>3, <1>4, <1>5, <1>6, <1>7, <1>8 DEF OwnJob, PoolsOnce, PlansApart, Once, UsedPlanes, PlaneUse
<1>10. PlanesOwned'
  BY <1>1 DEF PlanesOwned, NoPlan
<1> QED BY <1>1, <1>9, <1>10 DEF OwnInv

LEMMA OwnQueue ==
  ASSUME OwnInv, "lost" \notin PlanEnv, QueueComposition
  PROVE  OwnInv'
<1>1. /\ job.at = "queue" /\ job' = NoJob
      /\ planned' = [d \in D |-> IF d \in job.on THEN job.plan[d] ELSE NoPlan]
  BY DEF QueueComposition
<1>2. SquashInv' /\ job # NoJob /\ OwnJob
  BY <1>1, QueueKeeps, JobAt DEF OwnInv
<1>3. OwnJob'
  BY <1>1 DEF OwnJob
<1>4. PlansApart(job.plan, job.on)
  BY <1>2 DEF OwnJob
<1>5. \A d \in D : planned'[d].current => d \in job.on /\ planned'[d] = job.plan[d]
  BY <1>1 DEF NoPlan
<1>6. PlanesOwned'
  BY <1>4, <1>5 DEF PlanesOwned, PlansApart
<1> QED BY <1>2, <1>3, <1>6 DEF OwnInv

LEMMA OwnNext ==
  ASSUME OwnInv, FollowsFit, PlanesFit, "lost" \notin PlanEnv, [PlanNext]_planvars
  PROVE  OwnInv'
<1>1. CASE UNCHANGED planvars
  <2>1. SquashInv'
    BY SquashNext DEF OwnInv
  <2>2. job' = job /\ planned' = planned
    BY <1>1 DEF planvars
  <2>3. Free' = Free /\ Usable' = Usable /\ Cur' = Cur
    BY <2>2 DEF Free, Usable, Cur
  <2>4. OwnJob' <=> OwnJob
    BY <2>2, <2>3 DEF OwnJob
  <2> QED BY <2>1, <2>2, <2>4 DEF OwnInv, PlanesOwned
<1> QED BY <1>1, OwnSet, OwnRecord, OwnSkip, OwnProvision, OwnFinalize, OwnDisable, OwnQueue
        DEF PlanNext

(***************************************************************************)
(* DrmComposition and the planner: "This ensures they won't be reused by   *)
(* another display".  Whatever planes the card has and whatever stacks the *)
(* displays show, the plans that are queued together use every plane at    *)
(* most once, for a layer, the precomposition, the squash framebuffer or   *)
(* to be disabled.  The assumptions are those of SquashIsFresh.            *)
(***************************************************************************)
THEOREM PlanesAreOwned ==
  ASSUME FollowsFit, PlanesFit, "lost" \notin PlanEnv
  PROVE  PlanSpec => []PlanesOwned
<1>1. PlanInit => OwnInv
  BY OwnInit
<1>2. OwnInv /\ [PlanNext]_planvars => OwnInv'
  BY OwnNext
<1>3. OwnInv => PlanesOwned
  BY DEF OwnInv
<1> QED BY <1>1, <1>2, <1>3, PTL DEF PlanSpec
-----------------------------------------------------------------------------
(* Protected content stays on planes of its own *)

\* A stack with at most one protected layer.
OneProtected(g) == \A i, j \in ProtectedLayers(g) : i = j

\* A composition shows the layers of Z on planes of their own only.
Solo(Z, comp) == \A x \in Range(comp) : x.source \cap Z # {} => x.type = "layer"

LEMMA ToPrecompSolo ==
  ASSUME NEW U, NEW pl, PlanIn(pl, U), NEW Z, Solo(Z, pl.comp), NEW S, S \cap Z = {}
  PROVE  /\ Solo(Z, ToPrecomp(pl, S).comp)
         /\ ToPrecomp(pl, S).layers \subseteq pl.layers
<1> DEFINE C == PlaneUse(U)
<1>1. /\ pl = [comp |-> pl.comp, layers |-> pl.layers, planes |-> pl.planes]
      /\ pl.comp \in Seq(C) /\ pl.planes \in Seq(U)
  BY DEF PlanIn
<1>2. CASE S = {}
  BY <1>2 DEF ToPrecomp
<1>3. CASE S # {} /\ PrecompAt(pl.comp) # {}
  <2> DEFINE Join(x) == IF x.type = "precomp" THEN [x EXCEPT !.source = x.source \cup S] ELSE x
             c == [i \in DOMAIN pl.comp |-> Join(pl.comp[i])]
  <2>1. ToPrecomp(pl, S) = [comp |-> c, layers |-> pl.layers \ S, planes |-> pl.planes]
    BY <1>3 DEF ToPrecomp
  <2>2. ASSUME NEW i \in DOMAIN pl.comp
        PROVE  c[i].type = pl.comp[i].type /\ c[i].source \subseteq pl.comp[i].source \cup S
    <3>1. pl.comp[i] \in C
      <4> HIDE DEF C
      <4> QED BY <1>1
    <3> QED BY <3>1 DEF PlaneUse
  <2>3. DOMAIN c = DOMAIN pl.comp
    OBVIOUS
  <2> HIDE DEF c
  <2>4. Solo(Z, c)
    BY <2>2, <2>3 DEF Solo, Range
  <2> QED BY <2>1, <2>4
<1>4. CASE S # {} /\ PrecompAt(pl.comp) = {} /\ pl.planes = <<>>
  <2>1. ToPrecomp(pl, S) = [pl EXCEPT !.layers = pl.layers \ S]
    BY <1>4 DEF ToPrecomp
  <2>2. ToPrecomp(pl, S) = [comp |-> pl.comp, layers |-> pl.layers \ S, planes |-> pl.planes]
    BY <1>1, <2>1
  <2> QED BY <2>2
<1>5. CASE S # {} /\ PrecompAt(pl.comp) = {} /\ pl.planes # <<>>
  <2> DEFINE e == [type |-> "precomp", plane |-> Last(pl.planes), source |-> S]
             one == <<e>>
             E == {e} \cup C
  <2>1. ToPrecomp(pl, S) = [comp |-> Append(pl.comp, e), layers |-> pl.layers \ S,
                            planes |-> Front(pl.planes)]
    BY <1>5 DEF ToPrecomp
  <2>2. pl.comp \in Seq(E) /\ one \in Seq(E) /\ Append(pl.comp, e) = pl.comp \o one
    <3> HIDE DEF e, C
    <3> QED BY <1>1
  <2>3. Solo(Z, one)
    <3>1. Range(one) = {e} /\ e.source = S
      BY DEF Range
    <3> QED BY <3>1 DEF Solo
  <2> HIDE DEF e, E, one
  <2>4. Range(pl.comp \o one) = Range(pl.comp) \cup Range(one)
    BY <2>2, ConcatOnce DEF JoinsLists
  <2> QED BY <2>1, <2>2, <2>3, <2>4 DEF Solo
<1> QED BY <1>2, <1>3, <1>4, <1>5

LEMMA EmplaceSolo ==
  ASSUME NEW U, NEW pl, PlanIn(pl, U), NEW Z, Solo(Z, pl.comp), NEW S \in SUBSET pl.layers,
         NEW drop \in BOOLEAN
  PROVE  /\ Solo(Z, Emplace(pl, S, drop).comp)
         /\ Emplace(pl, S, drop).layers \subseteq pl.layers
         /\ drop => Emplace(pl, S, drop).layers = pl.layers \ S
<1> DEFINE C == PlaneUse(U)
           order == Ascending(S)
           k == IF Cardinality(S) <= Len(pl.planes) THEN Cardinality(S) ELSE Len(pl.planes)
           placed == [n \in 1..k |-> Dedicated(order[n], pl.planes[n])]
           P == PrecompAt(pl.comp)
           Q == DOMAIN pl.comp \ P
           before == EntriesAt(pl.comp, Q)
           after == EntriesAt(pl.comp, P)
           gone == IF drop THEN S ELSE {order[n] : n \in 1..k}
<1>1. pl.comp \in Seq(C) /\ pl.planes \in Seq(U)
  BY DEF PlanIn
<1>2. Emplace(pl, S, drop) = [comp |-> before \o placed \o after, layers |-> pl.layers \ gone,
                              planes |-> SubSeq(pl.planes, k + 1, Len(pl.planes))]
  BY DEF Emplace
<1>3. k \in Nat
  <2>1. Cardinality(S) \in Nat
    BY FS_Subset, FS_CardinalityType DEF PlanIn
  <2> HIDE DEF C
  <2> QED BY <1>1, <2>1
<1> HIDE DEF k, order
<1>4. placed \in Seq(Range(placed)) /\ Solo(Z, placed)
  <2>1. \A n \in 1..k : placed[n].type = "layer"
    BY DEF Dedicated
  <2>2. DOMAIN placed = 1..k /\ placed \in [1..k -> Range(placed)]
    BY DEF Range
  <2> HIDE DEF placed
  <2>3. placed \in Seq(Range(placed))
    BY <1>3, <2>2
  <2>4. Solo(Z, placed)
    BY <2>1, <2>2 DEF Solo, Range
  <2> QED BY <2>3, <2>4
<1>5. P \in SUBSET DOMAIN pl.comp /\ Q \in SUBSET DOMAIN pl.comp
  BY DEF PrecompAt
<1> HIDE DEF P, Q, C
<1>6. /\ before \in Seq(C) /\ after \in Seq(C)
      /\ Range(before) \subseteq Range(pl.comp) /\ Range(after) \subseteq Range(pl.comp)
  <2>1. /\ before \in Seq(C) /\ Range(before) = {pl.comp[i] : i \in Q}
        /\ after \in Seq(C) /\ Range(after) = {pl.comp[i] : i \in P}
    BY <1>1, <1>5, EntriesIn
  <2> QED BY <1>5, <2>1 DEF Range
<1> DEFINE T == C \cup Range(placed)
<1>7. before \in Seq(T) /\ after \in Seq(T) /\ placed \in Seq(T)
  <2> HIDE DEF before, after, placed
  <2> QED BY <1>4, <1>6
<1> HIDE DEF before, placed, after, gone, T
<1> DEFINE b == before \o placed
<1>8. b \in Seq(T) /\ Range(b) = Range(before) \cup Range(placed)
  BY <1>7, ConcatOnce DEF JoinsLists
<1> HIDE DEF b
<1>9. Range(b \o after) = Range(b) \cup Range(after)
  BY <1>7, <1>8, ConcatOnce DEF JoinsLists
<1>10. Solo(Z, b \o after)
  BY <1>4, <1>6, <1>8, <1>9 DEF Solo
<1> QED BY <1>2, <1>10 DEF b, gone

\* A plan under construction: it has layers of the stack only, and none of Z
\* from the stage after PlanStageProtected on.
SoloPlan(Z, L, at, pl) ==
  /\ Solo(Z, pl.comp) /\ pl.layers \subseteq L
  /\ at \in {"Precomp", "Greedy", "finalize"} => pl.layers \cap Z = {}

LEMMA NvLimitsSolo ==
  ASSUME NEW U, NEW pl, PlanIn(pl, U), NEW layers,
         SoloPlan(ProtectedLayers(layers), DOMAIN layers, "NvLimits", pl)
  PROVE  SoloPlan(ProtectedLayers(layers), DOMAIN layers, "ProtectedRotated",
                  PlanStageNvLimits(layers, pl))
<1> DEFINE Z == ProtectedLayers(layers)
           bad == {l \in pl.layers : ~CheckLayer(l, layers[l])}
           drop == {l \in bad : layers[l].protected}
           q == [pl EXCEPT !.layers = pl.layers \ drop]
           S == bad \ drop
<1>1. PlanStageNvLimits(layers, pl) = ToPrecomp(q, S)
  BY DEF PlanStageNvLimits
<1>2. S \cap Z = {}
  BY DEF ProtectedLayers
<1>3. Solo(Z, pl.comp) /\ pl.layers \subseteq DOMAIN layers
  BY DEF SoloPlan
<1>4. q.comp = pl.comp /\ q.layers = pl.layers \ drop
  <2>1. pl = [comp |-> pl.comp, layers |-> pl.layers, planes |-> pl.planes]
    BY DEF PlanIn
  <2> HIDE DEF q, drop
  <2>2. q = [pl EXCEPT !.layers = pl.layers \ drop]
    BY DEF q
  <2> QED BY <2>1, <2>2
<1>5. PlanIn(q, U)
  <2> HIDE DEF drop
  <2> QED BY FewerLayers
<1> HIDE DEF q, S, Z
<1>6. Solo(Z, ToPrecomp(q, S).comp) /\ ToPrecomp(q, S).layers \subseteq q.layers
  BY <1>2, <1>3, <1>4, <1>5, ToPrecompSolo
<1> QED BY <1>1, <1>3, <1>4, <1>6 DEF SoloPlan, Z

LEMMA RotatedSolo ==
  ASSUME NEW U, NEW pl, PlanIn(pl, U), NEW layers, OneProtected(layers),
         SoloPlan(ProtectedLayers(layers), DOMAIN layers, "ProtectedRotated", pl)
  PROVE  SoloPlan(ProtectedLayers(layers), DOMAIN layers, "Protected",
                  PlanStageProtectedRotated(layers, pl))
<1> DEFINE Z == ProtectedLayers(layers)
           M == {l \in pl.layers : layers[l].protected /\ layers[l].rotated}
           mine == Ascending(M)
           P == {i \in DOMAIN pl.planes : Planes[pl.planes[i]].type = "primary"}
           prim == EntriesAt(pl.planes, P)
           k == IF Len(mine) <= Len(prim) THEN Len(mine) ELSE Len(prim)
           placed == [n \in 1..k |-> Dedicated(mine[k + 1 - n], prim[k + 1 - n])]
           left == Left(pl.planes, {prim[n] : n \in 1..k})
           q == [comp |-> placed \o pl.comp, layers |-> pl.layers \ Range(mine), planes |-> left]
           S == {l \in q.layers : \E p \in {mine[n] : n \in 1..k} : l < p}
           C == PlaneUse(U)
<1>1. /\ pl.comp \in Seq(C) /\ pl.planes \in Seq(U)
      /\ pl.layers \in SUBSET Nat /\ IsFiniteSet(pl.layers)
      /\ Solo(Z, pl.comp) /\ pl.layers \subseteq DOMAIN layers
  BY DEF PlanIn, SoloPlan
<1>2. PlanStageProtectedRotated(layers, pl) = ToPrecomp(q, S)
  BY DEF PlanStageProtectedRotated, BelowProtected
<1>3. IsFiniteSet(M) /\ M \in SUBSET Int /\ M \subseteq Z
  BY <1>1, FS_Subset DEF ProtectedLayers
<1>4. mine \in Seq(M)
  BY <1>3, AscendingSeq
<1>5. prim \in Seq(U) /\ left \in Seq(U)
  BY <1>1, EntriesIn, LeftIn
<1> HIDE DEF M, mine, prim, left, Z
<1>6. /\ Len(mine) \in Nat /\ Len(prim) \in Nat /\ k \in Nat /\ k <= Len(mine) /\ k <= Len(prim)
      /\ DOMAIN mine = 1..Len(mine)
  BY <1>4, <1>5
<1> HIDE DEF k
<1>7. \A n \in 1..k : n \in DOMAIN mine /\ mine[n] \in Z
  <2>1. \A n \in 1..k : n \in DOMAIN mine
    BY <1>6
  <2>2. \A n \in DOMAIN mine : mine[n] \in M
    BY <1>4
  <2> QED BY <1>3, <2>1, <2>2
<1>8. S \cap Z = {}
  <2> SUFFICES ASSUME NEW l \in pl.layers, l \notin Range(mine), l \in Z, NEW n \in 1..k
               PROVE  FALSE
    OBVIOUS
  <2>1. l = mine[n]
    BY <1>7 DEF OneProtected, Z
  <2> QED BY <1>7, <2>1 DEF Range
<1>9. PlanIn(q, U)
  <2>1. ASSUME NEW n \in 1..k PROVE placed[n] \in C
    <3>1. k + 1 - n \in 1..Len(mine) /\ k + 1 - n \in 1..Len(prim)
      BY <1>6
    <3>2. mine[k + 1 - n] \in Nat /\ prim[k + 1 - n] \in U
      <4>1. mine[k + 1 - n] \in M
        BY <1>4, <3>1
      <4>2. prim[k + 1 - n] \in U
        BY <1>5, <3>1
      <4> QED BY <1>1, <4>1, <4>2 DEF M
    <3> QED BY <3>2 DEF PlaneUse, Dedicated
  <2> HIDE DEF C
  <2>2. placed \in Seq(C)
    <3>1. placed \in [1..k -> C]
      BY <2>1
    <3> QED BY <1>6, <3>1
  <2> HIDE DEF placed
  <2>3. placed \o pl.comp \in Seq(C)
    BY <1>1, <2>2, ConcatIn
  <2>4. pl.layers \ Range(mine) \in SUBSET Nat /\ IsFiniteSet(pl.layers \ Range(mine))
    BY <1>1, FS_Difference
  <2> QED BY <1>5, <2>3, <2>4 DEF PlanIn, C
<1>10. Solo(Z, q.comp) /\ q.layers \subseteq pl.layers
  <2>1. placed \in Seq(Range(placed)) /\ Solo(Z, placed)
    <3>1. \A n \in 1..k : placed[n].type = "layer"
      BY DEF Dedicated
    <3>2. DOMAIN placed = 1..k /\ placed \in [1..k -> Range(placed)]
      BY DEF Range
    <3> HIDE DEF placed
    <3>3. placed \in Seq(Range(placed))
      BY <1>6, <3>2
    <3>4. Solo(Z, placed)
      BY <3>1, <3>2 DEF Solo, Range
    <3> QED BY <3>3, <3>4
  <2> DEFINE T == C \cup Range(placed)
  <2> HIDE DEF placed, C
  <2>2. placed \in Seq(T) /\ pl.comp \in Seq(T)
    BY <1>1, <2>1
  <2> HIDE DEF T
  <2>3. Range(placed \o pl.comp) = Range(placed) \cup Range(pl.comp)
    BY <2>2, ConcatOnce DEF JoinsLists
  <2> QED BY <1>1, <2>1, <2>3 DEF Solo
<1> HIDE DEF q, S
<1>11. Solo(Z, ToPrecomp(q, S).comp) /\ ToPrecomp(q, S).layers \subseteq q.layers
  BY <1>8, <1>9, <1>10, ToPrecompSolo
<1> QED BY <1>1, <1>2, <1>10, <1>11 DEF SoloPlan, Z

LEMMA ProtectedSolo ==
  ASSUME NEW U, NEW pl, PlanIn(pl, U), NEW layers,
         SoloPlan(ProtectedLayers(layers), DOMAIN layers, "Protected", pl)
  PROVE  SoloPlan(ProtectedLayers(layers), DOMAIN layers, "Precomp",
                  PlanStageProtected(layers, pl))
<1> DEFINE Z == ProtectedLayers(layers)
           mine == {l \in pl.layers : layers[l].protected}
           q == Emplace(pl, mine, TRUE)
           S == {l \in q.layers : \E p \in mine : l < p}
<1>1. PlanStageProtected(layers, pl) = ToPrecomp(q, S)
  BY DEF PlanStageProtected, BelowProtected
<1>2. mine \in SUBSET pl.layers /\ (pl.layers \ mine) \cap Z = {}
  BY DEF ProtectedLayers
<1>3. Solo(Z, pl.comp) /\ pl.layers \subseteq DOMAIN layers
  BY DEF SoloPlan
<1> HIDE DEF mine, Z
<1>4. PlanIn(q, U) /\ Solo(Z, q.comp) /\ q.layers = pl.layers \ mine
  BY <1>2, <1>3, EmplaceIn, EmplaceSolo
<1>5. S \cap Z = {}
  BY <1>2, <1>4
<1> HIDE DEF q, S
<1>6. Solo(Z, ToPrecomp(q, S).comp) /\ ToPrecomp(q, S).layers \subseteq q.layers
  BY <1>4, <1>5, ToPrecompSolo
<1> QED BY <1>1, <1>2, <1>3, <1>4, <1>6 DEF SoloPlan, Z

LEMMA PrecompSolo ==
  ASSUME NEW U, NEW pl, PlanIn(pl, U), NEW Z, NEW L, SoloPlan(Z, L, "Precomp", pl)
  PROVE  SoloPlan(Z, L, "Greedy", PlanStagePrecomp(pl))
<1> DEFINE source == UNION {pl.comp[i].source : i \in PrecompAt(pl.comp)}
           S == {l \in pl.layers : \E s \in source : s <= l}
<1>1. PlanStagePrecomp(pl) = ToPrecomp(pl, S) /\ S \subseteq pl.layers
  BY DEF PlanStagePrecomp
<1>2. Solo(Z, pl.comp) /\ pl.layers \subseteq L /\ pl.layers \cap Z = {}
  BY DEF SoloPlan
<1> HIDE DEF S
<1>3. Solo(Z, ToPrecomp(pl, S).comp) /\ ToPrecomp(pl, S).layers \subseteq pl.layers
  BY <1>1, <1>2, ToPrecompSolo
<1> QED BY <1>1, <1>2, <1>3 DEF SoloPlan

LEMMA GreedySolo ==
  ASSUME NEW U, NEW pl, PlanIn(pl, U), NEW Z, NEW L, SoloPlan(Z, L, "Greedy", pl)
  PROVE  SoloPlan(Z, L, "finalize", PlanStageGreedy(pl))
<1> DEFINE q == Emplace(pl, pl.layers, FALSE)
<1>1. Solo(Z, pl.comp) /\ pl.layers \subseteq L /\ pl.layers \cap Z = {}
  BY DEF SoloPlan
<1>2. PlanIn(q, U) /\ Solo(Z, q.comp) /\ q.layers \subseteq pl.layers
  BY <1>1, EmplaceIn, EmplaceSolo
<1>3. PlanStageGreedy(pl) = IF PrecompAt(q.comp) = {} THEN q ELSE ToPrecomp(q, q.layers)
  BY DEF PlanStageGreedy
<1> HIDE DEF q
<1>4. Solo(Z, ToPrecomp(q, q.layers).comp) /\ ToPrecomp(q, q.layers).layers \subseteq q.layers
  <2>1. q.layers \cap Z = {}
    BY <1>1, <1>2
  <2> QED BY <1>2, <2>1, ToPrecompSolo
<1> QED BY <1>1, <1>2, <1>3, <1>4 DEF SoloPlan

\* A region with a protected layer counts as changed and is not squashed.
LEMMA StableUnprotected ==
  ASSUME SquashInv, job # NoJob, Cur \in job.on, NEW r \in NowStable
  PROVE  r.ids \cap ProtectedLayers(CurLayers) = {}
<1> DEFINE s == squash[Cur]
<1>1. Cur \notin job.changed /\ r \in s.regions \ GenerateHistory(s, CurLayers)
  BY DEF NowStable, StableRegions
<1>2. Cur \in D
  BY DEF SquashInv, JobInv, JobShape
<1>3. Len(CurLayers) = Len(s.last)
  BY <1>1, <1>2 DEF SquashInv, SquashOf, HistoryOf, Asked, CurLayers
<1>4. \A i \in r.ids : ~ CurLayers[i].protected
  <2> HIDE DEF s
  <2> QED BY <1>1, <1>3 DEF GenerateHistory
<1> QED BY <1>4 DEF ProtectedLayers

\* Where the protected layers of the job are.
SoloJob ==
  job # NoJob =>
    /\ \A d \in job.on :
         /\ OneProtected(job.layers[d])
         /\ Solo(ProtectedLayers(job.layers[d]), job.plan[d].comp)
         /\ \A r \in job.plan[d].stable : r.ids \cap ProtectedLayers(job.layers[d]) = {}
    /\ job.at \in Stages =>
         SoloPlan(ProtectedLayers(CurLayers), DOMAIN CurLayers, job.at, job.pl)

SoloInv == /\ OwnInv /\ SoloJob /\ ProtectedApart
           /\ \A d \in D : OneProtected(stack[d])

\* SurfaceFlinger shows at most one protected layer on a display.
FollowsOne == \A d \in D, s \in [D -> Stack] : \A g \in Follow(d, s) : OneProtected(g)

LEMMA SoloInit == PlanInit => SoloInv
<1> SUFFICES ASSUME PlanInit PROVE SoloInv
  OBVIOUS
<1>1. OwnInv /\ SoloJob
  BY OwnInit DEF PlanInit, SoloJob
<1>2. ProtectedApart
  BY DEF PlanInit, ProtectedApart, NoPlan
<1>3. \A d \in D : OneProtected(stack[d])
  BY DEF PlanInit, OneProtected, ProtectedLayers
<1> QED BY <1>1, <1>2, <1>3 DEF SoloInv

\* While a composition is planned, none is shown and the stacks stay.
LEMMA SoloKept ==
  ASSUME SoloInv, job # NoJob, planned' = planned, stack' = stack, OwnInv', SoloJob'
  PROVE  SoloInv'
<1>1. \A d \in D : ~planned[d].current
  BY DEF SoloInv, OwnInv, SquashInv, SquashOf
<1>2. ProtectedApart'
  BY <1>1 DEF ProtectedApart
<1> QED BY <1>2 DEF SoloInv, OneProtected, ProtectedLayers

LEMMA SoloSkip ==
  ASSUME SoloInv, SkipDisplay
  PROVE  SoloInv'
<1>1. /\ job.at = "history" /\ job' = PlanNextDisplay(job)
      /\ planned' = planned /\ stack' = stack /\ OwnInv'
  BY OwnSkip DEF SoloInv, SkipDisplay
<1>2. job # NoJob /\ JobShape /\ SoloJob
  BY <1>1, JobAt DEF SoloInv, OwnInv
<1>3. /\ job'.at \in {"history", "disable"} /\ job'.on = job.on /\ job'.plan = job.plan
      /\ job'.layers = job.layers
  <2>1. JobFields(job)
    BY <1>2 DEF JobShape
  <2>2. \/ job' = [job EXCEPT !.at = "history", !.n = job.n + 1, !.pl = <<>>]
        \/ job' = [job EXCEPT !.at = "disable", !.n = 1, !.pl = <<>>]
    BY <1>1 DEF PlanNextDisplay
  <2> QED BY <2>1, <2>2 DEF JobFields
<1>4. job'.at \notin Stages
  BY <1>3 DEF Stages
<1>5. SoloJob'
  BY <1>2, <1>3, <1>4 DEF SoloJob
<1> QED BY <1>1, <1>2, <1>5, SoloKept

LEMMA SoloStage ==
  ASSUME SoloInv, OwnInv', NEW name \in Stages, NEW next \in Stages, NEW pl, Stage(name, next, pl),
         SoloPlan(ProtectedLayers(CurLayers), DOMAIN CurLayers, next, pl)
  PROVE  SoloInv'
<1>1. /\ job.at = name /\ job' = [job EXCEPT !.at = next, !.pl = pl]
      /\ planned' = planned /\ stack' = stack
  BY DEF Stage
<1>2. job.at # "idle"
  BY <1>1 DEF Stages
<1>3. job # NoJob /\ JobShape /\ SoloJob
  BY <1>2, JobAt DEF SoloInv, OwnInv
<1>4. /\ job'.at = next /\ job'.pl = pl /\ job'.n = job.n /\ job'.on = job.on
      /\ job'.plan = job.plan /\ job'.layers = job.layers
  <2>1. JobFields(job)
    BY <1>3 DEF JobShape
  <2> QED BY <1>1, <2>1 DEF JobFields
<1>5. CurLayers' = CurLayers
  BY <1>4 DEF CurLayers, Cur
<1>6. SoloJob'
  BY <1>3, <1>4, <1>5 DEF SoloJob
<1> QED BY <1>1, <1>3, <1>6, SoloKept

LEMMA SoloProvision ==
  ASSUME SoloInv, ProvisionPlanes
  PROVE  SoloInv'
<1> DEFINE Z == ProtectedLayers(CurLayers)
           L == DOMAIN CurLayers
           U == Supported(Cur)
<1>1. OwnInv'
  BY OwnProvision DEF SoloInv
<1>2. ASSUME job.at \in Stages
      PROVE  SoloPlan(Z, L, job.at, job.pl) /\ PlanIn(job.pl, U) /\ OneProtected(CurLayers)
  <2>1. job # NoJob
    BY <1>2 DEF Stages, NoJob
  <2>2. Cur \in job.on /\ PlanIn(job.pl, U)
    BY <1>2, <2>1 DEF SoloInv, OwnInv, SquashInv, JobInv
  <2> QED BY <1>2, <2>1, <2>2 DEF SoloInv, SoloJob, CurLayers
<1>3. {"NvLimits", "ProtectedRotated", "Protected", "Precomp", "Greedy", "finalize"}
         \subseteq Stages
  BY DEF Stages
<1> HIDE DEF U
<1>4. CASE Stage("NvLimits", "ProtectedRotated", PlanStageNvLimits(CurLayers, job.pl))
  <2>1. SoloPlan(Z, L, "NvLimits", job.pl) /\ PlanIn(job.pl, U)
    BY <1>2, <1>3, <1>4 DEF Stage
  <2> QED BY <1>1, <1>3, <1>4, <2>1, NvLimitsSolo, SoloStage
<1>5. CASE Stage("ProtectedRotated", "Protected", PlanStageProtectedRotated(CurLayers, job.pl))
  <2>1. SoloPlan(Z, L, "ProtectedRotated", job.pl) /\ PlanIn(job.pl, U) /\ OneProtected(CurLayers)
    BY <1>2, <1>3, <1>5 DEF Stage
  <2> QED BY <1>1, <1>3, <1>5, <2>1, RotatedSolo, SoloStage
<1>6. CASE Stage("Protected", "Precomp", PlanStageProtected(CurLayers, job.pl))
  <2>1. SoloPlan(Z, L, "Protected", job.pl) /\ PlanIn(job.pl, U)
    BY <1>2, <1>3, <1>6 DEF Stage
  <2> QED BY <1>1, <1>3, <1>6, <2>1, ProtectedSolo, SoloStage
<1>7. CASE Stage("Precomp", "Greedy", PlanStagePrecomp(job.pl))
  <2>1. SoloPlan(Z, L, "Precomp", job.pl) /\ PlanIn(job.pl, U)
    BY <1>2, <1>3, <1>7 DEF Stage
  <2>2. SoloPlan(Z, L, "Greedy", PlanStagePrecomp(job.pl))
    BY <2>1, PrecompSolo
  <2> QED BY <1>1, <1>3, <1>7, <2>2, SoloStage
<1>8. CASE Stage("Greedy", "finalize", PlanStageGreedy(job.pl))
  <2>1. SoloPlan(Z, L, "Greedy", job.pl) /\ PlanIn(job.pl, U)
    BY <1>2, <1>3, <1>8 DEF Stage
  <2>2. SoloPlan(Z, L, "finalize", PlanStageGreedy(job.pl))
    BY <2>1, GreedySolo
  <2> QED BY <1>1, <1>3, <1>8, <2>2, SoloStage
<1> QED BY <1>4, <1>5, <1>6, <1>7, <1>8 DEF ProvisionPlanes

\* Planes without layers join a composition.
LEMMA SoloJoined ==
  ASSUME NEW T, NEW a \in Seq(T), NEW b \in Seq(T), NEW Z, Solo(Z, a),
         \A i \in DOMAIN b : b[i].source = {}
  PROVE  Solo(Z, a \o b)
<1>1. Range(a \o b) = Range(a) \cup Range(b)
  BY ConcatOnce DEF JoinsLists
<1>2. Solo(Z, b)
  BY DEF Solo, Range
<1> QED BY <1>1, <1>2 DEF Solo

\* The step changes the composition of the current display only.
LEMMA SoloGrown ==
  ASSUME SoloJob, job # NoJob, OthersKept, job'.at \notin Stages,
         Cur \in job.on => /\ PlanKept(Cur)
                           /\ Solo(ProtectedLayers(job.layers[Cur]), job'.plan[Cur].comp)
  PROVE  SoloJob'
<1>1. job'.on = job.on /\ job'.layers = job.layers
      /\ \A d \in job.on \ {Cur} : job'.plan[d] = job.plan[d]
  BY DEF OthersKept
<1>2. ASSUME NEW d \in job.on
      PROVE  /\ OneProtected(job'.layers[d])
             /\ Solo(ProtectedLayers(job'.layers[d]), job'.plan[d].comp)
             /\ \A r \in job'.plan[d].stable : r.ids \cap ProtectedLayers(job'.layers[d]) = {}
  <2>1. CASE d = Cur
    BY <1>1, <2>1 DEF SoloJob, PlanKept
  <2>2. CASE d # Cur
    BY <1>1, <2>2 DEF SoloJob
  <2> QED BY <2>1, <2>2
<1> QED BY <1>1, <1>2 DEF SoloJob, OneProtected, Solo, ProtectedLayers

LEMMA SoloFinalize ==
  ASSUME SoloInv, PlanesFit, FinalizeComposition
  PROVE  SoloInv'
<1> DEFINE Z == ProtectedLayers(job.layers[Cur])
           C == PlaneUse(Supported(Cur))
           comp == job.pl.comp
           e == [type |-> "squash", source |-> {}, plane |-> Last(Usable)]
           one == <<e>>
           E == C \cup {e}
<1>1. /\ OwnInv' /\ Finalized /\ Cur \in job.on /\ job.at = "finalize"
      /\ planned' = planned /\ stack' = stack
  BY OwnFinalize, FinalizeStep DEF SoloInv, OwnInv, FinalizeComposition
<1>2. job # NoJob /\ job.at \in Stages /\ JobInv /\ SoloJob
  BY <1>1, JobAt DEF SoloInv, OwnInv, SquashInv, Stages
<1>3. Solo(Z, comp) /\ comp \in Seq(C)
  BY <1>2 DEF SoloJob, SoloPlan, JobInv, PlanIn, CurLayers
<1>4. Solo(Z, WholeComp)
  <2>1. CASE job.plan[Cur].stable = {}
    BY <1>3, <2>1 DEF WholeComp
  <2>2. CASE job.plan[Cur].stable # {}
    <3>1. WholeComp = Append(comp, e)
      BY <2>2 DEF WholeComp
    <3>2. \A i \in DOMAIN one : one[i].source = {}
      OBVIOUS
    <3> HIDE DEF e, C, comp, Z
    <3>3. comp \in Seq(E) /\ one \in Seq(E) /\ Append(comp, e) = comp \o one
      BY <1>3
    <3> HIDE DEF one, E
    <3>4. Solo(Z, comp \o one)
      BY <1>3, <3>2, <3>3, SoloJoined
    <3> QED BY <3>1, <3>3, <3>4
  <2> QED BY <2>1, <2>2
<1>5. OthersKept /\ PlanKept(Cur) /\ job'.plan[Cur].comp = WholeComp /\ job'.at \notin Stages
  BY <1>1 DEF Finalized, ToNext, Stages
<1>6. SoloJob'
  BY <1>2, <1>4, <1>5, SoloGrown
<1> QED BY <1>1, <1>2, <1>6, SoloKept

LEMMA SoloDisable ==
  ASSUME SoloInv, DisableUnusedPlanes
  PROVE  SoloInv'
<1> DEFINE Z == ProtectedLayers(job.layers[Cur])
           C == PlaneUse(DOMAIN Planes)
           comp == job.plan[Cur].comp
           more == Disabled(Off)
<1>1. /\ OwnInv' /\ SwitchedOff /\ job.at = "disable" /\ planned' = planned /\ stack' = stack
  BY OwnDisable, DisableStep DEF SoloInv, OwnInv, DisableUnusedPlanes
<1>2. job # NoJob /\ JobShape /\ SoloJob /\ OwnJob
  BY <1>1, JobAt DEF SoloInv, OwnInv
<1>3. ASSUME Cur \in job.on PROVE Solo(Z, job'.plan[Cur].comp)
  <2>1. Solo(Z, comp) /\ comp \in Seq(C)
    BY <1>2, <1>3 DEF SoloJob, OwnJob
  <2>2. job'.plan[Cur].comp = IF Off = <<>> THEN comp ELSE comp \o more
    BY <1>1, <1>3 DEF SwitchedOff
  <2>3. Off \in Seq(DOMAIN Planes)
    <3>1. Unused(Cur, job.primary, job.overlay) \in Seq(DOMAIN Planes)
      BY <1>2, UnusedOnce DEF JobShape, OwnJob
    <3> QED BY <1>3, <3>1 DEF Off
  <2>4. more \in Seq(Range(more)) /\ \A i \in DOMAIN more : more[i].source = {}
    <3> DEFINE off == Off
               k == Len(off)
    <3>1. k \in Nat /\ DOMAIN off = 1..k /\ more = Disabled(off)
      BY <2>3
    <3> HIDE DEF off, k, more
    <3>2. DOMAIN more = 1..k /\ more \in [1..k -> Range(more)]
      BY <3>1 DEF Disabled, Range
    <3>3. \A i \in DOMAIN more : more[i].source = {}
      BY <3>1, <3>2 DEF Disabled
    <3> QED BY <3>1, <3>2, <3>3
  <2> DEFINE T == C \cup Range(more)
  <2> HIDE DEF comp, more, C, Z
  <2>5. comp \in Seq(T) /\ more \in Seq(T)
    BY <2>1, <2>4
  <2> HIDE DEF T
  <2>6. Solo(Z, comp \o more)
    BY <2>1, <2>4, <2>5, SoloJoined
  <2> QED BY <2>1, <2>2, <2>6
<1>4. OthersKept /\ job'.at \notin Stages /\ (Cur \in job.on => PlanKept(Cur))
  BY <1>1 DEF SwitchedOff, Stages
<1>5. SoloJob'
  BY <1>2, <1>3, <1>4, SoloGrown
<1> QED BY <1>1, <1>2, <1>5, SoloKept

LEMMA SoloRecord ==
  ASSUME SoloInv, PlanesFit, RecordSquash
  PROVE  SoloInv'
<1>1. OwnInv' /\ planned' = planned /\ stack' = stack /\ SquashInv
  BY OwnRecord DEF SoloInv, OwnInv, RecordSquash
<1>2. Cur \in job.on /\ job.at = "history" /\ Usable # <<>> /\ Usable \in Seq(Supported(Cur))
  BY <1>1, RecordStep
<1>3. PlanBegun(NowStable)
  BY <1>1, RecordStep
<1>4. job # NoJob /\ SoloJob
  BY <1>1, <1>2, JobAt DEF SoloInv
<1> DEFINE stable == NowStable
           composite == ToComposite(CurLayers, stable)
           b == stable # {}
           below == IF b THEN Front(Usable) ELSE Usable
           pl == ReservePlanes(composite, b, Usable)
<1>5. \A r \in stable : r.ids \cap ProtectedLayers(CurLayers) = {}
  BY <1>1, <1>2, <1>4, StableUnprotected
<1>6. composite \subseteq DOMAIN CurLayers
  BY DEF ToComposite
<1> HIDE DEF stable, composite, b
<1>7. pl.layers = composite /\ \A x \in Range(pl.comp) : x.source = {}
  <2>1. pl.layers = composite
    BY DEF ReservePlanes
  <2>2. \/ pl.comp = <<>>
        \/ pl.comp = <<[type |-> "precomp", plane |-> Last(below), source |-> {}]>>
    BY DEF ReservePlanes
  <2> HIDE DEF pl, below
  <2>3. \A i \in DOMAIN pl.comp : pl.comp[i].source = {}
    BY <2>2
  <2> QED BY <2>1, <2>3 DEF Range
<1> HIDE DEF pl
<1>8. SoloPlan(ProtectedLayers(CurLayers), DOMAIN CurLayers, "NvLimits", pl)
  BY <1>6, <1>7 DEF SoloPlan, Solo
<1>9. /\ OthersKept /\ job'.at = "NvLimits" /\ job'.n = job.n
      /\ job'.plan[Cur].stable = stable /\ job'.plan[Cur].comp = job.plan[Cur].comp
      /\ job'.pl = pl
  BY <1>3 DEF PlanBegun, stable, b, composite, pl
<1>10. /\ job' # NoJob /\ job'.on = job.on /\ job'.layers = job.layers
       /\ \A d \in job.on \ {Cur} : job'.plan[d] = job.plan[d]
  BY <1>9 DEF OthersKept
<1>11. CurLayers' = CurLayers
  BY <1>9, <1>10 DEF CurLayers, Cur
<1>12. ASSUME NEW d \in job.on
       PROVE  /\ OneProtected(job'.layers[d])
              /\ Solo(ProtectedLayers(job'.layers[d]), job'.plan[d].comp)
              /\ \A r \in job'.plan[d].stable : r.ids \cap ProtectedLayers(job'.layers[d]) = {}
  <2>1. CASE d = Cur
    BY <1>4, <1>5, <1>9, <1>10, <2>1 DEF SoloJob, CurLayers
  <2>2. CASE d # Cur
    BY <1>4, <1>10, <2>2 DEF SoloJob
  <2> QED BY <2>1, <2>2
<1>13. SoloPlan(ProtectedLayers(CurLayers'), DOMAIN CurLayers', job'.at, job'.pl)
  BY <1>8, <1>9, <1>11
<1>14. SoloJob'
  BY <1>10, <1>12, <1>13
     DEF SoloJob, SoloPlan, OneProtected, Solo, ProtectedLayers
<1> QED BY <1>1, <1>4, <1>14, SoloKept

LEMMA HandlesProtected ==
  ASSUME NEW g \in Stack, NEW h
  PROVE  ProtectedLayers(WithHandles(g, h)) = ProtectedLayers(g)
<1> DEFINE w == WithHandles(g, h)
           L(i) == [x \in DOMAIN g[i] \cup {"handle"} |-> IF x = "handle" THEN h[i] ELSE g[i][x]]
<1>1. g \in Seq(LayerType) /\ Len(g) \in Nat /\ DOMAIN g = 1..Len(g)
  BY DEF Stack
<1>2. w = [i \in 1..Len(g) |-> L(i)]
  BY <1>1, Zenon DEF WithHandles
<1>3. ASSUME NEW i \in 1..Len(g) PROVE L(i).protected = g[i].protected
  <2>1. g[i] \in LayerType
    BY <1>1
  <2>2. "protected" \in DOMAIN g[i]
    BY <2>1 DEF LayerType
  <2> QED BY <2>2
<1> HIDE DEF L, w
<1>4. DOMAIN w = 1..Len(g) /\ \A i \in 1..Len(g) : w[i] = L(i)
  BY <1>2
<1> QED BY <1>1, <1>3, <1>4 DEF ProtectedLayers, w

LEMMA SoloSet ==
  ASSUME SoloInv, FollowsFit, FollowsOne, SetLayers
  PROVE  SoloInv'
<1>1. OwnInv' /\ SquashInv /\ planned' = [d \in D |-> NoPlan]
  BY OwnSet DEF SoloInv, OwnInv, SetLayers
<1>2. PICK on, changed, g, h : SetWith(on, changed, g, h)
  BY SetStep
<1>3. /\ on \subseteq D /\ \A d \in changed : g[d] \in Follow(d, stack)
      /\ stack' = [d \in D |-> IF d \in changed THEN g[d] ELSE stack[d]]
  BY <1>2, Zenon DEF SetWith
<1>4. /\ job'.at = "history" /\ job'.on = on /\ job'.plan = [d \in on |-> NoPlan]
      /\ job'.layers = [d \in on |-> WithHandles(stack'[d], h[d])]
  BY <1>2 DEF SetWith
<1>5. \A d \in D : OneProtected(stack'[d])
  <2>1. stack \in [D -> Stack] /\ \A d \in D : OneProtected(stack[d])
    BY <1>1 DEF SquashInv, SoloInv
  <2>2. \A d \in changed : OneProtected(g[d])
    BY <1>2, <1>3, <2>1 DEF FollowsOne, SetWith
  <2> QED BY <1>3, <2>1, <2>2
<1>6. \A d \in D : stack'[d] \in Stack
  BY <1>1 DEF OwnInv, SquashInv
<1>7. ASSUME NEW d \in on
      PROVE  /\ OneProtected(job'.layers[d]) /\ job'.plan[d].comp = <<>>
             /\ job'.plan[d].stable = {}
  <2>1. ProtectedLayers(job'.layers[d]) = ProtectedLayers(stack'[d])
    <3>1. job'.layers[d] = WithHandles(stack'[d], h[d]) /\ stack'[d] \in Stack
      BY <1>3, <1>4, <1>6
    <3> QED BY <3>1, HandlesProtected
  <2>2. OneProtected(stack'[d])
    BY <1>3, <1>5
  <2> QED BY <1>4, <2>1, <2>2 DEF NoPlan, OneProtected
<1>8. job'.at \notin Stages
  BY <1>4 DEF Stages
<1>9. SoloJob'
  <2>1. \A Y : Solo(Y, <<>>)
    BY DEF Solo, Range
  <2>2. \A d \in on : Solo(ProtectedLayers(job'.layers[d]), job'.plan[d].comp)
    BY <1>7, <2>1
  <2> QED BY <1>4, <1>7, <1>8, <2>2 DEF SoloJob, Solo, OneProtected, ProtectedLayers
<1>10. ProtectedApart'
  BY <1>1 DEF ProtectedApart, NoPlan
<1> QED BY <1>1, <1>5, <1>9, <1>10 DEF SoloInv, OneProtected, ProtectedLayers

LEMMA SoloQueue ==
  ASSUME SoloInv, "lost" \notin PlanEnv, QueueComposition
  PROVE  SoloInv'
<1>1. /\ job.at = "queue" /\ job' = NoJob /\ stack' = stack
      /\ planned' = [d \in D |-> IF d \in job.on THEN job.plan[d] ELSE NoPlan]
  BY DEF QueueComposition
<1>2. OwnInv' /\ job # NoJob /\ SoloJob /\ SquashInv
  BY <1>1, OwnQueue, JobAt DEF SoloInv, OwnInv
<1>3. SoloJob'
  BY <1>1 DEF SoloJob
<1>4. \A d \in D : planned'[d].current => d \in job.on /\ planned'[d] = job.plan[d]
  BY <1>1 DEF NoPlan
<1>5. ASSUME NEW d \in job.on, job.plan[d].current
      PROVE  /\ Solo(ProtectedLayers(job.plan[d].layers), job.plan[d].comp)
             /\ \A r \in job.plan[d].stable : r.ids \cap ProtectedLayers(job.plan[d].layers) = {}
  <2>1. d \in D
    BY <1>2 DEF SquashInv, JobInv, JobShape
  <2>2. job.plan[d].layers = job.layers[d]
    BY <1>2, <1>5, <2>1 DEF SquashInv, SquashOf, Recorded, Asked
  <2> QED BY <1>2, <2>2 DEF SoloJob
<1>6. ProtectedApart'
  <2> SUFFICES ASSUME NEW d \in D, planned'[d].current
               PROVE  /\ \A i \in DOMAIN planned'[d].comp :
                           planned'[d].comp[i].source \cap ProtectedLayers(planned'[d].layers) # {}
                             => planned'[d].comp[i].type = "layer"
                      /\ \A r \in planned'[d].stable :
                           r.ids \cap ProtectedLayers(planned'[d].layers) = {}
    BY DEF ProtectedApart, ProtectedLayers
  <2>1. d \in job.on /\ planned'[d] = job.plan[d] /\ job.plan[d].current
    BY <1>4
  <2> QED BY <1>5, <2>1 DEF Solo, Range
<1> QED BY <1>1, <1>2, <1>3, <1>6 DEF SoloInv, OneProtected, ProtectedLayers

LEMMA SoloNext ==
  ASSUME SoloInv, FollowsFit, FollowsOne, PlanesFit, "lost" \notin PlanEnv, [PlanNext]_planvars
  PROVE  SoloInv'
<1>1. CASE UNCHANGED planvars
  <2>1. OwnInv'
    BY OwnNext DEF SoloInv
  <2>2. job' = job /\ planned' = planned /\ stack' = stack
    BY <1>1 DEF planvars
  <2>3. CurLayers' = CurLayers
    BY <2>2 DEF CurLayers, Cur
  <2>4. SoloJob' <=> SoloJob
    BY <2>2, <2>3 DEF SoloJob
  <2>5. ProtectedApart' <=> ProtectedApart
    BY <2>2 DEF ProtectedApart
  <2> QED BY <2>1, <2>2, <2>4, <2>5 DEF SoloInv
<1> QED BY <1>1, SoloSet, SoloRecord, SoloSkip, SoloProvision, SoloFinalize, SoloDisable, SoloQueue
        DEF PlanNext

(***************************************************************************)
(* PlanStageProtectedRotated, PlanStageProtected and GenerateHistory       *)
(* together: whatever planes are left and whatever a plane can scan out,   *)
(* protected content is on a plane of its own or dropped, never in the     *)
(* precomposition or in a squashed region.  Beside what PlanesAreOwned     *)
(* takes, SurfaceFlinger shows at most one protected layer on a display:   *)
(* with two, the upper one rotated, the other joins the precomposition.    *)
(***************************************************************************)
THEOREM ProtectedIsApart ==
  ASSUME FollowsFit, FollowsOne, PlanesFit, "lost" \notin PlanEnv
  PROVE  PlanSpec => []ProtectedApart
<1>1. PlanInit => SoloInv
  BY SoloInit
<1>2. SoloInv /\ [PlanNext]_planvars => SoloInv'
  BY SoloNext
<1>3. SoloInv => ProtectedApart
  BY DEF SoloInv
<1> QED BY <1>1, <1>2, <1>3, PTL DEF PlanSpec
=============================================================================
