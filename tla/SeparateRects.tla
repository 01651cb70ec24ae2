---------------------------- MODULE SeparateRects ----------------------------
(***************************************************************************)
(* The line sweep of separate_rects.cpp, which cuts overlapping rectangles *)
(* into disjoint ones, each with the set of the rectangles that cover it.  *)
(* A rectangle is a record of its four edges, an id set a set of indices;  *)
(* the order of the result is of no interest to its callers, so it is a    *)
(* set here.                                                               *)
(***************************************************************************)
EXTENDS Integers, Sequences, FiniteSets, SequencesExt

CONSTANT MaxIds       \* IdSet::max_elements, 64 in the code

ASSUME MaxIdsAssumption == MaxIds \in Nat \ {0}

Rect(l, t, r, b) == [left |-> l, top |-> t, right |-> r, bottom |-> b]

Empty(r) == r.left >= r.right \/ r.top >= r.bottom

Area(r) == (r.right - r.left) * (r.bottom - r.top)

\* The elements of a set of numbers in order.
Ascending(S) == [n \in 1..Cardinality(S) |-> CHOOSE x \in S : Cardinality({y \in S : y < x}) = n - 1]

\* The edges where the sweep stops, from left to right.
Stops(in) ==
    LET ids == {i \in DOMAIN in : ~Empty(in[i])}
    IN  Ascending({in[i].left : i \in ids} \cup {in[i].right : i \in ids})

\* active_regions at the stop x: the sweep line is cut at the edges of the
\* rectangles it crosses.
ActiveRegions(in, x) ==
    LET ids == {i \in DOMAIN in : ~Empty(in[i]) /\ in[i].left <= x /\ x < in[i].right}
        ys  == {in[i].top : i \in ids} \cup {in[i].bottom : i \in ids}
        At(y) == {i \in ids : in[i].top <= y /\ y < in[i].bottom}
    IN  {[ids |-> At(y[1]), top |-> y[1], bottom |-> y[2]] :
            y \in {z \in ys \X ys : /\ z[1] < z[2]
                                    /\ ~ \E w \in ys : z[1] < w /\ w < z[2]
                                    /\ At(z[1]) # {}}}

\* A started rectangle is found again by everything but its left edge.
Key(s) == <<s.top, s.bottom, s.ids>>

\* One stop: the started rectangles that are not seen any more are output
\* with x as their right edge, the new ones start at x.
Sweep(in, swept, x) ==
    LET regions == ActiveRegions(in, x)
        seen    == {s \in swept.started : \E k \in regions : Key(k) = Key(s)}
        begun   == {k \in regions : \A s \in swept.started : Key(s) # Key(k)}
    IN  [started |-> seen \cup {[ids |-> k.ids, top |-> k.top, bottom |-> k.bottom,
                                 left |-> x] : k \in begun},
         out |-> swept.out \cup {[ids |-> s.ids, rect |-> Rect(s.left, s.top, x, s.bottom)] :
                                    s \in swept.started \ seen}]

separate_rects(in) ==
    IF Len(in) > MaxIds THEN {}
    ELSE LET stops == Stops(in)
             swept[n \in 0..Len(stops)] ==
                 IF n = 0 THEN [started |-> {}, out |-> {}]
                 ELSE Sweep(in, swept[n - 1], stops[n])
         IN  swept[Len(stops)].out

(***************************************************************************)
(* The reference: "mutually non-overlapping rectangles that cover the      *)
(* exact same area", each with the inputs that overlap it.                 *)
(***************************************************************************)
Covers(r, p) == r.left <= p[1] /\ p[1] < r.right /\ r.top <= p[2] /\ p[2] < r.bottom

Separated(in, out, pixels) ==
    \A p \in pixels :
        LET over == {i \in DOMAIN in : Covers(in[i], p)}
            here == {o \in out : Covers(o.rect, p)}
        IN  IF over = {} THEN here = {}
            ELSE Cardinality(here) = 1 /\ \A o \in here : o.ids = over
=============================================================================
