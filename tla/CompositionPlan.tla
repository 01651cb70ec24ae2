--------------------------- MODULE CompositionPlan ---------------------------
(***************************************************************************)
(* What hwc_set does with the layers of a frame before the compositor's    *)
(* threads see it: the squash history of every display (SquashState), the  *)
(* planner with the stages of this board (platform.cpp, platformnv.cpp),   *)
(* the cutting of the precomposition into regions and the release fences   *)
(* (drmdisplaycomposition.cpp), and the pools of planes the displays of    *)
(* one composition share (drmcomposition.cpp).  One thread does all of it  *)
(* in a call of QueueComposition; its stages are steps on the variable job.*)
(*                                                                         *)
(* A layer is its index in the frame, 1 being the lowest.  A plane is its  *)
(* index in Planes; the hardware stacks planes in that order.              *)
(***************************************************************************)
EXTENDS SeparateRects

CONSTANTS
  Planes,          \* sequence of [type, crtcs]: DrmResources::planes
  Displays,        \* sequence of displays in the order of their connectors
  MaxLayers,       \* bound on the layers of a display
  Follow(_, _),    \* Follow(d, stack): the stacks display d may change to
  LayerBuffers,         \* LayerBuffers[d][i]: how many buffers layer i takes turns with
  HistoryLength,   \* SquashState::kHistoryLength
  Pixels,          \* the pixels of the screen
  PlanEnv          \* "lost": a planned frame fails in the compositor and is dropped

\* Every plane is a primary or an overlay plane, and no display is listed twice.
ASSUME PlanAssumption ==
  /\ \A i \in DOMAIN Planes : Planes[i].type \in {"primary", "overlay"}
  /\ Planes \in Seq(Range(Planes))
  /\ Displays \in Seq(Range(Displays)) /\ Displays # <<>>
  /\ \A i, j \in DOMAIN Displays : Displays[i] = Displays[j] => i = j
  /\ HistoryLength \in Nat
  /\ Pixels \subseteq Int \X Int

VARIABLES
  stack,           \* the layers SurfaceFlinger showed last, without their buffers
  squash,          \* SquashState of every display
  squash_fb,       \* what its squash framebuffer holds: region -> handles
  planned,         \* the displays' parts of the composition queued last
  job              \* the composition being planned

planvars == <<stack, squash, squash_fb, planned, job>>

D == {Displays[i] : i \in DOMAIN Displays}
NoPlan == [layers |-> <<>>, comp |-> <<>>, regions |-> {}, stable |-> {},
           fence |-> <<>>, current |-> FALSE]

-----------------------------------------------------------------------------
(* SquashState *)

NewSquash == [regions |-> {}, history |-> <<>>, squashed |-> {}, last |-> <<>>, valid |-> 0]

FramesOf(layers) == [i \in DOMAIN layers |-> layers[i].frame]

SquashInit(layers) ==
    LET regions == separate_rects(FramesOf(layers))
    IN  [regions |-> regions, history |-> [r \in regions |-> {}], squashed |-> {},
         last |-> [i \in DOMAIN layers |-> layers[i].handle], valid |-> 0]

\* The regions with a layer whose buffer is not the one of the last frame; a
\* protected layer always counts as changed.
GenerateHistory(s, layers) ==
    IF Len(layers) # Len(s.last) THEN {}
    ELSE {r \in s.regions : \E i \in r.ids : layers[i].protected \/ s.last[i] # layers[i].handle}

is_stable(s, r) == s.valid >= HistoryLength /\ s.history[r] = {}

StableRegions(s, changed) == {r \in s.regions \ changed : is_stable(s, r)}

\* change_history is the set of the ages at which the region changed;
\* valid_history_ is only compared with HistoryLength and stops there.
RecordHistory(s, layers, changed) ==
    IF Len(layers) # Len(s.last) THEN s
    ELSE [s EXCEPT
            !.last = [i \in DOMAIN layers |-> layers[i].handle],
            !.history = [r \in s.regions |->
                {a + 1 : a \in @[r] \ {HistoryLength - 1}} \cup (IF r \in changed THEN {0} ELSE {})],
            !.valid = IF @ < HistoryLength THEN @ + 1 ELSE @]

\* Mutant: the framebuffer is rendered when squashing begins, not when the
\* squashed regions change.
MutantFirstSquash(s, stable) == s.squashed = {} /\ stable # {}

\* Whether the squash framebuffer has to be rendered again.
RecordAndCompareSquashed(s, stable) == s.squashed # stable

-----------------------------------------------------------------------------
(* The planner.  A plan under construction is the composition, the layers *)
(* that have no place yet and the planes that are free.                   *)

GetCrtcSupported(p, d) == d \in Planes[p].crtcs

\* The entries of a sequence at some places, in their order.
EntriesAt(s, places) ==
    LET order == Ascending(places) IN [n \in DOMAIN order |-> s[order[n]]]

GetUsablePlanes(d, primary, overlay) ==
    LET Usable(pool) == EntriesAt(pool, {i \in DOMAIN pool : GetCrtcSupported(pool[i], d)})
    IN  Usable(primary) \o Usable(overlay)

\* What is left of a pool of planes.
Left(pool, used) == EntriesAt(pool, {i \in DOMAIN pool : pool[i] \notin used})

PrecompAt(comp) == {i \in DOMAIN comp : comp[i].type = "precomp"}

Dedicated(layer, plane) == [type |-> "layer", plane |-> plane, source |-> {layer}]

\* As many layers of S as there are planes get one, the lowest layer the lowest
\* plane, right before the precomposition; drop says whether the others are
\* given up.
Emplace(pl, S, drop) ==
    LET order  == Ascending(S)
        k      == IF Cardinality(S) <= Len(pl.planes) THEN Cardinality(S) ELSE Len(pl.planes)
        placed == [n \in 1..k |-> Dedicated(order[n], pl.planes[n])]
        before == EntriesAt(pl.comp, DOMAIN pl.comp \ PrecompAt(pl.comp))
        after  == EntriesAt(pl.comp, PrecompAt(pl.comp))
    IN  [comp |-> before \o placed \o after,
         layers |-> pl.layers \ (IF drop THEN S ELSE {order[n] : n \in 1..k}),
         planes |-> SubSeq(pl.planes, k + 1, Len(pl.planes))]

\* The layers of S join the precomposition, which takes the highest free plane
\* when it has none yet; without a plane they are dropped.
ToPrecomp(pl, S) ==
    LET Join(c) == IF c.type = "precomp" THEN [c EXCEPT !.source = @ \cup S] ELSE c
    IN  IF S = {} THEN pl
        ELSE IF PrecompAt(pl.comp) # {}
        THEN [comp |-> [i \in DOMAIN pl.comp |-> Join(pl.comp[i])],
              layers |-> pl.layers \ S, planes |-> pl.planes]
        ELSE IF pl.planes = <<>> THEN [pl EXCEPT !.layers = @ \ S]
        ELSE [comp |-> Append(pl.comp, [type |-> "precomp", plane |-> Last(pl.planes), source |-> S]),
              layers |-> pl.layers \ S, planes |-> Front(pl.planes)]

\* What the Tegra display controller can scan out: premultiplied alpha above
\* the lowest layer, and limits on scaling down.
CheckLayer(l, layer) ==
    LET w == layer.frame.right - layer.frame.left
        h == layer.frame.bottom - layer.frame.top
        dst == IF layer.rotated THEN <<h, w>> ELSE <<w, h>>
        v_limit == IF layer.format = "yuv" THEN 4 ELSE 2
    IN  /\ layer.format = "rgb" /\ l > 1 => layer.premult
        /\ layer.src[1] <= 4 * dst[1] /\ layer.src[2] <= v_limit * dst[2]

\* What it cannot scan out is precomposed, or dropped when it is protected.
PlanStageNvLimits(layers, pl) ==
    LET bad == {l \in pl.layers : ~CheckLayer(l, layers[l])}
        drop == {l \in bad : layers[l].protected}
    IN  ToPrecomp([pl EXCEPT !.layers = @ \ drop], bad \ drop)

\* Mutant: the layers below protected content keep their planes.
MutantNoHole(pl, placed) == pl

\* The layers below the highest protected one join the precomposition, which
\* gets a hole for it.
BelowProtected(pl, placed) == ToPrecomp(pl, {l \in pl.layers : \E p \in placed : l < p})

\* A protected layer that is rotated needs the primary plane, and goes to the
\* front of the composition.
PlanStageProtectedRotated(layers, pl) ==
    LET mine  == Ascending({l \in pl.layers : layers[l].protected /\ layers[l].rotated})
        prim  == EntriesAt(pl.planes, {i \in DOMAIN pl.planes : Planes[pl.planes[i]].type = "primary"})
        k     == IF Len(mine) <= Len(prim) THEN Len(mine) ELSE Len(prim)
    IN  BelowProtected(
          [comp |-> [n \in 1..k |-> Dedicated(mine[k + 1 - n], prim[k + 1 - n])] \o pl.comp,
           layers |-> pl.layers \ Range(mine),
           planes |-> Left(pl.planes, {prim[n] : n \in 1..k})],
          {mine[n] : n \in 1..k})

PlanStageProtected(layers, pl) ==
    LET mine == {l \in pl.layers : layers[l].protected}
    IN  BelowProtected(Emplace(pl, mine, TRUE), mine)

\* Whatever is above a layer of the precomposition joins it, because the
\* precomposition is shown above the dedicated planes.
PlanStagePrecomp(pl) ==
    LET source == UNION {pl.comp[i].source : i \in PrecompAt(pl.comp)}
    IN  ToPrecomp(pl, {l \in pl.layers : \E s \in source : s <= l})

\* As many layers as there are planes, the rest into the precomposition.
PlanStageGreedy(pl) ==
    LET done == Emplace(pl, pl.layers, FALSE)
    IN  IF PrecompAt(done.comp) = {} THEN done ELSE ToPrecomp(done, done.layers)

\* Before the stages: the squash plane is the highest, and the precomposition
\* gets the next one when there are more layers than planes.
ReservePlanes(composite, use_squash, usable) ==
    LET below == IF use_squash THEN Front(usable) ELSE usable
        short == Cardinality(composite) > Len(below) /\ below # <<>>
    IN  [comp |-> IF short THEN <<[type |-> "precomp", plane |-> Last(below), source |-> {}]>> ELSE <<>>,
         layers |-> composite, planes |-> IF short THEN Front(below) ELSE below]

-----------------------------------------------------------------------------
(* The regions of the precomposition and the release fences *)

\* exclude are the squashed rectangles, which come first in the list that is
\* separated; then the layers on dedicated planes below the precomposition,
\* then its own.  When they are too many, the excluded ones are truncated, but
\* the list keeps its length (the tail of the gap is empty rectangles).
SeparateLayers(layers, comp, exclude) ==
    IF PrecompAt(comp) = {} THEN {}
    ELSE
    LET at      == CHOOSE i \in PrecompAt(comp) : TRUE
        mine    == Ascending(comp[at].source)
        below   == {i \in 1..at - 1 : comp[i].type = "layer"}
        dedicated == [n \in 1..Cardinality(below) |-> CHOOSE l \in comp[Ascending(below)[n]].source : TRUE]
        offset  == Len(exclude) + Len(dedicated)
        kept    == IF Len(mine) + offset > MaxIds
                   THEN MaxIds - Len(mine) - Len(dedicated) ELSE Len(exclude)
        rects   == [i \in 1..offset + Len(mine) |->
                      IF i <= kept THEN exclude[i]
                      ELSE IF i <= kept + Len(dedicated) THEN layers[dedicated[i - kept]].frame
                      ELSE IF i <= offset THEN Rect(0, 0, 0, 0)
                      ELSE layers[mine[i - offset]].frame]
        \* the layers of the precomposition drawn in a region: not those below
        \* a dedicated layer that meets the region
        Drawn(ids) == {mine[i - offset] : i \in {j \in ids : j > offset}} \
                      {l \in comp[at].source : \E i \in (ids \cap (kept + 1)..(kept + Len(dedicated))) :
                                                    l < dedicated[i - kept]}
    IN  IF Len(mine) > MaxIds THEN {}
        ELSE {[rect |-> r.rect, source |-> Drawn(r.ids)] :
                r \in {q \in separate_rects(rects) : q.ids \cap 1..kept = {} /\ Drawn(q.ids) # {}}}

\* The fence a layer ends up with, by the phase of the timeline it belongs to:
\* a later Set closes the earlier fence.
CreateAndAssignReleaseFences(layers, comp, regions, rendered) ==
    LET squashed == UNION {r.ids : r \in rendered}
        drawn    == UNION {r.source : r \in regions}
        direct   == UNION {comp[i].source : i \in {j \in DOMAIN comp : comp[j].type = "layer"}}
    IN  [l \in DOMAIN layers |-> CASE l \in direct -> "comp" [] l \in drawn -> "pre_comp"
                                    [] l \in squashed -> "squash" [] OTHER -> "none"]

\* A layer is planned for unless stable regions cover all of it.
ToComposite(layers, stable) ==
    LET SquashArea(l) == MapThenSumSet(LAMBDA r : Area(r.rect), {r \in stable : l \in r.ids})
    IN  {l \in DOMAIN layers : SquashArea(l) < Area(layers[l].frame)}

\* The rectangles of regions, which do not overlap, from left to right and top
\* to bottom.
Listed(regions) ==
    LET Before(q, r) == \/ q.rect.left < r.rect.left
                        \/ q.rect.left = r.rect.left /\ q.rect.top < r.rect.top
    IN  [n \in 1..Cardinality(regions) |->
           (CHOOSE r \in regions : Cardinality({q \in regions : Before(q, r)}) = n - 1).rect]

-----------------------------------------------------------------------------
(* DrmComposition: the displays share the pools of planes *)

PlanesOf(type) == Left([i \in DOMAIN Planes |-> i], {i \in DOMAIN Planes : Planes[i].type # type})

UsedPlanes(comp) == {comp[i].plane : i \in DOMAIN comp}

TakePlanes(pool, comp) == Left(pool, UsedPlanes(comp))

\* A display with a frame disables what nobody took: one primary plane and all
\* the overlays its CRTC supports.
Unused(d, primary, overlay) ==
    LET prim == GetUsablePlanes(d, primary, <<>>)
    IN  (IF prim = <<>> THEN <<>> ELSE <<Head(prim)>>) \o GetUsablePlanes(d, <<>>, overlay)

NoJob == [at |-> "idle"]

PlanInit ==
  /\ stack = [d \in D |-> <<>>]
  /\ squash = [d \in D |-> NewSquash]
  /\ squash_fb = [d \in D |-> <<>>]
  /\ planned = [d \in D |-> NoPlan]
  /\ job = NoJob

\* A layer with the buffer of this frame.
WithHandles(layers, h) ==
    [i \in DOMAIN layers |-> [x \in DOMAIN layers[i] \cup {"handle"} |->
                                IF x = "handle" THEN h[i] ELSE layers[i][x]]]

HandlesOf(layers, r) == [l \in r.ids |-> layers[l].handle]

\* hwc_set has contents for the displays of on: a new stack of layers for those
\* of changed, the last one for the others.
SetLayers ==
  /\ job.at = "idle"
  /\ \E on \in (SUBSET D) \ {{}}, changed \in SUBSET D :
      /\ changed \subseteq on
      /\ \A d \in on \ changed : stack[d] # <<>>
      /\ \A d \in changed : Follow(d, stack) # {}
      /\ \E g \in [changed -> UNION {Follow(d, stack) : d \in changed}] :
          /\ \A d \in changed : g[d] \in Follow(d, stack)
          /\ stack' = [d \in D |-> IF d \in changed THEN g[d] ELSE stack[d]]
      /\ \E h \in [on -> [1..MaxLayers -> 1..2]] :
          /\ \A d \in on, i \in 1..MaxLayers : h[d][i] <= LayerBuffers[d][i]
          /\ job' = [at |-> "history", n |-> 1, on |-> on, changed |-> changed,
                     layers |-> [d \in on |-> WithHandles(stack'[d], h[d])],
                     plan |-> [d \in on |-> NoPlan], rendered |-> [d \in on |-> {}],
                     primary |-> PlanesOf("primary"), overlay |-> PlanesOf("overlay"), pl |-> <<>>]
  /\ planned' = [d \in D |-> NoPlan]
  /\ UNCHANGED <<squash, squash_fb>>

Cur == Displays[job.n]
CurLayers == job.layers[Cur]

\* The display after the current one, then the disabling of unused planes.
PlanNextDisplay(j) == IF j.n < Len(Displays) THEN [j EXCEPT !.at = "history", !.n = @ + 1, !.pl = <<>>]
                  ELSE [j EXCEPT !.at = "disable", !.n = 1, !.pl = <<>>]

\* Plan, first part: the squash history of the display and the planes to plan
\* with.  Without a usable plane the whole composition fails, history and all.
RecordSquash ==
  /\ job.at = "history" /\ Cur \in job.on
  /\ \E changed \in {GenerateHistory(squash[Cur], CurLayers)}, s \in {squash[Cur]} :
     \E stable \in {IF Cur \in job.changed THEN {} ELSE StableRegions(s, changed)} :
     \E usable \in {GetUsablePlanes(Cur, job.primary, job.overlay)} :
      /\ squash' = [squash EXCEPT ![Cur] =
            IF Cur \in job.changed THEN SquashInit(CurLayers)
            ELSE [RecordHistory(s, CurLayers, changed) EXCEPT !.squashed = stable]]
      /\ IF usable = <<>> THEN job' = NoJob
         ELSE job' = [job EXCEPT
            !.at = "NvLimits",
            !.plan[Cur].layers = CurLayers, !.plan[Cur].stable = stable, !.plan[Cur].current = TRUE,
            !.rendered[Cur] = IF Cur \notin job.changed /\ RecordAndCompareSquashed(s, stable)
                              THEN stable ELSE {},
            !.pl = ReservePlanes(ToComposite(CurLayers, stable), stable # {}, usable)]
  /\ UNCHANGED <<stack, squash_fb, planned>>

\* A display that hwc_set has nothing for is left alone.
SkipDisplay ==
  /\ job.at = "history" /\ Cur \notin job.on
  /\ job' = PlanNextDisplay(job)
  /\ UNCHANGED <<stack, squash, squash_fb, planned>>

\* The stages of the planner, in the order of Planner::CreateInstance.
Stage(name, next, pl) ==
  /\ job.at = name
  /\ job' = [job EXCEPT !.at = next, !.pl = pl]
  /\ UNCHANGED <<stack, squash, squash_fb, planned>>

ProvisionPlanes ==
  \/ Stage("NvLimits", "ProtectedRotated", PlanStageNvLimits(CurLayers, job.pl))
  \/ Stage("ProtectedRotated", "Protected", PlanStageProtectedRotated(CurLayers, job.pl))
  \/ Stage("Protected", "Precomp", PlanStageProtected(CurLayers, job.pl))
  \/ Stage("Precomp", "Greedy", PlanStagePrecomp(job.pl))
  \/ Stage("Greedy", "finalize", PlanStageGreedy(job.pl))

\* Plan, last part: the squash plane, the pools, the regions and the fences.
FinalizeComposition ==
  /\ job.at = "finalize"
  /\ \E stable \in {job.plan[Cur].stable} :
     \E comp \in {IF stable = {} THEN job.pl.comp
                  ELSE Append(job.pl.comp, [type |-> "squash", source |-> {},
                                plane |-> Last(GetUsablePlanes(Cur, job.primary, job.overlay))])} :
     \E regions \in {SeparateLayers(CurLayers, comp, Listed(stable))} :
       job' = PlanNextDisplay([job EXCEPT
                !.plan[Cur].comp = comp, !.plan[Cur].regions = regions,
                !.plan[Cur].fence = CreateAndAssignReleaseFences(CurLayers, comp, regions, job.rendered[Cur]),
                !.primary = TakePlanes(@, comp), !.overlay = TakePlanes(@, comp)])
  /\ UNCHANGED <<stack, squash, squash_fb, planned>>

DisableUnusedPlanes ==
  /\ job.at = "disable"
  /\ \E off \in {IF Cur \in job.on THEN Unused(Cur, job.primary, job.overlay) ELSE <<>>} :
     \E rest \in {[job EXCEPT !.primary = Left(@, Range(off)), !.overlay = Left(@, Range(off)),
                    !.at = IF job.n < Len(Displays) THEN "disable" ELSE "queue",
                    !.n = IF job.n < Len(Displays) THEN @ + 1 ELSE @]} :
       job' = IF off = <<>> THEN rest
              ELSE [rest EXCEPT !.plan[Cur].comp = @ \o
                      [i \in DOMAIN off |-> [type |-> "disable", plane |-> off[i], source |-> {}]]]
  /\ UNCHANGED <<stack, squash, squash_fb, planned>>

\* The compositors of the displays take the frames over.  One that refuses its
\* frame (the display is off) or fails to render it never renders the squash
\* framebuffer, but the regions stay recorded.
QueueComposition ==
  /\ job.at = "queue"
  /\ \E taken \in IF "lost" \in PlanEnv THEN BOOLEAN ELSE {TRUE} :
      IF taken
      THEN /\ planned' = [d \in D |-> IF d \in job.on THEN job.plan[d] ELSE NoPlan]
           /\ squash_fb' = [d \in D |-> IF d \notin job.on \/ job.rendered[d] = {} THEN squash_fb[d]
                              ELSE [r \in job.rendered[d] |-> HandlesOf(job.layers[d], r)]]
      ELSE UNCHANGED <<planned, squash_fb>>
  /\ job' = NoJob
  /\ UNCHANGED <<stack, squash>>

PlanNext == \/ SetLayers \/ RecordSquash \/ SkipDisplay \/ ProvisionPlanes \/ FinalizeComposition
            \/ DisableUnusedPlanes \/ QueueComposition

PlanSpec == PlanInit /\ [][PlanNext]_planvars

-----------------------------------------------------------------------------
(* Properties *)

\* What the planes of display d show at pixel p, from the bottom up: the layers
\* on dedicated planes, the precomposition's and the squash framebuffer's, in
\* the order the hardware stacks the planes.
PlaneShows(plan, c, p) ==
    CASE c.type = "layer" -> {l \in c.source : Covers(plan.layers[l].frame, p)}
      [] c.type = "precomp" -> UNION {r.source : r \in {q \in plan.regions : Covers(q.rect, p)}}
      [] c.type = "squash" -> UNION {r.ids : r \in {q \in plan.stable : Covers(q.rect, p)}}
      [] OTHER -> {}

(***************************************************************************)
(* The displays of one composition use disjoint planes, each plane once:   *)
(* "This ensures they won't be reused by another display".                 *)
(***************************************************************************)
PlanesOwned ==
  \A d, e \in D : planned[d].current /\ planned[e].current =>
    \A i \in DOMAIN planned[d].comp, j \in DOMAIN planned[e].comp :
      planned[d].comp[i].plane = planned[e].comp[j].plane => d = e /\ i = j

\* The layers with content that must not be read back or drawn by the GPU.
ProtectedLayers(layers) == {l \in DOMAIN layers : layers[l].protected}

(***************************************************************************)
(* Protected content is only ever on a plane of its own: no stage of the   *)
(* planner puts it into the precomposition and no region with it is        *)
(* squashed, because the GPU draws both.                                   *)
(***************************************************************************)
ProtectedApart ==
  \A d \in D : planned[d].current =>
    LET plan == planned[d]
    IN  /\ \A i \in DOMAIN plan.comp :
             plan.comp[i].source \cap ProtectedLayers(plan.layers) # {} => plan.comp[i].type = "layer"
        /\ \A r \in plan.stable : r.ids \cap ProtectedLayers(plan.layers) = {}

(***************************************************************************)
(* ProvisionPlanes and SeparateLayers together keep the picture: every     *)
(* plane is used once; at every pixel the planes show the layers in their  *)
(* order (a squashed region, which is opaque and topmost, apart), every    *)
(* layer above the protected content is there, protected content is only   *)
(* ever on a plane of its own, and only a protected layer is dropped.      *)
(***************************************************************************)
StackShown ==
  /\ PlanesOwned /\ ProtectedApart
  /\ \A d \in D : planned[d].current =>
       LET plan == planned[d]
           comp == plan.comp
           At(i, p) == PlaneShows(plan, comp[i], p)
           Over(p) == {l \in DOMAIN plan.layers : Covers(plan.layers[l].frame, p)}
           Prot == ProtectedLayers(plan.layers)
       IN  \A p \in Pixels :
             LET shown == UNION {At(i, p) : i \in DOMAIN comp}
                 squashed == \E r \in plan.stable : Covers(r.rect, p)
             IN  /\ ~squashed => \A i, j \in DOMAIN comp : comp[i].plane < comp[j].plane =>
                        \A l \in At(i, p), m \in At(j, p) : l < m
                 /\ \A l \in Over(p) \ Prot :
                        l \in shown \/ \E m \in shown \cap Prot : l < m

(***************************************************************************)
(* The regions of the squash history are the separation of the layers'    *)
(* frames, and one is taken from the squash framebuffer only when the      *)
(* framebuffer holds the buffers its layers have now: a region that        *)
(* changed is not stable, and a region that becomes squashed is rendered   *)
(* first.                                                                  *)
(***************************************************************************)
SquashFresh ==
  \A d \in D : planned[d].current =>
    /\ Separated(FramesOf(stack[d]), squash[d].regions, Pixels)
    /\ \A r \in planned[d].stable :
         r \in DOMAIN squash_fb[d] /\ squash_fb[d][r] = HandlesOf(planned[d].layers, r)

=============================================================================
