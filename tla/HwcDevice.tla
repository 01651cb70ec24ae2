----------------------------- MODULE HwcDevice ------------------------------
(***************************************************************************)
(* The frame entry points of hwcomposer.cpp: hwc_prepare and hwc_set, the  *)
(* file descriptors of fences they take and hand back, and the import of   *)
(* the buffers they queue (NvImporter).                                    *)
(*                                                                         *)
(* SurfaceFlinger calls prepare and set from one thread; compositor        *)
(* threads and gralloc drop references beside it.  A frame of a display is *)
(* a sequence of layers [type, skip, handle, seen], seen meaning that some *)
(* of it lies on the screen.  A fence is known by where it came from:      *)
(* "unset" (-1), "dummy" (signalled at once) or "done" (the composition's  *)
(* timeline).  The virtual display is VirtualCompositorWorker's.           *)
(***************************************************************************)
EXTENDS NvImporter, Integers, Sequences, FiniteSets, SequencesExt

CONSTANTS
  HwcDisplays,     \* the displays with a connector, numbers from 0
  Frames,          \* what SurfaceFlinger may ask a display to show
  MaxFrames,       \* bound on the frames asked for
  HwcEnv           \* "copy", "create", "fence", "inactive", "merge": what may fail

\* SurfaceFlinger asks for frames with one target, which it does not skip, and
\* for no overlay: those are prepare's to choose.
Layer == [type : {"framebuffer", "target", "overlay", "background", "sideband", "cursor"},
          skip : BOOLEAN, handle : Handles \cup {NoBuf}, seen : BOOLEAN]
ASSUME FramesAssumption ==
  \A f \in Frames :
    /\ f \in Seq(Layer)
    /\ \A j \in DOMAIN f : f[j].type # "overlay"
    /\ \E t \in DOMAIN f : ~f[t].skip /\ \A j \in DOMAIN f : f[j].type = "target" <=> j = t

NoFrame == <<>>    \* display_contents[i] == NULL

\* A retire fence: none, a signalled one, or the merge of the releases of set.
NoFence == [kind |-> "unset", of |-> {}]
DummyFence == [kind |-> "dummy", of |-> {}]
Merged(set) == IF set = {} THEN NoFence ELSE [kind |-> "merged", of |-> set]

VARIABLES
  at,              \* where the caller is: "idle", "set", ..., "return"
  contents,        \* contents[d]: the layers, or NoFrame
  acquire,         \* acquire[d]: the layers whose acquire fence HWC has taken
  release,         \* release[d][j]: releaseFenceFd
  retire,          \* retire[d]: the releases merged into retireFenceFd, or a fence
  indices,         \* indices[d]: indices_to_composite
  todo_import,     \* the layers <<d, j>> still to be imported
  imported,        \* imported[d]: the objects imported for display d
  used,            \* used[d]: the layers the plan of display d reads
  onscreen,        \* the displays whose frame was queued by this call
  ret,             \* what the call will return
  frame_count

hwcvars == <<at, contents, acquire, release, retire, indices, todo_import, imported,
             used, onscreen, ret, frame_count>>
devvars == <<hwcvars, nvvars>>

HwcInit ==
  /\ NvInit
  /\ at = "idle"
  /\ contents = [d \in HwcDisplays |-> NoFrame]
  /\ acquire = [d \in HwcDisplays |-> {}]
  /\ release = [d \in HwcDisplays |-> <<>>]
  /\ retire = [d \in HwcDisplays |-> NoFence]
  /\ indices = [d \in HwcDisplays |-> <<>>]
  /\ todo_import = <<>>
  /\ imported = [d \in HwcDisplays |-> <<>>]
  /\ used = [d \in HwcDisplays |-> {}]
  /\ onscreen = {}
  /\ ret = 0
  /\ frame_count = 0

-----------------------------------------------------------------------------
Skips(f) == {j \in DOMAIN f : f[j].skip}

\* hwc_skip_layer: j lies between the first and the last skip layer.
hwc_skip_layer(f, j) == \E a, b \in Skips(f) : a <= j /\ j <= b

\* hwc_prepare hands the layers around skip layers back to SurfaceFlinger.
\* It turns no layer into an overlay.
hwc_prepare(f) ==
  [j \in DOMAIN f |->
     IF hwc_skip_layer(f, j) /\ f[j].type \in {"overlay", "background", "sideband", "cursor"}
       THEN [f[j] EXCEPT !.type = "framebuffer"] ELSE f[j]]

\* SurfaceFlinger then composes the framebuffer layers into the target,
\* which has no buffer when there are none (external).
Composed(f, h) ==
  [j \in DOMAIN f |->
     IF f[j].type = "target" /\ \E k \in DOMAIN f : f[k].type = "framebuffer"
       THEN [f[j] EXCEPT !.handle = h] ELSE f[j]]

Prepare ==
  /\ at = "idle"
  /\ frame_count < MaxFrames
  /\ frame_count' = frame_count + 1
  /\ \E asked \in [HwcDisplays -> Frames \cup {NoFrame}], h \in [HwcDisplays -> Handles] :
       /\ \A d, e \in HwcDisplays : d # e => h[d] # h[e]
       /\ contents' = [d \in HwcDisplays |-> Composed(hwc_prepare(asked[d]), h[d])]
  /\ release' = [d \in HwcDisplays |-> [j \in DOMAIN contents'[d] |-> "unset"]]
  /\ retire' = [d \in HwcDisplays |-> NoFence]
  /\ acquire' = [d \in HwcDisplays |-> {}]
  /\ indices' = [d \in HwcDisplays |-> <<>>]
  /\ imported' = [d \in HwcDisplays |-> <<>>]
  /\ used' = [d \in HwcDisplays |-> {}]
  /\ onscreen' = {}
  /\ ret' = 0
  /\ at' = "set"
  /\ UNCHANGED <<todo_import, nvvars>>

\* framebuffer_target_index, 0 for none
Target(f) == IF \E j \in DOMAIN f : f[j].type = "target"
               THEN CHOOSE j \in DOMAIN f : /\ f[j].type = "target"
                                            /\ \A k \in 1..(j - 1) : f[k].type # "target"
               ELSE 0
Valid(f, j) == f[j].handle # NoBuf /\ ~f[j].skip

\* Which layers to composite: overlays, the target in place of the first
\* skip layer, or the target alone when nothing else is there.
indices_to_composite(f) ==
  LET t == Target(f)
      first(j) == j \in Skips(f) /\ \A k \in Skips(f) : j <= k
      pick(j) == IF first(j) /\ t > 0 /\ Valid(f, t) THEN <<t>>
                 ELSE IF ~f[j].skip /\ f[j].type = "overlay" THEN <<j>> ELSE <<>>
      picked_layers == FlattenSeq([j \in DOMAIN f |-> pick(j)])
  IN IF picked_layers = <<>> /\ Skips(f) = {} /\ t > 0 THEN <<t>> ELSE picked_layers

Pairs(d, s) == [i \in DOMAIN s |-> <<d, s[i]>>]

\* Phase one of hwc_set takes the fences of every layer but skip layers.
PhaseOne ==
  /\ at = "set"
  /\ acquire' = [d \in HwcDisplays |-> DOMAIN contents[d] \ Skips(contents[d])]
  /\ indices' = [d \in HwcDisplays |-> indices_to_composite(contents[d])]
  /\ LET invalid == \E d \in HwcDisplays : \E j \in DOMAIN contents[d] :
                      /\ <<j>> = indices'[d] /\ Skips(contents[d]) = {}
                      /\ contents[d][j].type = "target" /\ ~Valid(contents[d], j)
     IN /\ at' = IF invalid THEN "return" ELSE "import"
        /\ ret' = IF invalid THEN -22 ELSE 0
        /\ todo_import' = IF invalid THEN <<>>
             ELSE FlattenSeq([i \in 1..Cardinality(HwcDisplays) |-> Pairs(i - 1, indices'[i - 1])])
  /\ UNCHANGED <<contents, release, retire, imported, used, onscreen, frame_count, nvvars>>

Fail == at' = "return" /\ ret' = -22 /\ todo_import' = <<>>

\* InitFromHwcLayer: the import, then the copy of the handle.
ImportLayer ==
  /\ at = "import" /\ todo_import # <<>>
  /\ LET d == Head(todo_import)[1]
         h == contents[d][Head(todo_import)[2]].handle
     IN \/ /\ ImportBuffer(h) \/ ImportStep
           /\ UNCHANGED hwcvars
        \/ /\ Importing("failed") /\ ImportDone
           /\ Fail
           /\ UNCHANGED <<contents, acquire, release, retire, indices, imported, used, onscreen,
                          frame_count>>
        \/ /\ Importing("ok") /\ ImportDone
           /\ imported' = [imported EXCEPT ![d] = Append(@, imp.n)]
           /\ \/ todo_import' = Tail(todo_import) /\ UNCHANGED <<at, ret>>
              \/ "copy" \in HwcEnv /\ Fail
           /\ UNCHANGED <<contents, acquire, release, retire, indices, used, onscreen, frame_count>>

\* CreateComposition and SetLayers, which cannot fail on a new composition.
CreateComposition ==
  /\ at = "import" /\ todo_import = <<>>
  /\ \/ at' = "plan" /\ UNCHANGED <<ret, todo_import>>
     \/ "create" \in HwcEnv /\ Fail
  /\ UNCHANGED <<contents, acquire, release, retire, indices, imported, used, onscreen, frame_count,
                 nvvars>>

\* Plan of every display: CreateAndAssignReleaseFences gives each layer that
\* is read a fence of the composition, until the creation of one fails.  A
\* layer that lies in regions squashed before is not read (CompositionPlan).
Fenced(d, read) == [j \in DOMAIN release[d] |-> IF j \in read THEN "done" ELSE release[d][j]]

Plan ==
  /\ at = "plan"
  /\ used' \in {u \in [HwcDisplays -> SUBSET UNION {ToSet(indices[d]) : d \in HwcDisplays}] :
                \A d \in HwcDisplays : u[d] \subseteq ToSet(indices[d])}
  /\ \/ /\ release' = [d \in HwcDisplays |-> Fenced(d, used'[d])]
        /\ at' = "queue" /\ UNCHANGED <<ret, todo_import>>
     \/ /\ "fence" \in HwcEnv
        /\ \E upto \in HwcDisplays :
             release' = [d \in HwcDisplays |-> Fenced(d, IF d < upto THEN used'[d] ELSE {})]
        /\ Fail
  /\ UNCHANGED <<contents, acquire, retire, indices, imported, onscreen, frame_count, nvvars>>

\* DrmCompositor::QueueComposition, one display after the other; the layers
\* of a display move into its frame one by one.  A display that is off
\* refuses a frame, which ends the call.
NextDisplay(d) == \A e \in HwcDisplays : e < d => e \in onscreen
QueueDisplay ==
  /\ at = "queue"
  /\ \E d \in HwcDisplays \ onscreen :
       /\ NextDisplay(d)
       /\ \/ /\ imported[d] # <<>>
             /\ HandOver(Head(imported[d]))
             /\ imported' = [imported EXCEPT ![d] = Tail(@)]
             /\ UNCHANGED <<at, ret, onscreen, todo_import>>
          \/ /\ imported[d] = <<>>
             /\ onscreen' = onscreen \cup {d}
             /\ at' = IF onscreen' = HwcDisplays THEN "retire" ELSE at
             /\ UNCHANGED <<ret, imported, todo_import, nvvars>>
          \/ /\ "inactive" \in HwcEnv
             /\ contents[d] # NoFrame /\ Len(imported[d]) = Len(indices[d])
             /\ Fail
             /\ UNCHANGED <<imported, onscreen, nvvars>>
  /\ UNCHANGED <<contents, acquire, release, retire, indices, used, frame_count>>

\* hwc_add_layer_to_retire_fence over all layers.
hwc_add_layer_to_retire_fence(d) ==
  Merged({j \in DOMAIN contents[d] : ~contents[d][j].skip /\ release[d][j] # "unset"})

Retire ==
  /\ at = "retire"
  /\ \/ retire' = [d \in HwcDisplays |-> hwc_add_layer_to_retire_fence(d)]
     \/ /\ "merge" \in HwcEnv       \* sync_merge fails and leaves -1
        /\ retire' = [d \in HwcDisplays |-> NoFence]
  /\ at' = "return"
  /\ UNCHANGED <<contents, acquire, release, indices, todo_import, imported, used, onscreen, ret,
                 frame_count, nvvars>>

\* Locals go out of scope: what is left of the layers is released, then the
\* CheckedOutputFds fill every fence that is still -1.
DropLayer ==
  /\ at = "return"
  /\ \E d \in HwcDisplays :
       /\ imported[d] # <<>>
       /\ ReleaseTaken(Head(imported[d]))
       /\ imported' = [imported EXCEPT ![d] = Tail(@)]
  /\ UNCHANGED <<at, contents, acquire, release, retire, indices, todo_import, used, onscreen, ret,
                 frame_count>>

\* Mutant: only the retire fences get a dummy.
MutantFillRetireOnly ==
  /\ retire' = [d \in HwcDisplays |->
       IF contents[d] # NoFrame /\ retire[d] = NoFence THEN DummyFence ELSE retire[d]]
  /\ UNCHANGED release

CheckedOutputFds ==
  /\ release' = [d \in HwcDisplays |-> [j \in DOMAIN release[d] |->
       IF j \in acquire[d] /\ release[d][j] = "unset" THEN "dummy" ELSE release[d][j]]]
  /\ retire' = [d \in HwcDisplays |->
       IF contents[d] # NoFrame /\ retire[d] = NoFence THEN DummyFence ELSE retire[d]]

Return ==
  /\ at = "return"
  /\ \A d \in HwcDisplays : imported[d] = <<>>
  /\ CheckedOutputFds
  /\ at' = "idle"
  /\ UNCHANGED <<contents, acquire, indices, todo_import, imported, used, onscreen, ret, frame_count,
                 nvvars>>

\* What happens beside hwc_set.  SurfaceFlinger keeps the buffers of the
\* frame it is asking for, so gralloc does not give those up.
InCall(h) == at # "idle" /\ \E d \in HwcDisplays : \E j \in DOMAIN contents[d] :
                              contents[d][j].handle = h
DropFrame == (\E n \in NvBufs : ReleaseFrame(n)) /\ UNCHANGED hwcvars
GrallocFree == (\E h \in Handles : ~InCall(h) /\ NvGrallocRelease(h)) /\ UNCHANGED hwcvars
Destroy == (\E n \in NvBufs : ReleaseBufferImpl(n)) /\ UNCHANGED hwcvars

HwcSet == \/ PhaseOne \/ ImportLayer \/ CreateComposition \/ Plan \/ QueueDisplay
          \/ Retire \/ DropLayer \/ Return
HwcNext == Prepare \/ HwcSet \/ DropFrame \/ GrallocFree \/ Destroy

HwcSpec == HwcInit /\ [][HwcNext]_devvars

-----------------------------------------------------------------------------
\* However hwc_set ends, SurfaceFlinger gets a release fence for every layer
\* whose acquire fence it gave away and a retire fence for every display;
\* the fence of a layer that a queued frame reads is the composition's, never
\* one that is signalled already; and after a frame that went well the
\* retire fence waits for every layer that is read.
FencesFilled ==
  at = "idle" =>
    \A d \in HwcDisplays :
      contents[d] # NoFrame =>
        /\ \A j \in DOMAIN contents[d] :
             /\ ~contents[d][j].skip => j \in acquire[d] /\ release[d][j] # "unset"
             /\ d \in onscreen /\ j \in used[d] => release[d][j] = "done"
        /\ retire[d] # NoFence
        /\ ret = 0 /\ retire[d] # DummyFence => retire[d] = Merged(used[d])

\* After a frame that went well everything SurfaceFlinger composed is shown:
\* if a visible layer was left to it, its framebuffer target is among the
\* layers queued, exactly once.
FrameComplete ==
  at = "idle" /\ ret = 0 =>
    \A d \in onscreen :
      (\E j \in DOMAIN contents[d] : contents[d][j].type = "framebuffer" /\ contents[d][j].seen)
        => Cardinality({i \in DOMAIN indices[d] : indices[d][i] = Target(contents[d])}) = 1

\* What SurfaceFlinger may rely on when hwc_set returns: the fences of
\* FencesFilled, and the layers of FrameComplete on the screen.
FrameAnswered == FencesFilled /\ FrameComplete

=============================================================================
