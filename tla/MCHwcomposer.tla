---------------------------- MODULE MCHwcomposer ----------------------------
(***************************************************************************)
(* The callbacks of the hwcomposer device on small instances: the plan of  *)
(* a composition and what the GL compositor draws of it, the discovery and *)
(* hotplug of displays, and hwc_set with the buffers it imports.  part     *)
(* says which of them a behaviour explores; the others keep their initial  *)
(* state.                                                                  *)
(***************************************************************************)
EXTENDS CompositionPlan, DrmResources, HwcDevice, GLWorker

VARIABLE part
allvars == <<part, planvars, drmvars, devvars, hwcvars, glvars>>

\* Layers of a composition: five rectangles on a screen of four pixels, with
\* content that needs a plane of its own or that a plane cannot show.
Content(f, k) ==
  [frame |-> f, protected |-> k \in {"video", "turned"}, rotated |-> k = "turned",
   format |-> IF k \in {"video", "turned"} THEN "yuv" ELSE "rgb",
   premult |-> k # "opaque", src |-> IF k = "small" THEN <<9, 9>> ELSE <<1, 1>>]

Screen == Rect(0, 0, 2, 2)
Rects == {Screen, Rect(0, 0, 1, 2), Rect(0, 0, 2, 1), Rect(1, 1, 2, 2), Rect(1, 1, 0, 2)}
Kinds == {"plain", "video", "turned", "opaque", "small"}
OneVideo(g) == Cardinality({i \in DOMAIN g : g[i].protected}) <= 1

\* Stacks of three layers planned once, and stacks whose buffers change from
\* frame to frame so that regions are squashed and released again.
Stills ==
  {g \in {<<Content(r1, k1), Content(r2, k2), Content(r3, k3)>> :
            r1 \in Rects, r2 \in Rects, r3 \in {Screen, Rect(0, 0, 1, 2), Rect(1, 1, 2, 2)},
            k1 \in {"plain", "video", "turned"}, k2 \in Kinds, k3 \in Kinds} : OneVideo(g)}
Moving == {<<Content(Screen, "plain"), Content(Rect(0, 0, 1, 2), "plain"),
             Content(Rect(0, 0, 2, 1), k)>> : k \in {"plain", "video"}}

MCFollow(d, shown_now) ==
  CASE d = 0 /\ shown_now[0] = <<>> -> Stills \cup Moving
    [] d = 0 /\ shown_now[0] \in Moving -> Moving
    [] d = 1 /\ shown_now[0] \in Moving -> {<<Content(Screen, "plain")>>}
    [] OTHER -> {}

MCLayerBuffers == [d \in {0, 1} |-> IF d = 0 THEN <<1, 2, 1>> ELSE <<1, 1, 1>>]
MCPlanes == <<[type |-> "primary", crtcs |-> {0}], [type |-> "primary", crtcs |-> {1}],
              [type |-> "overlay", crtcs |-> {0}], [type |-> "overlay", crtcs |-> {0, 1}]>>
MCPixels == (0..1) \X (0..1)
MCDisplays == <<0, 1>>

\* Two connectors: own encoders, encoders bound crosswise, no panel, one
\* encoder between them, one CRTC between them.
Conn(t, es, cur) == [type |-> t, encs |-> es, cur |-> cur]
Enc(xs, cur) == [crtcs |-> xs, cur |-> cur]
MCTopologies ==
  {[conns |-> <<Conn("internal", <<1>>, 1), Conn("external", <<2>>, 0)>>,
    encs |-> <<Enc(<<1, 2>>, 1), Enc(<<1, 2>>, 0)>>, crtcs |-> 2],
   [conns |-> <<Conn("external", <<2>>, 2), Conn("internal", <<1>>, 0)>>,
    encs |-> <<Enc(<<1, 2>>, 1), Enc(<<1, 2>>, 1)>>, crtcs |-> 2],
   [conns |-> <<Conn("external", <<1, 2>>, 2), Conn("external", <<1>>, 0)>>,
    encs |-> <<Enc(<<1, 2>>, 0), Enc(<<2>>, 0)>>, crtcs |-> 2],
   [conns |-> <<Conn("internal", <<1>>, 1), Conn("external", <<1>>, 0)>>,
    encs |-> <<Enc(<<1, 2>>, 1)>>, crtcs |-> 2],
   [conns |-> <<Conn("internal", <<1>>, 1), Conn("external", <<1>>, 0)>>,
    encs |-> <<Enc(<<1>>, 1)>>, crtcs |-> 1]}
MCModeLists == {<<"a">>, <<"b", "a">>}

\* What SurfaceFlinger hands to hwc_prepare and hwc_set.
Asked(t, s) == [type |-> t, skip |-> s, handle |-> NoBuf, seen |-> TRUE]
MCFrames == {<<Asked("framebuffer", FALSE), Asked("target", FALSE)>>,
             <<Asked("framebuffer", FALSE), Asked("framebuffer", TRUE),
               Asked("sideband", FALSE), Asked("framebuffer", TRUE), Asked("target", FALSE)>>,
             <<Asked("sideband", FALSE), Asked("target", FALSE)>>}
MCHwcDisplays == {0, 1}

\* Three layers that overlap in a corner, in every position; the crops are
\* scaled unless they are turned.
Drawn(d, t, b) ==
  [display_frame |-> d, transform |-> t, blending |-> b,
   source_crop |-> IF "rot_90" \in t THEN <<1, 2, 1 + d[4] - d[2], 2 + d[3] - d[1]>>
                   ELSE <<1, 2, 1 + 2 * (d[3] - d[1]), 2 + d[4] - d[2]>>]
Region(f, ls) == [frame |-> f, source_layers |-> ls]
Turns == {"flip_h", "flip_v", "rot_90"}
MCScenes ==
  {[layers |-> <<Drawn(<<0, 0, 2, 3>>, t, b[1]), Drawn(<<1, 0, 2, 2>>, Turns \ t, "premult"),
                 Drawn(<<1, 1, 3, 3>>, t, b[2])>>,
    regions |-> <<Region(<<0, 0, 1, 3>>, <<1>>), Region(<<1, 0, 2, 1>>, <<2, 1>>),
                  Region(<<1, 1, 2, 2>>, <<3, 2, 1>>), Region(<<1, 2, 2, 3>>, <<3, 1>>)>>] :
     t \in SUBSET Turns, b \in {<<"none", "coverage">>, <<"premult", "none">>}}
  \cup {[layers |-> <<>>, regions |-> <<>>]}
MCScreen2D == (0..2) \X (0..2)

\* What SceneDrawn assumes of the scenes.
ASSUME SceneAssumption == WholeTexels

Init ==
  /\ part \in {"plan", "drm", "set", "gl"}
  /\ PlanInit /\ DrmInit /\ HwcInit /\ GLInit
  /\ part # "drm" =>
       card = (CHOOSE t \in Topologies : TRUE) /\ kernel = [c \in C |-> <<>>]

Next ==
  \/ part = "plan" /\ PlanNext /\ UNCHANGED <<part, drmvars, devvars, hwcvars, glvars>>
  \/ part = "drm" /\ DrmNext /\ UNCHANGED <<part, planvars, devvars, hwcvars, glvars>>
  \/ part = "set" /\ HwcNext /\ UNCHANGED <<part, planvars, drmvars, glvars>>
  \/ part = "gl" /\ GLNext /\ UNCHANGED <<part, planvars, drmvars, devvars, hwcvars>>

Fairness == /\ WF_drmvars(part = "drm" /\ ListenerStep)
            /\ WF_drmvars(part = "drm" /\ QueryDisplay)

Spec == Init /\ [][Next]_allvars /\ Fairness

=============================================================================
