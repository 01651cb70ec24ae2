------------------------------ MODULE GLWorker ------------------------------
(***************************************************************************)
(* The GL compositor of glworker.cpp, which draws the regions of a         *)
(* composition that no plane shows into a framebuffer of the display       *)
(* compositor: the cache of GL framebuffers and its weak references, the   *)
(* textures of the layers, the cache of programs, and what the shaders     *)
(* make of a rendering command.                                            *)
(*                                                                         *)
(* Texture coordinates are integers in texels; a pixel shows the sequence  *)
(* of texels that are blended into it, top layer first.  Alpha values and  *)
(* the arithmetic of blending are left out, and so is the position of the  *)
(* region in the viewport, which the frame's size cancels out of.          *)
(***************************************************************************)
EXTENDS Integers, Sequences, FiniteSets

CONSTANTS
  Slots,           \* the framebuffers of the display compositor
  Addresses,       \* where a GraphicBuffer may be allocated
  Resolutions,     \* the resolutions of the modes
  Scenes,          \* what is drawn: [layers, regions]
  Screen2D,        \* the pixels, pairs <<x, y>>
  MAX_OVERLAPPING_LAYERS,
  MaxGLBuffers,    \* bound on the GraphicBuffers made
  GLEnv            \* "egl", "shader", "target", "last", "import", "program", "nocache"

In(p, frame) == frame[1] <= p[1] /\ p[1] < frame[3] /\ frame[2] <= p[2] /\ p[2] < frame[4]

\* A scene: regions that do not overlap, with the numbers of the layers in each.
SceneLayer(layer) ==
  /\ layer.display_frame \in [1..4 -> Int] /\ layer.source_crop \in [1..4 -> Int]
  /\ \A axis \in 1..2 : layer.display_frame[axis] < layer.display_frame[axis + 2]
SceneRegion(scene, region) ==
  /\ region.frame \in [1..4 -> Int]
  /\ region.source_layers \in Seq(1..MAX_OVERLAPPING_LAYERS)
  /\ \A i \in DOMAIN region.source_layers : SceneLayer(scene.layers[region.source_layers[i]])

ASSUME GLAssumption ==
  /\ MAX_OVERLAPPING_LAYERS \in Nat /\ Screen2D \subseteq Int \X Int
  /\ \A scene \in Scenes :
       /\ DOMAIN scene.regions \subseteq Nat
       /\ \A r \in DOMAIN scene.regions : SceneRegion(scene, scene.regions[r])
       /\ \A p \in Screen2D : \A r, q \in DOMAIN scene.regions :
            In(p, scene.regions[r].frame) /\ In(p, scene.regions[q].frame) => r = q

NoGLBuffer == [addr |-> 0, made |-> 0]
NoTexture == 0

VARIABLES
  egl,             \* the context: not made yet, current, or failed
  fbs,             \* fbs[s]: DrmFramebuffer::buffer_ with its resolution
  cached,          \* cached_framebuffers_: [addr, made, strong]
  programs,        \* blend_programs_: the texture counts that have a program
  gl,              \* Composite: where it is and what it has built
  made             \* the GraphicBuffers made so far

glvars == <<egl, fbs, cached, programs, gl, made>>

Idle == [at |-> "idle", target |-> NoGLBuffer, gl_fb |-> NoGLBuffer,
         scene |-> [layers |-> <<>>, regions |-> <<>>], layer_textures |-> <<>>, ret |-> 0,
         pixels |-> [p \in Screen2D |-> <<>>]]

GLInit ==
  /\ egl = "none"
  /\ fbs = [s \in Slots |-> [buffer |-> NoGLBuffer, size |-> 0]]
  /\ cached = {} /\ programs = {} /\ gl = Idle /\ made = 0

\* Everything up to the current context, then the program for one texture.
\* The display compositor keeps the object even when this fails.
GLWorkerInit ==
  /\ egl = "none"
  /\ \/ egl' = "current" /\ programs' = {1}
     \/ "egl" \in GLEnv /\ egl' = "failed" /\ UNCHANGED programs
     \/ "shader" \in GLEnv /\ egl' = "current" /\ UNCHANGED programs
  /\ UNCHANGED <<fbs, cached, gl, made>>

-----------------------------------------------------------------------------
(* The target *)

Same(b, c) == b.addr = c.addr /\ b.made = c.made

\* The references that keep a GraphicBuffer: of a DrmFramebuffer and of the
\* cache.  What the driver keeps for an EGLImage only prolongs its life.
Alive(b) == \/ \E s \in Slots : Same(fbs[s].buffer, b)
            \/ \E e \in cached : e.strong /\ Same(e, b)

\* Allocate keeps a buffer of the right size and drops any other; a new one
\* may get the address of one that is gone.
Allocate(s, size) ==
  /\ gl.at = "idle" /\ egl # "none"
  /\ fbs[s].buffer = NoGLBuffer \/ fbs[s].size # size
  /\ made < MaxGLBuffers
  /\ \E a \in Addresses :
       /\ ~ \E t \in Slots \ {s} : fbs[t].buffer.addr = a
       /\ ~ \E e \in cached : e.strong /\ e.addr = a
       /\ fbs' = [fbs EXCEPT ![s] = [buffer |-> [addr |-> a, made |-> made + 1], size |-> size]]
  /\ made' = made + 1
  /\ UNCHANGED <<egl, cached, programs, gl>>

\* wp<> and sp<> are compared by address.
FindCachedFramebuffer(b) == {e \in cached : e.addr = b.addr}

\* Mutant: an entry that is found is not promoted.
MutantPromote(e) == TRUE

Promote(e) == e.strong \/ Alive(e)

Cached(b) == [addr |-> b.addr, made |-> b.made, strong |-> TRUE]

\* Composite, up to the target.  No regions: -EALREADY.
Composite(s, scene) ==
  /\ gl.at = "idle" /\ fbs[s].buffer # NoGLBuffer
  /\ gl' = [Idle EXCEPT !.at = IF scene.regions = <<>> THEN "finish" ELSE "target",
                        !.ret = IF scene.regions = <<>> THEN -1 ELSE 0,
                        !.target = fbs[s].buffer, !.scene = scene]
  /\ UNCHANGED <<egl, fbs, cached, programs, made>>

\* The entry that is found is bound if its buffer is still there, or else
\* erased and made again.
PrepareAndCacheFramebuffer ==
  /\ gl.at = "target"
  /\ LET b     == gl.target
         found == FindCachedFramebuffer(b)
         good  == {e \in found : Promote(e)}
     IN  \/ \E e \in good :
              /\ gl' = [gl EXCEPT !.at = "textures", !.gl_fb = [addr |-> e.addr, made |-> e.made]]
              /\ cached' = (cached \ {e}) \cup {Cached(e)}
         \/ /\ good = {} /\ egl = "current"
            /\ gl' = [gl EXCEPT !.at = "textures", !.gl_fb = b]
            /\ cached' = (cached \ found) \cup {Cached(b)}
         \/ /\ good = {}
            /\ egl = "failed" \/ "target" \in GLEnv
            /\ gl' = [gl EXCEPT !.at = "finish", !.ret = -1]
            /\ cached' = cached \ found
  /\ UNCHANGED <<egl, fbs, programs, made>>

-----------------------------------------------------------------------------
(* Rendering commands *)

\* The rectangle of a layer as the bounds of a DrmHwcRect: <<x, y, x2, y2>>
Size(r, axis) == r[axis + 2] - r[axis]

\* The swap and the flips of a transform; 180 degrees are both flips, 270 degrees
\* both flips and the turn by 90.
Turn(transform) ==
  LET h == "flip_h" \in transform
      v == "flip_v" \in transform
  IN  IF "rot_90" \in transform
      THEN [swap |-> TRUE, flip |-> <<h, ~v>>]
      ELSE [swap |-> FALSE, flip |-> <<h, v>>]

Other(axis) == 3 - axis

\* The crop of a layer that falls on the frame of a region.
CropBounds(layer, frame) ==
  LET t == Turn(layer.transform)
      Bound(j) ==
        LET axis == IF j > 2 THEN j - 2 ELSE j
            b    == IF t.swap THEN Other(axis) ELSE axis
            edge == IF j > 2 THEN b + 2 ELSE b
            part == ((frame[edge] - layer.display_frame[b]) * Size(layer.source_crop, axis))
                      \div Size(layer.display_frame, b)
        IN  IF t.flip[axis] THEN layer.source_crop[axis + 2] - part
            ELSE layer.source_crop[axis] + part
  IN  <<Bound(1), Bound(2), Bound(3), Bound(4)>>

\* The edges of the regions fall between texels of the layers: the quotients of
\* CropBounds, which the code computes as floats, are exact.
WholeCrop(layer, frame) ==
  \A axis \in 1..2 :
    LET b == IF Turn(layer.transform).swap THEN Other(axis) ELSE axis
        w == Size(layer.display_frame, b)
        s == Size(layer.source_crop, axis)
    IN  /\ ((frame[b] - layer.display_frame[b]) * s) % w = 0
        /\ ((frame[b + 2] - layer.display_frame[b]) * s) % w = 0
WholeTexels ==
  \A scene \in Scenes : \A r \in DOMAIN scene.regions :
    LET region == scene.regions[r]
    IN  \A i \in DOMAIN region.source_layers :
          WholeCrop(scene.layers[region.source_layers[i]], region.frame)

\* The layers from the top to the first opaque one.
TextureSources(scene, region) ==
  LET opaque == {i \in DOMAIN region.source_layers :
                   scene.layers[region.source_layers[i]].blending = "none"}
      last   == IF opaque = {} THEN Len(region.source_layers)
                ELSE CHOOSE i \in opaque : \A j \in opaque : i <= j
  IN  SubSeq(region.source_layers, 1, last)

ConstructCommand(scene, region) ==
  LET sources == TextureSources(scene, region)
  IN  [bounds |-> region.frame,
       textures |-> [i \in DOMAIN sources |->
          [texture_index |-> sources[i],
           swap |-> Turn(scene.layers[sources[i]].transform).swap,
           crop_bounds |-> CropBounds(scene.layers[sources[i]], region.frame)]]]

Commands(scene) == [r \in DOMAIN scene.regions |-> ConstructCommand(scene, scene.regions[r])]

LayersUsed(scene) ==
  UNION {{scene.regions[r].source_layers[i] : i \in DOMAIN scene.regions[r].source_layers} :
           r \in DOMAIN scene.regions}

-----------------------------------------------------------------------------
(* Textures *)

\* The layers whose import or whose wait for the acquire fence may fail.
FailingLayers(used) ==
  (IF "import" \in GLEnv THEN SUBSET used ELSE {{}})
    \cup IF "last" \in GLEnv /\ used # {} THEN {{CHOOSE l \in used : \A k \in used : k <= l}}
         ELSE {}

\* One entry for each layer; the entry of a layer that fails is taken back, so
\* the entries after it move up.
LayerTextures(used, bad) ==
  LET kept   == (1..MAX_OVERLAPPING_LAYERS) \ bad
      Nth(i) == CHOOSE l \in kept : Cardinality({k \in kept : k <= l}) = i
  IN  [i \in 1..Cardinality(kept) |-> IF Nth(i) \in used THEN Nth(i) ELSE NoTexture]

\* ret is what the last layer of the loop left.
CreateTextures ==
  /\ gl.at = "textures"
  /\ LET used == LayersUsed(gl.scene)
     IN  \E bad \in FailingLayers(used) :
           LET failed == \E l \in bad : \A k \in used : k <= l
           IN  gl' = [gl EXCEPT !.at = IF failed THEN "finish" ELSE "draw",
                                !.ret = IF failed THEN -1 ELSE 0,
                                !.layer_textures = LayerTextures(used, bad)]
  /\ UNCHANGED <<egl, fbs, cached, programs, made>>

-----------------------------------------------------------------------------
(* Drawing *)

\* The texture coordinates at the centre of a pixel, as the vertex shader and
\* the interpolation make them.
FTexCoords(src, bounds, p) ==
  LET At(axis) ==
        LET b == IF src.swap THEN Other(axis) ELSE axis
        IN  (2 * src.crop_bounds[axis] * Size(bounds, b)
              + (2 * (p[b] - bounds[b]) + 1) * Size(src.crop_bounds, axis))
                \div (2 * Size(bounds, b))
  IN  <<At(1), At(2)>>

\* The fragment shader: the samples in the order of their textures.
FragColor(cmd, p) ==
  [i \in DOMAIN cmd.textures |->
     [texture |-> gl.layer_textures[cmd.textures[i].texture_index],
      texel |-> FTexCoords(cmd.textures[i], cmd.bounds, p)]]

\* Whether the shaders for these numbers of textures compile and link.
GenerateProgram(counts) == IF "program" \in GLEnv THEN {counts, {}} ELSE {counts}

PrepareAndCacheProgram(counts) ==
  {programs \cup new : new \in GenerateProgram(counts \ programs)}

\* The target is cleared and every command is drawn inside its scissor box.
DrawCommands ==
  /\ gl.at = "draw"
  /\ \E commands \in {Commands(gl.scene)} :
       LET counts == {Len(commands[r].textures) : r \in DOMAIN commands} \ {0}
           Drawn(p) == {r \in DOMAIN commands : /\ In(p, commands[r].bounds)
                                                /\ Len(commands[r].textures) \in programs'}
       IN  /\ programs' \in PrepareAndCacheProgram(counts)
           /\ gl' = [gl EXCEPT !.at = "finish", !.pixels =
                [p \in Screen2D |-> IF Drawn(p) = {} THEN <<>>
                   ELSE FragColor(commands[CHOOSE r \in Drawn(p) : \A q \in Drawn(p) : q <= r], p)]]
  /\ UNCHANGED <<egl, fbs, cached, made>>

Finish ==
  /\ gl.at = "finish"
  /\ gl' = Idle
  /\ \/ cached' = {[e EXCEPT !.strong = FALSE] : e \in cached}
     \/ "nocache" \in GLEnv /\ cached' = {}
  /\ UNCHANGED <<egl, fbs, programs, made>>

GLNext ==
  \/ GLWorkerInit
  \/ \E s \in Slots : \E size \in Resolutions : Allocate(s, size)
  \/ \E s \in Slots : \E scene \in Scenes : Composite(s, scene)
  \/ PrepareAndCacheFramebuffer \/ CreateTextures \/ DrawCommands \/ Finish

GLSpec == GLInit /\ [][GLNext]_glvars

-----------------------------------------------------------------------------
\* The texel of a layer a pixel ought to show: SurfaceFlinger flips the crop,
\* then turns it by 90 degrees clockwise, then scales it to the display frame.
TexelAt(layer, p) ==
  LET rot  == "rot_90" \in layer.transform
      w    == Size(layer.display_frame, IF rot THEN 2 ELSE 1)
      h    == Size(layer.display_frame, IF rot THEN 1 ELSE 2)
      x    == p[1] - layer.display_frame[1]
      y    == p[2] - layer.display_frame[2]
      u    == IF rot THEN y ELSE x
      v    == IF rot THEN h - 1 - x ELSE y
      fu   == IF "flip_h" \in layer.transform THEN w - 1 - u ELSE u
      fv   == IF "flip_v" \in layer.transform THEN h - 1 - v ELSE v
  IN  <<layer.source_crop[1] + ((2 * fu + 1) * Size(layer.source_crop, 1)) \div (2 * w),
        layer.source_crop[2] + ((2 * fv + 1) * Size(layer.source_crop, 2)) \div (2 * h)>>

(***************************************************************************)
(* When Composite succeeds, it has drawn into the buffer it was given and  *)
(* not into an older one that was at its address, and every pixel of it    *)
(* shows the texels SurfaceFlinger asked for: those of the layers of its   *)
(* region from the top to the first opaque one, cropped, flipped and       *)
(* turned, and nothing outside the regions.  Textures of layers but the    *)
(* last can be created, and so can the programs.                           *)
(***************************************************************************)
LayersDrawn ==
  gl.at = "finish" /\ gl.ret = 0 =>
    /\ Same(gl.gl_fb, gl.target)
    /\ \A p \in Screen2D :
         LET mine == {r \in DOMAIN gl.scene.regions : In(p, gl.scene.regions[r].frame)}
         IN  IF mine = {} THEN gl.pixels[p] = <<>>
             ELSE LET region == gl.scene.regions[CHOOSE r \in mine : TRUE]
                      Opaque(i) == gl.scene.layers[region.source_layers[i]].blending = "none"
                  IN  \A i \in DOMAIN region.source_layers :
                        IF \E j \in 1..i - 1 : Opaque(j) THEN i \notin DOMAIN gl.pixels[p]
                        ELSE /\ i \in DOMAIN gl.pixels[p]
                             /\ gl.pixels[p][i].texture = region.source_layers[i]
                             /\ gl.pixels[p][i].texel =
                                  TexelAt(gl.scene.layers[region.source_layers[i]], p)
=============================================================================
