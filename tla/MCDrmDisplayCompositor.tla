----------------------- MODULE MCDrmDisplayCompositor -----------------------
(* Instances of DrmDisplayCompositor for TLC. *)
EXTENDS DrmDisplayCompositor

BothWorkers == {cw, fw}

Shape(pre, sq, direct, geom) == [pre |-> pre, sq |-> sq, direct |-> direct, geom |-> geom]

\* A pre-composited frame with one layer on a plane of its own.
PreShapes == {Shape(TRUE, "none", 1, FALSE)}
\* A pre-composited frame whose geometry changed.
TestedShapes == {Shape(TRUE, "none", 1, TRUE)}
\* A frame for two planes without framebuffers.
DirectShapes == {Shape(FALSE, "none", 2, FALSE)}
\* Frames that use the squash framebuffer.
SquashShapes == {Shape(TRUE, "none", 1, FALSE), Shape(FALSE, "render", 1, FALSE), Shape(FALSE, "reuse", 1, FALSE)}
\* A frame of each kind.
MixedShapes == TestedShapes \cup (SquashShapes \ PreShapes)
=============================================================================
