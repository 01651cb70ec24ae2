--------------------- MODULE MCVirtualCompositorWorker ---------------------
(* Instance of VirtualCompositorWorker for TLC: one worker. *)
EXTENDS VirtualCompositorWorker

OneWorker == {vw}
=============================================================================
