---------------------------- MODULE MCVSyncWorker ----------------------------
(* Instance of VSyncWorker for TLC: one worker. *)
EXTENDS VSyncWorker

OneWorker == {vsync}
=============================================================================
