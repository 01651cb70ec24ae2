----------------------------- MODULE VSyncWorker -----------------------------
(***************************************************************************)
(* The thread that reports vertical syncs to SurfaceFlinger                *)
(* (drm_hwcomposer/vsyncworker.cpp).  While enabled_ it waits for the next *)
(* vblank of the CRTC, or computes when the next one is due and sleeps     *)
(* until then, and calls the registered callback without holding mutex_.   *)
(* Meanwhile SurfaceFlinger's thread switches enabled_ and callback_.      *)
(***************************************************************************)
EXTENDS Worker, Integers

CONSTANTS
  Callbacks,    \* the callbacks that may be registered
  FrameNs,      \* length of a frame in clock units
  MaxTime,      \* bound: the clock stops here
  MaxControls   \* bound: calls of VSyncControl and RegisterCallback

vsync == "vsync"

ASSUME VSyncAssumption ==
  /\ Workers = {vsync}
  /\ FrameNs \in Nat \ {0}
  /\ MaxTime \in Nat /\ MaxControls \in Nat

NoCallback == "null"

VARIABLES
  enabled_, callback_, last_timestamp_,
  control,      \* SurfaceFlinger's thread: "idle", or in VSyncControl before Signal()
  pc,           \* where the worker is in Routine()
  callback,     \* the callback Routine() copied under the lock
  timestamp,    \* the vblank time it waits for or reports
  clock,        \* CLOCK_MONOTONIC
  controls,     \* ghost: control calls made
  reported,     \* ghost: the last timestamp passed to a callback
  stale         \* ghost: outdated callbacks since enabled_ or callback_ changed

vsyncVars == <<enabled_, callback_, last_timestamp_, control, pc, callback,
               timestamp, clock, controls, reported, stale>>
vars == <<workerVars, vsyncVars>>

TypeOK ==
  /\ WorkerTypeOK
  /\ enabled_ \in BOOLEAN
  /\ callback_ \in Callbacks \cup {NoCallback} /\ callback \in Callbacks \cup {NoCallback}
  /\ last_timestamp_ \in -1..(MaxTime + FrameNs)
  /\ timestamp \in 0..(MaxTime + FrameNs) /\ reported \in -1..(MaxTime + FrameNs)
  /\ control \in {"idle", "signal"}
  /\ pc \in {"routine", "vblank", "sleep", "callback", "record"}
  /\ clock \in 0..MaxTime /\ controls \in 0..MaxControls /\ stale \in Nat

Init ==
  /\ WorkerInit
  /\ enabled_ = FALSE /\ callback_ = NoCallback /\ last_timestamp_ = -1
  /\ control = "idle" /\ pc = "routine" /\ callback = NoCallback
  /\ timestamp = 0 /\ clock = 0 /\ controls = 0
  /\ reported = -1 /\ stale = 0

-----------------------------------------------------------------------------
(* SurfaceFlinger's thread *)

Start ==
  /\ thread[vsync] = "none"
  /\ InitWorker(vsync)
  /\ UNCHANGED vsyncVars

\* Called once the worker is there, by hwc_register_procs.
RegisterCallback(cb) ==
  /\ control = "idle" /\ controls < MaxControls /\ initialized_[vsync]
  /\ controls' = controls + 1
  /\ callback_' = cb
  /\ stale' = 0
  /\ UNCHANGED workerVars
  /\ UNCHANGED <<enabled_, last_timestamp_, control, pc, callback, timestamp, clock,
                 reported>>

\* VSyncControl, the locked section; Signal() follows.
VSyncControl(enabled) ==
  /\ control = "idle" /\ controls < MaxControls /\ initialized_[vsync]
  /\ controls' = controls + 1
  /\ enabled_' = enabled
  /\ last_timestamp_' = -1
  /\ control' = "signal"
  /\ stale' = 0
  /\ UNCHANGED workerVars
  /\ UNCHANGED <<callback_, pc, callback, timestamp, clock, reported>>

VSyncControlSignal ==
  /\ control = "signal"
  /\ Signal(vsync)
  /\ control' = "idle"
  /\ UNCHANGED <<exit_, initialized_, exiting, enabled_, callback_, last_timestamp_, pc,
                 callback, timestamp, clock, controls, reported, stale>>

\* ~Worker
Close ==
  /\ \/ control = "idle" /\ initialized_[vsync] /\ ~exit_[vsync] /\ ExitRequest(vsync)
     \/ ExitNotify(vsync)
     \/ ExitJoin(vsync)
  /\ UNCHANGED vsyncVars

-----------------------------------------------------------------------------
(* Routine() *)

\* What Routine() copies before it unlocks, and whether it goes on.
MutantCopyUnchecked ==
  /\ callback' = callback_ /\ pc' = "vblank"
  /\ thread' = [thread EXCEPT ![vsync] = "running"]
CopyState ==
  IF enabled_
  THEN /\ callback' = callback_ /\ pc' = "vblank"
       /\ thread' = [thread EXCEPT ![vsync] = "running"]
  ELSE Return(vsync) /\ UNCHANGED <<callback, pc>>

Routine ==
  /\ thread[vsync] = "running" /\ pc = "routine"
  /\ IF enabled_ THEN CopyState
     ELSE WaitForSignalOrExitLocked(vsync, FALSE) /\ UNCHANGED <<callback, pc>>
  /\ UNCHANGED <<exit_, initialized_, exiting, enabled_, callback_, last_timestamp_,
                 control, timestamp, clock, controls, reported, stale>>

RoutineWoken ==
  /\ thread[vsync] \in Awake
  /\ IF WaitResult(vsync) = "EINTR"
     THEN Return(vsync) /\ UNCHANGED <<callback, pc>>
     ELSE CopyState
  /\ UNCHANGED <<exit_, initialized_, exiting, enabled_, callback_, last_timestamp_,
                 control, timestamp, clock, controls, reported, stale>>

MutantPhasedNoNext(frame_ns, current) ==
  IF last_timestamp_ < 0 THEN current + frame_ns
  ELSE frame_ns * ((current - last_timestamp_) \div frame_ns) + last_timestamp_

\* The next vsync in phase with last_timestamp_.
GetPhasedVSync(frame_ns, current) ==
  IF last_timestamp_ < 0 THEN current + frame_ns
  ELSE frame_ns * ((current - last_timestamp_) \div frame_ns + 1) + last_timestamp_

\* drmWaitVBlank: it returns at a vblank after the last time reported; or it is
\* interrupted, and Routine() returns; or it fails, and SyntheticWaitVBlank
\* computes a time and sleeps until then, or until it is interrupted.
WaitVBlank ==
  /\ pc = "vblank"
  /\ \/ clock > reported /\ timestamp' = clock /\ pc' = "callback" /\ UNCHANGED thread
     \/ Return(vsync) /\ pc' = "routine" /\ UNCHANGED timestamp
     \/ timestamp' = GetPhasedVSync(FrameNs, clock) /\ pc' = "sleep" /\ UNCHANGED thread
  /\ UNCHANGED <<exit_, initialized_, exiting, enabled_, callback_, last_timestamp_,
                 control, callback, clock, controls, reported, stale>>

SyntheticWaitVBlank ==
  /\ pc = "sleep"
  /\ \/ clock >= timestamp /\ pc' = "callback" /\ UNCHANGED thread
     \/ Return(vsync) /\ pc' = "routine"
  /\ UNCHANGED <<exit_, initialized_, exiting, enabled_, callback_, last_timestamp_,
                 control, callback, timestamp, clock, controls, reported, stale>>

\* The callback is the one copied under the lock, whatever happened since.
Callback ==
  /\ pc = "callback"
  /\ stale' = IF callback # NoCallback /\ (~enabled_ \/ callback # callback_)
              THEN stale + 1 ELSE stale
  /\ reported' = timestamp
  /\ pc' = "record"
  /\ UNCHANGED workerVars
  /\ UNCHANGED <<enabled_, callback_, last_timestamp_, control, callback, timestamp,
                 clock, controls>>

\* last_timestamp_ is written without the lock.
RecordTimestamp ==
  /\ pc = "record"
  /\ last_timestamp_' = timestamp
  /\ pc' = "routine"
  /\ Return(vsync)
  /\ UNCHANGED <<exit_, initialized_, exiting, enabled_, callback_, control, callback,
                 timestamp, clock, controls, reported, stale>>

ThreadStep ==
  /\ InternalRoutine(vsync) \/ SpuriousWakeup(vsync)
  /\ UNCHANGED vsyncVars

Tick ==
  /\ clock < MaxTime
  /\ clock' = clock + 1
  /\ UNCHANGED workerVars
  /\ UNCHANGED <<enabled_, callback_, last_timestamp_, control, pc, callback, timestamp,
                 controls, reported, stale>>

RoutineStep ==
  Routine \/ RoutineWoken \/ WaitVBlank \/ SyntheticWaitVBlank \/ Callback \/ RecordTimestamp

Next ==
  \/ Start \/ VSyncControlSignal \/ Close
  \/ \E cb \in Callbacks : RegisterCallback(cb)
  \/ \E enabled \in BOOLEAN : VSyncControl(enabled)
  \/ RoutineStep \/ ThreadStep \/ Tick

Spec == Init /\ [][Next]_vars

\* The threads run; time passes up to its bound; nobody has to enable vsync.
FairSpec ==
  /\ Spec
  /\ WF_vars(RoutineStep) /\ WF_vars(ThreadStep /\ InternalRoutine(vsync))
  /\ WF_vars(VSyncControlSignal) /\ WF_vars(Close /\ exit_[vsync]) /\ WF_vars(Tick)

-----------------------------------------------------------------------------
(* Properties *)

\* The race the comment in Routine() describes is the only one: after a change
\* of callback_, or after VSyncControl(false), SurfaceFlinger gets at most one
\* more callback that goes by the old state.
OneStaleCallback == stale <= 1

\* Reported vsyncs only move forward, also when VSyncControl resets
\* last_timestamp_ while one is being reported.
TimestampsIncrease == [][pc = "callback" /\ pc' = "record" => timestamp > reported]_vars

\* Enabling wakes the worker: the switch is never missed between the worker's
\* look at enabled_ and its sleep.
EnableWakesWorker ==
  (enabled_ /\ initialized_[vsync]) ~> (~enabled_ \/ pc # "routine" \/ exit_[vsync])
=============================================================================
