------------------------ MODULE DrmDisplayCompositor ------------------------
(***************************************************************************)
(* The compositor of one DRM display (drm_hwcomposer/drmdisplaycompositor, *)
(* drmcompositorworker, drmdisplaycomposition, drmframebuffer.h).          *)
(*                                                                         *)
(* Callers (SurfaceFlinger's thread, the hotplug handler) put compositions *)
(* on composite_queue_.  The composite worker takes them, renders what the *)
(* planes cannot show into framebuffers, and hands frames to the frame     *)
(* worker, which commits them to the kernel and swaps active_composition_. *)
(* When nothing was queued for kSquashWait the composite worker squashes   *)
(* the active composition into one framebuffer and commits that itself.    *)
(*                                                                         *)
(* A composition has its own sw_sync timeline.  What matters of it here is *)
(* its end: SignalCompositionDone, or the destructor, signals every fence  *)
(* of the composition, and its number is then in done.  The release fence  *)
(* of a framebuffer is the number of the composition that created it.      *)
(* Every composition of a display programs all the planes of its CRTC      *)
(* (DisableUnusedPlanes, SquashFrame), so the screen shows one composition *)
(* or none.                                                                *)
(***************************************************************************)
EXTENDS Worker, Integers, Sequences, FiniteSets

CONSTANTS
  Callers,              \* threads that call QueueComposition
  Requests,             \* what they may ask for, see RequestKinds
  Shapes,               \* the frames they queue, see FrameShapes
  Env,                  \* what may go wrong around the compositor, see EnvKinds
  DRM_DISPLAY_BUFFERS,
  DRM_DISPLAY_COMPOSITOR_MAX_QUEUE_DEPTH,
  MaxFrames,            \* bound: frames SurfaceFlinger sets
  MaxControls           \* bound: DPMS and MODESET compositions queued

cw == "drm-compositor"
fw == "frame-worker"

RequestKinds == {"FRAME", "DPMS", "MODESET", "CLOSE"}

\* How the planner laid a frame out: whether it needs pre-composition, what it
\* does with the squash framebuffer, how many planes show a layer directly, and
\* whether SurfaceFlinger flagged a changed geometry (Plan uses no squash
\* framebuffer then).
FrameShapes ==
  {s \in [pre : BOOLEAN, sq : {"none", "render", "reuse"}, direct : 0..2,
          geom : BOOLEAN] : s.geom => s.sq = "none"}

EnvKinds ==
  {"gl",        \* allocating, importing or rendering a framebuffer fails
   "test",      \* the kernel rejects a test commit
   "commit",    \* the kernel rejects a commit
   "acquire",   \* an acquire fence does not fire in kAcquireWaitTries waits
   "ioctl",     \* setting DPMS or creating a property blob fails
   "disable",   \* DisablePlanes fails
   "protected", \* frames may have protected layers
   "slow",      \* a frame is not on screen within kSquashWait of being queued
   "overlap",   \* a MODESET is taken while a frame is being committed
   "inactive",  \* frames are set while the display is off
   "spurious"}  \* condition variables wake up spuriously

ASSUME CompositorAssumption ==
  /\ Workers = {cw, fw}
  /\ Requests \subseteq RequestKinds
  /\ Shapes \subseteq FrameShapes
  /\ Env \subseteq EnvKinds
  /\ DRM_DISPLAY_BUFFERS \in Nat \ {0}
  /\ DRM_DISPLAY_COMPOSITOR_MAX_QUEUE_DEPTH \in Nat \ {0}
  /\ MaxFrames \in Nat /\ MaxControls \in Nat

VARIABLES
  (* shared state of the DrmDisplayCompositor *)
  lock_,               \* its holder, where it is held across a wait, or "free"
  composite_queue_, frame_queue_,
  active_composition_, \* a frame, or NoComp
  active_,             \* DPMS was last requested on
  use_hw_overlays_,
  pre_compositor_,     \* the GL compositor exists
  framebuffer_index_, squash_framebuffer_index_,
  framebuffers_, squash_framebuffers_,
  mode_,
  (* the threads *)
  did_squash_all_,     \* the composite worker's last Routine() was a SquashAll
  job,                 \* job[w]: where worker w is inside Routine()
  call,                \* call[c]: where caller c is inside QueueComposition
  destructor,          \* how far ~DrmDisplayCompositor has come
  squash_state_,       \* frame last planned to render the squashed regions, or 0
  (* the kernel *)
  screen,              \* what the planes scan out, or NoComp
  done,                \* frames all of whose fences are signalled
  blobs,               \* mode blobs that exist
  crtc_mode, dpms,     \* the mode of the CRTC, and whether the panel is on
  (* ghosts *)
  comps, frames,       \* frames created, and those SurfaceFlinger set
  controls,            \* DPMS and MODESET compositions created
  crashed              \* the process has dereferenced a null composition

queueVars  == <<composite_queue_, frame_queue_>>
fbVars     == <<framebuffer_index_, framebuffers_>>
sqfbVars   == <<squash_framebuffer_index_, squash_framebuffers_>>
modeVars   == <<mode_, blobs, crtc_mode, dpms>>
overlayVars == <<use_hw_overlays_, pre_compositor_>>
callerVars == <<active_, call, squash_state_, frames, controls>>
screenVars == <<active_composition_, screen>>

vars == <<workerVars, lock_, queueVars, screenVars, overlayVars, fbVars,
          sqfbVars, modeVars, did_squash_all_, job, callerVars, destructor,
          done, comps, crashed>>

-----------------------------------------------------------------------------
(* Compositions.  A mode is the number of the request that set it, and so is  *)
(* the blob that describes it to the kernel.                                  *)

None == -1          \* no framebuffer, no mode in the property set

\* A frame: id names its timeline, frame_no the frame SurfaceFlinger set, which
\* a squashed copy keeps; squash is the frame whose rendering the squash
\* framebuffer has to hold; fb and sqfb are the framebuffers it shows.
Frame(id, no, shape, squash) ==
  [type |-> "FRAME", id |-> id, frame_no |-> no, shape |-> shape,
   squash |-> squash, fb |-> None, sqfb |-> None]

NoComp        == [type |-> "EMPTY", id |-> 0, frame_no |-> 0]
MutantDpmsInverted(on) == [type |-> "DPMS", id |-> 0, on |-> ~on]
Dpms(on)      == [type |-> "DPMS", id |-> 0, on |-> on]
Modeset(mode) == [type |-> "MODESET", id |-> 0, mode |-> mode]

\* Planes that show something.
NumPlanes(shape) ==
  shape.direct + (IF shape.pre THEN 1 ELSE 0) + (IF shape.sq = "none" THEN 0 ELSE 1)

\* What SquashFrame makes of a frame: one pre-composited plane.
Squashed(src) ==
  [Frame(comps + 1, src.frame_no,
         [pre |-> TRUE, sq |-> "none", direct |-> 0, geom |-> FALSE], 0)
     EXCEPT !.fb = framebuffer_index_]

\* The timeline of the composition, if there is one, runs to its end.
Signalled(c) == {c.id} \ {0}

MutantAlwaysReleased(fb) == TRUE

\* WaitReleased(-1) returns.
Released(fb) == fb.fence = 0 \/ fb.fence \in done

Goto(w, pc) == job' = [job EXCEPT ![w].pc = pc]
IdleJob     == [pc |-> "idle", comp |-> NoComp, pset |-> None]
EndRoutine(w) == job' = [job EXCEPT ![w] = IdleJob] /\ Return(w)

-----------------------------------------------------------------------------
\* The state DrmDisplayCompositor::Init leaves: both workers have a thread.
Init ==
  /\ exit_ = [w \in Workers |-> FALSE]
  /\ initialized_ = [w \in Workers |-> TRUE]
  /\ thread = [w \in Workers |-> "top"]
  /\ exiting = [w \in Workers |-> "no"]
  /\ lock_ = "free"
  /\ composite_queue_ = <<>> /\ frame_queue_ = <<>>
  /\ active_composition_ = NoComp /\ screen = NoComp
  /\ active_ = FALSE /\ use_hw_overlays_ = TRUE /\ pre_compositor_ = FALSE
  /\ framebuffer_index_ = 0 /\ squash_framebuffer_index_ = 0
  /\ framebuffers_ = [i \in 0..DRM_DISPLAY_BUFFERS-1 |-> [fence |-> 0, content |-> 0]]
  /\ squash_framebuffers_ = [i \in 0..1 |-> [fence |-> 0, content |-> 0]]
  /\ mode_ = [needs_modeset |-> FALSE, mode |-> 0, blob_id |-> 0, old_blob_id |-> 0]
  /\ blobs = {} /\ crtc_mode = 0 /\ dpms = FALSE
  /\ did_squash_all_ = FALSE
  /\ job = [w \in Workers |-> IdleJob]
  /\ call = [c \in Callers |-> [pc |-> "idle", comp |-> NoComp]]
  /\ destructor = "no" /\ squash_state_ = 0
  /\ done = {} /\ comps = 0 /\ frames = 0 /\ controls = 0 /\ crashed = FALSE

-----------------------------------------------------------------------------
(* QueueComposition, on a caller's thread *)

\* Plan(), before the composition is queued: SquashState remembers which
\* regions are squashed, and a frame re-renders them only when that changed.
PlanSquash(shape) ==
  /\ shape.sq = "reuse" => squash_state_ # 0
  /\ squash_state_' = CASE shape.sq = "none"   -> 0
                        [] shape.sq = "render" -> comps + 1
                        [] shape.sq = "reuse"  -> squash_state_

\* A frame is accepted if the display is on; else it is destroyed at once, and
\* the caller's fences with it.
QueueFrameComposition(c, shape) ==
  /\ "FRAME" \in Requests /\ frames < MaxFrames
  /\ call[c].pc = "idle" /\ destructor = "no"
  /\ PlanSquash(shape)
  /\ frames' = frames + 1 /\ comps' = comps + 1
  /\ \/ /\ active_
        /\ call' = [call EXCEPT ![c] =
             [pc |-> "push", comp |-> Frame(comps + 1, frames + 1, shape, squash_state_')]]
        /\ UNCHANGED done
     \/ /\ ~active_ /\ "inactive" \in Env
        /\ done' = done \cup {comps + 1}
        /\ UNCHANGED call
  /\ UNCHANGED <<workerVars, lock_, queueVars, screenVars, overlayVars, fbVars,
                 sqfbVars, modeVars, did_squash_all_, job, active_, controls,
                 destructor, crashed>>

\* DPMS updates active_ as soon as it is requested.
QueueControlComposition(c) ==
  /\ controls < MaxControls
  /\ call[c].pc = "idle" /\ destructor = "no"
  /\ controls' = controls + 1
  /\ \/ /\ "DPMS" \in Requests
        /\ \E on \in BOOLEAN :
             /\ active_' = on
             /\ call' = [call EXCEPT ![c] = [pc |-> "push", comp |-> Dpms(on)]]
     \/ /\ "MODESET" \in Requests
        /\ call' = [call EXCEPT ![c] = [pc |-> "push", comp |-> Modeset(controls + 1)]]
        /\ UNCHANGED active_
  /\ UNCHANGED <<workerVars, lock_, queueVars, screenVars, overlayVars, fbVars,
                 sqfbVars, modeVars, did_squash_all_, job, squash_state_, frames,
                 destructor, done, comps, crashed>>

\* The section under lock_; the caller spins while the queue is full.
PushComposition(c) ==
  /\ call[c].pc = "push" /\ lock_ = "free"
  /\ Len(composite_queue_) < DRM_DISPLAY_COMPOSITOR_MAX_QUEUE_DEPTH
  /\ composite_queue_' = Append(composite_queue_, call[c].comp)
  /\ call' = [call EXCEPT ![c] = [pc |-> "signal", comp |-> NoComp]]
  /\ UNCHANGED <<workerVars, lock_, frame_queue_, screenVars, overlayVars, fbVars,
                 sqfbVars, modeVars, did_squash_all_, job, active_, squash_state_,
                 frames, controls, destructor, done, comps, crashed>>

SignalCompositeWorker(c) ==
  /\ call[c].pc = "signal"
  /\ Signal(cw)
  /\ call' = [call EXCEPT ![c].pc = "idle"]
  /\ UNCHANGED <<exit_, initialized_, exiting, lock_, queueVars, screenVars,
                 overlayVars, fbVars, sqfbVars, modeVars, did_squash_all_, job,
                 active_, squash_state_, frames, controls, destructor, done, comps,
                 crashed>>

-----------------------------------------------------------------------------
(* DrmCompositorWorker::Routine *)

\* The frame worker has nothing to do and will get nothing.
FrameWorkerIdle == frame_queue_ = <<>> /\ job[fw].pc = "idle"

\* HaveQueuedComposites looks at the queue under lock_, not under the worker's
\* mutex_, under which the wait below is entered.
HaveQueuedComposites ==
  /\ thread[cw] = "running" /\ job[cw].pc = "idle" /\ lock_ = "free"
  /\ IF composite_queue_ = <<>>
     THEN Goto(cw, "wait") /\ UNCHANGED did_squash_all_
     ELSE Goto(cw, "composite") /\ did_squash_all_' = FALSE
  /\ UNCHANGED <<workerVars, lock_, queueVars, screenVars, overlayVars, fbVars,
                 sqfbVars, modeVars, callerVars, destructor, done, comps, crashed>>

CompositeWorkerWait ==
  /\ thread[cw] = "running" /\ job[cw].pc = "wait"
  /\ WaitForSignalOrExitLocked(cw, ~did_squash_all_)
  /\ Goto(cw, "idle")
  /\ UNCHANGED <<exit_, initialized_, exiting, lock_, queueVars, screenVars,
                 overlayVars, fbVars, sqfbVars, modeVars, did_squash_all_,
                 callerVars, destructor, done, comps, crashed>>

\* After the wait; did_squash_all_ is the worker's own, so it is set on entry to
\* SquashAll and Composite instead of on return.
CompositeWorkerWoken ==
  /\ thread[cw] \in Awake
  /\ \/ WaitResult(cw) = "EINTR" /\ Return(cw) /\ UNCHANGED <<job, did_squash_all_>>
     \/ /\ WaitResult(cw) = "ETIMEDOUT"
        /\ thread' = [thread EXCEPT ![cw] = "running"]
        /\ Goto(cw, "squashall") /\ did_squash_all_' = TRUE
     \/ /\ WaitResult(cw) = "OK"
        /\ thread' = [thread EXCEPT ![cw] = "running"]
        /\ Goto(cw, "composite") /\ did_squash_all_' = FALSE
  /\ UNCHANGED <<exit_, initialized_, exiting, lock_, queueVars, screenVars,
                 overlayVars, fbVars, sqfbVars, modeVars, callerVars,
                 destructor, done, comps, crashed>>

-----------------------------------------------------------------------------
(* Composite *)

\* The first call creates the GL compositor; if that fails it returns, and later
\* calls go on without.  The front of the queue leaves it under lock_.  DPMS and MODESET are dealt
\* with here; a MODESET drops the blob of a mode that was never committed.
Composite ==
  /\ job[cw].pc = "composite" /\ lock_ = "free"
  /\ pre_compositor_' = TRUE
  /\ \/ /\ composite_queue_ = <<>> \/ (~pre_compositor_ /\ "gl" \in Env)
        /\ EndRoutine(cw) /\ UNCHANGED <<composite_queue_, mode_, blobs, dpms>>
     \/ /\ composite_queue_ # <<>>
        /\ composite_queue_' = Tail(composite_queue_)
        /\ LET c == Head(composite_queue_) IN
           \/ /\ c.type = "FRAME"
              /\ job' = [job EXCEPT ![cw] = [@ EXCEPT !.pc = "squash_fb", !.comp = c]]
              /\ UNCHANGED <<thread, mode_, blobs, dpms>>
           \/ /\ c.type = "DPMS"
              /\ EndRoutine(cw) /\ UNCHANGED <<mode_, blobs>>
              /\ dpms' \in {c.on} \cup (IF "ioctl" \in Env THEN {dpms} ELSE {})
           \/ /\ c.type = "MODESET"
              /\ "overlap" \in Env \/ FrameWorkerIdle
              /\ EndRoutine(cw) /\ UNCHANGED dpms
              /\ LET kept == blobs \ {mode_.blob_id} IN
                 \/ /\ mode_' = [mode_ EXCEPT !.mode = c.mode, !.blob_id = c.mode,
                                              !.needs_modeset = TRUE]
                    /\ blobs' = kept \cup {c.mode}
                 \/ /\ "ioctl" \in Env
                    /\ mode_' = [mode_ EXCEPT !.mode = c.mode, !.blob_id = 0]
                    /\ blobs' = kept
  /\ UNCHANGED <<exit_, initialized_, exiting, lock_, frame_queue_, screenVars,
                 use_hw_overlays_, fbVars, sqfbVars, crtc_mode, did_squash_all_,
                 callerVars, destructor, done, comps, crashed>>

MutantAbandonUnsignalled(c) == EndRoutine(cw) /\ UNCHANGED done

\* A failing PrepareFrame makes Composite return, which destroys the frame.
AbandonFrame(c) == EndRoutine(cw) /\ done' = done \cup Signalled(c)

\* A framebuffer rendered into for frame id; one where that failed: its fence is
\* gone and it may have been written to; and one that frame id shows again.
Rendered(id)     == [fence |-> id, content |-> id]
RenderFailed(fb) == {[fence |-> 0, content |-> x] : x \in {fb.content, 0}}
Reused(fb, id)   == [fb EXCEPT !.fence = id]

NextFramebuffer(index)   == (index + 1) % DRM_DISPLAY_BUFFERS

\* PrepareFrame, the squash framebuffer: switch to the other one, wait until it
\* is released and render the squashed regions into it; or use the one rendered
\* for an earlier frame and put this frame's fence on it.
PrepareSquash ==
  /\ job[cw].pc = "squash_fb"
  /\ LET c == job[cw].comp
         k == IF c.shape.sq = "render" THEN (squash_framebuffer_index_ + 1) % 2
              ELSE squash_framebuffer_index_
         fb == squash_framebuffers_[k]
     IN
     \/ /\ c.shape.sq = "none"
        /\ Goto(cw, "pre_fb") /\ UNCHANGED <<sqfbVars, thread, done>>
     \/ /\ c.shape.sq = "reuse"
        /\ job' = [job EXCEPT ![cw] = [@ EXCEPT !.pc = "pre_fb", !.comp.sqfb = k]]
        /\ squash_framebuffers_' = [squash_framebuffers_ EXCEPT ![k] = Reused(fb, c.id)]
        /\ UNCHANGED <<squash_framebuffer_index_, thread, done>>
     \/ /\ c.shape.sq = "reuse" /\ "gl" \in Env
        /\ AbandonFrame(c) /\ UNCHANGED sqfbVars
     \/ /\ c.shape.sq = "render" /\ Released(fb)
        /\ squash_framebuffer_index_' = k
        /\ \/ /\ job' = [job EXCEPT ![cw] = [@ EXCEPT !.pc = "pre_fb", !.comp.sqfb = k]]
              /\ squash_framebuffers_' = [squash_framebuffers_ EXCEPT ![k] = Rendered(c.id)]
              /\ UNCHANGED <<thread, done>>
           \/ /\ "gl" \in Env
              /\ AbandonFrame(c)
              /\ \E r \in RenderFailed(fb) :
                   squash_framebuffers_' = [squash_framebuffers_ EXCEPT ![k] = r]
  /\ UNCHANGED <<exit_, initialized_, exiting, lock_, queueVars, screenVars,
                 overlayVars, fbVars, modeVars, did_squash_all_, callerVars,
                 destructor, comps, crashed>>

\* PrepareFrame, the pre-composition framebuffer: the next one of the ring.
ApplyPreComposite ==
  /\ job[cw].pc = "pre_fb"
  /\ LET c == job[cw].comp
         k == framebuffer_index_
     IN
     \/ /\ ~c.shape.pre
        /\ Goto(cw, "test") /\ UNCHANGED <<fbVars, thread, done>>
     \/ /\ c.shape.pre /\ Released(framebuffers_[k])
        /\ \/ /\ job' = [job EXCEPT ![cw] = [@ EXCEPT !.pc = "test", !.comp.fb = k]]
              /\ framebuffers_' = [framebuffers_ EXCEPT ![k] = Rendered(c.id)]
              /\ framebuffer_index_' = NextFramebuffer(k)
              /\ UNCHANGED <<thread, done>>
           \/ /\ "gl" \in Env
              /\ AbandonFrame(c)
              /\ \E r \in RenderFailed(framebuffers_[k]) :
                   framebuffers_' = [framebuffers_ EXCEPT ![k] = r]
              /\ UNCHANGED framebuffer_index_
  /\ UNCHANGED <<exit_, initialized_, exiting, lock_, queueVars, screenVars,
                 overlayVars, sqfbVars, modeVars, did_squash_all_, callerVars,
                 destructor, comps, crashed>>

\* A commit is rejected for a blob that is not there, or for the hardware's sake.
MutantPsetWithoutMode == None
PsetMode == IF mode_.needs_modeset THEN mode_.blob_id ELSE None
ValidPset(p) == p = None \/ p \in blobs

\* A frame with a changed geometry is tried out; what the kernel says holds for
\* the frames up to the next change.  A frame the hardware cannot show is
\* squashed, if it has more than one plane.
TestFrame ==
  /\ job[cw].pc = "test"
  /\ LET c == job[cw].comp IN
     /\ IF c.shape.geom
        THEN use_hw_overlays_' \in {ValidPset(PsetMode)}
                                     \cup (IF "test" \in Env THEN {FALSE} ELSE {})
        ELSE UNCHANGED use_hw_overlays_
     /\ Goto(cw, IF use_hw_overlays_' THEN "queue"
                 ELSE IF NumPlanes(c.shape) > 1 THEN "squash" ELSE "clear")
  /\ UNCHANGED <<workerVars, lock_, queueVars, screenVars, pre_compositor_, fbVars,
                 sqfbVars, modeVars, did_squash_all_, callerVars, destructor, done,
                 comps, crashed>>

\* SquashFrame: wait for the next framebuffer of the ring and render all planes
\* of src into it.  next is where the worker goes with the squashed frame, fail
\* what it does without one.  A frame with a protected layer is not squashed.
SquashFrame(src, next, fail) ==
  \/ /\ "protected" \in Env
     /\ fail /\ UNCHANGED <<fbVars, comps>>
  \/ /\ Released(framebuffers_[framebuffer_index_])
     /\ job' = [job EXCEPT ![cw] = [@ EXCEPT !.pc = next, !.comp = Squashed(src)]]
     /\ framebuffers_' = [framebuffers_ EXCEPT ![framebuffer_index_] = Rendered(comps + 1)]
     /\ framebuffer_index_' = NextFramebuffer(framebuffer_index_)
     /\ comps' = comps + 1
     /\ UNCHANGED thread
  \/ /\ Released(framebuffers_[framebuffer_index_]) /\ "gl" \in Env
     /\ \E r \in RenderFailed(framebuffers_[framebuffer_index_]) :
          framebuffers_' = [framebuffers_ EXCEPT ![framebuffer_index_] = r]
     /\ fail /\ UNCHANGED <<framebuffer_index_, comps>>

\* Composite squashes a frame: the squashed one replaces it, which destroys it.
SquashQueuedFrame ==
  /\ job[cw].pc = "squash"
  /\ SquashFrame(job[cw].comp, "queue", Goto(cw, "clear") /\ UNCHANGED thread)
  /\ done' = IF job'[cw].pc = "queue" THEN done \cup Signalled(job[cw].comp) ELSE done
  /\ UNCHANGED <<exit_, initialized_, exiting, lock_, queueVars, screenVars,
                 overlayVars, sqfbVars, modeVars, did_squash_all_, callerVars,
                 destructor, crashed>>

\* FrameWorker::QueueFrame; the queue has no bound.
QueueFrame ==
  /\ job[cw].pc = "queue"
  /\ frame_queue_' = Append(frame_queue_, job[cw].comp)
  /\ job' = [job EXCEPT ![cw] = [IdleJob EXCEPT !.pc = "signal_frame"]]
  /\ UNCHANGED <<workerVars, lock_, composite_queue_, screenVars, overlayVars,
                 fbVars, sqfbVars, modeVars, did_squash_all_, callerVars, destructor,
                 done, comps, crashed>>

SignalFrameWorker ==
  /\ job[cw].pc = "signal_frame"
  /\ thread' = [thread EXCEPT ![cw] = "top", ![fw] = Notified(@)]
  /\ Goto(cw, "idle")
  /\ UNCHANGED <<exit_, initialized_, exiting, lock_, queueVars, screenVars,
                 overlayVars, fbVars, sqfbVars, modeVars, did_squash_all_,
                 callerVars, destructor, done, comps, crashed>>

-----------------------------------------------------------------------------
(* SquashAll, on the composite worker *)

\* lock_ is taken, and kept while SquashFrame waits for a framebuffer.
SquashAll ==
  /\ job[cw].pc = "squashall" /\ lock_ = "free"
  /\ IF active_composition_ # NoComp /\ NumPlanes(active_composition_.shape) > 1
     THEN Goto(cw, "squashall_fb") /\ lock_' = cw /\ UNCHANGED thread
     ELSE EndRoutine(cw) /\ UNCHANGED lock_
  /\ UNCHANGED <<exit_, initialized_, exiting, queueVars, screenVars,
                 overlayVars, fbVars, sqfbVars, modeVars, did_squash_all_,
                 callerVars, destructor, done, comps, crashed>>

SquashActive ==
  /\ job[cw].pc = "squashall_fb"
  /\ SquashFrame(active_composition_, "commit", EndRoutine(cw))
  /\ lock_' = "free"
  /\ UNCHANGED <<exit_, initialized_, exiting, queueVars, screenVars,
                 overlayVars, sqfbVars, modeVars, did_squash_all_, callerVars,
                 destructor, done, crashed>>

-----------------------------------------------------------------------------
(* ApplyFrame, on the frame worker or, after SquashAll, the composite worker *)

\* CommitFrame puts mode_ into the property set before it waits for fences.
BuildPset(w) ==
  /\ job[w].pc = "commit"
  /\ job' = [job EXCEPT ![w].pc = "kernel", ![w].pset = PsetMode]
  /\ UNCHANGED <<workerVars, lock_, queueVars, screenVars, overlayVars, fbVars,
                 sqfbVars, modeVars, did_squash_all_, callerVars, destructor, done,
                 comps, crashed>>

\* The wait for the acquire fences of directly shown layers and the commit.  A
\* rejected commit returns.  When a wait fails nothing is committed, but a
\* pending modeset is completed all the same, and its result replaces the error.
CommitFrame(w) ==
  /\ job[w].pc = "kernel"
  /\ LET c == job[w].comp
         p == job[w].pset
     IN
     \/ /\ ValidPset(p)
        /\ screen' = c
        /\ crtc_mode' = IF p = None THEN crtc_mode ELSE p
        /\ Goto(w, IF mode_.needs_modeset THEN "modeset" ELSE "signal")
     \/ /\ ~ValidPset(p) \/ "commit" \in Env
        /\ Goto(w, "clear") /\ UNCHANGED <<screen, crtc_mode>>
     \/ /\ "acquire" \in Env /\ c.shape.direct > 0
        /\ Goto(w, IF mode_.needs_modeset THEN "modeset" ELSE "clear")
        /\ UNCHANGED <<screen, crtc_mode>>
  /\ UNCHANGED <<workerVars, lock_, queueVars, active_composition_, overlayVars,
                 fbVars, sqfbVars, mode_, blobs, dpms, did_squash_all_, callerVars,
                 destructor, done, comps, crashed>>

\* CommitFrame after a modeset: the blob of the previous mode goes, and ApplyDpms
\* turns the panel on, for that is the dpms_mode of every frame.
FinishModeset(w) ==
  /\ job[w].pc = "modeset"
  /\ IF mode_.old_blob_id \in blobs \cup {0}
     THEN /\ blobs' = blobs \ {mode_.old_blob_id}
          /\ \/ dpms' = TRUE /\ Goto(w, "adopt")
             \/ "ioctl" \in Env /\ UNCHANGED dpms /\ Goto(w, "clear")
     ELSE UNCHANGED <<blobs, dpms>> /\ Goto(w, "clear")
  /\ UNCHANGED <<workerVars, lock_, queueVars, screenVars, overlayVars, fbVars,
                 sqfbVars, mode_, crtc_mode, did_squash_all_, callerVars, destructor,
                 done, comps, crashed>>

MutantForgetBlob(m) == [m EXCEPT !.blob_id = 0, !.needs_modeset = FALSE]
Adopted(m) ==
  [m EXCEPT !.old_blob_id = m.blob_id, !.blob_id = 0, !.needs_modeset = FALSE]

AdoptMode(w) ==
  /\ job[w].pc = "adopt"
  /\ mode_' = Adopted(mode_)
  /\ Goto(w, "signal")
  /\ UNCHANGED <<workerVars, lock_, queueVars, screenVars, overlayVars, fbVars,
                 sqfbVars, blobs, crtc_mode, dpms, did_squash_all_, callerVars,
                 destructor, done, comps, crashed>>

MutantDoneAtOnce(w) == Signalled(active_composition_) \cup Signalled(job[w].comp)
DoneByCommit(w)     == Signalled(active_composition_)

\* After a commit the fences of the active composition are signalled, without
\* the lock, and under it the new frame takes its place, which destroys it.
SignalActive(w) ==
  /\ job[w].pc = "signal"
  /\ done' = done \cup DoneByCommit(w)
  /\ Goto(w, "swap")
  /\ UNCHANGED <<workerVars, lock_, queueVars, screenVars, overlayVars, fbVars,
                 sqfbVars, modeVars, did_squash_all_, callerVars, destructor, comps,
                 crashed>>

SwapActive(w) ==
  /\ job[w].pc = "swap" /\ lock_ = "free"
  /\ active_composition_' = job[w].comp
  /\ done' = done \cup Signalled(active_composition_)
  /\ EndRoutine(w)
  /\ UNCHANGED <<exit_, initialized_, exiting, lock_, queueVars, screen,
                 overlayVars, fbVars, sqfbVars, modeVars, did_squash_all_,
                 callerVars, destructor, comps, crashed>>

\* ClearDisplay, when a frame failed: the planes of the active composition are
\* disabled and its fences signalled.  The frame that failed is destroyed.
ClearDisplay(w) ==
  /\ job[w].pc = "clear" /\ lock_ = "free"
  /\ \/ /\ active_composition_ # NoComp
        /\ active_composition_' = NoComp /\ screen' = NoComp
        /\ done' = done \cup Signalled(active_composition_) \cup Signalled(job[w].comp)
     \/ /\ active_composition_ = NoComp \/ "disable" \in Env
        /\ done' = done \cup Signalled(job[w].comp)
        /\ UNCHANGED screenVars
  /\ EndRoutine(w)
  /\ UNCHANGED <<exit_, initialized_, exiting, lock_, queueVars, overlayVars,
                 fbVars, sqfbVars, modeVars, did_squash_all_, callerVars, destructor,
                 comps, crashed>>

-----------------------------------------------------------------------------
(* FrameWorker::Routine *)

MutantTakeNewest ==
  LET n == Len(frame_queue_) IN
  /\ job' = [job EXCEPT ![fw] = [IdleJob EXCEPT !.pc = "commit", !.comp = frame_queue_[n]]]
  /\ frame_queue_' = SubSeq(frame_queue_, 1, n - 1)

TakeFrame ==
  /\ job' = [job EXCEPT ![fw] = [IdleJob EXCEPT !.pc = "commit", !.comp = Head(frame_queue_)]]
  /\ frame_queue_' = Tail(frame_queue_)

FrameWorkerRoutine ==
  /\ thread[fw] = "running" /\ job[fw].pc = "idle"
  /\ IF frame_queue_ = <<>>
     THEN WaitForSignalOrExitLocked(fw, FALSE) /\ UNCHANGED <<job, frame_queue_>>
     ELSE TakeFrame /\ UNCHANGED thread
  /\ UNCHANGED <<exit_, initialized_, exiting, lock_, composite_queue_, screenVars,
                 overlayVars, fbVars, sqfbVars, modeVars, did_squash_all_,
                 callerVars, destructor, done, comps, crashed>>

\* After the wait.  On -EINTR a frame that is there is taken and destroyed; on a
\* wakeup with nothing in the queue ApplyFrame gets a null composition.
FrameWorkerWoken ==
  /\ thread[fw] \in Awake
  /\ \/ /\ WaitResult(fw) = "EINTR"
        /\ Return(fw)
        /\ IF frame_queue_ = <<>> THEN UNCHANGED <<frame_queue_, done>>
           ELSE /\ frame_queue_' = Tail(frame_queue_)
                /\ done' = done \cup Signalled(Head(frame_queue_))
        /\ UNCHANGED <<job, crashed>>
     \/ /\ WaitResult(fw) # "EINTR"
        /\ thread' = [thread EXCEPT ![fw] = "running"]
        /\ IF frame_queue_ = <<>>
           THEN crashed' = TRUE /\ UNCHANGED <<job, frame_queue_>>
           ELSE TakeFrame /\ UNCHANGED crashed
        /\ UNCHANGED done
  /\ UNCHANGED <<exit_, initialized_, exiting, lock_, composite_queue_, screenVars,
                 overlayVars, fbVars, sqfbVars, modeVars, did_squash_all_,
                 callerVars, destructor, comps>>

-----------------------------------------------------------------------------
(* Both threads, and the destructor *)

\* Unless frames are slow, the frame worker has long been idle when the
\* composite worker's wait of kSquashWait ends.
ThreadStep ==
  /\ \/ \E w \in Workers : InternalRoutine(w)
     \/ "spurious" \in Env /\ \E w \in Workers : SpuriousWakeup(w)
     \/ ("slow" \in Env \/ FrameWorkerIdle) /\ WaitTimeout(cw)
  /\ UNCHANGED <<lock_, queueVars, screenVars, overlayVars, fbVars, sqfbVars,
                 modeVars, did_squash_all_, job, callerVars, destructor, done, comps,
                 crashed>>

\* ~DrmDisplayCompositor: one worker is stopped, then the other.
ExitStep ==
  /\ \/ /\ destructor = "no" /\ "CLOSE" \in Requests
        /\ \A c \in Callers : call[c].pc = "idle"
        /\ ExitRequest(cw) /\ destructor' = "composite worker"
     \/ /\ destructor = "composite worker"
        /\ \/ (ExitNotify(cw) \/ ExitJoin(cw)) /\ UNCHANGED destructor
           \/ ~initialized_[cw] /\ ExitRequest(fw) /\ destructor' = "frame worker"
     \/ /\ destructor = "frame worker"
        /\ ExitNotify(fw) \/ ExitJoin(fw)
        /\ UNCHANGED destructor
  /\ UNCHANGED <<lock_, queueVars, screenVars, overlayVars, fbVars, sqfbVars,
                 modeVars, did_squash_all_, job, callerVars, done, comps, crashed>>

\* The rest of the destructor, with the members': every composition is destroyed.
\* The planes are left as they are.
Frames(q) == {q[i] : i \in {j \in DOMAIN q : q[j].type = "FRAME"}}

Destroy ==
  /\ destructor = "frame worker" /\ ~initialized_[fw] /\ lock_ = "free"
  /\ destructor' = "destroyed"
  /\ blobs' = blobs \ {mode_.blob_id, mode_.old_blob_id}
  /\ composite_queue_' = <<>> /\ frame_queue_' = <<>>
  /\ active_composition_' = NoComp
  /\ done' = done \cup Signalled(active_composition_)
                  \cup {c.id : c \in Frames(composite_queue_) \cup Frames(frame_queue_)}
  /\ UNCHANGED <<workerVars, lock_, screen, overlayVars, fbVars, sqfbVars, mode_,
                 crtc_mode, dpms, did_squash_all_, job, callerVars, comps, crashed>>

-----------------------------------------------------------------------------
CallerStep(c) == PushComposition(c) \/ SignalCompositeWorker(c)

CompositeWorkerStep ==
  \/ HaveQueuedComposites \/ CompositeWorkerWait \/ CompositeWorkerWoken
  \/ Composite \/ PrepareSquash \/ ApplyPreComposite \/ TestFrame
  \/ SquashQueuedFrame \/ QueueFrame \/ SignalFrameWorker
  \/ SquashAll \/ SquashActive

ApplyFrame(w) ==
  \/ BuildPset(w) \/ CommitFrame(w) \/ FinishModeset(w) \/ AdoptMode(w)
  \/ SignalActive(w) \/ SwapActive(w) \/ ClearDisplay(w)

Next ==
  /\ ~crashed
  /\ \/ \E c \in Callers, s \in Shapes : QueueFrameComposition(c, s)
     \/ \E c \in Callers : QueueControlComposition(c) \/ CallerStep(c)
     \/ CompositeWorkerStep
     \/ FrameWorkerRoutine \/ FrameWorkerWoken
     \/ \E w \in Workers : ApplyFrame(w)
     \/ ThreadStep \/ ExitStep \/ Destroy

Spec == Init /\ [][Next]_vars

\* The scheduler runs each thread that can run, fence waits other than those on
\* framebuffers are bounded, and a timed wait ends.  Nobody has to queue
\* anything, and no progress comes from a spurious wakeup.
Fairness ==
  /\ \A c \in Callers : WF_vars(~crashed /\ CallerStep(c))
  /\ WF_vars(~crashed /\ CompositeWorkerStep)
  /\ WF_vars(~crashed /\ (FrameWorkerRoutine \/ FrameWorkerWoken))
  /\ \A w \in Workers : WF_vars(~crashed /\ ApplyFrame(w))
  /\ \A w \in Workers : WF_vars(~crashed /\ ThreadStep /\ InternalRoutine(w))
  /\ WF_vars(~crashed /\ ThreadStep /\ WaitTimeout(cw))
  /\ WF_vars(~crashed /\ ((destructor # "no" /\ ExitStep) \/ Destroy))

FairSpec == Spec /\ Fairness

-----------------------------------------------------------------------------
(* Properties *)

Fb == [fence : Nat, content : Nat]

FrameComps ==
  [type : {"FRAME"}, id : Nat \ {0}, frame_no : Nat \ {0}, shape : FrameShapes,
   squash : Nat, fb : -1..DRM_DISPLAY_BUFFERS-1, sqfb : -1..1]
ControlComps ==
  [type : {"DPMS"}, id : {0}, on : BOOLEAN] \cup
  [type : {"MODESET"}, id : {0}, mode : Nat \ {0}]
JobPcs ==
  {"idle", "wait", "composite", "squash_fb", "pre_fb", "test", "squash", "queue",
   "signal_frame", "squashall", "squashall_fb", "commit", "kernel", "modeset",
   "adopt", "signal", "swap", "clear"}

TypeOK ==
  /\ WorkerTypeOK
  /\ lock_ \in {"free", cw}
  /\ composite_queue_ \in Seq(FrameComps \cup ControlComps)
  /\ frame_queue_ \in Seq(FrameComps)
  /\ active_composition_ \in FrameComps \cup {NoComp}
  /\ screen \in FrameComps \cup {NoComp}
  /\ active_ \in BOOLEAN /\ use_hw_overlays_ \in BOOLEAN /\ pre_compositor_ \in BOOLEAN
  /\ did_squash_all_ \in BOOLEAN
  /\ framebuffer_index_ \in 0..DRM_DISPLAY_BUFFERS-1
  /\ squash_framebuffer_index_ \in 0..1
  /\ framebuffers_ \in [0..DRM_DISPLAY_BUFFERS-1 -> Fb]
  /\ squash_framebuffers_ \in [0..1 -> Fb]
  /\ mode_ \in [needs_modeset : BOOLEAN, mode : Nat, blob_id : Nat, old_blob_id : Nat]
  /\ blobs \subseteq Nat /\ crtc_mode \in Nat /\ dpms \in BOOLEAN
  /\ job \in [Workers -> [pc : JobPcs, comp : FrameComps \cup {NoComp}, pset : Nat \cup {None}]]
  /\ call \in [Callers -> [pc : {"idle", "push", "signal"},
                           comp : FrameComps \cup ControlComps \cup {NoComp}]]
  /\ destructor \in {"no", "composite worker", "frame worker", "destroyed"}
  /\ done \subseteq Nat \ {0}
  /\ squash_state_ \in Nat /\ comps \in Nat /\ frames \in Nat /\ controls \in Nat
  /\ crashed \in BOOLEAN

\* Frames that are prepared and on their way to the screen.
Prepared == Frames(frame_queue_) \cup {job[w].comp : w \in Workers}

\* All frames that are on their way to the screen.
InFlight ==
  Prepared \cup Frames(composite_queue_) \cup {call[c].comp : c \in Callers}

\* No frame's fences are signalled while its buffers are still to be shown or
\* are being scanned out.
NoEarlyRelease ==
  destructor # "destroyed" =>
    \A c \in InFlight \cup {screen} : c.type = "FRAME" => c.id \notin done

\* The framebuffer that is scanned out, and those that prepared frames are going
\* to show, hold what was rendered for the frame: the ring and its fences keep
\* the renderer away from them.
RingShown ==
  \A c \in Prepared \cup {screen} :
    c.type = "FRAME" /\ c.fb # None => framebuffers_[c.fb].content = c.id

\* The same for the two squash framebuffers, which a frame may show again that
\* were rendered for an earlier one.
SquashShown ==
  \A c \in Prepared \cup {screen} :
    c.type = "FRAME" /\ c.sqfb # None => squash_framebuffers_[c.sqfb].content = c.squash

\* Nothing is drawn into a framebuffer that is shown or waits to be.
NoTearing == RingShown /\ SquashShown

\* The screen never goes back to an older frame: SquashAll does not overtake
\* a frame that is being committed.
NoStaleFrame == [][screen' # NoComp => screen'.frame_no >= screen.frame_no]_screen

\* Nothing is going on.
Quiescent ==
  /\ composite_queue_ = <<>> /\ frame_queue_ = <<>>
  /\ \A w \in Workers : job[w].pc = "idle"
  /\ \A c \in Callers : call[c].pc = "idle"

\* A mode that was requested is either still to be set or the mode of the CRTC.
ModeApplied == Quiescent /\ ~mode_.needs_modeset => crtc_mode = mode_.mode

\* The mode blobs that exist are those mode_ names, and those it needs exist.
BlobsAccounted ==
  destructor # "destroyed" /\ (\A w \in Workers : job[w].pc \notin {"modeset", "adopt"}) =>
    blobs = {mode_.blob_id, mode_.old_blob_id} \ {0}

\* When all requests are worked off the panel is on if the display is active.
\* The destructor drops those that are left.
PanelLit == Quiescent /\ active_ /\ destructor # "destroyed" => dpms

\* A frame that no thread, queue or screen owns any more has been released: no
\* error path, race or refusal leaves SurfaceFlinger waiting for its fences.
NoFenceLost ==
  \A i \in 1..comps :
    i \in done \/ \E c \in InFlight \cup {active_composition_} : c.id = i

\* QueueComposition blocks SurfaceFlinger before it gets far ahead: besides the
\* frames the two workers hold, no more than two queues of the given depth wait.
BacklogBounded ==
  Len(composite_queue_) + Len(frame_queue_) <= 2 * DRM_DISPLAY_COMPOSITOR_MAX_QUEUE_DEPTH

\* A frame is on screen or released in the end, unless the process crashed or
\* the composite worker sleeps without a timeout after a SquashAll.
FrameResolved ==
  \A n \in 1..MaxFrames :
    (\E c \in InFlight : c.type = "FRAME" /\ c.frame_no = n) ~>
      \/ ~\E c \in InFlight : c.type = "FRAME" /\ c.frame_no = n
      \/ crashed \/ (thread[cw] = "waiting" /\ did_squash_all_)

\* The destructor returns.
DestructorReturns == (destructor # "no") ~> (destructor = "destroyed" \/ crashed)

\* ApplyFrame returns: a frame that failed does not keep the worker.
ClearDisplayReturns ==
  \A w \in Workers : (job[w].pc = "clear") ~> (job[w].pc # "clear" \/ crashed)
=============================================================================
