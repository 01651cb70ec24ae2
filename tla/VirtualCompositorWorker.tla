---------------------- MODULE VirtualCompositorWorker ----------------------
(***************************************************************************)
(* Composition of the virtual display                                      *)
(* (drm_hwcomposer/virtualcompositorworker.cpp).  hwc_set, on              *)
(* SurfaceFlinger's thread, creates the retire and release fences of a     *)
(* frame on a sw_sync timeline, hands the frame to the worker through      *)
(* composite_queue_ and signals it; the worker waits for the acquire       *)
(* fences of the frame and then advances the timeline to the frame's last  *)
(* fence, which signals all its fences.                                    *)
(*                                                                         *)
(* A fence is its point on the timeline; it is signalled when the kernel's *)
(* counter sw_sync has reached that point.                                 *)
(***************************************************************************)
EXTENDS Worker, Integers, Sequences

CONSTANTS
  kMaxQueueDepth,  \* frames composite_queue_ may hold
  MaxFences,       \* bound: fences of one frame (the retire fence, one per layer)
  MaxTimeline      \* bound: fences created in a behaviour

vw == "virtual-compositor"

ASSUME VirtualCompositorAssumption ==
  /\ vw \in Workers
  /\ kMaxQueueDepth \in Nat \ {0}
  /\ MaxFences \in Nat \ {0}
  /\ MaxTimeline \in Nat

VARIABLES
  timeline_,         \* last fence point handed out
  timeline_current_, \* the worker's record of how far sw_sync has advanced
  sw_sync,           \* kernel counter of timeline_fd_
  composite_queue_,  \* sequence of Frames
  composing,         \* the frame Compose() is working on, or NoFrame
  caller,            \* hwc_set's thread: see CallerStates
  queueing           \* the frame QueueComposite is queueing, or NoFrame

vars == <<exit_, initialized_, thread, exiting, timeline_, timeline_current_,
          sw_sync, composite_queue_, composing, caller, queueing>>

\* The fences of a frame are the points first .. release_timeline.
Frames == [first : Nat, release_timeline : Nat]
NoFrame == [first |-> 0, release_timeline |-> 0]

CallerStates == {"idle",     \* not inside QueueComposite
                 "push",     \* fences created, frame not yet in the queue
                 "signal",   \* pushed and unlocked, Signal() still to come
                 "closing",  \* in ~hwc_context_t
                 "closed"}   \* object destroyed

TypeOK ==
  /\ WorkerTypeOK
  /\ timeline_ \in Nat /\ timeline_current_ \in Nat /\ sw_sync \in Nat
  /\ composite_queue_ \in Seq(Frames)
  /\ composing \in Frames /\ queueing \in Frames
  /\ caller \in CallerStates

Init ==
  /\ WorkerInit
  /\ timeline_ = 0 /\ timeline_current_ = 0 /\ sw_sync = 0
  /\ composite_queue_ = <<>>
  /\ composing = NoFrame /\ queueing = NoFrame
  /\ caller = "idle"

-----------------------------------------------------------------------------
(* hwc_set's thread *)

Start ==
  /\ caller = "idle" /\ thread[vw] = "none"
  /\ InitWorker(vw)
  /\ UNCHANGED <<timeline_, timeline_current_, sw_sync, composite_queue_,
                 composing, caller, queueing>>

\* QueueComposite up to Lock(): n fences are created, in order.
QueueComposite(n) ==
  /\ caller = "idle" /\ initialized_[vw]
  /\ timeline_ + n <= MaxTimeline
  /\ timeline_' = timeline_ + n
  /\ queueing' = [first |-> timeline_ + 1, release_timeline |-> timeline_ + n]
  /\ caller' = "push"
  /\ UNCHANGED workerVars
  /\ UNCHANGED <<timeline_current_, sw_sync, composite_queue_, composing>>

\* The locked section; while the queue is full the caller spins outside it.
PushComposite ==
  /\ caller = "push"
  /\ Len(composite_queue_) < kMaxQueueDepth
  /\ composite_queue_' = Append(composite_queue_, queueing)
  /\ queueing' = NoFrame
  /\ caller' = "signal"
  /\ UNCHANGED workerVars
  /\ UNCHANGED <<timeline_, timeline_current_, sw_sync, composing>>

SignalComposite ==
  /\ caller = "signal"
  /\ Signal(vw)
  /\ caller' = "idle"
  /\ UNCHANGED <<exit_, initialized_, exiting, timeline_, timeline_current_,
                 sw_sync, composite_queue_, composing, queueing>>

-----------------------------------------------------------------------------
(* The worker's thread *)

\* FinishComposition: sw_sync_timeline_inc may fail, and then the record of
\* the timeline stays where the timeline is.
FinishComposition(point) ==
  IF point <= timeline_current_
  THEN UNCHANGED <<sw_sync, timeline_current_>>
  ELSE \/ /\ sw_sync' = sw_sync + (point - timeline_current_)
          /\ timeline_current_' = point
       \/ UNCHANGED <<sw_sync, timeline_current_>>

MutantPopBack ==
  /\ composing' = composite_queue_[Len(composite_queue_)]
  /\ composite_queue_' = SubSeq(composite_queue_, 1, Len(composite_queue_) - 1)

PopFront ==
  /\ composing' = Head(composite_queue_)
  /\ composite_queue_' = Tail(composite_queue_)

\* Routine()'s locked section when it does not sleep, or up to its sleep.
Routine ==
  /\ thread[vw] = "running" /\ composing = NoFrame
  /\ \/ /\ composite_queue_ = <<>>
        /\ WaitForSignalOrExitLocked(vw, FALSE)
        /\ UNCHANGED <<composite_queue_, composing>>
     \/ /\ composite_queue_ # <<>>
        /\ PopFront
        /\ UNCHANGED thread
  /\ UNCHANGED <<exit_, initialized_, exiting, timeline_, timeline_current_,
                 sw_sync, caller, queueing>>

\* The rest of the section after the sleep.  On -EINTR a frame that is there
\* is still popped, and dropped without its fences being signalled.
RoutineWoken ==
  /\ thread[vw] \in Awake
  /\ \/ /\ composite_queue_ = <<>>
        /\ Return(vw)
        /\ UNCHANGED <<composite_queue_, composing>>
     \/ /\ composite_queue_ # <<>> /\ WaitResult(vw) = "EINTR"
        /\ Return(vw)
        /\ composite_queue_' = Tail(composite_queue_)
        /\ UNCHANGED composing
     \/ /\ composite_queue_ # <<>> /\ WaitResult(vw) # "EINTR"
        /\ PopFront
        /\ thread' = [thread EXCEPT ![vw] = "running"]
  /\ UNCHANGED <<exit_, initialized_, exiting, timeline_, timeline_current_,
                 sw_sync, caller, queueing>>

\* Compose(): all acquire fences fire and the frame's fences are signalled,
\* or one of the waits times out and the frame is dropped.
Compose ==
  /\ composing # NoFrame
  /\ \/ FinishComposition(composing.release_timeline)
     \/ UNCHANGED <<sw_sync, timeline_current_>>
  /\ composing' = NoFrame
  /\ Return(vw)
  /\ UNCHANGED <<exit_, initialized_, exiting, timeline_, composite_queue_,
                 caller, queueing>>

WorkerThread ==
  /\ InternalRoutine(vw) \/ SpuriousWakeup(vw)
  /\ UNCHANGED <<timeline_, timeline_current_, sw_sync, composite_queue_,
                 composing, caller, queueing>>

-----------------------------------------------------------------------------
(* ~hwc_context_t: Exit() first, then the destructor of the worker *)

Close ==
  /\ \/ caller = "idle" /\ ExitRequest(vw) /\ caller' = "closing"
     \/ caller = "closing" /\ (ExitNotify(vw) \/ ExitJoin(vw)) /\ UNCHANGED caller
  /\ UNCHANGED <<timeline_, timeline_current_, sw_sync, composite_queue_,
                 composing, queueing>>

Destroy ==
  /\ caller = "closing" /\ exiting[vw] = "no"
  /\ FinishComposition(timeline_)
  /\ caller' = "closed"
  /\ composite_queue_' = <<>>
  /\ UNCHANGED workerVars
  /\ UNCHANGED <<timeline_, composing, queueing>>

Next ==
  \/ Start
  \/ \E n \in 1..MaxFences : QueueComposite(n)
  \/ PushComposite
  \/ SignalComposite
  \/ Routine
  \/ RoutineWoken
  \/ Compose
  \/ WorkerThread
  \/ Close
  \/ Destroy

Spec == Init /\ [][Next]_vars

\* The scheduler runs every thread that can run; the acquire fence waits are
\* bounded (kAcquireWaitTimeoutMs), so Compose ends.  Nothing obliges
\* SurfaceFlinger to queue a frame or to close the device, and a wakeup must
\* come from a Signal(): spurious ones are never relied upon.
Fairness ==
  /\ WF_vars(PushComposite) /\ WF_vars(SignalComposite)
  /\ WF_vars(Routine) /\ WF_vars(RoutineWoken) /\ WF_vars(Compose)
  /\ WF_vars(InternalRoutine(vw) /\ WorkerThread)
  /\ WF_vars(caller = "closing" /\ Close) /\ WF_vars(Destroy)

FairSpec == Spec /\ Fairness

-----------------------------------------------------------------------------
(* Properties *)

\* The frames whose content is still needed: being queued, in the queue, or
\* waiting in Compose() for their acquire fences.
Pending ==
  {f \in {queueing, composing} : f # NoFrame}
    \cup {composite_queue_[i] : i \in DOMAIN composite_queue_}

\* No fence of a frame is signalled while the frame is pending: whatever
\* frames timed out before it, and whatever sw_sync_timeline_inc did,
\* SurfaceFlinger does not get a buffer back that has not been composed.
NoEarlyRelease ==
  caller # "closed" => \A f \in Pending : sw_sync < f.first

\* A queued frame is taken out of the queue: a wakeup is never lost between
\* the worker's look at the queue and its sleep, and Exit() cannot hang.
EveryFrameTaken ==
  \A p \in 1..MaxTimeline :
    (\E i \in DOMAIN composite_queue_ : composite_queue_[i].first = p)
      ~> ~(\E i \in DOMAIN composite_queue_ : composite_queue_[i].first = p)
=============================================================================
