------------------- MODULE VirtualCompositorWorkerProofs -------------------
(***************************************************************************)
(* VirtualCompositorWorker releases no buffer early, for every queue depth *)
(* and any number of frames and fences.                                    *)
(*                                                                         *)
(* NoEarlyRelease says that the timeline stands below the fences of all    *)
(* pending frames.  It is kept by a step of the worker only because the    *)
(* frames are ordered: the fences of the frame that is being composed come *)
(* before those of the frames in the queue, these come in the order of the *)
(* queue, and those of the frame that is being queued come last.           *)
(***************************************************************************)
EXTENDS VirtualCompositorWorker, TLAPS

\* The operations that are whole actions keep the worker's variables typed.
LEMMA WorkerTypes ==
  ASSUME WorkerTypeOK, NEW w \in Workers
  PROVE  /\ InitWorker(w) => WorkerTypeOK'
         /\ ExitRequest(w) => WorkerTypeOK'
         /\ ExitNotify(w) => WorkerTypeOK'
         /\ ExitJoin(w) => WorkerTypeOK'
         /\ InternalRoutine(w) => WorkerTypeOK'
         /\ SpuriousWakeup(w) => WorkerTypeOK'
         /\ WaitTimeout(w) => WorkerTypeOK'
  BY DEF WorkerTypeOK, ThreadStates, Asleep, Awake, InitWorker, ExitRequest,
         ExitNotify, ExitJoin, InternalRoutine, SpuriousWakeup, WaitTimeout,
         Signal, Notified

\* So do the steps of a Routine(), which change thread only.
LEMMA ThreadTypes ==
  ASSUME WorkerTypeOK, NEW w \in Workers, UNCHANGED <<exit_, initialized_, exiting>>
  PROVE  /\ Signal(w) => WorkerTypeOK'
         /\ Return(w) => WorkerTypeOK'
         /\ thread' = [thread EXCEPT ![w] = "running"] => WorkerTypeOK'
         /\ WaitForSignalOrExitLocked(w, TRUE) => WorkerTypeOK'
         /\ WaitForSignalOrExitLocked(w, FALSE) => WorkerTypeOK'
         /\ UNCHANGED thread => WorkerTypeOK'
  BY DEF WorkerTypeOK, ThreadStates, Asleep, Awake, Signal, Notified, Return,
         WaitForSignalOrExitLocked

\* All fences of f come before those of g.
Before(f, g) == f.release_timeline < g.first

\* The fences of f exist and none is signalled.
Unsignalled(f) ==
  /\ timeline_current_ < f.first /\ f.first <= f.release_timeline
  /\ f.release_timeline <= timeline_

Ordered ==
  /\ sw_sync = timeline_current_ /\ timeline_current_ <= timeline_
  /\ (queueing # NoFrame) <=> (caller = "push")
  /\ queueing # NoFrame => Unsignalled(queueing)
  /\ composing # NoFrame => Unsignalled(composing)
  /\ \A i \in DOMAIN composite_queue_ : Unsignalled(composite_queue_[i])
  /\ \A i, j \in DOMAIN composite_queue_ :
       i < j => Before(composite_queue_[i], composite_queue_[j])
  /\ composing # NoFrame =>
       \A i \in DOMAIN composite_queue_ : Before(composing, composite_queue_[i])
  /\ queueing # NoFrame =>
       \A i \in DOMAIN composite_queue_ : Before(composite_queue_[i], queueing)
  /\ queueing # NoFrame /\ composing # NoFrame => Before(composing, queueing)

IInv == TypeOK /\ (caller # "closed" => Ordered)

-----------------------------------------------------------------------------
\* What FinishComposition does to the timeline: it stays, or it advances to the
\* given point, and the worker's record with it.
LEMMA FinishCompositionEffect ==
  ASSUME timeline_current_ \in Nat, sw_sync = timeline_current_,
         NEW point \in Nat, FinishComposition(point)
  PROVE  \/ UNCHANGED <<sw_sync, timeline_current_>>
         \/ /\ timeline_current_ < point
            /\ sw_sync' = point /\ timeline_current_' = point
  BY DEF FinishComposition

LEMMA FinishCompositionTypes ==
  ASSUME timeline_current_ \in Nat, sw_sync \in Nat,
         NEW point \in Nat, FinishComposition(point)
  PROVE  timeline_current_' \in Nat /\ sw_sync' \in Nat
  BY DEF FinishComposition

\* Taking the front of the queue leaves a queue of frames.
LEMMA PopFrontTypes ==
  ASSUME composite_queue_ \in Seq(Frames), composite_queue_ # <<>>
  PROVE  /\ Head(composite_queue_) \in Frames
         /\ Tail(composite_queue_) \in Seq(Frames)
         /\ Head(composite_queue_) = composite_queue_[1]
         /\ 1 \in DOMAIN composite_queue_
         /\ \A i \in DOMAIN Tail(composite_queue_) :
              /\ i \in Nat /\ i + 1 \in DOMAIN composite_queue_
              /\ Tail(composite_queue_)[i] = composite_queue_[i + 1]
  OBVIOUS

\* The state every variable starts in, and every step leads to, is well typed.
LEMMA TypeStep ==
  ASSUME TypeOK, [Next]_vars
  PROVE  TypeOK'
<1> USE VirtualCompositorAssumption
<1>0. vw \in Workers
  OBVIOUS
<1>1. CASE Start
  BY <1>0, <1>1, WorkerTypes DEF TypeOK, Start
<1>2. ASSUME NEW n \in 1..MaxFences, QueueComposite(n)
      PROVE  TypeOK'
  <2>1. WorkerTypeOK'
    BY <1>0, <1>2, ThreadTypes DEF TypeOK, QueueComposite, workerVars
  <2>2. queueing' \in Frames /\ timeline_' \in Nat
    BY <1>2 DEF TypeOK, QueueComposite, Frames
  <2> QED
    BY <1>2, <2>1, <2>2 DEF TypeOK, QueueComposite, CallerStates
<1>3. CASE PushComposite
  <2>1. WorkerTypeOK'
    BY <1>0, <1>3, ThreadTypes DEF TypeOK, PushComposite, workerVars
  <2>2. composite_queue_' \in Seq(Frames) /\ queueing' \in Frames
    BY <1>3 DEF TypeOK, PushComposite, Frames, NoFrame
  <2> QED
    BY <1>3, <2>1, <2>2 DEF TypeOK, PushComposite, CallerStates
<1>4. CASE SignalComposite
  BY <1>0, <1>4, ThreadTypes DEF TypeOK, SignalComposite, CallerStates
<1>5. CASE Routine
  <2>1. WorkerTypeOK'
    BY <1>0, <1>5, ThreadTypes DEF TypeOK, Routine
  <2>2. composite_queue_' \in Seq(Frames) /\ composing' \in Frames
    BY <1>5, PopFrontTypes DEF TypeOK, Routine, PopFront
  <2> QED
    BY <1>5, <2>1, <2>2 DEF TypeOK, Routine
<1>6. CASE RoutineWoken
  <2>1. WorkerTypeOK'
    BY <1>0, <1>6, ThreadTypes DEF TypeOK, RoutineWoken
  <2>2. composite_queue_' \in Seq(Frames) /\ composing' \in Frames
    BY <1>6, PopFrontTypes DEF TypeOK, RoutineWoken, PopFront
  <2> QED
    BY <1>6, <2>1, <2>2 DEF TypeOK, RoutineWoken
<1>7. CASE Compose
  <2>1. WorkerTypeOK'
    BY <1>0, <1>7, ThreadTypes DEF TypeOK, Compose
  <2>2. composing' \in Frames /\ timeline_current_' \in Nat /\ sw_sync' \in Nat
    BY <1>7, FinishCompositionTypes DEF TypeOK, Compose, Frames, NoFrame
  <2> QED
    BY <1>7, <2>1, <2>2 DEF TypeOK, Compose
<1>8. CASE WorkerThread
  BY <1>0, <1>8, WorkerTypes DEF TypeOK, WorkerThread
<1>9. CASE Close
  BY <1>0, <1>9, WorkerTypes DEF TypeOK, Close, CallerStates
<1>10. CASE Destroy
  <2>1. WorkerTypeOK'
    BY <1>0, <1>10, ThreadTypes DEF TypeOK, Destroy, workerVars
  <2>2. timeline_current_' \in Nat /\ sw_sync' \in Nat
    BY <1>10, FinishCompositionTypes DEF TypeOK, Destroy
  <2> QED
    BY <1>10, <2>1, <2>2 DEF TypeOK, Destroy, CallerStates
<1>11. CASE UNCHANGED vars
  BY <1>0, <1>11, ThreadTypes DEF TypeOK, vars, workerVars
<1> QED
  BY <1>1, <1>2, <1>3, <1>4, <1>5, <1>6, <1>7, <1>8, <1>9, <1>10, <1>11 DEF Next

\* Every reachable state is well typed.
THEOREM TypeCorrect == Spec => []TypeOK
<1>1. Init => TypeOK
  BY DEF Init, WorkerInit, TypeOK, WorkerTypeOK, ThreadStates, Frames, NoFrame, CallerStates
<1>2. TypeOK /\ [Next]_vars => TypeOK'
  BY TypeStep
<1> QED
  BY <1>1, <1>2, PTL DEF Spec

-----------------------------------------------------------------------------
\* The frames stay ordered when the worker takes one, or drops it: with the
\* front out of the queue the others keep their order.
LEMMA PopFrontOrdered ==
  ASSUME TypeOK, Ordered, composite_queue_ # <<>>,
         composite_queue_' = Tail(composite_queue_),
         composing' = Head(composite_queue_) \/ composing' = composing,
         UNCHANGED <<timeline_, timeline_current_, sw_sync, caller, queueing>>
  PROVE  Ordered'
<1> DEFINE q == composite_queue_
           t == Tail(composite_queue_)
<1>1. /\ q[1] \in Frames /\ Head(q) = q[1] /\ 1 \in DOMAIN q
      /\ \A i \in DOMAIN q : i \in Nat /\ 1 <= i
      /\ \A i \in DOMAIN t : i \in Nat /\ i + 1 \in DOMAIN q /\ t[i] = q[i + 1]
  BY PopFrontTypes DEF TypeOK
<1>2. \A i \in DOMAIN t : 1 < i + 1
  <2> TAKE i \in DOMAIN t
  <2>1. i \in DOMAIN t /\ t \in Seq(Frames)
    BY PopFrontTypes DEF TypeOK
  <2> QED
    BY <2>1
<1>3. \A i \in DOMAIN t : Unsignalled(t[i]) /\ Before(q[1], t[i])
  BY <1>1, <1>2 DEF Ordered
<1>4. \A i, j \in DOMAIN t : i < j => Before(t[i], t[j])
  BY <1>1 DEF Ordered
<1>5. composing # NoFrame => \A i \in DOMAIN t : Before(composing, t[i])
  BY <1>1 DEF Ordered
<1>6. queueing # NoFrame => \A i \in DOMAIN t : Before(t[i], queueing)
  BY <1>1 DEF Ordered
<1>7. queueing # NoFrame => Before(q[1], queueing)
  BY <1>1 DEF Ordered
<1>8. Unsignalled(q[1])
  BY <1>1 DEF Ordered
<1>9. composing' = q[1] \/ composing' = composing
  BY <1>1
<1> HIDE DEF q
<1> QED
  BY <1>3, <1>4, <1>5, <1>6, <1>7, <1>8, <1>9 DEF Ordered, Unsignalled, Before, q

\* Signalling the fences of the frame that was composed leaves those of all
\* others alone.
LEMMA ComposeOrdered ==
  ASSUME TypeOK, Ordered, Compose
  PROVE  Ordered'
<1>1. composing.release_timeline \in Nat /\ composing # NoFrame
  BY DEF TypeOK, Frames, Compose
<1>2. /\ sw_sync' = timeline_current_'
      /\ timeline_current_' \in {timeline_current_, composing.release_timeline}
  BY <1>1, FinishCompositionEffect DEF Compose, Ordered, TypeOK
<1>3. \A f \in Frames : Unsignalled(f) /\ Before(composing, f) => Unsignalled(f)'
  BY <1>1, <1>2 DEF Unsignalled, Before, Frames, Compose, TypeOK
<1>4. timeline_current_' <= timeline_'
  BY <1>1, <1>2 DEF Ordered, Unsignalled, Compose
<1>5. /\ composing' = NoFrame
      /\ UNCHANGED <<timeline_, composite_queue_, caller, queueing>>
  BY DEF Compose
<1>6. \A i \in DOMAIN composite_queue_ : composite_queue_[i] \in Frames
  BY DEF TypeOK
<1>7. \A i \in DOMAIN composite_queue_' : Unsignalled(composite_queue_[i])'
  BY <1>1, <1>3, <1>5, <1>6 DEF Ordered
<1>8. queueing # NoFrame => Unsignalled(queueing)'
  BY <1>1, <1>3, <1>5 DEF Ordered, TypeOK
<1> QED
  BY <1>2, <1>4, <1>5, <1>7, <1>8 DEF Ordered, Before, Unsignalled

\* New fences come after all that exist.
LEMMA QueueCompositeOrdered ==
  ASSUME TypeOK, Ordered, NEW n \in 1..MaxFences, QueueComposite(n)
  PROVE  Ordered'
<1>1. /\ n \in Nat /\ 1 <= n
      /\ timeline_' = timeline_ + n /\ timeline_ \in Nat
      /\ queueing' = [first |-> timeline_ + 1, release_timeline |-> timeline_ + n]
      /\ caller' = "push" /\ queueing = NoFrame
      /\ UNCHANGED <<timeline_current_, sw_sync, composite_queue_, composing>>
  BY VirtualCompositorAssumption DEF QueueComposite, Ordered, TypeOK
<1>2. queueing'.first = timeline_ + 1 /\ queueing'.release_timeline = timeline_ + n
  BY <1>1
<1>3. \A f \in Frames : Unsignalled(f) => Unsignalled(f)' /\ Before(f, queueing')
  BY <1>1, <1>2 DEF Unsignalled, Before, Frames, TypeOK
<1>4. Unsignalled(queueing)' /\ queueing' # NoFrame
  BY <1>1, <1>2 DEF Unsignalled, Ordered, TypeOK, NoFrame
<1>5. \A i \in DOMAIN composite_queue_ : composite_queue_[i] \in Frames
  BY DEF TypeOK
<1>6. timeline_current_' <= timeline_'
  BY <1>1 DEF Ordered, TypeOK
<1> QED
  BY <1>1, <1>3, <1>4, <1>5, <1>6 DEF Ordered, TypeOK, Before

\* The frame that is being queued goes behind all others.
LEMMA PushCompositeOrdered ==
  ASSUME TypeOK, Ordered, PushComposite
  PROVE  Ordered'
<1> DEFINE q == composite_queue_
           a == Append(composite_queue_, queueing)
<1>1. /\ q \in Seq(Frames) /\ queueing \in Frames /\ queueing # NoFrame
      /\ composite_queue_' = a /\ queueing' = NoFrame /\ caller' = "signal"
      /\ UNCHANGED <<timeline_, timeline_current_, sw_sync, composing>>
  BY DEF TypeOK, Ordered, PushComposite
<1>2. \A i \in DOMAIN a : /\ i \in Nat
                          /\ \/ i \in DOMAIN q /\ a[i] = q[i]
                             \/ i = Len(q) + 1 /\ a[i] = queueing
  BY <1>1
<1>3. \A i \in DOMAIN q : i < Len(q) + 1
  BY <1>1
<1>4. \A i \in DOMAIN a : Unsignalled(a[i])
  BY <1>1, <1>2 DEF Ordered
<1>5. \A i, j \in DOMAIN a : i < j => Before(a[i], a[j])
  <2> SUFFICES ASSUME NEW i \in DOMAIN a, NEW j \in DOMAIN a, i < j
               PROVE  Before(a[i], a[j])
    OBVIOUS
  <2>1. i \in DOMAIN q /\ a[i] = q[i]
    <3>1. i # Len(q) + 1
      BY <1>1, <1>2, <1>3
    <3> QED
      BY <1>2, <3>1
  <2>2. CASE j \in DOMAIN q /\ a[j] = q[j]
    BY <2>1, <2>2 DEF Ordered
  <2>3. CASE a[j] = queueing
    BY <1>1, <2>1, <2>3 DEF Ordered
  <2> QED
    BY <1>2, <2>2, <2>3
<1>6. composing # NoFrame => \A i \in DOMAIN a : Before(composing, a[i])
  BY <1>1, <1>2 DEF Ordered
<1> HIDE DEF a
<1> QED
  BY <1>1, <1>4, <1>5, <1>6 DEF Ordered, Before, Unsignalled

\* The inductive step.
LEMMA OrderedStep ==
  ASSUME IInv, [Next]_vars
  PROVE  IInv'
<1>1. TypeOK /\ TypeOK'
  BY TypeStep DEF IInv
<1> SUFFICES ASSUME caller' # "closed"
             PROVE  Ordered'
  BY <1>1 DEF IInv
<1>2. CASE Destroy
  BY <1>2 DEF Destroy
<1>3. CASE Start
  BY <1>1, <1>3 DEF IInv, Start, Ordered, Unsignalled, Before
<1>4. ASSUME NEW n \in 1..MaxFences, QueueComposite(n)
      PROVE  Ordered'
  BY <1>1, <1>4, QueueCompositeOrdered DEF IInv, QueueComposite
<1>5. CASE PushComposite
  BY <1>1, <1>5, PushCompositeOrdered DEF IInv, PushComposite
<1>6. CASE SignalComposite
  BY <1>1, <1>6 DEF IInv, SignalComposite, Ordered, Unsignalled, Before
<1>7. CASE Routine
  BY <1>1, <1>7, PopFrontOrdered DEF IInv, Routine, PopFront, Ordered, Unsignalled, Before
<1>8. CASE RoutineWoken
  BY <1>1, <1>8, PopFrontOrdered DEF IInv, RoutineWoken, PopFront, Ordered, Unsignalled, Before
<1>9. CASE Compose
  BY <1>1, <1>9, ComposeOrdered DEF IInv, Compose
<1>10. CASE WorkerThread
  BY <1>1, <1>10 DEF IInv, WorkerThread, Ordered, Unsignalled, Before
<1>11. CASE Close
  BY <1>1, <1>11 DEF IInv, Close, Ordered, Unsignalled, Before
<1>12. CASE UNCHANGED vars
  BY <1>1, <1>12 DEF IInv, vars, Ordered, Unsignalled, Before
<1> QED
  BY <1>2, <1>3, <1>4, <1>5, <1>6, <1>7, <1>8, <1>9, <1>10, <1>11, <1>12 DEF Next

\* No fence of a frame is signalled while the frame is pending, whichever frames
\* time out and whichever calls of sw_sync_timeline_inc fail.
THEOREM ReleasedInOrder == Spec => []NoEarlyRelease
<1>1. Init => IInv
  <2>1. Init => TypeOK
    BY DEF Init, WorkerInit, TypeOK, WorkerTypeOK, ThreadStates, Frames, NoFrame,
           CallerStates
  <2>2. Init => Ordered
    BY DEF Init, Ordered
  <2> QED
    BY <2>1, <2>2 DEF IInv
<1>2. IInv /\ [Next]_vars => IInv'
  BY OrderedStep
<1>3. IInv => NoEarlyRelease
  BY DEF IInv, Ordered, Unsignalled, NoEarlyRelease, Pending
<1> QED
  BY <1>1, <1>2, <1>3, PTL DEF Spec
=============================================================================
