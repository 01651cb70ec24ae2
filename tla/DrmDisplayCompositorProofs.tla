--------------------- MODULE DrmDisplayCompositorProofs ---------------------
(***************************************************************************)
(* Proofs about the display compositor, for any number of callers, frames, *)
(* framebuffers and requests and every queue depth.                        *)
(***************************************************************************)
EXTENDS DrmDisplayCompositor, TLAPS

-----------------------------------------------------------------------------
(* Types, and what a worker holds at each place of its routine *)

\* The places at which a worker has no frame in hand.
EmptyHanded == {"idle", "wait", "composite", "squashall", "squashall_fb", "signal_frame"}

\* The places of ApplyFrame, and those the frame worker can be at.
ApplyPcs == {"commit", "kernel", "modeset", "adopt", "signal", "swap"}
FramePcs == ApplyPcs \cup {"idle", "clear"}

Jobs == [pc : JobPcs, comp : FrameComps \cup {NoComp}, pset : Nat \cup {None}]
CallStates == [pc : {"idle", "push", "signal"},
               comp : FrameComps \cup ControlComps \cup {NoComp}]

\* The part of TypeOK the arguments need.
QueuesTyped == /\ composite_queue_ \in Seq(FrameComps \cup ControlComps)
               /\ frame_queue_ \in Seq(FrameComps)
ScreenTyped == /\ active_composition_ \in FrameComps \cup {NoComp}
               /\ screen \in FrameComps \cup {NoComp}
JobTyped    == job \in [Workers -> Jobs]
CallTyped   == call \in [Callers -> CallStates]
RingTyped   == framebuffer_index_ \in 0..DRM_DISPLAY_BUFFERS-1
SquashTyped == squash_framebuffer_index_ \in 0..1
ModeTyped   == mode_ \in [needs_modeset : BOOLEAN, mode : Nat, blob_id : Nat, old_blob_id : Nat]
CountsTyped == comps \in Nat /\ frames \in Nat /\ controls \in Nat /\ squash_state_ \in Nat
DoneTyped   == done \subseteq Nat \ {0}
ThreadTyped == DOMAIN thread = Workers

\* A worker inside Routine() runs, has a frame in hand from the time it took it
\* to the time it gave it away, and holds lock_ only in SquashAll; a caller has
\* a composition in hand until it has pushed it.
FrameWorkerPcs == job[fw].pc \in FramePcs
RunningInRoutine == \A w \in Workers : job[w].pc # "idle" => thread[w] = "running"
InHand == \A w \in Workers : job[w].comp = NoComp <=> job[w].pc \in EmptyHanded
LockHeld == /\ lock_ = cw <=> job[cw].pc = "squashall_fb"
            /\ lock_ = cw => active_composition_ # NoComp
CallInHand == \A c \in Callers : call[c].comp = NoComp <=> call[c].pc # "push"

TypeInv ==
  /\ QueuesTyped /\ ScreenTyped /\ JobTyped /\ CallTyped /\ RingTyped /\ SquashTyped
  /\ ModeTyped /\ CountsTyped /\ DoneTyped /\ ThreadTyped
  /\ FrameWorkerPcs /\ RunningInRoutine /\ InHand /\ LockHeld /\ CallInHand

LEMMA BothWorkersThere == cw \in Workers /\ fw \in Workers /\ cw # fw
                          /\ \A w \in Workers : w = cw \/ w = fw
BY CompositorAssumption DEF cw, fw

LEMMA CompTypes ==
  /\ NoComp \notin FrameComps /\ NoComp \notin ControlComps
  /\ FrameComps \cap ControlComps = {}
  /\ \A c \in FrameComps : c.type = "FRAME" /\ c.id \in Nat \ {0}
  /\ \A c \in ControlComps : c.type # "FRAME" /\ c.id = 0
  /\ NoComp.id = 0 /\ NoComp.type # "FRAME"
<1>1. NoComp.id = 0 /\ NoComp.type = "EMPTY"
  BY DEF NoComp
<1>2. \A c \in FrameComps : c.type = "FRAME" /\ c.id \in Nat \ {0}
  BY DEF FrameComps
<1>3. \A c \in ControlComps : c.type \in {"DPMS", "MODESET"} /\ c.id = 0
  BY DEF ControlComps
<1> QED BY <1>1, <1>2, <1>3

\* Frames as the compositor makes them.
LEMMA NewFrameTypes ==
  ASSUME NEW id \in Nat \ {0}, NEW no \in Nat \ {0}, NEW shape \in FrameShapes,
         NEW squash \in Nat
  PROVE  Frame(id, no, shape, squash) \in FrameComps
<1>1. -1 \in -1..(DRM_DISPLAY_BUFFERS-1) /\ -1 \in -1..1
  BY CompositorAssumption
<1> QED BY <1>1 DEF Frame, FrameComps, None

LEMMA SquashedTypes ==
  ASSUME comps \in Nat, framebuffer_index_ \in 0..DRM_DISPLAY_BUFFERS-1,
         NEW src \in FrameComps
  PROVE  /\ Squashed(src) \in FrameComps
         /\ Squashed(src).id = comps + 1
         /\ Squashed(src).frame_no = src.frame_no
         /\ Squashed(src).fb = framebuffer_index_
         /\ Squashed(src).sqfb = None
<1> DEFINE shape == [pre |-> TRUE, sq |-> "none", direct |-> 0, geom |-> FALSE]
           f == Frame(comps + 1, src.frame_no, shape, 0)
<1>1. shape \in FrameShapes
  BY DEF FrameShapes
<1>2. f \in FrameComps
  <2>1. src.frame_no \in Nat \ {0} /\ comps + 1 \in Nat \ {0}
    BY DEF FrameComps
  <2> HIDE DEF shape
  <2> QED BY <1>1, <2>1, NewFrameTypes
<1>3. Squashed(src) = [f EXCEPT !.fb = framebuffer_index_]
  BY DEF Squashed
<1>4. f.id = comps + 1 /\ f.frame_no = src.frame_no /\ f.sqfb = None
  BY DEF Frame
<1>5. framebuffer_index_ \in -1..DRM_DISPLAY_BUFFERS-1
  BY CompositorAssumption
<1> HIDE DEF f
<1> QED BY <1>2, <1>3, <1>4, <1>5 DEF FrameComps

LEMMA InitTypes == Init => TypeInv
<1> SUFFICES ASSUME Init PROVE TypeInv
  OBVIOUS
<1>1. JobTyped
  BY DEF Init, JobTyped, Jobs, IdleJob, JobPcs, None
<1>2. RingTyped /\ SquashTyped
  BY CompositorAssumption DEF Init, RingTyped, SquashTyped
<1>3. CallTyped /\ CallInHand
  BY DEF Init, CallTyped, CallStates, CallInHand
<1>4. QueuesTyped /\ ScreenTyped /\ CountsTyped /\ DoneTyped /\ ThreadTyped
  BY DEF Init, QueuesTyped, ScreenTyped, CountsTyped, DoneTyped, ThreadTyped
<1>5. FrameWorkerPcs /\ RunningInRoutine /\ InHand /\ LockHeld
  BY BothWorkersThere DEF Init, FrameWorkerPcs, RunningInRoutine, InHand, LockHeld,
     IdleJob, FramePcs, EmptyHanded, cw
<1>6. ModeTyped
  BY DEF Init, ModeTyped
<1> QED BY <1>1, <1>2, <1>3, <1>4, <1>5, <1>6 DEF TypeInv


\* Worker w goes to pc with the frame comp in hand; the other stays.
Moves(w, pc, comp) ==
  /\ JobTyped'
  /\ job'[w].pc = pc /\ job'[w].comp = comp
  /\ \A v \in Workers \ {w} : job'[v] = job[v]

LEMMA GotoMoves ==
  ASSUME JobTyped, NEW w \in Workers, NEW pc \in JobPcs, Goto(w, pc)
  PROVE  Moves(w, pc, job[w].comp)
BY DEF Jobs, JobTyped, Goto, Moves

LEMMA EndRoutineMoves ==
  ASSUME JobTyped, ThreadTyped, NEW w \in Workers, EndRoutine(w)
  PROVE  /\ Moves(w, "idle", NoComp)
         /\ ThreadTyped' /\ \A v \in Workers \ {w} : thread'[v] = thread[v]
BY DEF Jobs, JobTyped, ThreadTyped, EndRoutine, Return, IdleJob, JobPcs, None, Moves

\* What a move has to respect.
LEMMA MoveTypes ==
  ASSUME TypeInv, NEW w \in Workers, NEW pc, NEW comp, Moves(w, pc, comp),
         comp = NoComp <=> pc \in EmptyHanded,
         w = fw => pc \in FramePcs,
         pc # "idle" => thread'[w] = "running",
         \A v \in Workers \ {w} : thread[v] = "running" => thread'[v] = "running"
  PROVE  JobTyped' /\ FrameWorkerPcs' /\ RunningInRoutine' /\ InHand'
BY BothWorkersThere DEF Moves, TypeInv, FrameWorkerPcs, RunningInRoutine, InHand

\* Notifying a worker does not disturb one that runs.
LEMMA SignalKeepsRunning ==
  ASSUME ThreadTyped, NEW w \in Workers, Signal(w)
  PROVE  ThreadTyped' /\ \A v \in Workers : thread[v] = "running" => thread'[v] = "running"
BY DEF ThreadTyped, Signal, Notified, Asleep

LEMMA CallerTypes ==
  ASSUME TypeInv, NEW c \in Callers,
         \/ \E s \in Shapes : QueueFrameComposition(c, s)
         \/ QueueControlComposition(c)
         \/ CallerStep(c)
  PROVE  TypeInv'
<1> USE DEF TypeInv, workerVars, queueVars, fbVars, sqfbVars, modeVars, overlayVars, screenVars
<1>1. ASSUME NEW s \in Shapes, QueueFrameComposition(c, s) PROVE TypeInv'
  <2>1. CountsTyped' /\ comps' = comps + 1 /\ frames' = frames + 1
    BY <1>1, CompositorAssumption DEF CountsTyped, QueueFrameComposition, PlanSquash, FrameShapes
  <2>2. Frame(comps + 1, frames + 1, s, squash_state_') \in FrameComps
    BY <2>1, NewFrameTypes, CompositorAssumption DEF CountsTyped
  <2>3. CallTyped' /\ CallInHand'
    BY <1>1, <2>2, CompTypes DEF CallTyped, CallInHand, CallStates, QueueFrameComposition
  <2>4. DoneTyped'
    <3>1. done' \in {done, done \cup {comps + 1}}
      BY <1>1 DEF QueueFrameComposition
    <3> QED BY <3>1 DEF CountsTyped, DoneTyped
  <2> QED
    BY <1>1, <2>1, <2>3, <2>4 DEF QueueFrameComposition, QueuesTyped, ScreenTyped, JobTyped,
       RingTyped, SquashTyped, ModeTyped, ThreadTyped, FrameWorkerPcs, RunningInRoutine, InHand, LockHeld
<1>2. CASE QueueControlComposition(c)
  <2>1. \A on \in BOOLEAN : Dpms(on) \in ControlComps
    BY DEF Dpms, ControlComps
  <2>2. Modeset(controls + 1) \in ControlComps
    BY DEF Modeset, ControlComps, CountsTyped
  <2>3. CallTyped' /\ CallInHand'
    BY <1>2, <2>1, <2>2, CompTypes DEF CallTyped, CallInHand, CallStates, QueueControlComposition
  <2>4. CountsTyped'
    BY <1>2 DEF CountsTyped, QueueControlComposition
  <2> QED
    BY <1>2, <2>3, <2>4 DEF QueueControlComposition, QueuesTyped, ScreenTyped, JobTyped,
       RingTyped, SquashTyped, ModeTyped, DoneTyped, ThreadTyped, FrameWorkerPcs, RunningInRoutine,
       InHand, LockHeld
<1>3. CASE PushComposition(c)
  <2>1. call[c].comp \in FrameComps \cup ControlComps
    BY <1>3 DEF CallTyped, CallStates, CallInHand, PushComposition
  <2>2. QueuesTyped'
    BY <1>3, <2>1 DEF QueuesTyped, PushComposition
  <2>3. CallTyped' /\ CallInHand'
    BY <1>3 DEF CallTyped, CallInHand, CallStates, PushComposition
  <2> QED
    BY <1>3, <2>2, <2>3 DEF PushComposition, ScreenTyped, JobTyped, CountsTyped,
       RingTyped, SquashTyped, ModeTyped, DoneTyped, ThreadTyped, FrameWorkerPcs, RunningInRoutine,
       InHand, LockHeld
<1>4. CASE SignalCompositeWorker(c)
  <2>1. ThreadTyped' /\ RunningInRoutine'
    BY <1>4, SignalKeepsRunning, BothWorkersThere DEF RunningInRoutine, SignalCompositeWorker
  <2>2. CallTyped' /\ CallInHand'
    BY <1>4 DEF CallTyped, CallInHand, CallStates, SignalCompositeWorker
  <2> QED
    BY <1>4, <2>1, <2>2 DEF SignalCompositeWorker, QueuesTyped, ScreenTyped, JobTyped,
       CountsTyped, RingTyped, SquashTyped, ModeTyped, DoneTyped, FrameWorkerPcs, InHand, LockHeld
<1> QED BY <1>1, <1>2, <1>3, <1>4 DEF CallerStep

\* The queues lose their front.
LEMMA PopTypes ==
  ASSUME NEW T, NEW q \in Seq(T), q # <<>>
  PROVE  /\ Head(q) \in T /\ Tail(q) \in Seq(T)
         /\ Head(q) = q[1] /\ 1 \in DOMAIN q
         /\ \A i \in DOMAIN Tail(q) :
              /\ i \in Nat /\ i + 1 \in DOMAIN q /\ i + 1 # 1
              /\ Tail(q)[i] = q[i + 1]
         /\ \A i \in DOMAIN q : i # 1 => i - 1 \in DOMAIN Tail(q) /\ Tail(q)[i - 1] = q[i]
OBVIOUS

LEMMA WaitTypes ==
  ASSUME TypeInv, HaveQueuedComposites \/ CompositeWorkerWait \/ CompositeWorkerWoken
  PROVE  TypeInv'
<1> USE BothWorkersThere
    DEF TypeInv, workerVars, queueVars, fbVars, sqfbVars, modeVars, overlayVars, screenVars,
        callerVars, EmptyHanded, JobPcs
<1> SUFFICES JobTyped' /\ FrameWorkerPcs' /\ RunningInRoutine' /\ InHand' /\ LockHeld' /\ ThreadTyped'
  BY DEF HaveQueuedComposites, CompositeWorkerWait, CompositeWorkerWoken, QueuesTyped,
     ScreenTyped, CallTyped, RingTyped, SquashTyped, ModeTyped, CountsTyped, DoneTyped, CallInHand
<1>1. CASE HaveQueuedComposites
  <2>1. PICK pc \in {"wait", "composite"} : Goto(cw, pc)
    BY <1>1 DEF HaveQueuedComposites
  <2>2. Moves(cw, pc, NoComp)
    BY <1>1, <2>1, GotoMoves DEF HaveQueuedComposites, InHand
  <2>3. JobTyped' /\ FrameWorkerPcs' /\ RunningInRoutine' /\ InHand'
    BY <1>1, <2>1, <2>2, MoveTypes DEF HaveQueuedComposites
  <2> QED BY <1>1, <2>1, <2>2, <2>3 DEF HaveQueuedComposites, LockHeld, ThreadTyped, Moves
<1>2. CASE CompositeWorkerWait
  <2>1. Moves(cw, "idle", NoComp)
    BY <1>2, GotoMoves DEF CompositeWorkerWait, InHand
  <2>2. ThreadTyped' /\ \A v \in Workers \ {cw} : thread'[v] = thread[v]
    BY <1>2 DEF CompositeWorkerWait, WaitForSignalOrExitLocked, ThreadTyped
  <2>3. JobTyped' /\ FrameWorkerPcs' /\ RunningInRoutine' /\ InHand'
    BY <2>1, <2>2, MoveTypes
  <2> QED BY <1>2, <2>1, <2>2, <2>3 DEF CompositeWorkerWait, LockHeld, Moves
<1>3. CASE CompositeWorkerWoken
  <2>1. job[cw].pc = "idle" /\ job[cw].comp = NoComp
    BY <1>3 DEF CompositeWorkerWoken, RunningInRoutine, InHand, Awake
  <2>2. CASE Return(cw) /\ UNCHANGED job
    BY <1>3, <2>1, <2>2 DEF CompositeWorkerWoken, Return, ThreadTyped, LockHeld, JobTyped,
       FrameWorkerPcs, RunningInRoutine, InHand
  <2>3. ASSUME NEW pc \in {"squashall", "composite"}, Goto(cw, pc),
               thread' = [thread EXCEPT ![cw] = "running"]
        PROVE  JobTyped' /\ FrameWorkerPcs' /\ RunningInRoutine' /\ InHand' /\ LockHeld' /\ ThreadTyped'
    <3>1. Moves(cw, pc, NoComp)
      BY <2>1, <2>3, GotoMoves
    <3>2. ThreadTyped' /\ thread'[cw] = "running" /\ \A v \in Workers \ {cw} : thread'[v] = thread[v]
      BY <2>3 DEF ThreadTyped
    <3>3. JobTyped' /\ FrameWorkerPcs' /\ RunningInRoutine' /\ InHand'
      BY <3>1, <3>2, MoveTypes
    <3> QED BY <1>3, <2>1, <3>1, <3>2, <3>3 DEF CompositeWorkerWoken, LockHeld, Moves
  <2> QED BY <1>3, <2>2, <2>3 DEF CompositeWorkerWoken
<1> QED BY <1>1, <1>2, <1>3
LEMMA CompositeTypes ==
  ASSUME TypeInv, Composite
  PROVE  TypeInv'
<1> USE BothWorkersThere
    DEF TypeInv, fbVars, sqfbVars, modeVars, screenVars, callerVars, EmptyHanded, JobPcs
<1>0. job[cw].pc = "composite" /\ job[cw].comp = NoComp
      /\ UNCHANGED <<lock_, frame_queue_, active_composition_, screen, framebuffer_index_,
                     squash_framebuffer_index_, active_, call, squash_state_, frames, controls,
                     done, comps>>
  BY DEF Composite, InHand
<1>1. \/ EndRoutine(cw) /\ composite_queue_' \in {composite_queue_, Tail(composite_queue_)}
         /\ (composite_queue_ = <<>> => composite_queue_' = composite_queue_)
      \/ /\ composite_queue_ # <<>> /\ composite_queue_' = Tail(composite_queue_)
         /\ Head(composite_queue_).type = "FRAME"
         /\ job' = [job EXCEPT ![cw] = [@ EXCEPT !.pc = "squash_fb", !.comp = Head(composite_queue_)]]
         /\ UNCHANGED thread
  BY DEF Composite
<1>2. QueuesTyped'
  <2>1. composite_queue_ # <<>> => Tail(composite_queue_) \in Seq(FrameComps \cup ControlComps)
    BY PopTypes DEF QueuesTyped
  <2> QED BY <1>0, <1>1, <2>1 DEF QueuesTyped
<1>3. JobTyped' /\ FrameWorkerPcs' /\ RunningInRoutine' /\ InHand' /\ ThreadTyped'
      /\ job'[cw].pc # "squashall_fb"
  <2>1. CASE EndRoutine(cw)
    <3>1. Moves(cw, "idle", NoComp) /\ ThreadTyped' /\ \A v \in Workers \ {cw} : thread'[v] = thread[v]
      BY <2>1, EndRoutineMoves
    <3> QED BY <3>1, MoveTypes DEF Moves
  <2>2. CASE /\ composite_queue_ # <<>> /\ Head(composite_queue_).type = "FRAME"
             /\ job' = [job EXCEPT ![cw] = [@ EXCEPT !.pc = "squash_fb", !.comp = Head(composite_queue_)]]
             /\ UNCHANGED thread
    <3>1. Head(composite_queue_) \in FrameComps
      BY <2>2, PopTypes, CompTypes DEF QueuesTyped
    <3>2. Moves(cw, "squash_fb", Head(composite_queue_))
      BY <2>2, <3>1 DEF Moves, JobTyped, Jobs
    <3>3. thread[cw] = "running"
      BY <1>0 DEF RunningInRoutine
    <3> QED BY <2>2, <3>1, <3>2, <3>3, CompTypes, MoveTypes DEF Moves, ThreadTyped
  <2> QED BY <1>1, <2>1, <2>2
<1>4. ModeTyped'
  <2>1. CASE mode_' = mode_
    BY <2>1 DEF ModeTyped
  <2>2. CASE mode_' # mode_
    <3>1. PICK c \in ControlComps :
            /\ c.type = "MODESET"
            /\ \/ mode_' = [mode_ EXCEPT !.mode = c.mode, !.blob_id = c.mode, !.needs_modeset = TRUE]
               \/ mode_' = [mode_ EXCEPT !.mode = c.mode, !.blob_id = 0]
      <4>1. composite_queue_ # <<>> /\ Head(composite_queue_).type = "MODESET"
            /\ LET c == Head(composite_queue_) IN
               \/ mode_' = [mode_ EXCEPT !.mode = c.mode, !.blob_id = c.mode, !.needs_modeset = TRUE]
               \/ mode_' = [mode_ EXCEPT !.mode = c.mode, !.blob_id = 0]
        BY <2>2 DEF Composite
      <4>2. Head(composite_queue_) \in ControlComps
        BY <4>1, PopTypes, CompTypes DEF QueuesTyped
      <4> QED BY <4>1, <4>2
    <3>2. c.mode \in Nat
      BY <3>1 DEF ControlComps
    <3>3. [mode_ EXCEPT !.mode = c.mode, !.blob_id = c.mode, !.needs_modeset = TRUE]
          \in [needs_modeset : BOOLEAN, mode : Nat, blob_id : Nat, old_blob_id : Nat]
      BY <3>2 DEF ModeTyped
    <3>4. [mode_ EXCEPT !.mode = c.mode, !.blob_id = 0]
          \in [needs_modeset : BOOLEAN, mode : Nat, blob_id : Nat, old_blob_id : Nat]
      BY <3>2 DEF ModeTyped
    <3> QED BY <3>1, <3>3, <3>4 DEF ModeTyped
  <2> QED BY <2>1, <2>2
<1> QED
  BY <1>0, <1>2, <1>3, <1>4 DEF ScreenTyped, CallTyped, RingTyped, SquashTyped, CountsTyped, DoneTyped,
     CallInHand, LockHeld

\* PrepareFrame either goes on with the frame, with a framebuffer added to it,
\* or abandons it.
LEMMA AbandonTypes ==
  ASSUME TypeInv, NEW c \in FrameComps, AbandonFrame(c)
  PROVE  /\ Moves(cw, "idle", NoComp) /\ ThreadTyped' /\ DoneTyped'
         /\ FrameWorkerPcs' /\ RunningInRoutine' /\ InHand'
<1>1. Moves(cw, "idle", NoComp) /\ ThreadTyped' /\ \A v \in Workers \ {cw} : thread'[v] = thread[v]
  BY EndRoutineMoves, BothWorkersThere DEF AbandonFrame, TypeInv
<1>2. FrameWorkerPcs' /\ RunningInRoutine' /\ InHand'
  BY <1>1, MoveTypes, BothWorkersThere DEF EmptyHanded
<1>3. DoneTyped'
  BY CompTypes DEF TypeInv, AbandonFrame, Signalled, DoneTyped
<1> QED BY <1>1, <1>2, <1>3

LEMMA PrepareSquashTypes ==
  ASSUME TypeInv, PrepareSquash
  PROVE  TypeInv'
<1> USE BothWorkersThere
    DEF TypeInv, queueVars, fbVars, sqfbVars, modeVars, screenVars, callerVars, EmptyHanded, JobPcs
<1> DEFINE c == job[cw].comp
           k == IF c.shape.sq = "render" THEN (squash_framebuffer_index_ + 1) % 2
                ELSE squash_framebuffer_index_
<1>0. job[cw].pc = "squash_fb" /\ c \in FrameComps /\ thread[cw] = "running"
  BY DEF PrepareSquash, JobTyped, Jobs, InHand, RunningInRoutine
<1>1. k \in 0..1 /\ squash_framebuffer_index_' \in {k, squash_framebuffer_index_}
  BY DEF PrepareSquash, SquashTyped
<1>2. \/ Goto(cw, "pre_fb") /\ UNCHANGED <<thread, done>>
      \/ /\ job' = [job EXCEPT ![cw] = [@ EXCEPT !.pc = "pre_fb", !.comp.sqfb = k]]
         /\ UNCHANGED <<thread, done>>
      \/ AbandonFrame(c)
  BY DEF PrepareSquash
<1>3. JobTyped' /\ FrameWorkerPcs' /\ RunningInRoutine' /\ InHand' /\ ThreadTyped' /\ DoneTyped'
      /\ job'[cw].pc # "squashall_fb"
  <2>1. CASE Goto(cw, "pre_fb") /\ UNCHANGED <<thread, done>>
    <3>1. Moves(cw, "pre_fb", c)
      BY <2>1, GotoMoves
    <3> QED BY <1>0, <2>1, <3>1, MoveTypes, CompTypes DEF Moves, ThreadTyped, DoneTyped
  <2>2. CASE /\ job' = [job EXCEPT ![cw] = [@ EXCEPT !.pc = "pre_fb", !.comp.sqfb = k]]
             /\ UNCHANGED <<thread, done>>
    <3>1. [c EXCEPT !.sqfb = k] \in FrameComps
      BY <1>0, <1>1 DEF FrameComps
    <3>2. Moves(cw, "pre_fb", [c EXCEPT !.sqfb = k])
      BY <2>2, <3>1 DEF Moves, JobTyped, Jobs
    <3> HIDE DEF k
    <3> QED BY <1>0, <2>2, <3>1, <3>2, MoveTypes, CompTypes DEF Moves, ThreadTyped, DoneTyped
  <2>3. CASE AbandonFrame(c)
    BY <1>0, <2>3, AbandonTypes DEF Moves
  <2> QED BY <1>2, <2>1, <2>2, <2>3
<1>4. SquashTyped'
  BY <1>1 DEF SquashTyped
<1> QED
  BY <1>0, <1>3, <1>4 DEF PrepareSquash, QueuesTyped, ScreenTyped, CallTyped, RingTyped, ModeTyped,
     CountsTyped, CallInHand, LockHeld

LEMMA NextFramebufferTypes ==
  ASSUME NEW k \in 0..DRM_DISPLAY_BUFFERS-1
  PROVE  NextFramebuffer(k) \in 0..DRM_DISPLAY_BUFFERS-1
BY CompositorAssumption DEF NextFramebuffer

LEMMA ApplyPreCompositeTypes ==
  ASSUME TypeInv, ApplyPreComposite
  PROVE  TypeInv'
<1> USE BothWorkersThere
    DEF TypeInv, queueVars, fbVars, sqfbVars, modeVars, screenVars, callerVars, EmptyHanded, JobPcs
<1> DEFINE c == job[cw].comp
           k == framebuffer_index_
<1>0. job[cw].pc = "pre_fb" /\ c \in FrameComps /\ thread[cw] = "running"
  BY DEF ApplyPreComposite, JobTyped, Jobs, InHand, RunningInRoutine
<1>1. framebuffer_index_' \in {k, NextFramebuffer(k)}
  BY DEF ApplyPreComposite
<1>2. \/ Goto(cw, "test") /\ UNCHANGED <<thread, done>>
      \/ /\ job' = [job EXCEPT ![cw] = [@ EXCEPT !.pc = "test", !.comp.fb = k]]
         /\ UNCHANGED <<thread, done>>
      \/ AbandonFrame(c)
  BY DEF ApplyPreComposite
<1>3. JobTyped' /\ FrameWorkerPcs' /\ RunningInRoutine' /\ InHand' /\ ThreadTyped' /\ DoneTyped'
      /\ job'[cw].pc # "squashall_fb"
  <2>1. CASE Goto(cw, "test") /\ UNCHANGED <<thread, done>>
    <3>1. Moves(cw, "test", c)
      BY <2>1, GotoMoves
    <3> QED BY <1>0, <2>1, <3>1, MoveTypes, CompTypes DEF Moves, ThreadTyped, DoneTyped
  <2>2. CASE /\ job' = [job EXCEPT ![cw] = [@ EXCEPT !.pc = "test", !.comp.fb = k]]
             /\ UNCHANGED <<thread, done>>
    <3>1. k \in -1..DRM_DISPLAY_BUFFERS-1
      BY CompositorAssumption DEF RingTyped
    <3>2. [c EXCEPT !.fb = k] \in FrameComps
      BY <1>0, <3>1 DEF FrameComps
    <3>3. Moves(cw, "test", [c EXCEPT !.fb = k])
      BY <2>2, <3>2 DEF Moves, JobTyped, Jobs
    <3> QED BY <1>0, <2>2, <3>2, <3>3, MoveTypes, CompTypes DEF Moves, ThreadTyped, DoneTyped
  <2>3. CASE AbandonFrame(c)
    BY <1>0, <2>3, AbandonTypes DEF Moves
  <2> QED BY <1>2, <2>1, <2>2, <2>3
<1>4. RingTyped'
  BY <1>1, NextFramebufferTypes DEF RingTyped
<1> QED
  BY <1>0, <1>3, <1>4 DEF ApplyPreComposite, QueuesTyped, ScreenTyped, CallTyped, SquashTyped, ModeTyped,
     CountsTyped, CallInHand, LockHeld
LEMMA TestFrameTypes ==
  ASSUME TypeInv, TestFrame
  PROVE  TypeInv'
<1> USE BothWorkersThere
    DEF TypeInv, workerVars, queueVars, fbVars, sqfbVars, modeVars, screenVars, callerVars, EmptyHanded, JobPcs
<1>0. job[cw].pc = "test" /\ job[cw].comp \in FrameComps /\ thread[cw] = "running"
      /\ thread' = thread
  BY DEF TestFrame, JobTyped, Jobs, InHand, RunningInRoutine
<1>1. PICK pc \in {"queue", "squash", "clear"} : Goto(cw, pc)
  BY DEF TestFrame
<1>2. Moves(cw, pc, job[cw].comp)
  BY <1>1, GotoMoves
<1>3. JobTyped' /\ FrameWorkerPcs' /\ RunningInRoutine' /\ InHand' /\ job'[cw].pc # "squashall_fb"
  BY <1>0, <1>1, <1>2, MoveTypes, CompTypes DEF Moves
<1> QED
  BY <1>0, <1>3 DEF TestFrame, QueuesTyped, ScreenTyped, CallTyped, SquashTyped, ModeTyped, ThreadTyped,
     RingTyped, CountsTyped, DoneTyped, CallInHand, LockHeld

\* SquashFrame makes a new frame out of src, or does what `fail' says.
SquashSucceeds(src, next) ==
  /\ Released(framebuffers_[framebuffer_index_])
  /\ job' = [job EXCEPT ![cw] = [@ EXCEPT !.pc = next, !.comp = Squashed(src)]]
  /\ framebuffers_' = [framebuffers_ EXCEPT ![framebuffer_index_] = Rendered(comps + 1)]
  /\ framebuffer_index_' = NextFramebuffer(framebuffer_index_)
  /\ comps' = comps + 1
  /\ UNCHANGED thread

LEMMA SquashSucceedsTypes ==
  ASSUME TypeInv, NEW src \in FrameComps, NEW next \in {"queue", "commit"},
         job[cw].pc # "idle", SquashSucceeds(src, next)
  PROVE  /\ Moves(cw, next, Squashed(src)) /\ ThreadTyped'
         /\ FrameWorkerPcs' /\ RunningInRoutine' /\ InHand' /\ RingTyped'
         /\ Squashed(src) \in FrameComps /\ comps' = comps + 1
<1>1. Squashed(src) \in FrameComps
  BY SquashedTypes DEF TypeInv, CountsTyped, RingTyped
<1>2. Moves(cw, next, Squashed(src))
  BY <1>1, BothWorkersThere DEF TypeInv, SquashSucceeds, Moves, JobTyped, Jobs, JobPcs
<1>3. thread[cw] = "running" /\ thread' = thread
  BY BothWorkersThere DEF TypeInv, RunningInRoutine, SquashSucceeds
<1>4. FrameWorkerPcs' /\ RunningInRoutine' /\ InHand'
  BY <1>1, <1>2, <1>3, MoveTypes, CompTypes, BothWorkersThere DEF EmptyHanded
<1>5. RingTyped'
  BY NextFramebufferTypes DEF TypeInv, RingTyped, SquashSucceeds
<1> QED BY <1>1, <1>2, <1>3, <1>4, <1>5 DEF TypeInv, ThreadTyped, SquashSucceeds

LEMMA SquashQueuedTypes ==
  ASSUME TypeInv, SquashQueuedFrame
  PROVE  TypeInv'
<1> USE BothWorkersThere
    DEF TypeInv, queueVars, fbVars, sqfbVars, modeVars, screenVars, callerVars, EmptyHanded, JobPcs
<1>0. job[cw].pc = "squash" /\ job[cw].comp \in FrameComps /\ thread[cw] = "running"
  BY DEF SquashQueuedFrame, JobTyped, Jobs, InHand, RunningInRoutine
<1>1. \/ SquashSucceeds(job[cw].comp, "queue")
      \/ Goto(cw, "clear") /\ UNCHANGED <<thread, framebuffer_index_, comps>>
  BY DEF SquashQueuedFrame, SquashFrame, SquashSucceeds
<1>2. /\ JobTyped' /\ FrameWorkerPcs' /\ RunningInRoutine' /\ InHand' /\ ThreadTyped'
      /\ RingTyped' /\ comps' \in {comps, comps + 1} /\ job'[cw].pc # "squashall_fb"
  <2>1. CASE SquashSucceeds(job[cw].comp, "queue")
    BY <1>0, <2>1, SquashSucceedsTypes DEF Moves
  <2>2. CASE Goto(cw, "clear") /\ UNCHANGED <<thread, framebuffer_index_, comps>>
    <3>1. Moves(cw, "clear", job[cw].comp)
      BY <2>2, GotoMoves
    <3> QED BY <1>0, <2>2, <3>1, MoveTypes, CompTypes DEF Moves, ThreadTyped, RingTyped
  <2> QED BY <1>1, <2>1, <2>2
<1>3. DoneTyped'
  BY <1>0, CompTypes DEF SquashQueuedFrame, Signalled, DoneTyped
<1> QED
  BY <1>0, <1>2, <1>3 DEF SquashQueuedFrame, QueuesTyped, ScreenTyped, CallTyped, SquashTyped, ModeTyped,
     CountsTyped, CallInHand, LockHeld

LEMMA QueueFrameTypes ==
  ASSUME TypeInv, QueueFrame \/ SignalFrameWorker
  PROVE  TypeInv'
<1> USE BothWorkersThere
    DEF TypeInv, workerVars, queueVars, fbVars, sqfbVars, modeVars, screenVars, callerVars, EmptyHanded, JobPcs
<1>1. CASE QueueFrame
  <2>0. job[cw].comp \in FrameComps /\ thread[cw] = "running" /\ job[cw].pc = "queue"
    BY <1>1 DEF QueueFrame, JobTyped, Jobs, InHand, RunningInRoutine
  <2>1. Moves(cw, "signal_frame", NoComp)
    BY <1>1 DEF QueueFrame, IdleJob, Moves, JobTyped, Jobs, None
  <2>2. JobTyped' /\ FrameWorkerPcs' /\ RunningInRoutine' /\ InHand' /\ job'[cw].pc # "squashall_fb"
    BY <1>1, <2>0, <2>1, MoveTypes DEF Moves, QueueFrame
  <2>3. QueuesTyped'
    BY <1>1, <2>0 DEF QueueFrame, QueuesTyped
  <2> QED
    BY <1>1, <2>0, <2>2, <2>3 DEF QueueFrame, ScreenTyped, CallTyped, SquashTyped, ModeTyped, ThreadTyped,
       RingTyped, CountsTyped, DoneTyped, CallInHand, LockHeld
<1>2. CASE SignalFrameWorker
  <2>0. job[cw].comp = NoComp /\ job[cw].pc = "signal_frame"
    BY <1>2 DEF SignalFrameWorker, InHand
  <2>1. Moves(cw, "idle", NoComp)
    BY <1>2, <2>0, GotoMoves DEF SignalFrameWorker
  <2>2. ThreadTyped' /\ \A v \in Workers \ {cw} : thread[v] = "running" => thread'[v] = "running"
    BY <1>2 DEF SignalFrameWorker, ThreadTyped, Notified, Asleep
  <2>3. JobTyped' /\ FrameWorkerPcs' /\ RunningInRoutine' /\ InHand' /\ job'[cw].pc # "squashall_fb"
    BY <2>1, <2>2, MoveTypes DEF Moves
  <2> QED
    BY <1>2, <2>0, <2>2, <2>3 DEF SignalFrameWorker, QueuesTyped, ScreenTyped, CallTyped,
       SquashTyped, ModeTyped, RingTyped, CountsTyped, DoneTyped, CallInHand, LockHeld
<1> QED BY <1>1, <1>2

LEMMA SquashAllTypes ==
  ASSUME TypeInv, SquashAll \/ SquashActive
  PROVE  TypeInv'
<1> USE BothWorkersThere
    DEF TypeInv, queueVars, fbVars, sqfbVars, modeVars, screenVars, callerVars, EmptyHanded, JobPcs
<1>1. CASE SquashAll
  <2>0. job[cw].comp = NoComp /\ job[cw].pc = "squashall" /\ thread[cw] = "running"
    BY <1>1 DEF SquashAll, InHand, RunningInRoutine
  <2>1. /\ JobTyped' /\ FrameWorkerPcs' /\ RunningInRoutine' /\ InHand' /\ ThreadTyped' /\ LockHeld'
    <3>1. CASE active_composition_ # NoComp /\ Goto(cw, "squashall_fb") /\ lock_' = cw /\ UNCHANGED thread
      <4>1. Moves(cw, "squashall_fb", NoComp)
        BY <2>0, <3>1, GotoMoves
      <4> QED BY <1>1, <2>0, <3>1, <4>1, MoveTypes DEF SquashAll, Moves, ThreadTyped, LockHeld
    <3>2. CASE EndRoutine(cw) /\ UNCHANGED lock_
      <4>1. Moves(cw, "idle", NoComp) /\ ThreadTyped' /\ \A v \in Workers \ {cw} : thread'[v] = thread[v]
        BY <3>2, EndRoutineMoves
      <4> QED BY <1>1, <3>2, <4>1, MoveTypes DEF SquashAll, Moves, LockHeld, cw
    <3> QED BY <1>1, <3>1, <3>2 DEF SquashAll
  <2> QED
    BY <1>1, <2>1 DEF SquashAll, QueuesTyped, ScreenTyped, CallTyped, SquashTyped, ModeTyped, RingTyped,
       CountsTyped, DoneTyped, CallInHand
<1>2. CASE SquashActive
  <2>0. job[cw].pc = "squashall_fb" /\ active_composition_ \in FrameComps
    BY <1>2 DEF SquashActive, LockHeld, ScreenTyped
  <2>1. \/ SquashSucceeds(active_composition_, "commit")
        \/ EndRoutine(cw) /\ UNCHANGED <<framebuffer_index_, comps>>
    BY <1>2 DEF SquashActive, SquashFrame, SquashSucceeds
  <2>2. /\ JobTyped' /\ FrameWorkerPcs' /\ RunningInRoutine' /\ InHand' /\ ThreadTyped'
        /\ RingTyped' /\ comps' \in {comps, comps + 1} /\ job'[cw].pc # "squashall_fb"
    <3>1. CASE SquashSucceeds(active_composition_, "commit")
      BY <2>0, <3>1, SquashSucceedsTypes DEF Moves
    <3>2. CASE EndRoutine(cw) /\ UNCHANGED <<framebuffer_index_, comps>>
      <4>1. Moves(cw, "idle", NoComp) /\ ThreadTyped' /\ \A v \in Workers \ {cw} : thread'[v] = thread[v]
        BY <3>2, EndRoutineMoves
      <4> QED BY <3>2, <4>1, MoveTypes DEF Moves, RingTyped
    <3> QED BY <2>1, <3>1, <3>2
  <2> QED
    BY <1>2, <2>0, <2>2 DEF SquashActive, QueuesTyped, ScreenTyped, CallTyped, SquashTyped, ModeTyped,
       DoneTyped, CountsTyped, CallInHand, LockHeld, cw
<1> QED BY <1>1, <1>2
\* ApplyFrame keeps the frame in hand until it has been given to the screen or
\* destroyed.
LEMMA ApplyFrameMoves ==
  ASSUME TypeInv, NEW w \in Workers, ApplyFrame(w)
  PROVE  /\ job[w].pc \in ApplyPcs \cup {"clear"} /\ job[w].comp \in FrameComps
         /\ \/ /\ \E pc \in (ApplyPcs \cup {"clear"}) \ {"commit"} : Moves(w, pc, job[w].comp)
               /\ UNCHANGED <<thread, active_composition_>>
            \/ /\ Moves(w, "idle", NoComp) /\ lock_ = "free"
               /\ ThreadTyped' /\ \A v \in Workers \ {w} : thread'[v] = thread[v]
<1> USE DEF TypeInv, ApplyPcs, JobPcs, workerVars, screenVars, EmptyHanded
<1>1. job[w].pc \in ApplyPcs \cup {"clear"}
  BY DEF ApplyFrame, BuildPset, CommitFrame, FinishModeset, AdoptMode, SignalActive, SwapActive,
     ClearDisplay
<1>2. job[w].comp \in FrameComps
  BY <1>1 DEF JobTyped, Jobs, InHand
<1>3. CASE BuildPset(w)
  <2>1. PsetMode \in Nat \cup {None}
    BY <1>3 DEF PsetMode, ModeTyped
  <2>2. Moves(w, "kernel", job[w].comp)
    BY <1>3, <2>1 DEF BuildPset, Moves, JobTyped, Jobs
  <2> QED BY <1>1, <1>2, <1>3, <2>2 DEF BuildPset
<1>4. CASE CommitFrame(w)
  <2>1. PICK pc \in {"modeset", "signal", "clear"} : Goto(w, pc)
    BY <1>4 DEF CommitFrame
  <2> QED BY <1>1, <1>2, <1>4, <2>1, GotoMoves DEF CommitFrame
<1>5. CASE FinishModeset(w)
  <2>1. PICK pc \in {"adopt", "clear"} : Goto(w, pc)
    BY <1>5 DEF FinishModeset
  <2> QED BY <1>1, <1>2, <1>5, <2>1, GotoMoves DEF FinishModeset
<1>6. CASE AdoptMode(w) \/ SignalActive(w)
  BY <1>1, <1>2, <1>6, GotoMoves DEF AdoptMode, SignalActive
<1>7. CASE SwapActive(w) \/ ClearDisplay(w)
  BY <1>1, <1>2, <1>7, EndRoutineMoves DEF SwapActive, ClearDisplay
<1> QED BY <1>3, <1>4, <1>5, <1>6, <1>7 DEF ApplyFrame
LEMMA ApplyFrameTypes ==
  ASSUME TypeInv, NEW w \in Workers, ApplyFrame(w)
  PROVE  TypeInv'
<1> USE BothWorkersThere
    DEF TypeInv, workerVars, queueVars, fbVars, sqfbVars, modeVars, screenVars, callerVars,
        EmptyHanded, ApplyPcs, FramePcs
<1> DEFINE Kept == UNCHANGED <<lock_, composite_queue_, frame_queue_, framebuffer_index_,
                     squash_framebuffer_index_, call, squash_state_, frames, controls, comps>>
<1>1. Kept
  BY DEF ApplyFrame, BuildPset, CommitFrame, FinishModeset, AdoptMode, SignalActive, SwapActive,
     ClearDisplay
<1>2. job[w].comp \in FrameComps
  BY ApplyFrameMoves
<1>3. /\ active_composition_' \in {active_composition_, job[w].comp, NoComp}
      /\ active_composition_' # active_composition_ => lock_ = "free"
      /\ screen' \in {screen, job[w].comp, NoComp}
  BY DEF ApplyFrame, BuildPset, CommitFrame, FinishModeset, AdoptMode, SignalActive, SwapActive,
     ClearDisplay
<1>4. ScreenTyped'
  BY <1>2, <1>3 DEF ScreenTyped
<1>5. DoneTyped'
  <2>1. done' \subseteq done \cup Signalled(active_composition_) \cup Signalled(job[w].comp)
    BY DEF ApplyFrame, BuildPset, CommitFrame, FinishModeset, AdoptMode, SignalActive, SwapActive,
       ClearDisplay, DoneByCommit
  <2> QED BY <1>2, <2>1, CompTypes DEF Signalled, DoneTyped, ScreenTyped
<1>6. ModeTyped'
  <2>1. mode_' = mode_ \/ mode_' = Adopted(mode_)
    BY DEF ApplyFrame, BuildPset, CommitFrame, FinishModeset, AdoptMode, SignalActive, SwapActive,
       ClearDisplay
  <2>2. Adopted(mode_) \in [needs_modeset : BOOLEAN, mode : Nat, blob_id : Nat, old_blob_id : Nat]
    BY DEF Adopted, ModeTyped
  <2> QED BY <2>1, <2>2 DEF ModeTyped
<1>7. JobTyped' /\ FrameWorkerPcs' /\ RunningInRoutine' /\ InHand' /\ ThreadTyped'
      /\ (w = cw => job[cw].pc # "squashall_fb" /\ job'[cw].pc # "squashall_fb")
      /\ (w # cw => job'[cw] = job[cw])
  <2>1. ASSUME NEW pc \in (ApplyPcs \cup {"clear"}) \ {"commit"}, Moves(w, pc, job[w].comp),
               UNCHANGED thread
        PROVE  <1>7
    <3>1. thread[w] = "running" /\ job[w].pc # "squashall_fb"
      BY ApplyFrameMoves DEF RunningInRoutine
    <3> QED BY <1>2, <2>1, <3>1, MoveTypes, CompTypes DEF Moves, ThreadTyped
  <2>2. CASE /\ Moves(w, "idle", NoComp)
             /\ ThreadTyped' /\ \A v \in Workers \ {w} : thread'[v] = thread[v]
    <3>1. job[w].pc # "squashall_fb"
      BY ApplyFrameMoves
    <3> QED BY <2>2, <3>1, MoveTypes DEF Moves
  <2> QED BY <2>1, <2>2, ApplyFrameMoves
<1>8. LockHeld'
  BY <1>1, <1>3, <1>7 DEF LockHeld, cw
<1> QED
  BY <1>1, <1>4, <1>5, <1>6, <1>7, <1>8 DEF QueuesTyped, CallTyped, RingTyped, SquashTyped,
     CountsTyped, CallInHand

LEMMA TakeFrameTypes ==
  ASSUME TypeInv, frame_queue_ # <<>>, TakeFrame
  PROVE  /\ Head(frame_queue_) \in FrameComps
         /\ Moves(fw, "commit", Head(frame_queue_))
         /\ frame_queue_' \in Seq(FrameComps)
<1>1. Head(frame_queue_) \in FrameComps /\ Tail(frame_queue_) \in Seq(FrameComps)
  BY PopTypes DEF TypeInv, QueuesTyped
<1> QED
  BY <1>1, BothWorkersThere DEF TypeInv, TakeFrame, Moves, JobTyped, Jobs, JobPcs, IdleJob, None

LEMMA FrameWorkerTypes ==
  ASSUME TypeInv, FrameWorkerRoutine \/ FrameWorkerWoken
  PROVE  TypeInv'
<1> USE BothWorkersThere
    DEF TypeInv, queueVars, fbVars, sqfbVars, modeVars, screenVars, callerVars, EmptyHanded,
        ApplyPcs, FramePcs
<1>1. UNCHANGED <<lock_, composite_queue_, active_composition_, screen, framebuffer_index_, mode_,
                  squash_framebuffer_index_, call, squash_state_, frames, controls, comps>>
  BY DEF FrameWorkerRoutine, FrameWorkerWoken
<1>2. /\ QueuesTyped' /\ JobTyped' /\ FrameWorkerPcs' /\ RunningInRoutine' /\ InHand'
      /\ ThreadTyped' /\ DoneTyped' /\ job'[cw] = job[cw]
  <2>1. CASE FrameWorkerRoutine /\ frame_queue_ = <<>>
    BY <1>1, <2>1 DEF FrameWorkerRoutine, WaitForSignalOrExitLocked, QueuesTyped, JobTyped,
       FrameWorkerPcs, RunningInRoutine, InHand, ThreadTyped, DoneTyped
  <2>2. CASE FrameWorkerRoutine /\ frame_queue_ # <<>>
    <3>1. TakeFrame /\ UNCHANGED <<thread, done>> /\ thread[fw] = "running"
      BY <2>2 DEF FrameWorkerRoutine
    <3>2. Head(frame_queue_) \in FrameComps /\ Moves(fw, "commit", Head(frame_queue_))
          /\ frame_queue_' \in Seq(FrameComps)
      BY <2>2, <3>1, TakeFrameTypes
    <3> QED BY <1>1, <3>1, <3>2, MoveTypes, CompTypes DEF Moves, QueuesTyped, ThreadTyped, DoneTyped
  <2>3. CASE FrameWorkerWoken /\ WaitResult(fw) = "EINTR"
    <3>1. Return(fw) /\ UNCHANGED job /\ job[fw].pc = "idle"
      BY <2>3 DEF FrameWorkerWoken, RunningInRoutine, Awake
    <3>2. /\ frame_queue_' = IF frame_queue_ = <<>> THEN frame_queue_ ELSE Tail(frame_queue_)
          /\ done' = IF frame_queue_ = <<>> THEN done ELSE done \cup Signalled(Head(frame_queue_))
      BY <2>3 DEF FrameWorkerWoken
    <3>3. frame_queue_ # <<>> => Head(frame_queue_) \in FrameComps /\ Tail(frame_queue_) \in Seq(FrameComps)
      BY PopTypes DEF QueuesTyped
    <3>4. QueuesTyped' /\ DoneTyped'
      BY <1>1, <3>2, <3>3, CompTypes DEF QueuesTyped, DoneTyped, Signalled
    <3> QED BY <3>1, <3>4 DEF Return, JobTyped, FrameWorkerPcs, RunningInRoutine, InHand, ThreadTyped
  <2>4. CASE FrameWorkerWoken /\ WaitResult(fw) # "EINTR" /\ frame_queue_ = <<>>
    BY <1>1, <2>4 DEF FrameWorkerWoken, QueuesTyped, JobTyped, FrameWorkerPcs, RunningInRoutine,
       InHand, ThreadTyped, DoneTyped
  <2>5. CASE FrameWorkerWoken /\ WaitResult(fw) # "EINTR" /\ frame_queue_ # <<>>
    <3>1. TakeFrame /\ UNCHANGED done /\ thread' = [thread EXCEPT ![fw] = "running"]
      BY <2>5 DEF FrameWorkerWoken
    <3>2. Head(frame_queue_) \in FrameComps /\ Moves(fw, "commit", Head(frame_queue_))
          /\ frame_queue_' \in Seq(FrameComps)
      BY <2>5, <3>1, TakeFrameTypes
    <3>3. ThreadTyped' /\ thread'[fw] = "running" /\ \A v \in Workers \ {fw} : thread'[v] = thread[v]
      BY <3>1 DEF ThreadTyped
    <3>4. JobTyped' /\ FrameWorkerPcs' /\ RunningInRoutine' /\ InHand'
      BY <3>2, <3>3, MoveTypes, CompTypes
    <3> QED BY <1>1, <3>1, <3>2, <3>3, <3>4 DEF Moves, QueuesTyped, DoneTyped
  <2> QED BY <2>1, <2>2, <2>3, <2>4, <2>5
<1> QED
  BY <1>1, <1>2 DEF ScreenTyped, CallTyped, RingTyped, SquashTyped, ModeTyped, CountsTyped,
     CallInHand, LockHeld

\* Starting, waking and stopping the threads does not touch what they hold.
LEMMA ThreadTypes ==
  ASSUME TypeInv, ThreadStep \/ ExitStep
  PROVE  TypeInv'
<1> USE BothWorkersThere
    DEF TypeInv, queueVars, fbVars, sqfbVars, modeVars, screenVars, callerVars
<1>1. ThreadTyped' /\ \A v \in Workers : thread[v] = "running" => thread'[v] = "running"
  <2>1. CASE ThreadStep
    BY <2>1 DEF ThreadStep, InternalRoutine, SpuriousWakeup, WaitTimeout, ThreadTyped, Asleep
  <2>2. CASE ExitStep
    <3>1. UNCHANGED thread \/ \E w \in Workers : Signal(w)
      BY <2>2 DEF ExitStep, ExitRequest, ExitNotify, ExitJoin
    <3> QED BY <3>1, SignalKeepsRunning DEF ThreadTyped
  <2> QED BY <2>1, <2>2
<1> QED
  BY <1>1 DEF ThreadStep, ExitStep, QueuesTyped, ScreenTyped, JobTyped, CallTyped, RingTyped,
     SquashTyped, ModeTyped, CountsTyped, DoneTyped, FrameWorkerPcs, RunningInRoutine, InHand,
     LockHeld, CallInHand

\* The members of Frames(q) are the frames in q.
LEMMA FramesOfQueue ==
  ASSUME NEW q \in Seq(FrameComps \cup ControlComps)
  PROVE  /\ Frames(q) \subseteq FrameComps
         /\ \A c \in Frames(q) : \E i \in DOMAIN q : q[i] = c
         /\ \A i \in DOMAIN q : q[i] \in FrameComps \cup ControlComps
         /\ \A i \in DOMAIN q : q[i].id # 0 => q[i] \in Frames(q)
BY CompTypes DEF Frames

LEMMA DestroyTypes ==
  ASSUME TypeInv, Destroy
  PROVE  TypeInv'
<1> USE DEF TypeInv, workerVars, fbVars, sqfbVars, callerVars
<1>1. frame_queue_ \in Seq(FrameComps \cup ControlComps)
  BY DEF QueuesTyped
<1>2. DoneTyped'
  <2>1. Frames(composite_queue_) \cup Frames(frame_queue_) \subseteq FrameComps
    BY <1>1, FramesOfQueue DEF QueuesTyped
  <2>2. {c.id : c \in Frames(composite_queue_) \cup Frames(frame_queue_)} \subseteq Nat \ {0}
    BY <2>1, CompTypes
  <2>3. Signalled(active_composition_) \subseteq Nat \ {0}
    BY CompTypes DEF ScreenTyped, Signalled
  <2> QED BY <2>2, <2>3 DEF Destroy, DoneTyped
<1>3. QueuesTyped'
  <2>1. composite_queue_' = <<>> /\ frame_queue_' = <<>>
    BY DEF Destroy
  <2> QED BY <2>1 DEF QueuesTyped
<1>5. ScreenTyped'
  <2>1. active_composition_' = NoComp /\ screen' = screen
    BY DEF Destroy
  <2> QED BY <2>1 DEF ScreenTyped
<1>4. LockHeld'
  BY DEF Destroy, LockHeld, cw
<1> QED
  BY <1>2, <1>3, <1>4, <1>5 DEF Destroy, JobTyped, CallTyped, RingTyped, SquashTyped, ModeTyped, CountsTyped,
     ThreadTyped, FrameWorkerPcs, RunningInRoutine, InHand, CallInHand

LEMMA NextTypes ==
  ASSUME TypeInv, [Next]_vars
  PROVE  TypeInv'
<1>1. CASE UNCHANGED vars
  BY <1>1 DEF vars, workerVars, queueVars, fbVars, sqfbVars, modeVars, screenVars, callerVars,
     TypeInv, QueuesTyped, ScreenTyped, JobTyped, CallTyped, RingTyped, SquashTyped, ModeTyped,
     CountsTyped, DoneTyped, ThreadTyped, FrameWorkerPcs, RunningInRoutine, InHand, LockHeld,
     CallInHand
<1> QED
  BY <1>1, CallerTypes, WaitTypes, CompositeTypes, PrepareSquashTypes, ApplyPreCompositeTypes,
     TestFrameTypes, SquashQueuedTypes, QueueFrameTypes, SquashAllTypes, ApplyFrameTypes,
     FrameWorkerTypes, ThreadTypes, DestroyTypes
  DEF Next, CompositeWorkerStep

-----------------------------------------------------------------------------
(* Who owns a frame.  A step moves at most one frame from one owner to the    *)
(* next, creates one, or destroys some; these are the ways.                   *)

\* The workers outside W and the callers outside C keep what they have.
Others(W, C) ==
  /\ \A w \in Workers \ W : job'[w].comp.id = job[w].comp.id
  /\ \A c \in Callers \ C : call'[c].comp.id = call[c].comp.id

Stays ==
  /\ Others({}, {})
  /\ UNCHANGED <<composite_queue_, frame_queue_, active_composition_, done, comps>>

\* A caller makes a frame, or sees it refused.
Created(c) ==
  /\ Others({}, {c}) /\ call[c].comp.id = 0 /\ comps' = comps + 1
  /\ \/ call'[c].comp.id = comps + 1 /\ done' = done
     \/ call'[c].comp.id = 0 /\ done' = done \cup {comps + 1}
  /\ UNCHANGED <<composite_queue_, frame_queue_, active_composition_>>

\* Into composite_queue_, out of it to the composite worker.
Pushed(c) ==
  /\ Others({}, {c}) /\ call'[c].comp.id = 0
  /\ composite_queue_' = Append(composite_queue_, call[c].comp)
  /\ UNCHANGED <<frame_queue_, active_composition_, done, comps>>

Popped ==
  /\ Others({cw}, {}) /\ job[cw].comp.id = 0
  /\ composite_queue_ # <<>> /\ composite_queue_' = Tail(composite_queue_)
  /\ job'[cw].comp.id = Head(composite_queue_).id
  /\ UNCHANGED <<frame_queue_, active_composition_, done, comps>>

\* A worker destroys its frame, the composite worker possibly to put a squashed
\* one in its place.
Dropped(w) ==
  /\ Others({w}, {}) /\ job'[w].comp.id = 0
  /\ done' = done \cup Signalled(job[w].comp)
  /\ UNCHANGED <<composite_queue_, frame_queue_, active_composition_, comps>>

Replaced ==
  /\ Others({cw}, {}) /\ job'[cw].comp.id = comps + 1 /\ comps' = comps + 1
  /\ done' = done \cup Signalled(job[cw].comp)
  /\ UNCHANGED <<composite_queue_, frame_queue_, active_composition_>>

\* Into frame_queue_, out of it to the frame worker, which destroys it on exit.
Queued ==
  /\ Others({cw}, {}) /\ job'[cw].comp.id = 0
  /\ frame_queue_' = Append(frame_queue_, job[cw].comp)
  /\ UNCHANGED <<composite_queue_, active_composition_, done, comps>>

Fetched ==
  /\ Others({fw}, {}) /\ job[fw].comp.id = 0
  /\ frame_queue_ # <<>> /\ frame_queue_' = Tail(frame_queue_)
  /\ \/ job'[fw].comp.id = Head(frame_queue_).id /\ done' = done
     \/ job'[fw].comp.id = 0 /\ done' = done \cup Signalled(Head(frame_queue_))
  /\ UNCHANGED <<composite_queue_, active_composition_, comps>>

\* The active composition is signalled, replaced, or cleared.
Ended ==
  /\ Others({}, {}) /\ done' = done \cup Signalled(active_composition_)
  /\ UNCHANGED <<composite_queue_, frame_queue_, active_composition_, comps>>

Swapped(w) ==
  /\ Others({w}, {}) /\ job'[w].comp.id = 0 /\ active_composition_' = job[w].comp
  /\ done' = done \cup Signalled(active_composition_)
  /\ UNCHANGED <<composite_queue_, frame_queue_, comps>>

Cleared(w) ==
  /\ Others({w}, {}) /\ job'[w].comp.id = 0 /\ active_composition_' = NoComp
  /\ done' = done \cup Signalled(active_composition_) \cup Signalled(job[w].comp)
  /\ UNCHANGED <<composite_queue_, frame_queue_, comps>>

WorkerSteps ==
  Stays \/ Popped \/ Replaced \/ Queued \/ Fetched
  \/ \E w \in Workers : Dropped(w) \/ Swapped(w) \/ Cleared(w)
CallerSteps(c) == Stays \/ Created(c) \/ Pushed(c)

LEMMA CallerOwnership ==
  ASSUME TypeInv, NEW c \in Callers,
         \/ \E s \in Shapes : QueueFrameComposition(c, s)
         \/ QueueControlComposition(c)
         \/ CallerStep(c)
  PROVE  CallerSteps(c) /\ UNCHANGED <<screen, active_composition_, job, destructor>>
<1> USE CompTypes DEF TypeInv, workerVars, queueVars, fbVars, sqfbVars, modeVars, overlayVars, screenVars,
                      Others, CallerSteps
<1>1. ASSUME NEW s \in Shapes, QueueFrameComposition(c, s)
      PROVE  Created(c) /\ UNCHANGED <<screen, active_composition_, job, destructor>>
  <2>1. call[c].comp.id = 0
    BY <1>1 DEF QueueFrameComposition, CallInHand
  <2>2. Frame(comps + 1, frames + 1, s, squash_state_').id = comps + 1
    BY DEF Frame
  <2> QED BY <1>1, <2>1, <2>2 DEF QueueFrameComposition, Created, CallTyped, CallStates
<1>2. CASE QueueControlComposition(c)
  <2>1. call[c].comp.id = 0
    BY <1>2 DEF QueueControlComposition, CallInHand
  <2>2. (\A on \in BOOLEAN : Dpms(on).id = 0) /\ Modeset(controls + 1).id = 0
    BY DEF Dpms, Modeset
  <2> QED BY <1>2, <2>1, <2>2 DEF QueueControlComposition, Stays, CallTyped, CallStates
<1>3. CASE PushComposition(c)
  BY <1>3 DEF PushComposition, Pushed, CallTyped, CallStates
<1>4. CASE SignalCompositeWorker(c)
  BY <1>4 DEF SignalCompositeWorker, Stays, CallTyped, CallStates
<1> QED BY <1>1, <1>2, <1>3, <1>4 DEF CallerStep

\* The waits and the test commit of the composite worker.
LEMMA WaitOwnership ==
  ASSUME TypeInv, HaveQueuedComposites \/ CompositeWorkerWait \/ CompositeWorkerWoken
                  \/ TestFrame \/ SignalFrameWorker \/ SquashAll
  PROVE  Stays
<1> USE BothWorkersThere
    DEF TypeInv, workerVars, queueVars, fbVars, sqfbVars, modeVars, overlayVars, screenVars,
        callerVars, JobPcs, EmptyHanded
<1>1. /\ UNCHANGED <<composite_queue_, frame_queue_, active_composition_, done, comps, call>>
      /\ \/ \E pc \in JobPcs : Goto(cw, pc)
         \/ UNCHANGED job
         \/ EndRoutine(cw) /\ job[cw].comp = NoComp
  BY DEF HaveQueuedComposites, CompositeWorkerWait, CompositeWorkerWoken, TestFrame,
     SignalFrameWorker, SquashAll, InHand
<1>2. \A w \in Workers : job'[w].comp = job[w].comp
  BY <1>1, GotoMoves, EndRoutineMoves DEF Moves
<1> QED BY <1>1, <1>2 DEF Stays, Others

LEMMA CompositeOwnership ==
  ASSUME TypeInv, Composite
  PROVE  Stays \/ Popped
<1> USE BothWorkersThere
    DEF TypeInv, fbVars, sqfbVars, modeVars, screenVars, callerVars, EmptyHanded, Others
<1>1. /\ job[cw].comp.id = 0 /\ job[cw].comp = NoComp
      /\ UNCHANGED <<frame_queue_, active_composition_, done, comps, call>>
  BY CompTypes DEF Composite, InHand
<1>2. \/ EndRoutine(cw) /\ UNCHANGED composite_queue_
      \/ /\ composite_queue_ # <<>> /\ composite_queue_' = Tail(composite_queue_)
         /\ \/ EndRoutine(cw) /\ Head(composite_queue_).type # "FRAME"
            \/ job' = [job EXCEPT ![cw] = [@ EXCEPT !.pc = "squash_fb", !.comp = Head(composite_queue_)]]
  BY DEF Composite
<1>3. CASE EndRoutine(cw) /\ UNCHANGED composite_queue_
  BY <1>1, <1>3, EndRoutineMoves DEF Stays, Moves
<1>4. CASE /\ composite_queue_ # <<>> /\ composite_queue_' = Tail(composite_queue_)
           /\ EndRoutine(cw) /\ Head(composite_queue_).type # "FRAME"
  <2>1. Head(composite_queue_).id = 0
    BY <1>4, PopTypes, CompTypes DEF QueuesTyped
  <2>2. Moves(cw, "idle", NoComp)
    BY <1>4, EndRoutineMoves
  <2> QED BY <1>1, <1>4, <2>1, <2>2, CompTypes DEF Popped, Moves
<1>5. CASE /\ composite_queue_ # <<>> /\ composite_queue_' = Tail(composite_queue_)
           /\ job' = [job EXCEPT ![cw] = [@ EXCEPT !.pc = "squash_fb", !.comp = Head(composite_queue_)]]
  <2>1. job'[cw].comp = Head(composite_queue_) /\ job'[fw] = job[fw]
    BY <1>5 DEF JobTyped, Jobs
  <2> QED BY <1>1, <1>5, <2>1 DEF Popped
<1> QED BY <1>2, <1>3, <1>4, <1>5

LEMMA PrepareOwnership ==
  ASSUME TypeInv, PrepareSquash \/ ApplyPreComposite
  PROVE  Stays \/ Dropped(cw)
<1> USE BothWorkersThere
    DEF TypeInv, queueVars, fbVars, sqfbVars, modeVars, screenVars, callerVars, Others
<1>1. UNCHANGED <<composite_queue_, frame_queue_, active_composition_, comps, call>>
  BY DEF PrepareSquash, ApplyPreComposite
<1>2. job[cw].comp \in FrameComps
  BY DEF PrepareSquash, ApplyPreComposite, InHand, EmptyHanded, JobTyped, Jobs
<1>3. \/ (\E pc \in {"pre_fb", "test"} : Goto(cw, pc)) /\ UNCHANGED done
      \/ (\E k : job' = [job EXCEPT ![cw] = [@ EXCEPT !.pc = "pre_fb", !.comp.sqfb = k]]) /\ UNCHANGED done
      \/ (\E k : job' = [job EXCEPT ![cw] = [@ EXCEPT !.pc = "test", !.comp.fb = k]]) /\ UNCHANGED done
      \/ AbandonFrame(job[cw].comp)
  BY DEF PrepareSquash, ApplyPreComposite
<1>4. CASE AbandonFrame(job[cw].comp)
  <2>1. Moves(cw, "idle", NoComp) /\ done' = done \cup Signalled(job[cw].comp)
    BY <1>4, EndRoutineMoves DEF AbandonFrame
  <2> QED BY <1>1, <2>1, CompTypes DEF Dropped, Moves
<1>5. CASE (\E pc \in {"pre_fb", "test"} : Goto(cw, pc)) /\ UNCHANGED done
  BY <1>1, <1>5, GotoMoves DEF Stays, Moves, JobPcs
<1>6. ASSUME NEW k, UNCHANGED done,
             \/ job' = [job EXCEPT ![cw] = [@ EXCEPT !.pc = "pre_fb", !.comp.sqfb = k]]
             \/ job' = [job EXCEPT ![cw] = [@ EXCEPT !.pc = "test", !.comp.fb = k]]
      PROVE  Stays
  <2>1. job'[fw] = job[fw]
    BY <1>6 DEF JobTyped
  <2>2. [job[cw].comp EXCEPT !.sqfb = k].id = job[cw].comp.id
        /\ [job[cw].comp EXCEPT !.fb = k].id = job[cw].comp.id
    BY <1>2 DEF FrameComps
  <2>3. job'[cw].comp \in {[job[cw].comp EXCEPT !.sqfb = k], [job[cw].comp EXCEPT !.fb = k]}
    BY <1>6 DEF JobTyped, Jobs
  <2> QED BY <1>1, <1>6, <2>1, <2>2, <2>3 DEF Stays
<1> QED BY <1>3, <1>4, <1>5, <1>6

LEMMA SquashOwnership ==
  ASSUME TypeInv, SquashQueuedFrame \/ QueueFrame \/ SquashActive
  PROVE  Stays \/ Replaced \/ Queued
<1> USE BothWorkersThere
    DEF TypeInv, workerVars, queueVars, fbVars, sqfbVars, modeVars, screenVars, callerVars, EmptyHanded,
        Others
<1>1. CASE SquashQueuedFrame
  <2>0. job[cw].pc = "squash" /\ job[cw].comp \in FrameComps
        /\ UNCHANGED <<composite_queue_, frame_queue_, active_composition_, call>>
    BY <1>1 DEF SquashQueuedFrame, InHand, JobTyped, Jobs
  <2>1. \/ SquashSucceeds(job[cw].comp, "queue")
        \/ Goto(cw, "clear") /\ UNCHANGED comps
    BY <1>1 DEF SquashQueuedFrame, SquashFrame, SquashSucceeds
  <2>2. CASE SquashSucceeds(job[cw].comp, "queue")
    <3>1. Moves(cw, "queue", Squashed(job[cw].comp)) /\ comps' = comps + 1
      BY <2>0, <2>2, SquashSucceedsTypes
    <3>2. Squashed(job[cw].comp).id = comps + 1
      BY <2>0, SquashedTypes DEF CountsTyped, RingTyped
    <3>3. done' = done \cup Signalled(job[cw].comp)
      BY <1>1, <3>1 DEF SquashQueuedFrame, Moves
    <3> QED BY <2>0, <3>1, <3>2, <3>3 DEF Replaced, Moves
  <2>3. CASE Goto(cw, "clear") /\ UNCHANGED comps
    <3>1. Moves(cw, "clear", job[cw].comp)
      BY <2>3, GotoMoves DEF JobPcs
    <3> QED BY <1>1, <2>0, <2>3, <3>1 DEF SquashQueuedFrame, Stays, Moves
  <2> QED BY <2>1, <2>2, <2>3
<1>2. CASE QueueFrame
  <2>1. job'[fw] = job[fw] /\ job'[cw].comp = NoComp
    BY <1>2 DEF QueueFrame, IdleJob, JobTyped
  <2> QED BY <1>2, <2>1, CompTypes DEF QueueFrame, Queued
<1>3. CASE SquashActive
  <2>0. job[cw].pc = "squashall_fb" /\ active_composition_ \in FrameComps /\ job[cw].comp = NoComp
        /\ UNCHANGED <<composite_queue_, frame_queue_, active_composition_, call, done>>
    BY <1>3 DEF SquashActive, LockHeld, ScreenTyped, InHand
  <2>1. \/ SquashSucceeds(active_composition_, "commit")
        \/ EndRoutine(cw) /\ UNCHANGED comps
    BY <1>3 DEF SquashActive, SquashFrame, SquashSucceeds
  <2>2. CASE SquashSucceeds(active_composition_, "commit")
    <3>1. Moves(cw, "commit", Squashed(active_composition_)) /\ comps' = comps + 1
      BY <2>0, <2>2, SquashSucceedsTypes
    <3>2. Squashed(active_composition_).id = comps + 1
      BY <2>0, SquashedTypes DEF CountsTyped, RingTyped
    <3>3. done' = done \cup Signalled(job[cw].comp)
      BY <2>0, CompTypes DEF Signalled
    <3> QED BY <2>0, <3>1, <3>2, <3>3 DEF Replaced, Moves
  <2>3. CASE EndRoutine(cw) /\ UNCHANGED comps
    BY <2>0, <2>3, EndRoutineMoves DEF Stays, Moves
  <2> QED BY <2>1, <2>2, <2>3
<1> QED BY <1>1, <1>2, <1>3

LEMMA ApplyFrameOwnership ==
  ASSUME TypeInv, NEW w \in Workers, ApplyFrame(w)
  PROVE  /\ job[w].pc \notin {"signal", "swap", "clear"} => Stays
         /\ job[w].pc = "signal" => Ended
         /\ job[w].pc = "swap" => Swapped(w)
         /\ job[w].pc = "clear" => Cleared(w) \/ Dropped(w)
<1> USE DEF TypeInv, ApplyPcs, workerVars, queueVars, modeVars, screenVars, callerVars, Others
<1>1. UNCHANGED <<composite_queue_, frame_queue_, comps, call>>
  BY DEF ApplyFrame, BuildPset, CommitFrame, FinishModeset, AdoptMode, SignalActive, SwapActive,
     ClearDisplay
<1>2. CASE BuildPset(w) \/ CommitFrame(w) \/ FinishModeset(w) \/ AdoptMode(w)
  <2>1. job'[w].comp = job[w].comp /\ (\A v \in Workers \ {w} : job'[v] = job[v])
    BY <1>2 DEF BuildPset, CommitFrame, FinishModeset, AdoptMode, Goto, JobTyped, Jobs
  <2>2. UNCHANGED <<done, active_composition_>> /\ job[w].pc \notin {"signal", "swap", "clear"}
    BY <1>2 DEF BuildPset, CommitFrame, FinishModeset, AdoptMode
  <2> QED BY <1>1, <2>1, <2>2 DEF Stays
<1>3. CASE SignalActive(w)
  <2>1. job'[w].comp = job[w].comp /\ (\A v \in Workers \ {w} : job'[v] = job[v])
    BY <1>3 DEF SignalActive, Goto, JobTyped, Jobs
  <2> QED BY <1>1, <1>3, <2>1 DEF SignalActive, Ended, DoneByCommit
<1>4. CASE SwapActive(w)
  <2>1. Moves(w, "idle", NoComp)
    BY <1>4, EndRoutineMoves DEF SwapActive
  <2> QED BY <1>1, <1>4, <2>1, CompTypes DEF SwapActive, Swapped, Moves
<1>5. CASE ClearDisplay(w)
  <2>1. Moves(w, "idle", NoComp)
    BY <1>5, EndRoutineMoves DEF ClearDisplay
  <2> QED BY <1>1, <1>5, <2>1, CompTypes DEF ClearDisplay, Cleared, Dropped, Moves
<1> QED BY <1>2, <1>3, <1>4, <1>5 DEF ApplyFrame

LEMMA FrameWorkerOwnership ==
  ASSUME TypeInv, FrameWorkerRoutine \/ FrameWorkerWoken
  PROVE  Stays \/ Fetched
<1> USE BothWorkersThere
    DEF TypeInv, queueVars, fbVars, sqfbVars, modeVars, screenVars, callerVars, Others
<1>1. UNCHANGED <<composite_queue_, active_composition_, call, comps>>
  BY DEF FrameWorkerRoutine, FrameWorkerWoken
<1>2. job[fw].comp.id = 0
  BY CompTypes DEF FrameWorkerRoutine, FrameWorkerWoken, InHand, RunningInRoutine, Awake, EmptyHanded
<1>3. CASE UNCHANGED <<job, frame_queue_, done>>
  BY <1>1, <1>3 DEF Stays
<1>4. CASE /\ UNCHANGED job /\ frame_queue_ # <<>> /\ frame_queue_' = Tail(frame_queue_)
           /\ done' = done \cup Signalled(Head(frame_queue_))
  BY <1>1, <1>2, <1>4 DEF Fetched
<1>5. CASE frame_queue_ # <<>> /\ TakeFrame /\ UNCHANGED done
  <2>1. Moves(fw, "commit", Head(frame_queue_))
    BY <1>5, TakeFrameTypes
  <2> QED BY <1>1, <1>2, <1>5, <2>1 DEF Fetched, TakeFrame, Moves
<1> QED BY <1>3, <1>4, <1>5 DEF FrameWorkerRoutine, FrameWorkerWoken

\* Every step is one of these.
LEMMA Ownership ==
  ASSUME TypeInv, [Next]_vars
  PROVE  \/ WorkerSteps \/ (\E c \in Callers : CallerSteps(c)) \/ Destroy
         \/ Ended /\ \E w \in Workers : SignalActive(w)
<1>1. CASE UNCHANGED vars
  BY <1>1 DEF vars, queueVars, screenVars, callerVars, WorkerSteps, Stays, Others
<1>2. CASE CompositeWorkerStep
  BY <1>2, WaitOwnership, CompositeOwnership, PrepareOwnership, SquashOwnership, BothWorkersThere
  DEF CompositeWorkerStep, WorkerSteps
<1>3. CASE FrameWorkerRoutine \/ FrameWorkerWoken
  BY <1>3, FrameWorkerOwnership DEF WorkerSteps
<1>4. ASSUME NEW w \in Workers, ApplyFrame(w)
      PROVE  WorkerSteps \/ (Ended /\ SignalActive(w))
  <2>1. job[w].pc = "signal" => SignalActive(w)
    BY <1>4 DEF ApplyFrame, BuildPset, CommitFrame, FinishModeset, AdoptMode, SwapActive, ClearDisplay
  <2> QED BY <1>4, <2>1, ApplyFrameOwnership DEF WorkerSteps
<1>5. CASE ThreadStep \/ ExitStep
  BY <1>5 DEF ThreadStep, ExitStep, queueVars, screenVars, callerVars, WorkerSteps, Stays, Others
<1>6. ASSUME NEW c \in Callers,
             \/ \E s \in Shapes : QueueFrameComposition(c, s)
             \/ QueueControlComposition(c)
             \/ CallerStep(c)
      PROVE  CallerSteps(c)
  BY <1>6, CallerOwnership
<1> QED BY <1>1, <1>2, <1>3, <1>4, <1>5, <1>6 DEF Next

-----------------------------------------------------------------------------
(* No fence is lost: what a frame's owner lets go of has another owner or is  *)
(* signalled.                                                                 *)

\* i is signalled, or somebody owns frame i.
Kept(i) ==
  \/ i \in done
  \/ \E w \in Workers : job[w].comp.id = i
  \/ \E c \in Callers : call[c].comp.id = i
  \/ \E k \in DOMAIN composite_queue_ : composite_queue_[k].id = i
  \/ \E k \in DOMAIN frame_queue_ : frame_queue_[k].id = i
  \/ active_composition_.id = i

FenceInv == \A i \in 1..comps : Kept(i)

LEMMA AppendKeeps ==
  ASSUME NEW T, NEW q \in Seq(T), NEW e \in T
  PROVE  /\ \A k \in DOMAIN q : k \in DOMAIN Append(q, e) /\ Append(q, e)[k] = q[k]
         /\ Len(q) + 1 \in DOMAIN Append(q, e) /\ Append(q, e)[Len(q) + 1] = e
         /\ Len(q) + 1 \notin DOMAIN q
         /\ \A k \in DOMAIN Append(q, e) : k \in DOMAIN q \/ k = Len(q) + 1
OBVIOUS

LEMMA WorkerStepKeeps ==
  ASSUME TypeInv, NEW i \in Nat \ {0}, Kept(i), WorkerSteps \/ Ended
  PROVE  Kept(i)'
<1> USE BothWorkersThere DEF Kept, Others
<1>1. CASE Stays
  BY <1>1 DEF Stays
<1>2. CASE Popped
  <2>1. composite_queue_ \in Seq(FrameComps \cup ControlComps) /\ composite_queue_ # <<>>
    BY <1>2 DEF TypeInv, QueuesTyped, Popped
  <2>2. ASSUME NEW k \in DOMAIN composite_queue_, composite_queue_[k].id = i
        PROVE  Kept(i)'
    <3>1. CASE k = 1
      BY <1>2, <2>1, <2>2, <3>1, PopTypes DEF Popped
    <3>2. CASE k # 1
      <4>1. k - 1 \in DOMAIN composite_queue_' /\ composite_queue_'[k - 1] = composite_queue_[k]
        BY <1>2, <2>1, <3>2, PopTypes DEF Popped
      <4> QED BY <2>2, <4>1
    <3> QED BY <3>1, <3>2
  <2> QED BY <1>2, <2>2 DEF Popped
<1>3. CASE Replaced \/ \E w \in Workers : Dropped(w)
  BY <1>3 DEF Replaced, Dropped, Signalled
<1>4. CASE Queued
  <2>1. frame_queue_ \in Seq(FrameComps \cup {NoComp}) /\ job[cw].comp \in FrameComps \cup {NoComp}
    BY DEF TypeInv, QueuesTyped, JobTyped, Jobs
  <2>2. ASSUME NEW k \in DOMAIN frame_queue_, frame_queue_[k].id = i PROVE Kept(i)'
    BY <1>4, <2>1, <2>2, AppendKeeps DEF Queued
  <2>3. ASSUME job[cw].comp.id = i PROVE Kept(i)'
    BY <1>4, <2>1, <2>3, AppendKeeps DEF Queued
  <2> QED BY <1>4, <2>2, <2>3 DEF Queued
<1>5. CASE Fetched
  <2>1. frame_queue_ \in Seq(FrameComps) /\ frame_queue_ # <<>>
    BY <1>5 DEF TypeInv, QueuesTyped, Fetched
  <2>2. ASSUME NEW k \in DOMAIN frame_queue_, frame_queue_[k].id = i
        PROVE  Kept(i)'
    <3>1. CASE k = 1
      BY <1>5, <2>1, <2>2, <3>1, PopTypes DEF Fetched, Signalled
    <3>2. CASE k # 1
      <4>1. k - 1 \in DOMAIN frame_queue_' /\ frame_queue_'[k - 1] = frame_queue_[k]
        BY <1>5, <2>1, <3>2, PopTypes DEF Fetched
      <4> QED BY <2>2, <4>1
    <3> QED BY <3>1, <3>2
  <2> QED BY <1>5, <2>2 DEF Fetched
<1>6. CASE Ended \/ \E w \in Workers : Swapped(w) \/ Cleared(w)
  BY <1>6 DEF Ended, Swapped, Cleared, Signalled
<1> QED BY <1>1, <1>2, <1>3, <1>4, <1>5, <1>6 DEF WorkerSteps

LEMMA CallerStepKeeps ==
  ASSUME TypeInv, NEW i \in Nat \ {0}, Kept(i), NEW c \in Callers, CallerSteps(c)
  PROVE  Kept(i)'
<1> USE DEF Kept, Others
<1>1. CASE Stays
  BY <1>1 DEF Stays
<1>2. CASE Created(c)
  BY <1>2 DEF Created
<1>3. CASE Pushed(c)
  <2>1. composite_queue_ \in Seq(FrameComps \cup ControlComps \cup {NoComp})
        /\ call[c].comp \in FrameComps \cup ControlComps \cup {NoComp}
    BY DEF TypeInv, QueuesTyped, CallTyped, CallStates
  <2>2. ASSUME NEW k \in DOMAIN composite_queue_, composite_queue_[k].id = i PROVE Kept(i)'
    BY <1>3, <2>1, <2>2, AppendKeeps DEF Pushed
  <2>3. ASSUME call[c].comp.id = i PROVE Kept(i)'
    BY <1>3, <2>1, <2>3, AppendKeeps DEF Pushed
  <2> QED BY <1>3, <2>2, <2>3 DEF Pushed
<1> QED BY <1>1, <1>2, <1>3 DEF CallerSteps

LEMMA DestroyKeeps ==
  ASSUME TypeInv, NEW i \in Nat \ {0}, Kept(i), Destroy
  PROVE  Kept(i)'
<1> USE DEF Kept
<1>1. composite_queue_ \in Seq(FrameComps \cup ControlComps)
      /\ frame_queue_ \in Seq(FrameComps \cup ControlComps)
  BY DEF TypeInv, QueuesTyped
<1>2. ASSUME NEW k \in DOMAIN composite_queue_, composite_queue_[k].id = i PROVE i \in done'
  <2>1. composite_queue_[k] \in Frames(composite_queue_)
    BY <1>1, <1>2, FramesOfQueue
  <2> QED BY <1>2, <2>1 DEF Destroy
<1>3. ASSUME NEW k \in DOMAIN frame_queue_, frame_queue_[k].id = i PROVE i \in done'
  <2>1. frame_queue_[k] \in Frames(frame_queue_)
    BY <1>1, <1>3, FramesOfQueue
  <2> QED BY <1>3, <2>1 DEF Destroy
<1> QED BY <1>2, <1>3 DEF Destroy, callerVars, Signalled

\* What is new belongs to somebody, too.
LEMMA NewKept ==
  ASSUME TypeInv, WorkerSteps \/ Ended \/ (\E c \in Callers : CallerSteps(c)) \/ Destroy
  PROVE  comps' = comps \/ (comps' = comps + 1 /\ Kept(comps)')
<1>1. CASE Replaced \/ \E c \in Callers : Created(c)
  <2>1. CASE Replaced
    BY <2>1, BothWorkersThere DEF Replaced, Kept
  <2>2. ASSUME NEW c \in Callers, Created(c) PROVE comps' = comps + 1 /\ Kept(comps)'
    BY <2>2 DEF Created, Kept
  <2> QED BY <1>1, <2>1, <2>2
<1>2. CASE ~(Replaced \/ \E c \in Callers : Created(c))
  BY <1>2 DEF WorkerSteps, CallerSteps, Destroy, Stays, Pushed, Popped, Dropped, Queued, Fetched,
     Ended, Swapped, Cleared
<1> QED BY <1>1, <1>2

LEMMA FenceStep ==
  ASSUME TypeInv, FenceInv, [Next]_vars
  PROVE  FenceInv'
<1>1. comps \in Nat
  BY DEF TypeInv, CountsTyped
<1>2. ASSUME NEW i \in 1..comps PROVE Kept(i)'
  BY <1>1, <1>2, Ownership, WorkerStepKeeps, CallerStepKeeps, DestroyKeeps DEF FenceInv
<1>3. comps' = comps \/ (comps' = comps + 1 /\ Kept(comps)')
  BY Ownership, NewKept
<1> SUFFICES ASSUME NEW i \in 1..comps' PROVE Kept(i)'
  BY DEF FenceInv
<1> QED BY <1>1, <1>2, <1>3

LEMMA KeptIsOwned ==
  ASSUME TypeInv, NEW i \in Nat \ {0}, Kept(i)
  PROVE  i \in done \/ \E c \in InFlight \cup {active_composition_} : c.id = i
<1>1. composite_queue_ \in Seq(FrameComps \cup ControlComps)
      /\ frame_queue_ \in Seq(FrameComps \cup ControlComps)
  BY DEF TypeInv, QueuesTyped
<1>2. ASSUME NEW k \in DOMAIN composite_queue_, composite_queue_[k].id = i
      PROVE  composite_queue_[k] \in InFlight
  BY <1>1, <1>2, FramesOfQueue DEF InFlight
<1>3. ASSUME NEW k \in DOMAIN frame_queue_, frame_queue_[k].id = i
      PROVE  frame_queue_[k] \in InFlight
  BY <1>1, <1>3, FramesOfQueue DEF InFlight, Prepared
<1> QED BY <1>2, <1>3 DEF Kept, InFlight, Prepared

\* A frame that no thread, queue or screen owns any more has been released,
\* whatever fails and however the threads interleave, and through the
\* destructor (drmdisplaycompositor.cpp: QueueComposition, Composite,
\* SquashAll, ApplyFrame, ClearDisplay, FrameWorker::Routine).
THEOREM FencesKept == Spec => []NoFenceLost
<1>1. Init => TypeInv /\ FenceInv
  BY InitTypes DEF Init, FenceInv
<1>2. TypeInv /\ FenceInv /\ [Next]_vars => (TypeInv /\ FenceInv)'
  BY NextTypes, FenceStep
<1>3. TypeInv /\ FenceInv => NoFenceLost
  <2> SUFFICES ASSUME TypeInv, FenceInv, NEW i \in 1..comps
               PROVE  i \in done \/ \E c \in InFlight \cup {active_composition_} : c.id = i
    BY DEF NoFenceLost
  <2>1. comps \in Nat
    BY DEF TypeInv, CountsTyped
  <2> QED BY <2>1, KeptIsOwned DEF FenceInv
<1> QED BY <1>1, <1>2, <1>3, PTL DEF Spec

-----------------------------------------------------------------------------
(* SquashAll against the frame worker.  Where a frame is on screen within     *)
(* kSquashWait of being queued, the two never apply a frame together.         *)

SquashingAll ==
  thread[cw] = "expired" \/ job[cw].pc \in {"squashall", "squashall_fb"} \cup ApplyPcs
Alone == SquashingAll => FrameWorkerIdle

LEMMA AloneCompositeWorker ==
  ASSUME TypeInv, Alone, CompositeWorkerStep
  PROVE  Alone'
<1> USE BothWorkersThere
    DEF TypeInv, workerVars, queueVars, fbVars, sqfbVars, modeVars, overlayVars, screenVars,
        callerVars, JobPcs, SquashingAll, FrameWorkerIdle, ApplyPcs
<1>1. CASE HaveQueuedComposites \/ CompositeWorkerWait \/ TestFrame \/ SignalFrameWorker
  <2>1. PICK pc \in JobPcs \ ({"squashall", "squashall_fb"} \cup ApplyPcs) : Goto(cw, pc)
    BY <1>1 DEF HaveQueuedComposites, CompositeWorkerWait, TestFrame, SignalFrameWorker
  <2>2. thread'[cw] # "expired"
    BY <1>1 DEF HaveQueuedComposites, CompositeWorkerWait, TestFrame, SignalFrameWorker,
       WaitForSignalOrExitLocked, ThreadTyped, RunningInRoutine
  <2> QED BY <2>1, <2>2, GotoMoves DEF Moves, Alone
<1>2. CASE CompositeWorkerWoken
  <2>1. CASE UNCHANGED job /\ Return(cw)
    BY <1>2, <2>1 DEF CompositeWorkerWoken, Return, ThreadTyped, Alone, RunningInRoutine, Awake
  <2>2. CASE thread[cw] = "expired" /\ Goto(cw, "squashall")
    BY <1>2, <2>2, GotoMoves DEF CompositeWorkerWoken, Alone, Moves
  <2>3. CASE Goto(cw, "composite") /\ thread' = [thread EXCEPT ![cw] = "running"]
    BY <1>2, <2>3, GotoMoves DEF Alone, Moves, ThreadTyped
  <2> QED BY <1>2, <2>1, <2>2, <2>3 DEF CompositeWorkerWoken, WaitResult
<1>3. CASE Composite \/ PrepareSquash \/ ApplyPreComposite
  <2>1. \/ EndRoutine(cw)
        \/ job'[cw].pc \in {"squash_fb", "pre_fb", "test"} /\ UNCHANGED thread
    BY <1>3 DEF Composite, PrepareSquash, ApplyPreComposite, AbandonFrame, Goto, JobTyped, Jobs
  <2>2. CASE EndRoutine(cw)
    BY <2>2, EndRoutineMoves DEF Alone, Moves, EndRoutine, Return, ThreadTyped
  <2>3. CASE job'[cw].pc \in {"squash_fb", "pre_fb", "test"} /\ UNCHANGED thread
    <3>1. thread[cw] = "running"
      BY <1>3 DEF Composite, PrepareSquash, ApplyPreComposite, RunningInRoutine
    <3> QED BY <2>3, <3>1 DEF Alone
  <2> QED BY <2>1, <2>2, <2>3
<1>4. CASE SquashQueuedFrame \/ QueueFrame
  <2>1. thread[cw] = "running" /\ thread' = thread
    BY <1>4 DEF SquashQueuedFrame, QueueFrame, RunningInRoutine, SquashFrame
  <2>2. job'[cw].pc \in {"queue", "clear", "signal_frame"}
    BY <1>4 DEF SquashQueuedFrame, QueueFrame, SquashFrame, Goto, JobTyped, Jobs, IdleJob
  <2> QED BY <2>1, <2>2 DEF Alone
<1>5. CASE SquashAll \/ SquashActive
  <2>1. FrameWorkerIdle
    BY <1>5 DEF SquashAll, SquashActive, Alone
  <2>2. UNCHANGED frame_queue_ /\ job'[fw] = job[fw]
    BY <1>5 DEF SquashAll, SquashActive, SquashFrame, Goto, EndRoutine, JobTyped
  <2> QED BY <2>1, <2>2 DEF Alone
<1> QED BY <1>1, <1>2, <1>3, <1>4, <1>5 DEF CompositeWorkerStep

LEMMA AloneStep ==
  ASSUME "slow" \notin Env, TypeInv, Alone, [Next]_vars
  PROVE  Alone'
<1> USE BothWorkersThere
    DEF TypeInv, workerVars, queueVars, screenVars, SquashingAll, FrameWorkerIdle
<1>1. CASE UNCHANGED vars
  BY <1>1 DEF vars, Alone
<1>2. CASE CompositeWorkerStep
  BY <1>2, AloneCompositeWorker
<1>3. CASE FrameWorkerRoutine \/ FrameWorkerWoken
  <2>1. job'[cw] = job[cw] /\ thread'[cw] = thread[cw]
    BY <1>3 DEF FrameWorkerRoutine, FrameWorkerWoken, TakeFrame, JobTyped, ThreadTyped,
       WaitForSignalOrExitLocked, Return
  <2>2. frame_queue_ = <<>> => UNCHANGED <<frame_queue_, job>>
    BY <1>3 DEF FrameWorkerRoutine, FrameWorkerWoken
  <2> QED BY <2>1, <2>2 DEF Alone
<1>4. ASSUME NEW w \in Workers, ApplyFrame(w) PROVE Alone'
  <2>1. job[w].pc \in ApplyPcs \cup {"clear"} /\ UNCHANGED frame_queue_
    BY <1>4, ApplyFrameMoves
    DEF ApplyFrame, BuildPset, CommitFrame, FinishModeset, AdoptMode, SignalActive, SwapActive, ClearDisplay
  <2>2. CASE w = fw
    <3>1. job[fw].pc # "idle" /\ job'[cw] = job[cw] /\ thread'[cw] = thread[cw]
      BY <1>4, <2>1, <2>2, ApplyFrameMoves DEF Moves, ApplyPcs
    <3> QED BY <3>1 DEF Alone
  <2>3. CASE w = cw /\ job[cw].pc \in ApplyPcs
    BY <1>4, <2>1, <2>3, ApplyFrameMoves DEF Alone, Moves
  <2>4. CASE w = cw /\ job[cw].pc = "clear"
    <3>1. EndRoutine(cw)
      BY <1>4, <2>4 DEF ApplyFrame, BuildPset, CommitFrame, FinishModeset, AdoptMode, SignalActive,
         SwapActive, ClearDisplay
    <3> QED BY <3>1, EndRoutineMoves DEF Alone, Moves, EndRoutine, Return, ThreadTyped, ApplyPcs
  <2> QED BY <2>1, <2>2, <2>3, <2>4
<1>5. CASE ThreadStep \/ ExitStep
  <2>1. UNCHANGED <<job, frame_queue_>>
    BY <1>5 DEF ThreadStep, ExitStep
  <2>2. thread'[cw] = "expired" => thread[cw] = "expired" \/ FrameWorkerIdle
    BY <1>5 DEF ThreadStep, ExitStep, InternalRoutine, SpuriousWakeup, WaitTimeout, ExitRequest,
       ExitNotify, ExitJoin, Signal, Notified, Asleep, ThreadTyped
  <2> QED BY <2>1, <2>2 DEF Alone
<1>6. ASSUME NEW c \in Callers,
             \/ \E s \in Shapes : QueueFrameComposition(c, s)
             \/ QueueControlComposition(c)
             \/ CallerStep(c)
      PROVE  Alone'
  <2>1. UNCHANGED <<job, frame_queue_>>
    BY <1>6 DEF QueueFrameComposition, QueueControlComposition, CallerStep, PushComposition,
       SignalCompositeWorker
  <2>2. thread'[cw] = "expired" => thread[cw] = "expired"
    BY <1>6 DEF QueueFrameComposition, QueueControlComposition, CallerStep, PushComposition,
       SignalCompositeWorker, Signal, Notified, ThreadTyped
  <2> QED BY <2>1, <2>2 DEF Alone
<1>7. CASE Destroy
  BY <1>7 DEF Destroy, Alone
<1> QED BY <1>1, <1>2, <1>3, <1>4, <1>5, <1>6, <1>7 DEF Next

-----------------------------------------------------------------------------
(* Mode blobs.  The modes still to be set differ from each other and from the *)
(* two mode_ holds blobs of.                                                  *)

IsModeset(c) == c.type = "MODESET"
Fresh(m) == m <= controls /\ m # mode_.blob_id /\ m # mode_.old_blob_id

QueueFresh == \A k \in DOMAIN composite_queue_ :
                IsModeset(composite_queue_[k]) => Fresh(composite_queue_[k].mode)
CallFresh  == \A c \in Callers : IsModeset(call[c].comp) => Fresh(call[c].comp.mode)
QueueApart == \A j, k \in DOMAIN composite_queue_ :
                IsModeset(composite_queue_[j]) /\ IsModeset(composite_queue_[k]) /\ j # k
                => composite_queue_[j].mode # composite_queue_[k].mode
CallsApart == \A c, d \in Callers :
                IsModeset(call[c].comp) /\ IsModeset(call[d].comp) /\ c # d
                => call[c].comp.mode # call[d].comp.mode
CallQueueApart == \A c \in Callers, k \in DOMAIN composite_queue_ :
                    IsModeset(call[c].comp) /\ IsModeset(composite_queue_[k])
                    => call[c].comp.mode # composite_queue_[k].mode
BlobsApart == /\ mode_.blob_id <= controls /\ mode_.old_blob_id <= controls
              /\ mode_.blob_id = 0 \/ mode_.blob_id # mode_.old_blob_id

FreshModes ==
  QueueFresh /\ CallFresh /\ QueueApart /\ CallsApart /\ CallQueueApart /\ BlobsApart

LEMMA ModesTyped ==
  ASSUME TypeInv
  PROVE  /\ \A c \in Callers : IsModeset(call[c].comp) => call[c].comp.mode \in Nat \ {0}
         /\ \A k \in DOMAIN composite_queue_ :
              IsModeset(composite_queue_[k]) => composite_queue_[k].mode \in Nat \ {0}
         /\ mode_.blob_id \in Nat /\ mode_.old_blob_id \in Nat /\ controls \in Nat
         /\ composite_queue_ \in Seq(FrameComps \cup ControlComps)
<1>1. \A c \in FrameComps \cup ControlComps \cup {NoComp} : IsModeset(c) => c.mode \in Nat \ {0}
  BY CompTypes DEF IsModeset, ControlComps, NoComp
<1> QED BY <1>1 DEF TypeInv, QueuesTyped, CallTyped, CallStates, ModeTyped, CountsTyped

\* Steps that neither queue nor take a composition and leave mode_ alone.
LEMMA FreshUnchanged ==
  ASSUME FreshModes, UNCHANGED <<composite_queue_, controls, mode_>>,
         \A c \in Callers : call'[c].comp = call[c].comp
  PROVE  FreshModes'
BY DEF FreshModes, QueueFresh, CallFresh, QueueApart, CallsApart, CallQueueApart, BlobsApart, Fresh

\* A caller starts with a composition that is new, or no MODESET at all.
LEMMA FreshNew ==
  ASSUME TypeInv, FreshModes, NEW c \in Callers,
         UNCHANGED <<composite_queue_, mode_>>,
         controls' \in {controls, controls + 1},
         \A d \in Callers \ {c} : call'[d].comp = call[d].comp,
         IsModeset(call'[c].comp) => call'[c].comp.mode = controls + 1 /\ controls' = controls + 1
  PROVE  FreshModes'
<1>1. controls \in Nat /\ \A m \in Nat : m <= controls => m <= controls' /\ m # controls + 1
  BY ModesTyped
<1>2. QueueFresh' /\ QueueApart'
  BY <1>1, ModesTyped DEF FreshModes, QueueFresh, QueueApart, Fresh
<1>3. BlobsApart'
  BY <1>1, ModesTyped DEF FreshModes, BlobsApart
<1>4. CallFresh'
  <2> SUFFICES ASSUME NEW d \in Callers, IsModeset(call'[d].comp) PROVE Fresh(call[d].comp.mode)'
    BY DEF CallFresh
  <2>1. CASE d = c
    BY <1>1, <2>1, ModesTyped DEF FreshModes, BlobsApart, Fresh
  <2>2. CASE d # c
    BY <1>1, <2>2, ModesTyped DEF FreshModes, CallFresh, Fresh
  <2> QED BY <2>1, <2>2
<1>5. CallsApart'
  BY <1>1, ModesTyped DEF FreshModes, CallsApart, CallFresh, Fresh
<1>6. CallQueueApart'
  BY <1>1, ModesTyped DEF FreshModes, CallQueueApart, QueueFresh, Fresh
<1> QED BY <1>2, <1>3, <1>4, <1>5, <1>6 DEF FreshModes

LEMMA FreshPush ==
  ASSUME TypeInv, FreshModes, NEW c \in Callers, PushComposition(c)
  PROVE  FreshModes'
<1>1. /\ call'[c].comp = NoComp /\ \A d \in Callers \ {c} : call'[d].comp = call[d].comp
      /\ UNCHANGED <<controls, mode_>>
      /\ composite_queue_' = Append(composite_queue_, call[c].comp)
  BY DEF PushComposition, TypeInv, CallTyped, CallStates, modeVars
<1>2. call[c].comp \in FrameComps \cup ControlComps /\ composite_queue_ \in Seq(FrameComps \cup ControlComps)
  BY DEF TypeInv, CallTyped, CallStates, CallInHand, PushComposition, QueuesTyped
<1> DEFINE n == Len(composite_queue_) + 1
<1>3. /\ composite_queue_'[n] = call[c].comp /\ n \notin DOMAIN composite_queue_
      /\ \A k \in DOMAIN composite_queue_' :
           k = n \/ (k \in DOMAIN composite_queue_ /\ composite_queue_'[k] = composite_queue_[k])
  BY <1>1, <1>2, AppendKeeps
<1>4. ~IsModeset(NoComp)
  BY DEF IsModeset, NoComp
<1> HIDE DEF n
<1>5. QueueFresh' /\ CallFresh' /\ BlobsApart'
  BY <1>1, <1>3, <1>4 DEF FreshModes, QueueFresh, CallFresh, BlobsApart, Fresh
<1>6. QueueApart'
  BY <1>3 DEF FreshModes, QueueApart, CallQueueApart
<1>7. CallsApart'
  BY <1>1, <1>4 DEF FreshModes, CallsApart
<1>8. CallQueueApart'
  BY <1>1, <1>3, <1>4 DEF FreshModes, CallQueueApart, CallsApart
<1> QED BY <1>5, <1>6, <1>7, <1>8 DEF FreshModes

LEMMA FreshComposite ==
  ASSUME "ioctl" \notin Env, TypeInv, FreshModes, Composite
  PROVE  FreshModes'
<1>1. UNCHANGED <<call, controls>>
  BY DEF Composite, callerVars
<1>2. CASE UNCHANGED composite_queue_
  <2>1. UNCHANGED mode_
    <3>1. composite_queue_ # <<>> => composite_queue_ # Tail(composite_queue_)
      <4>1. composite_queue_ \in Seq(FrameComps \cup ControlComps)
        BY ModesTyped
      <4>2. composite_queue_ # <<>> => Len(Tail(composite_queue_)) # Len(composite_queue_)
        BY <4>1
      <4> QED BY <4>2
    <3> QED BY <1>2, <3>1 DEF Composite
  <2> QED BY <1>1, <1>2, <2>1, FreshUnchanged
<1>3. CASE composite_queue_ # <<>> /\ composite_queue_' = Tail(composite_queue_)
  <2>1. /\ \A k \in DOMAIN composite_queue_' :
             /\ k + 1 \in DOMAIN composite_queue_ /\ k + 1 # 1 /\ k \in Nat
             /\ composite_queue_'[k] = composite_queue_[k + 1]
        /\ 1 \in DOMAIN composite_queue_ /\ Head(composite_queue_) = composite_queue_[1]
    BY <1>3, ModesTyped, PopTypes
  <2>2. QueueApart'
    <3> SUFFICES ASSUME NEW j \in DOMAIN composite_queue_', NEW k \in DOMAIN composite_queue_',
                        IsModeset(composite_queue_'[j]), IsModeset(composite_queue_'[k]), j # k
                 PROVE  composite_queue_'[j].mode # composite_queue_'[k].mode
      BY DEF QueueApart
    <3>1. j + 1 # k + 1
      BY <2>1
    <3> QED BY <2>1, <3>1 DEF FreshModes, QueueApart
  <2>3. CallsApart' /\ CallQueueApart'
    BY <1>1, <2>1 DEF FreshModes, CallsApart, CallQueueApart
  <2>4. CASE UNCHANGED mode_
    BY <1>1, <2>1, <2>2, <2>3, <2>4 DEF FreshModes, QueueFresh, CallFresh, BlobsApart, Fresh
  <2>5. CASE mode_' # mode_
    <3>1. IsModeset(composite_queue_[1])
          /\ mode_' = [mode_ EXCEPT !.mode = composite_queue_[1].mode, !.blob_id = composite_queue_[1].mode,
                                    !.needs_modeset = TRUE]
      BY <2>1, <2>5 DEF Composite, IsModeset
    <3>2. mode_'.blob_id = composite_queue_[1].mode /\ mode_'.old_blob_id = mode_.old_blob_id
      BY <3>1 DEF TypeInv, ModeTyped
    <3>3. QueueFresh'
      BY <1>1, <2>1, <3>1, <3>2 DEF FreshModes, QueueFresh, QueueApart, Fresh
    <3>4. CallFresh'
      BY <1>1, <2>1, <3>1, <3>2 DEF FreshModes, CallFresh, CallQueueApart, Fresh
    <3>5. BlobsApart'
      BY <1>1, <2>1, <3>1, <3>2 DEF FreshModes, BlobsApart, QueueFresh, Fresh
    <3> QED BY <2>2, <2>3, <3>3, <3>4, <3>5 DEF FreshModes
  <2> QED BY <2>4, <2>5
<1> QED BY <1>2, <1>3 DEF Composite

LEMMA FreshAdopt ==
  ASSUME TypeInv, FreshModes, NEW w \in Workers, AdoptMode(w)
  PROVE  FreshModes'
<1>1. UNCHANGED <<composite_queue_, call, controls>>
  BY DEF AdoptMode, queueVars, callerVars
<1>2. mode_'.blob_id = 0 /\ mode_'.old_blob_id = mode_.blob_id
  BY DEF AdoptMode, Adopted, TypeInv, ModeTyped
<1>3. QueueApart' /\ CallsApart' /\ CallQueueApart'
  BY <1>1 DEF FreshModes, QueueApart, CallsApart, CallQueueApart
<1>4. QueueFresh' /\ CallFresh'
  BY <1>1, <1>2, ModesTyped DEF FreshModes, QueueFresh, CallFresh, Fresh
<1>5. BlobsApart'
  BY <1>1, <1>2, ModesTyped DEF FreshModes, BlobsApart
<1> QED BY <1>3, <1>4, <1>5 DEF FreshModes

\* Where the steps outside ApplyFrame leave the workers.
LEMMA CompositeWorkerPcs ==
  ASSUME TypeInv, CompositeWorkerStep
  PROVE  /\ job[cw].pc \notin ApplyPcs \cup {"clear"}
         /\ job'[cw].pc \notin ApplyPcs \ {"commit"}
         /\ job'[fw] = job[fw]
         /\ UNCHANGED <<screen, active_composition_, destructor>>
<1> USE BothWorkersThere
    DEF TypeInv, workerVars, queueVars, fbVars, sqfbVars, modeVars, overlayVars, screenVars,
        callerVars, JobPcs, ApplyPcs
<1>1. CASE HaveQueuedComposites \/ CompositeWorkerWait \/ CompositeWorkerWoken \/ TestFrame
           \/ SignalFrameWorker \/ SquashAll \/ QueueFrame
  <2>1. job[cw].pc \notin ApplyPcs \cup {"clear"}
    BY <1>1 DEF HaveQueuedComposites, CompositeWorkerWait, CompositeWorkerWoken, TestFrame,
       SignalFrameWorker, SquashAll, QueueFrame, RunningInRoutine, Awake
  <2>2. \/ \E pc \in JobPcs \ ApplyPcs : Goto(cw, pc)
        \/ UNCHANGED job
        \/ EndRoutine(cw)
        \/ job' = [job EXCEPT ![cw] = [IdleJob EXCEPT !.pc = "signal_frame"]]
    BY <1>1 DEF HaveQueuedComposites, CompositeWorkerWait, CompositeWorkerWoken, TestFrame,
       SignalFrameWorker, SquashAll, QueueFrame
  <2>3. UNCHANGED <<screen, active_composition_, destructor>>
    BY <1>1 DEF HaveQueuedComposites, CompositeWorkerWait, CompositeWorkerWoken, TestFrame,
       SignalFrameWorker, SquashAll, QueueFrame
  <2>4. job'[cw].pc \notin ApplyPcs \ {"commit"} /\ job'[fw] = job[fw]
    <3>1. CASE \E pc \in JobPcs \ ApplyPcs : Goto(cw, pc)
      BY <3>1, GotoMoves DEF Moves
    <3>2. CASE UNCHANGED job
      BY <2>1, <3>2
    <3>3. CASE EndRoutine(cw)
      BY <3>3, EndRoutineMoves DEF Moves
    <3>4. CASE job' = [job EXCEPT ![cw] = [IdleJob EXCEPT !.pc = "signal_frame"]]
      BY <3>4 DEF JobTyped, IdleJob
    <3> QED BY <2>2, <3>1, <3>2, <3>3, <3>4
  <2> QED BY <2>1, <2>3, <2>4
<1>2. CASE Composite \/ PrepareSquash \/ ApplyPreComposite
  <2>1. UNCHANGED <<screen, active_composition_, destructor>> /\ job[cw].pc \notin ApplyPcs \cup {"clear"}
    BY <1>2 DEF Composite, PrepareSquash, ApplyPreComposite
  <2>2. EndRoutine(cw) \/ job'[cw].pc \in {"squash_fb", "pre_fb", "test"}
    BY <1>2 DEF Composite, PrepareSquash, ApplyPreComposite, AbandonFrame, Goto, JobTyped, Jobs
  <2>3. EndRoutine(cw) \/ job'[fw] = job[fw]
    BY <1>2 DEF Composite, PrepareSquash, ApplyPreComposite, AbandonFrame, Goto, JobTyped
  <2> QED BY <2>1, <2>2, <2>3, EndRoutineMoves DEF Moves
<1>3. CASE SquashQueuedFrame \/ SquashActive
  <2>1. UNCHANGED <<screen, active_composition_, destructor>> /\ job[cw].pc \notin ApplyPcs \cup {"clear"}
    BY <1>3 DEF SquashQueuedFrame, SquashActive
  <2>2. \/ EndRoutine(cw)
        \/ job'[cw].pc \in {"queue", "clear", "commit"} /\ job'[fw] = job[fw]
    BY <1>3 DEF SquashQueuedFrame, SquashActive, SquashFrame, Goto, JobTyped, Jobs
  <2> QED BY <2>1, <2>2, EndRoutineMoves DEF Moves
<1> QED BY <1>1, <1>2, <1>3 DEF CompositeWorkerStep

LEMMA FrameWorkerPcSteps ==
  ASSUME TypeInv, FrameWorkerRoutine \/ FrameWorkerWoken
  PROVE  /\ job[fw].pc = "idle" /\ job'[fw].pc \in {"idle", "commit"}
         /\ job'[cw] = job[cw]
         /\ UNCHANGED <<screen, active_composition_, destructor, composite_queue_, call, controls,
                        mode_, blobs>>
<1> USE BothWorkersThere DEF TypeInv, screenVars, callerVars, modeVars
<1>1. job[fw].pc = "idle"
  BY DEF FrameWorkerRoutine, FrameWorkerWoken, RunningInRoutine, Awake
<1>2. UNCHANGED job \/ TakeFrame
  BY DEF FrameWorkerRoutine, FrameWorkerWoken
<1>3. job'[fw].pc \in {"idle", "commit"} /\ job'[cw] = job[cw]
  BY <1>1, <1>2 DEF TakeFrame, IdleJob, JobTyped
<1> QED BY <1>1, <1>3 DEF FrameWorkerRoutine, FrameWorkerWoken

\* The steps that change neither mode_ nor blobs, nor what is pending.
QuietForModes ==
  /\ UNCHANGED <<composite_queue_, controls, mode_, blobs>>
  /\ \A c \in Callers : call'[c].comp = call[c].comp

LEMMA QuietSteps ==
  ASSUME TypeInv,
         \/ UNCHANGED vars
         \/ CompositeWorkerStep /\ ~Composite
         \/ FrameWorkerRoutine \/ FrameWorkerWoken
         \/ \E w \in Workers : ApplyFrame(w) /\ ~FinishModeset(w) /\ ~AdoptMode(w)
         \/ ThreadStep \/ ExitStep
         \/ \E c \in Callers : SignalCompositeWorker(c)
  PROVE  QuietForModes
<1> USE DEF workerVars, queueVars, fbVars, sqfbVars, modeVars, overlayVars, screenVars, callerVars,
        QuietForModes
<1>1. CASE UNCHANGED vars
  BY <1>1 DEF vars
<1>2. CASE CompositeWorkerStep /\ ~Composite
  BY <1>2 DEF CompositeWorkerStep, HaveQueuedComposites, CompositeWorkerWait, CompositeWorkerWoken,
     PrepareSquash, ApplyPreComposite, TestFrame, SquashQueuedFrame, QueueFrame, SignalFrameWorker,
     SquashAll, SquashActive
<1>3. CASE FrameWorkerRoutine \/ FrameWorkerWoken
  BY <1>3 DEF FrameWorkerRoutine, FrameWorkerWoken
<1>4. CASE \E w \in Workers : ApplyFrame(w) /\ ~FinishModeset(w) /\ ~AdoptMode(w)
  BY <1>4 DEF ApplyFrame, BuildPset, CommitFrame, SignalActive, SwapActive, ClearDisplay
<1>5. CASE ThreadStep \/ ExitStep
  BY <1>5 DEF ThreadStep, ExitStep
<1>6. ASSUME NEW c \in Callers, SignalCompositeWorker(c) PROVE QuietForModes
  BY <1>6 DEF SignalCompositeWorker, TypeInv, CallTyped, CallStates
<1> QED BY <1>1, <1>2, <1>3, <1>4, <1>5, <1>6

LEMMA FreshStep ==
  ASSUME "ioctl" \notin Env, TypeInv, FreshModes, [Next]_vars
  PROVE  FreshModes'
<1>1. CASE QuietForModes
  BY <1>1, FreshUnchanged DEF QuietForModes
<1>2. CASE Composite
  BY <1>2, FreshComposite
<1>3. ASSUME NEW w \in Workers, FinishModeset(w) PROVE FreshModes'
  BY <1>3, FreshUnchanged DEF FinishModeset, queueVars, callerVars
<1>4. ASSUME NEW w \in Workers, AdoptMode(w) PROVE FreshModes'
  BY <1>4, FreshAdopt
<1>5. ASSUME NEW c \in Callers, PushComposition(c) PROVE FreshModes'
  BY <1>5, FreshPush
<1>6. ASSUME NEW c \in Callers, NEW s \in Shapes, QueueFrameComposition(c, s) PROVE FreshModes'
  <2>1. UNCHANGED <<composite_queue_, mode_, controls>>
    BY <1>6 DEF QueueFrameComposition, queueVars, modeVars
  <2>2. \A d \in Callers \ {c} : call'[d].comp = call[d].comp
    BY <1>6 DEF QueueFrameComposition, TypeInv, CallTyped
  <2>3. ~IsModeset(call'[c].comp)
    <3>1. ~IsModeset(call[c].comp)
      BY <1>6, CompTypes DEF QueueFrameComposition, TypeInv, CallInHand, IsModeset, NoComp
    <3>2. ~IsModeset(Frame(comps + 1, frames + 1, s, squash_state_'))
      BY DEF IsModeset, Frame
    <3> QED BY <1>6, <3>1, <3>2 DEF QueueFrameComposition, TypeInv, CallTyped
  <2> QED BY <2>1, <2>2, <2>3, FreshNew
<1>7. ASSUME NEW c \in Callers, QueueControlComposition(c) PROVE FreshModes'
  <2>1. UNCHANGED <<composite_queue_, mode_>> /\ controls' = controls + 1
    BY <1>7 DEF QueueControlComposition, queueVars, modeVars
  <2>2. \A d \in Callers \ {c} : call'[d].comp = call[d].comp
    BY <1>7 DEF QueueControlComposition, TypeInv, CallTyped
  <2>3. (\A on \in BOOLEAN : ~IsModeset(Dpms(on))) /\ Modeset(controls + 1).mode = controls + 1
    BY DEF IsModeset, Dpms, Modeset
  <2>4. IsModeset(call'[c].comp) => call'[c].comp.mode = controls + 1
    BY <1>7, <2>3 DEF QueueControlComposition, TypeInv, CallTyped
  <2> QED BY <2>1, <2>2, <2>4, FreshNew
<1>8. CASE Destroy
  <2>1. composite_queue_' = <<>> /\ UNCHANGED <<call, mode_, controls>>
    BY <1>8 DEF Destroy, callerVars
  <2> QED BY <2>1 DEF FreshModes, QueueFresh, CallFresh, QueueApart, CallsApart, CallQueueApart,
             BlobsApart, Fresh
<1> QED BY <1>1, <1>2, <1>3, <1>4, <1>5, <1>6, <1>7, <1>8, QuietSteps DEF Next, CallerStep

-----------------------------------------------------------------------------
(* Between FinishModeset and AdoptMode the blob of the old mode is gone while *)
(* mode_ still names it.                                                      *)

Adopting == \E w \in Workers : job[w].pc = "adopt"
BlobCount ==
  destructor # "destroyed" =>
    blobs = (IF Adopting THEN {mode_.blob_id} ELSE {mode_.blob_id, mode_.old_blob_id}) \ {0}

BlobInv == Alone /\ FreshModes /\ BlobCount

LEMMA BlobComposite ==
  ASSUME "ioctl" \notin Env, TypeInv, BlobInv, Composite
  PROVE  BlobCount'
<1> USE BothWorkersThere
<1>1. (Adopting' <=> Adopting) /\ UNCHANGED destructor
  BY CompositeWorkerPcs DEF CompositeWorkerStep, Adopting, ApplyPcs
<1>2. CASE UNCHANGED <<mode_, blobs>>
  BY <1>1, <1>2 DEF BlobInv, BlobCount
<1>3. CASE ~UNCHANGED <<mode_, blobs>>
  <2> DEFINE c == Head(composite_queue_)
  <2>1. /\ mode_' = [mode_ EXCEPT !.mode = c.mode, !.blob_id = c.mode, !.needs_modeset = TRUE]
        /\ blobs' = (blobs \ {mode_.blob_id}) \cup {c.mode}
        /\ IsModeset(c) /\ composite_queue_ # <<>>
    BY <1>3 DEF Composite, IsModeset
  <2>2. 1 \in DOMAIN composite_queue_ /\ c = composite_queue_[1]
    BY <2>1, PopTypes, ModesTyped
  <2>3. mode_'.blob_id = c.mode /\ mode_'.old_blob_id = mode_.old_blob_id
    BY <2>1 DEF TypeInv, ModeTyped
  <2>4. c.mode # 0 /\ c.mode # mode_.old_blob_id
    BY <2>1, <2>2, ModesTyped DEF BlobInv, FreshModes, QueueFresh, Fresh
  <2>5. mode_.blob_id = 0 \/ mode_.blob_id # mode_.old_blob_id
    BY DEF BlobInv, FreshModes, BlobsApart
  <2> HIDE DEF c
  <2> QED BY <1>1, <2>1, <2>3, <2>4, <2>5 DEF BlobInv, BlobCount
<1> QED BY <1>2, <1>3

LEMMA ApplyAlone ==
  ASSUME TypeInv, Alone, NEW w \in Workers, job[w].pc \in ApplyPcs
  PROVE  \A v \in Workers \ {w} : job[v].pc \notin ApplyPcs
BY BothWorkersThere DEF Alone, SquashingAll, FrameWorkerIdle, ApplyPcs

LEMMA BlobApplyFrame ==
  ASSUME "ioctl" \notin Env, TypeInv, BlobInv, NEW w \in Workers, ApplyFrame(w)
  PROVE  BlobCount'
<1> USE DEF BlobInv
<1> SUFFICES ASSUME destructor # "destroyed", UNCHANGED destructor PROVE BlobCount'
  BY DEF ApplyFrame, BuildPset, CommitFrame, FinishModeset, AdoptMode, SignalActive, SwapActive,
     ClearDisplay, BlobCount
<1>1. CASE FinishModeset(w)
  <2>1. ~Adopting
    BY <1>1, ApplyAlone DEF FinishModeset, ApplyPcs, Adopting
  <2>2. mode_.old_blob_id \in blobs \cup {0}
    BY <2>1 DEF BlobCount
  <2>3. Goto(w, "adopt") /\ blobs' = blobs \ {mode_.old_blob_id} /\ UNCHANGED mode_
    BY <1>1, <2>2 DEF FinishModeset
  <2>4. Adopting'
    BY <2>3, GotoMoves DEF Adopting, Moves, TypeInv, JobPcs
  <2>5. mode_.blob_id = 0 \/ mode_.blob_id # mode_.old_blob_id
    BY DEF FreshModes, BlobsApart
  <2> QED BY <2>1, <2>3, <2>4, <2>5 DEF BlobCount
<1>2. CASE AdoptMode(w)
  <2>1. Adopting /\ \A v \in Workers \ {w} : job[v].pc # "adopt"
    BY <1>2, ApplyAlone DEF AdoptMode, Adopting, ApplyPcs
  <2>2. ~Adopting'
    BY <1>2, <2>1, GotoMoves DEF AdoptMode, Adopting, Moves, TypeInv, JobPcs
  <2>3. mode_'.blob_id = 0 /\ mode_'.old_blob_id = mode_.blob_id /\ UNCHANGED blobs
    BY <1>2 DEF AdoptMode, Adopted, TypeInv, ModeTyped
  <2> QED BY <2>1, <2>2, <2>3 DEF BlobCount
<1>3. CASE ~FinishModeset(w) /\ ~AdoptMode(w)
  <2>1. UNCHANGED <<mode_, blobs>>
    BY <1>3, QuietSteps DEF QuietForModes
  <2>2. job[w].pc # "adopt" /\ job'[w].pc # "adopt" /\ \A v \in Workers \ {w} : job'[v] = job[v]
    BY <1>3 DEF ApplyFrame, BuildPset, CommitFrame, SignalActive, SwapActive, ClearDisplay, Goto,
       EndRoutine, IdleJob, TypeInv, JobTyped, Jobs
  <2> QED BY <2>1, <2>2 DEF BlobCount, Adopting
<1> QED BY <1>1, <1>2, <1>3

LEMMA BlobStep ==
  ASSUME "slow" \notin Env, "ioctl" \notin Env, TypeInv, BlobInv, [Next]_vars
  PROVE  BlobInv'
<1>1. Alone' /\ FreshModes'
  BY AloneStep, FreshStep DEF BlobInv
<1>2. CASE Composite
  BY <1>1, <1>2, BlobComposite DEF BlobInv
<1>3. CASE \E w \in Workers : ApplyFrame(w)
  BY <1>1, <1>3, BlobApplyFrame DEF BlobInv
<1>4. CASE (CompositeWorkerStep /\ ~Composite) \/ FrameWorkerRoutine \/ FrameWorkerWoken
  <2>1. UNCHANGED <<mode_, blobs, destructor>>
    BY <1>4, QuietSteps, CompositeWorkerPcs, FrameWorkerPcSteps DEF QuietForModes
  <2>2. Adopting' <=> Adopting
    BY <1>4, CompositeWorkerPcs, FrameWorkerPcSteps, BothWorkersThere DEF Adopting, ApplyPcs
  <2> QED BY <1>1, <2>1, <2>2 DEF BlobInv, BlobCount
<1>5. CASE UNCHANGED vars \/ ThreadStep \/ ExitStep
  <2>1. UNCHANGED <<mode_, blobs, job>> /\ (destructor' = destructor \/ destructor # "destroyed")
    BY <1>5 DEF vars, ThreadStep, ExitStep, modeVars
  <2> QED BY <1>1, <2>1 DEF BlobInv, BlobCount, Adopting
<1>6. ASSUME NEW c \in Callers,
             \/ \E s \in Shapes : QueueFrameComposition(c, s)
             \/ QueueControlComposition(c)
             \/ CallerStep(c)
      PROVE  BlobInv'
  <2>1. UNCHANGED <<mode_, blobs, job, destructor>>
    BY <1>6 DEF QueueFrameComposition, QueueControlComposition, CallerStep, PushComposition,
       SignalCompositeWorker, modeVars
  <2> QED BY <1>1, <2>1 DEF BlobInv, BlobCount, Adopting
<1>7. CASE Destroy
  BY <1>1, <1>7 DEF Destroy, BlobInv, BlobCount
<1> QED BY <1>2, <1>3, <1>4, <1>5, <1>6, <1>7 DEF Next

\* The mode blobs that exist are those mode_ names, and those it needs exist:
\* none leaks and none is destroyed twice (Composite's MODESET case, and
\* CommitFrame and ApplyFrame after a modeset).  It takes that frames are on
\* screen before SquashAll may run, and that the ioctls on blobs succeed.
THEOREM BlobsKept ==
  ASSUME "slow" \notin Env, "ioctl" \notin Env
  PROVE  Spec => []BlobsAccounted
<1>1. Init => TypeInv /\ BlobInv
  <2> SUFFICES ASSUME Init PROVE BlobInv
    BY InitTypes
  <2>1. Alone
    BY BothWorkersThere DEF Init, Alone, SquashingAll, ApplyPcs, FrameWorkerIdle, IdleJob
  <2>2. FreshModes
    BY DEF Init, FreshModes, QueueFresh, CallFresh, QueueApart, CallsApart, CallQueueApart, BlobsApart,
       IsModeset, NoComp
  <2>3. BlobCount
    BY DEF Init, BlobCount, Adopting, IdleJob
  <2> QED BY <2>1, <2>2, <2>3 DEF BlobInv
<1>2. TypeInv /\ BlobInv /\ [Next]_vars => (TypeInv /\ BlobInv)'
  BY NextTypes, BlobStep
<1>3. BlobInv => BlobsAccounted
  BY DEF BlobInv, BlobCount, BlobsAccounted, Adopting
<1> QED BY <1>1, <1>2, <1>3, PTL DEF Spec

-----------------------------------------------------------------------------
(* A frame has one owner, and is not signalled before it was shown.           *)

InCalls(i)      == \E c \in Callers : call[c].comp.id = i
InQueue(i)      == \E k \in DOMAIN composite_queue_ : composite_queue_[k].id = i
InFrameQueue(i) == \E k \in DOMAIN frame_queue_ : frame_queue_[k].id = i
InHands(i)      == \E w \in Workers : job[w].comp.id = i
IsActive(i)     == active_composition_.id = i
Waiting(i)      == InCalls(i) \/ InQueue(i) \/ InFrameQueue(i) \/ InHands(i)

OneOwner(i) ==
  /\ InCalls(i) => ~InQueue(i) /\ ~InFrameQueue(i) /\ ~InHands(i) /\ ~IsActive(i)
  /\ InQueue(i) => ~InFrameQueue(i) /\ ~InHands(i) /\ ~IsActive(i)
  /\ InFrameQueue(i) => ~InHands(i) /\ ~IsActive(i)
  /\ InHands(i) => ~IsActive(i)

FrameInv(i) ==
  /\ OneOwner(i)
  /\ Waiting(i) => i \notin done
  /\ Waiting(i) \/ IsActive(i) \/ i \in done => i <= comps

\* No owner has it twice.
CallsOnce == \A c, d \in Callers : call[c].comp.id # 0 /\ c # d => call[c].comp.id # call[d].comp.id
QueueOnce == \A j, k \in DOMAIN composite_queue_ :
               composite_queue_[j].id # 0 /\ j # k => composite_queue_[j].id # composite_queue_[k].id
FrameQueueOnce == \A j, k \in DOMAIN frame_queue_ :
               frame_queue_[j].id # 0 /\ j # k => frame_queue_[j].id # frame_queue_[k].id
HandsOnce == \A v, w \in Workers : job[v].comp.id # 0 /\ v # w => job[v].comp.id # job[w].comp.id
NoTwice == CallsOnce /\ QueueOnce /\ FrameQueueOnce /\ HandsOnce

OwnerInv == NoTwice /\ \A i \in Nat \ {0} : FrameInv(i)

LEMMA IdTypes ==
  ASSUME TypeInv
  PROVE  /\ \A c \in Callers : call[c].comp.id \in Nat
         /\ \A w \in Workers : job[w].comp.id \in Nat
         /\ \A k \in DOMAIN composite_queue_ : composite_queue_[k].id \in Nat
         /\ \A k \in DOMAIN frame_queue_ : frame_queue_[k].id \in Nat \ {0}
         /\ active_composition_.id \in Nat /\ comps \in Nat
         /\ composite_queue_ \in Seq(FrameComps \cup ControlComps) /\ frame_queue_ \in Seq(FrameComps)
BY CompTypes DEF TypeInv, CallTyped, CallStates, JobTyped, Jobs, QueuesTyped, ScreenTyped, CountsTyped

LEMMA StaysOwner ==
  ASSUME TypeInv, OwnerInv, Stays
  PROVE  OwnerInv'
<1>1. NoTwice'
  BY DEF Stays, Others, OwnerInv, NoTwice, CallsOnce, QueueOnce, FrameQueueOnce, HandsOnce
<1>2. ASSUME NEW i \in Nat \ {0} PROVE FrameInv(i)'
  <2>1. /\ InCalls(i)' <=> InCalls(i)
        /\ InQueue(i)' <=> InQueue(i)
        /\ InFrameQueue(i)' <=> InFrameQueue(i)
        /\ InHands(i)' <=> InHands(i)
        /\ IsActive(i)' <=> IsActive(i)
    BY DEF Stays, Others, InCalls, InQueue, InFrameQueue, InHands, IsActive
  <2> QED BY <2>1 DEF Stays, OwnerInv, FrameInv, OneOwner, Waiting
<1> QED BY <1>1, <1>2 DEF OwnerInv

LEMMA CreatedOwner ==
  ASSUME TypeInv, OwnerInv, NEW c \in Callers, Created(c)
  PROVE  OwnerInv'
<1>1. comps + 1 \in Nat \ {0} /\ ~InCalls(comps + 1) /\ ~InQueue(comps + 1) /\ ~InFrameQueue(comps + 1)
      /\ ~InHands(comps + 1) /\ ~IsActive(comps + 1) /\ comps + 1 \notin done
  BY IdTypes DEF OwnerInv, FrameInv, Waiting
<1>2. NoTwice'
  <2>1. CallsOnce'
    BY <1>1 DEF Created, Others, OwnerInv, NoTwice, CallsOnce, InCalls
  <2>2. HandsOnce'
    BY DEF Created, Others, OwnerInv, NoTwice, HandsOnce
  <2> QED BY <2>1, <2>2 DEF Created, Others, OwnerInv, NoTwice, QueueOnce, FrameQueueOnce
<1>3. ASSUME NEW i \in Nat \ {0} PROVE FrameInv(i)'
  <2>1. /\ InCalls(i)' => InCalls(i) \/ (i = comps + 1 /\ done' = done)
        /\ InQueue(i)' <=> InQueue(i)
        /\ InFrameQueue(i)' <=> InFrameQueue(i)
        /\ InHands(i)' <=> InHands(i)
        /\ IsActive(i)' <=> IsActive(i)
    BY DEF Created, Others, InCalls, InQueue, InFrameQueue, InHands, IsActive
  <2>2. comps' = comps + 1 /\ done' \subseteq done \cup {comps + 1} /\ (i <= comps => i <= comps')
    BY IdTypes DEF Created
  <2>3. FrameInv(i)
    BY DEF OwnerInv
  <2>4. OneOwner(i)'
    BY <1>1, <2>1, <2>3 DEF FrameInv, OneOwner
  <2>5. Waiting(i)' => i \notin done'
    BY <1>1, <2>1, <2>2, <2>3 DEF FrameInv, Waiting
  <2>6. Waiting(i)' \/ IsActive(i)' \/ i \in done' => i <= comps'
    BY <1>1, <2>1, <2>2, <2>3 DEF FrameInv, Waiting
  <2> QED BY <2>4, <2>5, <2>6 DEF FrameInv
<1> QED BY <1>2, <1>3 DEF OwnerInv

LEMMA PushedOwner ==
  ASSUME TypeInv, OwnerInv, NEW c \in Callers, Pushed(c)
  PROVE  OwnerInv'
<1> DEFINE m == call[c].comp.id
           n == Len(composite_queue_) + 1
<1>1. /\ composite_queue_'[n] = call[c].comp /\ n \notin DOMAIN composite_queue_
      /\ \A k \in DOMAIN composite_queue_' :
           k = n \/ (k \in DOMAIN composite_queue_ /\ composite_queue_'[k] = composite_queue_[k])
  <2>1. composite_queue_ \in Seq(FrameComps \cup ControlComps \cup {NoComp})
        /\ call[c].comp \in FrameComps \cup ControlComps \cup {NoComp}
    BY DEF TypeInv, QueuesTyped, CallTyped, CallStates
  <2> QED BY <2>1, AppendKeeps DEF Pushed
<1>2. m \in Nat /\ InCalls(m) /\ (m # 0 => ~InQueue(m) /\ FrameInv(m))
  BY IdTypes DEF InCalls, OwnerInv, FrameInv, OneOwner
<1> HIDE DEF n
<1>3. NoTwice'
  <2>1. CallsOnce'
    BY DEF Pushed, Others, OwnerInv, NoTwice, CallsOnce
  <2>2. QueueOnce'
    BY <1>1, <1>2 DEF OwnerInv, NoTwice, QueueOnce, InQueue
  <2>3. HandsOnce'
    BY DEF Pushed, Others, OwnerInv, NoTwice, HandsOnce
  <2> QED BY <2>1, <2>2, <2>3 DEF Pushed, OwnerInv, NoTwice, FrameQueueOnce
<1>4. ASSUME NEW i \in Nat \ {0} PROVE FrameInv(i)'
  <2>1. /\ InFrameQueue(i)' <=> InFrameQueue(i)
        /\ InHands(i)' <=> InHands(i)
        /\ IsActive(i)' <=> IsActive(i)
        /\ UNCHANGED <<done, comps>>
    BY DEF Pushed, Others, InFrameQueue, InHands, IsActive
  <2>2. InCalls(i)' => InCalls(i) /\ i # m
    BY DEF Pushed, Others, InCalls, OwnerInv, NoTwice, CallsOnce
  <2>3. InQueue(i)' => InQueue(i) \/ i = m
    BY <1>1 DEF InQueue
  <2>4. FrameInv(i)
    BY DEF OwnerInv
  <2> HIDE DEF m
  <2> QED BY <1>2, <2>1, <2>2, <2>3, <2>4 DEF FrameInv, OneOwner, Waiting
<1> QED BY <1>3, <1>4 DEF OwnerInv

LEMMA PoppedOwner ==
  ASSUME TypeInv, OwnerInv, Popped
  PROVE  OwnerInv'
<1> USE BothWorkersThere
<1> DEFINE h == composite_queue_[1].id
<1>1. /\ 1 \in DOMAIN composite_queue_ /\ Head(composite_queue_) = composite_queue_[1]
      /\ \A k \in DOMAIN composite_queue_' :
           /\ k + 1 \in DOMAIN composite_queue_ /\ k + 1 # 1 /\ k \in Nat
           /\ composite_queue_'[k] = composite_queue_[k + 1]
  BY IdTypes, PopTypes DEF Popped
<1>2. h \in Nat /\ InQueue(h) /\ (h # 0 => ~InHands(h) /\ FrameInv(h))
  BY <1>1, IdTypes DEF InQueue, OwnerInv, FrameInv, OneOwner
<1>3. NoTwice'
  <2>1. CallsOnce'
    BY DEF Popped, Others, OwnerInv, NoTwice, CallsOnce
  <2>2. QueueOnce'
    <3> SUFFICES ASSUME NEW j \in DOMAIN composite_queue_', NEW k \in DOMAIN composite_queue_',
                        composite_queue_'[j].id # 0, j # k
                 PROVE  composite_queue_'[j].id # composite_queue_'[k].id
      BY DEF QueueOnce
    <3>1. j + 1 # k + 1
      BY <1>1
    <3> QED BY <1>1, <3>1 DEF OwnerInv, NoTwice, QueueOnce
  <2>3. HandsOnce'
    BY <1>1, <1>2 DEF Popped, Others, HandsOnce, InHands
  <2> QED BY <2>1, <2>2, <2>3 DEF Popped, OwnerInv, NoTwice, FrameQueueOnce
<1>4. ASSUME NEW i \in Nat \ {0} PROVE FrameInv(i)'
  <2>1. /\ InCalls(i)' <=> InCalls(i)
        /\ InFrameQueue(i)' <=> InFrameQueue(i)
        /\ IsActive(i)' <=> IsActive(i)
        /\ UNCHANGED <<done, comps>>
    BY DEF Popped, Others, InCalls, InFrameQueue, IsActive
  <2>2. InQueue(i)' => InQueue(i) /\ i # h
    BY <1>1 DEF InQueue, OwnerInv, NoTwice, QueueOnce
  <2>3. InHands(i)' => InHands(i) \/ i = h
    BY <1>1 DEF Popped, Others, InHands
  <2>4. FrameInv(i)
    BY DEF OwnerInv
  <2> HIDE DEF h
  <2> QED BY <1>2, <2>1, <2>2, <2>3, <2>4 DEF FrameInv, OneOwner, Waiting
<1> QED BY <1>3, <1>4 DEF OwnerInv

\* A worker gives up the frame in its hand.
LEMMA HandEmptied ==
  ASSUME TypeInv, OwnerInv, NEW w \in Workers,
         \A v \in Workers \ {w} : job'[v].comp.id = job[v].comp.id, job'[w].comp.id = 0
  PROVE  /\ HandsOnce'
         /\ \A i \in Nat \ {0} : InHands(i)' => InHands(i) /\ i # job[w].comp.id
         /\ job[w].comp.id \in Nat /\ InHands(job[w].comp.id)
BY IdTypes DEF OwnerInv, NoTwice, HandsOnce, InHands

LEMMA DroppedOwner ==
  ASSUME TypeInv, OwnerInv, NEW w \in Workers, Dropped(w)
  PROVE  OwnerInv'
<1> DEFINE m == job[w].comp.id
<1>1. /\ HandsOnce' /\ m \in Nat /\ InHands(m)
      /\ \A i \in Nat \ {0} : InHands(i)' => InHands(i) /\ i # m
  BY HandEmptied DEF Dropped, Others
<1>2. done' = done \cup ({m} \ {0}) /\ UNCHANGED comps
  BY DEF Dropped, Signalled
<1>3. NoTwice'
  BY <1>1 DEF Dropped, Others, OwnerInv, NoTwice, CallsOnce, QueueOnce, FrameQueueOnce
<1>4. ASSUME NEW i \in Nat \ {0} PROVE FrameInv(i)'
  <2>1. /\ InCalls(i)' <=> InCalls(i)
        /\ InQueue(i)' <=> InQueue(i)
        /\ InFrameQueue(i)' <=> InFrameQueue(i)
        /\ IsActive(i)' <=> IsActive(i)
    BY DEF Dropped, Others, InCalls, InQueue, InFrameQueue, IsActive
  <2>2. FrameInv(i)
    BY DEF OwnerInv
  <2> HIDE DEF m
  <2> QED BY <1>1, <1>2, <2>1, <2>2 DEF FrameInv, OneOwner, Waiting
<1> QED BY <1>3, <1>4 DEF OwnerInv

LEMMA ReplacedOwner ==
  ASSUME TypeInv, OwnerInv, Replaced
  PROVE  OwnerInv'
<1> USE BothWorkersThere
<1> DEFINE m == job[cw].comp.id
           n == comps + 1
<1>1. n \in Nat \ {0} /\ ~InCalls(n) /\ ~InQueue(n) /\ ~InFrameQueue(n)
      /\ ~InHands(n) /\ ~IsActive(n) /\ n \notin done
  BY IdTypes DEF OwnerInv, FrameInv, Waiting
<1>2. m \in Nat /\ InHands(m) /\ m # n
  BY <1>1, IdTypes DEF InHands
<1>3. done' = done \cup ({m} \ {0}) /\ comps' = n
  BY DEF Replaced, Signalled
<1>4. NoTwice'
  <2>1. HandsOnce'
    BY <1>1 DEF Replaced, Others, HandsOnce, InHands
  <2> QED BY <2>1 DEF Replaced, Others, OwnerInv, NoTwice, CallsOnce, QueueOnce, FrameQueueOnce
<1>5. ASSUME NEW i \in Nat \ {0} PROVE FrameInv(i)'
  <2>1. /\ InCalls(i)' <=> InCalls(i)
        /\ InQueue(i)' <=> InQueue(i)
        /\ InFrameQueue(i)' <=> InFrameQueue(i)
        /\ IsActive(i)' <=> IsActive(i)
    BY DEF Replaced, Others, InCalls, InQueue, InFrameQueue, IsActive
  <2>2. InHands(i)' => (InHands(i) /\ i # m) \/ i = n
    BY DEF Replaced, Others, InHands, OwnerInv, NoTwice, HandsOnce
  <2>3. FrameInv(i) /\ (i <= comps => i <= comps') /\ n <= comps'
    BY <1>3, IdTypes DEF OwnerInv
  <2> HIDE DEF m, n
  <2> QED BY <1>1, <1>2, <1>3, <2>1, <2>2, <2>3 DEF FrameInv, OneOwner, Waiting
<1> QED BY <1>4, <1>5 DEF OwnerInv

LEMMA QueuedOwner ==
  ASSUME TypeInv, OwnerInv, Queued
  PROVE  OwnerInv'
<1> USE BothWorkersThere
<1> DEFINE m == job[cw].comp.id
           n == Len(frame_queue_) + 1
<1>1. /\ frame_queue_'[n] = job[cw].comp /\ n \notin DOMAIN frame_queue_
      /\ \A k \in DOMAIN frame_queue_' :
           k = n \/ (k \in DOMAIN frame_queue_ /\ frame_queue_'[k] = frame_queue_[k])
  <2>1. frame_queue_ \in Seq(FrameComps \cup {NoComp}) /\ job[cw].comp \in FrameComps \cup {NoComp}
    BY DEF TypeInv, QueuesTyped, JobTyped, Jobs
  <2> QED BY <2>1, AppendKeeps DEF Queued
<1>2. /\ HandsOnce' /\ m \in Nat /\ InHands(m)
      /\ \A i \in Nat \ {0} : InHands(i)' => InHands(i) /\ i # m
  BY HandEmptied DEF Queued, Others
<1>3. m # 0 => ~InFrameQueue(m) /\ FrameInv(m)
  BY <1>2 DEF OwnerInv, FrameInv, OneOwner
<1> HIDE DEF n
<1>4. NoTwice'
  <2>1. FrameQueueOnce'
    BY <1>1, <1>3 DEF OwnerInv, NoTwice, FrameQueueOnce, InFrameQueue
  <2> QED BY <1>2, <2>1 DEF Queued, Others, OwnerInv, NoTwice, CallsOnce, QueueOnce
<1>5. ASSUME NEW i \in Nat \ {0} PROVE FrameInv(i)'
  <2>1. /\ InCalls(i)' <=> InCalls(i)
        /\ InQueue(i)' <=> InQueue(i)
        /\ IsActive(i)' <=> IsActive(i)
        /\ UNCHANGED <<done, comps>>
    BY DEF Queued, Others, InCalls, InQueue, IsActive
  <2>2. InFrameQueue(i)' => InFrameQueue(i) \/ i = m
    BY <1>1 DEF InFrameQueue
  <2>3. FrameInv(i)
    BY DEF OwnerInv
  <2> HIDE DEF m
  <2> QED BY <1>2, <1>3, <2>1, <2>2, <2>3 DEF FrameInv, OneOwner, Waiting
<1> QED BY <1>4, <1>5 DEF OwnerInv

LEMMA FetchedOwner ==
  ASSUME TypeInv, OwnerInv, Fetched
  PROVE  OwnerInv'
<1> USE BothWorkersThere
<1> DEFINE h == frame_queue_[1].id
<1>1. /\ 1 \in DOMAIN frame_queue_ /\ Head(frame_queue_) = frame_queue_[1]
      /\ \A k \in DOMAIN frame_queue_' :
           /\ k + 1 \in DOMAIN frame_queue_ /\ k + 1 # 1 /\ k \in Nat
           /\ frame_queue_'[k] = frame_queue_[k + 1]
  BY IdTypes, PopTypes DEF Fetched
<1>2. h \in Nat \ {0} /\ InFrameQueue(h) /\ ~InHands(h) /\ FrameInv(h)
  BY <1>1, IdTypes DEF InFrameQueue, OwnerInv, FrameInv, OneOwner
<1>3. NoTwice'
  <2>1. FrameQueueOnce'
    <3> SUFFICES ASSUME NEW j \in DOMAIN frame_queue_', NEW k \in DOMAIN frame_queue_',
                        frame_queue_'[j].id # 0, j # k
                 PROVE  frame_queue_'[j].id # frame_queue_'[k].id
      BY DEF FrameQueueOnce
    <3>1. j + 1 # k + 1
      BY <1>1
    <3> QED BY <1>1, <3>1 DEF OwnerInv, NoTwice, FrameQueueOnce
  <2>2. HandsOnce'
    BY <1>1, <1>2 DEF Fetched, Others, HandsOnce, InHands
  <2> QED BY <2>1, <2>2 DEF Fetched, Others, OwnerInv, NoTwice, CallsOnce, QueueOnce
<1>4. ASSUME NEW i \in Nat \ {0} PROVE FrameInv(i)'
  <2>1. /\ InCalls(i)' <=> InCalls(i)
        /\ InQueue(i)' <=> InQueue(i)
        /\ IsActive(i)' <=> IsActive(i)
        /\ UNCHANGED comps
    BY DEF Fetched, Others, InCalls, InQueue, IsActive
  <2>2. InFrameQueue(i)' => InFrameQueue(i) /\ i # h
    BY <1>1 DEF InFrameQueue, OwnerInv, NoTwice, FrameQueueOnce
  <2>3. \/ done' = done /\ (InHands(i)' => InHands(i) \/ i = h)
        \/ done' = done \cup {h} /\ (InHands(i)' => InHands(i))
    BY <1>1, <1>2 DEF Fetched, Others, InHands, Signalled
  <2>4. FrameInv(i)
    BY DEF OwnerInv
  <2> HIDE DEF h
  <2> QED BY <1>2, <2>1, <2>2, <2>3, <2>4 DEF FrameInv, OneOwner, Waiting
<1> QED BY <1>3, <1>4 DEF OwnerInv

LEMMA EndedOwner ==
  ASSUME TypeInv, OwnerInv, Ended
  PROVE  OwnerInv'
<1>1. NoTwice'
  BY DEF Ended, Others, OwnerInv, NoTwice, CallsOnce, QueueOnce, FrameQueueOnce, HandsOnce
<1>2. ASSUME NEW i \in Nat \ {0} PROVE FrameInv(i)'
  <2>1. /\ InCalls(i)' <=> InCalls(i)
        /\ InQueue(i)' <=> InQueue(i)
        /\ InFrameQueue(i)' <=> InFrameQueue(i)
        /\ InHands(i)' <=> InHands(i)
        /\ IsActive(i)' <=> IsActive(i)
        /\ UNCHANGED comps
    BY DEF Ended, Others, InCalls, InQueue, InFrameQueue, InHands, IsActive
  <2>2. i \in done' => i \in done \/ IsActive(i)
    BY DEF Ended, Signalled, IsActive
  <2> QED BY <2>1, <2>2 DEF OwnerInv, FrameInv, OneOwner, Waiting
<1> QED BY <1>1, <1>2 DEF OwnerInv

LEMMA SwappedOwner ==
  ASSUME TypeInv, OwnerInv, NEW w \in Workers, Swapped(w) \/ Cleared(w)
  PROVE  OwnerInv'
<1> DEFINE m == job[w].comp.id
<1>1. /\ HandsOnce' /\ m \in Nat /\ InHands(m)
      /\ \A i \in Nat \ {0} : InHands(i)' => InHands(i) /\ i # m
  BY HandEmptied DEF Swapped, Cleared, Others
<1>2. NoTwice'
  BY <1>1 DEF Swapped, Cleared, Others, OwnerInv, NoTwice, CallsOnce, QueueOnce, FrameQueueOnce
<1>3. ASSUME NEW i \in Nat \ {0} PROVE FrameInv(i)'
  <2>1. /\ InCalls(i)' <=> InCalls(i)
        /\ InQueue(i)' <=> InQueue(i)
        /\ InFrameQueue(i)' <=> InFrameQueue(i)
        /\ UNCHANGED comps
    BY DEF Swapped, Cleared, Others, InCalls, InQueue, InFrameQueue
  <2>2. \/ (IsActive(i)' => i = m) /\ (i \in done' => i \in done \/ IsActive(i))
        \/ ~IsActive(i)' /\ (i \in done' => i \in done \/ IsActive(i) \/ i = m)
    BY CompTypes DEF Swapped, Cleared, Signalled, IsActive
  <2>3. FrameInv(i)
    BY DEF OwnerInv
  <2> HIDE DEF m
  <2> QED BY <1>1, <2>1, <2>2, <2>3 DEF FrameInv, OneOwner, Waiting
<1> QED BY <1>2, <1>3 DEF OwnerInv

LEMMA OwnerStep ==
  ASSUME TypeInv, OwnerInv, WorkerSteps \/ Ended \/ \E c \in Callers : CallerSteps(c)
  PROVE  OwnerInv'
BY StaysOwner, CreatedOwner, PushedOwner, PoppedOwner, DroppedOwner, ReplacedOwner, QueuedOwner,
   FetchedOwner, EndedOwner, SwappedOwner DEF WorkerSteps, CallerSteps

LEMMA SwappedActive ==
  ASSUME TypeInv, OwnerInv, NEW w \in Workers, Swapped(w), active_composition_'.id # 0
  PROVE  active_composition_'.id \notin done'
<1>1. job[w].comp.id \in Nat \ {0} /\ InHands(job[w].comp.id)
  BY IdTypes DEF Swapped, InHands
<1>2. job[w].comp.id \notin done /\ ~IsActive(job[w].comp.id)
  BY <1>1 DEF OwnerInv, FrameInv, OneOwner, Waiting
<1> QED BY <1>1, <1>2 DEF Swapped, Signalled, IsActive

\* The active composition is signalled only on its way out.
LEMMA ActiveStep ==
  ASSUME TypeInv, OwnerInv, WorkerSteps \/ \E c \in Callers : CallerSteps(c),
         active_composition_'.id \in done', active_composition_'.id # 0
  PROVE  active_composition_'.id = active_composition_.id /\ active_composition_.id \in done
<1> DEFINE a == active_composition_.id
<1>1. a # 0 => a \in Nat \ {0} /\ FrameInv(a) /\ IsActive(a)
  BY IdTypes DEF OwnerInv, IsActive
<1>2. CASE Stays \/ Popped \/ Queued \/ \E c \in Callers : Pushed(c)
  BY <1>2 DEF Stays, Popped, Queued, Pushed
<1>3. CASE \E c \in Callers : Created(c)
  <2>1. a # 0 => a # comps + 1
    BY <1>1, IdTypes DEF FrameInv
  <2> QED BY <1>3, <2>1 DEF Created
<1>4. ASSUME NEW w \in Workers, Dropped(w) \/ Replaced
      PROVE  active_composition_'.id = a /\ a \in done
  <2>1. a # 0 => ~InHands(a)
    BY <1>1 DEF FrameInv, OneOwner
  <2> QED BY <1>4, <2>1, BothWorkersThere DEF Dropped, Replaced, Signalled, InHands
<1>5. CASE Fetched
  <2>1. a # 0 => ~InFrameQueue(a)
    BY <1>1 DEF FrameInv, OneOwner
  <2>2. 1 \in DOMAIN frame_queue_ /\ Head(frame_queue_) = frame_queue_[1]
    BY <1>5, IdTypes, PopTypes DEF Fetched
  <2> QED BY <1>5, <2>1, <2>2 DEF Fetched, Signalled, InFrameQueue
<1>6. ASSUME NEW w \in Workers, Swapped(w) PROVE FALSE
  BY <1>6, SwappedActive
<1>7. ASSUME NEW w \in Workers, Cleared(w) PROVE FALSE
  BY <1>7, CompTypes DEF Cleared
<1> QED BY <1>2, <1>3, <1>4, <1>5, <1>6, <1>7, BothWorkersThere DEF WorkerSteps, CallerSteps

-----------------------------------------------------------------------------
(* What the screen shows.                                                     *)

\* Without MODESET requests there is never a mode to set.
NoModesets ==
  /\ ~mode_.needs_modeset
  /\ \A w \in Workers : job[w].pc \notin {"modeset", "adopt"}
  /\ \A k \in DOMAIN composite_queue_ : ~IsModeset(composite_queue_[k])
  /\ \A c \in Callers : ~IsModeset(call[c].comp)

LEMMA NoModesetsStep ==
  ASSUME "MODESET" \notin Requests, TypeInv, NoModesets, [Next]_vars
  PROVE  NoModesets'
<1> USE BothWorkersThere
<1>1. ~mode_.needs_modeset' /\ \A w \in Workers : job'[w].pc \notin {"modeset", "adopt"}
  <2>1. CASE CompositeWorkerStep
    <3>1. UNCHANGED mode_
      <4>1. CASE Composite
        <5>1. composite_queue_ # <<>> => ~IsModeset(Head(composite_queue_))
          BY PopTypes, ModesTyped DEF NoModesets
        <5> QED BY <4>1, <5>1 DEF Composite, IsModeset
      <4> QED BY <2>1, <4>1, QuietSteps DEF QuietForModes
    <3> QED BY <2>1, <3>1, CompositeWorkerPcs DEF NoModesets, ApplyPcs
  <2>2. CASE FrameWorkerRoutine \/ FrameWorkerWoken
    BY <2>2, FrameWorkerPcSteps DEF NoModesets
  <2>3. ASSUME NEW w \in Workers, ApplyFrame(w) PROVE <1>1
    <3>1. ~FinishModeset(w) /\ ~AdoptMode(w)
      BY DEF NoModesets, FinishModeset, AdoptMode
    <3>2. UNCHANGED mode_
      BY <2>3, <3>1, QuietSteps DEF QuietForModes
    <3>3. job'[w].pc \notin {"modeset", "adopt"} /\ \A v \in Workers \ {w} : job'[v] = job[v]
      BY <2>3, <3>1 DEF ApplyFrame, BuildPset, CommitFrame, SignalActive, SwapActive, ClearDisplay, Goto,
         EndRoutine, IdleJob, TypeInv, JobTyped, Jobs, NoModesets
    <3> QED BY <3>2, <3>3 DEF NoModesets
  <2>4. CASE UNCHANGED vars \/ ThreadStep \/ ExitStep \/ Destroy
    BY <2>4 DEF vars, ThreadStep, ExitStep, Destroy, modeVars, NoModesets
  <2>5. ASSUME NEW c \in Callers,
               \/ \E s \in Shapes : QueueFrameComposition(c, s)
               \/ QueueControlComposition(c)
               \/ CallerStep(c)
        PROVE  <1>1
    BY <2>5 DEF QueueFrameComposition, QueueControlComposition, CallerStep, PushComposition,
       SignalCompositeWorker, modeVars, NoModesets
  <2> QED BY <2>1, <2>2, <2>3, <2>4, <2>5 DEF Next
<1>2. /\ \A k \in DOMAIN composite_queue_' : ~IsModeset(composite_queue_'[k])
      /\ \A c \in Callers : ~IsModeset(call'[c].comp)
  <2>1. CASE QuietForModes
    BY <2>1 DEF QuietForModes, NoModesets
  <2>2. CASE Composite
    <3>1. UNCHANGED call /\ composite_queue_' \in {composite_queue_, Tail(composite_queue_)}
          /\ (composite_queue_ = <<>> => UNCHANGED composite_queue_)
      BY <2>2 DEF Composite, callerVars
    <3> QED BY <3>1, PopTypes, ModesTyped DEF NoModesets
  <2>3. ASSUME NEW w \in Workers, FinishModeset(w) \/ AdoptMode(w) PROVE <1>2
    BY <2>3 DEF FinishModeset, AdoptMode, NoModesets
  <2>4. ASSUME NEW c \in Callers, PushComposition(c) PROVE <1>2
    <3>1. /\ call'[c].comp = NoComp /\ \A d \in Callers \ {c} : call'[d].comp = call[d].comp
          /\ composite_queue_' = Append(composite_queue_, call[c].comp)
          /\ call[c].comp \in FrameComps \cup ControlComps
      BY <2>4 DEF PushComposition, TypeInv, CallTyped, CallStates, CallInHand
    <3>2. ~IsModeset(NoComp)
      BY DEF IsModeset, NoComp
    <3> QED BY <3>1, <3>2, AppendKeeps, ModesTyped DEF NoModesets
  <2>5. ASSUME NEW c \in Callers, NEW s \in Shapes, QueueFrameComposition(c, s) PROVE <1>2
    <3>1. ~IsModeset(Frame(comps + 1, frames + 1, s, squash_state_'))
      BY DEF IsModeset, Frame
    <3> QED BY <2>5, <3>1 DEF QueueFrameComposition, TypeInv, CallTyped, queueVars, NoModesets
  <2>6. ASSUME NEW c \in Callers, QueueControlComposition(c) PROVE <1>2
    <3>1. \A on \in BOOLEAN : ~IsModeset(Dpms(on))
      BY DEF IsModeset, Dpms
    <3> QED BY <2>6, <3>1 DEF QueueControlComposition, TypeInv, CallTyped, queueVars, NoModesets
  <2>7. CASE Destroy
    <3>1. composite_queue_' = <<>> /\ UNCHANGED call
      BY <2>7 DEF Destroy, callerVars
    <3> QED BY <3>1 DEF NoModesets
  <2> QED BY <2>1, <2>2, <2>3, <2>4, <2>5, <2>6, <2>7, QuietSteps DEF Next, CallerStep
<1> QED BY <1>1, <1>2 DEF NoModesets

ModesetInv == IF "MODESET" \in Requests THEN BlobInv ELSE Alone /\ NoModesets

\* A worker that has a frame on the screen and has not swapped it in.
Committed == {"modeset", "adopt", "signal", "swap"}

\* The screen is blank, shows the active composition, or the one a worker has
\* just committed; the active composition is signalled when it is about to go.
ScreenOwned ==
  \/ screen = NoComp
  \/ \E w \in Workers : job[w].pc \in Committed /\ screen = job[w].comp
  \/ screen = active_composition_ /\ \A w \in Workers : job[w].pc \notin Committed
ActiveUnsignalled ==
  active_composition_.id \in done => \E w \in Workers : job[w].pc = "swap"

ReleaseInv ==
  /\ ModesetInv
  /\ destructor # "destroyed" => OwnerInv /\ ScreenOwned /\ ActiveUnsignalled

\* CommitFrame either shows the frame or goes on to clear the display.
LEMMA CommitOrClear ==
  ASSUME "MODESET" \in Requests => "acquire" \notin Env, ModesetInv,
         NEW w \in Workers, CommitFrame(w)
  PROVE  \/ screen' = job[w].comp /\ \E pc \in {"modeset", "signal"} : Goto(w, pc)
         \/ UNCHANGED screen /\ Goto(w, "clear")
BY DEF CommitFrame, ModesetInv, NoModesets

LEMMA ModesetAdopted ==
  ASSUME "MODESET" \in Requests => "ioctl" \notin Env, TypeInv, ModesetInv,
         destructor # "destroyed", NEW w \in Workers, FinishModeset(w)
  PROVE  Goto(w, "adopt")
<1>1. "MODESET" \in Requests /\ "ioctl" \notin Env /\ BlobInv
  BY DEF ModesetInv, NoModesets, FinishModeset
<1>2. ~Adopting
  BY <1>1, ApplyAlone DEF FinishModeset, ApplyPcs, Adopting, BlobInv
<1>3. mode_.old_blob_id \in blobs \cup {0}
  BY <1>1, <1>2 DEF BlobInv, BlobCount
<1> QED BY <1>1, <1>3 DEF FinishModeset

LEMMA ScreenApplyFrame ==
  ASSUME "MODESET" \in Requests => "acquire" \notin Env /\ "ioctl" \notin Env,
         TypeInv, ReleaseInv, destructor # "destroyed", NEW w \in Workers, ApplyFrame(w)
  PROVE  ScreenOwned'
<1> USE DEF ReleaseInv
<1>1. Alone
  BY DEF ModesetInv, BlobInv
<1>2. job[w].pc \in ApplyPcs => \A v \in Workers \ {w} : job[v].pc \notin ApplyPcs
  BY <1>1, ApplyAlone
<1>3. CASE BuildPset(w)
  <2>1. job'[w].pc = "kernel" /\ job[w].pc = "commit" /\ \A v \in Workers \ {w} : job'[v] = job[v]
    BY <1>3 DEF BuildPset, TypeInv, JobTyped, Jobs
  <2>2. UNCHANGED <<screen, active_composition_>>
    BY <1>3 DEF BuildPset, screenVars
  <2> QED BY <2>1, <2>2 DEF ScreenOwned, Committed
<1>4. CASE CommitFrame(w)
  <2>1. \A v \in Workers : job[v].pc \notin Committed
    BY <1>2, <1>4 DEF CommitFrame, ApplyPcs, Committed
  <2>2. CASE screen' = job[w].comp /\ \E pc \in {"modeset", "signal"} : Goto(w, pc)
    BY <2>2, GotoMoves DEF TypeInv, JobPcs, Moves, ScreenOwned, Committed
  <2>3. CASE UNCHANGED screen /\ Goto(w, "clear")
    <3>1. Moves(w, "clear", job[w].comp) /\ UNCHANGED active_composition_
      BY <1>4, <2>3, GotoMoves DEF TypeInv, JobPcs, CommitFrame
    <3> QED BY <2>1, <2>3, <3>1 DEF Moves, ScreenOwned, Committed
  <2> QED BY <1>4, <2>2, <2>3, CommitOrClear
<1>5. CASE FinishModeset(w) \/ AdoptMode(w) \/ SignalActive(w)
  <2>1. PICK pc \in {"adopt", "signal", "swap"} : Goto(w, pc)
    BY <1>5, ModesetAdopted DEF AdoptMode, SignalActive
  <2>2. Moves(w, pc, job[w].comp)
    BY <2>1, GotoMoves DEF TypeInv, JobPcs
  <2>3. job[w].pc \in Committed /\ UNCHANGED <<screen, active_composition_>>
    BY <1>5 DEF FinishModeset, AdoptMode, SignalActive, Committed, screenVars
  <2> QED BY <2>1, <2>2, <2>3 DEF Moves, ScreenOwned, Committed
<1>6. CASE SwapActive(w)
  <2>1. Moves(w, "idle", NoComp) /\ active_composition_' = job[w].comp /\ UNCHANGED screen
    BY <1>6, EndRoutineMoves DEF SwapActive, TypeInv
  <2>2. job[w].pc = "swap" /\ \A v \in Workers \ {w} : job[v].pc \notin Committed
    BY <1>2, <1>6 DEF SwapActive, ApplyPcs, Committed
  <2> QED BY <2>1, <2>2 DEF Moves, ScreenOwned, Committed
<1>7. CASE ClearDisplay(w)
  <2>1. Moves(w, "idle", NoComp) /\ job[w].pc = "clear"
    BY <1>7, EndRoutineMoves DEF ClearDisplay, TypeInv
  <2>2. screen' = NoComp \/ UNCHANGED <<screen, active_composition_>>
    BY <1>7 DEF ClearDisplay, screenVars
  <2> QED BY <2>1, <2>2 DEF Moves, ScreenOwned, Committed
<1> QED BY <1>3, <1>4, <1>5, <1>6, <1>7 DEF ApplyFrame

\* Steps outside ApplyFrame neither touch the screen nor take a worker into or
\* out of the places after the commit.
LEMMA ScreenUntouched ==
  ASSUME TypeInv, [Next]_vars, ~\E w \in Workers : ApplyFrame(w), ~Destroy
  PROVE  /\ UNCHANGED <<screen, active_composition_>>
         /\ \A w \in Workers : \/ job'[w] = job[w]
                               \/ job[w].pc \notin Committed /\ job'[w].pc \notin Committed
<1>1. CASE CompositeWorkerStep
  BY <1>1, CompositeWorkerPcs, BothWorkersThere DEF ApplyPcs, Committed
<1>2. CASE FrameWorkerRoutine \/ FrameWorkerWoken
  BY <1>2, FrameWorkerPcSteps, BothWorkersThere DEF Committed
<1>3. CASE UNCHANGED vars \/ ThreadStep \/ ExitStep
  BY <1>3 DEF vars, ThreadStep, ExitStep, screenVars
<1>4. ASSUME NEW c \in Callers,
             \/ \E s \in Shapes : QueueFrameComposition(c, s)
             \/ QueueControlComposition(c)
             \/ CallerStep(c)
      PROVE  UNCHANGED <<screen, active_composition_, job>>
  BY <1>4, CallerOwnership
<1> QED BY <1>1, <1>2, <1>3, <1>4 DEF Next

LEMMA ActiveApplyFrame ==
  ASSUME TypeInv, TypeInv', OwnerInv, ActiveUnsignalled, NEW w \in Workers, ApplyFrame(w)
  PROVE  ActiveUnsignalled'
<1> SUFFICES ASSUME active_composition_'.id \in done'
             PROVE  \E v \in Workers : job'[v].pc = "swap"
  BY DEF ActiveUnsignalled
<1>0. active_composition_'.id # 0
  BY DEF TypeInv, DoneTyped
<1>1. CASE job[w].pc = "signal"
  <2>1. Goto(w, "swap")
    BY <1>1 DEF ApplyFrame, BuildPset, CommitFrame, FinishModeset, AdoptMode, SignalActive,
       SwapActive, ClearDisplay
  <2> QED BY <2>1, GotoMoves DEF TypeInv, JobPcs, Moves
<1>2. CASE job[w].pc = "swap"
  BY <1>0, <1>2, ApplyFrameOwnership, SwappedActive
<1>3. CASE job[w].pc \notin {"signal", "swap"}
  <2>1. WorkerSteps
    BY <1>3, ApplyFrameOwnership DEF WorkerSteps
  <2>2. active_composition_.id \in done
    BY <1>0, <2>1, ActiveStep
  <2>3. PICK v \in Workers : job[v].pc = "swap"
    BY <2>2 DEF ActiveUnsignalled
  <2> QED BY <1>3, <2>3, ApplyFrameMoves DEF Moves
<1> QED BY <1>1, <1>2, <1>3

LEMMA ReleaseStep ==
  ASSUME "slow" \notin Env, "MODESET" \in Requests => "acquire" \notin Env /\ "ioctl" \notin Env,
         TypeInv, ReleaseInv, [Next]_vars
  PROVE  ReleaseInv'
<1>0. TypeInv'
  BY NextTypes
<1>1. ModesetInv'
  BY BlobStep, AloneStep, NoModesetsStep DEF ReleaseInv, ModesetInv
<1>2. CASE destructor' = "destroyed"
  BY <1>1, <1>2 DEF ReleaseInv
<1>3. CASE destructor' # "destroyed"
  <2>1. destructor # "destroyed" /\ ~Destroy
    <3>1. destructor' = destructor \/ destructor # "destroyed"
      BY CompositeWorkerPcs, FrameWorkerPcSteps, CallerOwnership
      DEF Next, vars, ApplyFrame, BuildPset, CommitFrame, FinishModeset, AdoptMode, SignalActive,
          SwapActive, ClearDisplay, ThreadStep, ExitStep, Destroy
    <3> QED BY <1>3, <3>1 DEF Destroy
  <2>2. OwnerInv /\ ScreenOwned /\ ActiveUnsignalled
    BY <2>1 DEF ReleaseInv
  <2>3. OwnerInv'
    BY <2>1, <2>2, Ownership, OwnerStep
  <2>4. CASE \E w \in Workers : ApplyFrame(w)
    BY <1>0, <1>1, <2>1, <2>2, <2>3, <2>4, ScreenApplyFrame, ActiveApplyFrame DEF ReleaseInv
  <2>5. CASE ~\E w \in Workers : ApplyFrame(w)
    <3>1. /\ UNCHANGED <<screen, active_composition_>>
          /\ \A w \in Workers : \/ job'[w] = job[w]
                                \/ job[w].pc \notin Committed /\ job'[w].pc \notin Committed
      BY <2>1, <2>5, ScreenUntouched
    <3>2. ScreenOwned'
      BY <2>2, <3>1 DEF ScreenOwned
    <3>3. WorkerSteps \/ \E c \in Callers : CallerSteps(c)
      BY <2>1, <2>5, Ownership DEF ApplyFrame
    <3>4. ActiveUnsignalled'
      <4> SUFFICES ASSUME active_composition_'.id \in done'
                   PROVE  \E v \in Workers : job'[v].pc = "swap"
        BY DEF ActiveUnsignalled
      <4>1. active_composition_'.id # 0
        BY <1>0 DEF TypeInv, DoneTyped
      <4>2. active_composition_.id \in done
        BY <2>2, <3>3, <4>1, ActiveStep
      <4> QED BY <2>2, <3>1, <4>2 DEF ActiveUnsignalled, Committed
    <3> QED BY <1>1, <2>3, <3>2, <3>4 DEF ReleaseInv
  <2> QED BY <2>4, <2>5
<1> QED BY <1>2, <1>3

LEMMA ReleaseInit ==
  ASSUME Init
  PROVE  ReleaseInv
<1> USE BothWorkersThere
<1>1. Alone
  BY DEF Init, Alone, SquashingAll, ApplyPcs, FrameWorkerIdle, IdleJob
<1>2. FreshModes
  BY DEF Init, FreshModes, QueueFresh, CallFresh, QueueApart, CallsApart, CallQueueApart, BlobsApart,
     IsModeset, NoComp
<1>3. BlobCount
  BY DEF Init, BlobCount, Adopting, IdleJob
<1>4. NoModesets
  BY DEF Init, NoModesets, IsModeset, NoComp, IdleJob
<1>5. ScreenOwned /\ ActiveUnsignalled
  BY DEF Init, ScreenOwned, ActiveUnsignalled, NoComp
<1>6. OwnerInv
  <2>1. /\ \A c \in Callers : call[c].comp.id = 0
        /\ \A w \in Workers : job[w].comp.id = 0
        /\ composite_queue_ = <<>> /\ frame_queue_ = <<>> /\ active_composition_.id = 0 /\ done = {}
    BY DEF Init, NoComp, IdleJob
  <2>2. NoTwice
    BY <2>1 DEF NoTwice, CallsOnce, QueueOnce, FrameQueueOnce, HandsOnce
  <2>3. \A i \in Nat \ {0} : FrameInv(i)
    BY <2>1 DEF FrameInv, OneOwner, Waiting, InCalls, InQueue, InFrameQueue, InHands, IsActive
  <2> QED BY <2>2, <2>3 DEF OwnerInv
<1> QED BY <1>1, <1>2, <1>3, <1>4, <1>5, <1>6 DEF ReleaseInv, ModesetInv, BlobInv

LEMMA OwnedNotReleased ==
  ASSUME TypeInv, ReleaseInv
  PROVE  NoEarlyRelease
<1> SUFFICES ASSUME destructor # "destroyed", NEW c \in InFlight \cup {screen}, c.type = "FRAME"
             PROVE  c.id \notin done
  BY DEF NoEarlyRelease
<1>1. OwnerInv /\ ScreenOwned /\ ActiveUnsignalled
  BY DEF ReleaseInv
<1>2. ASSUME NEW d \in InFlight, d.type = "FRAME" PROVE d.id \notin done
  <2>1. Waiting(d.id)
    <3>1. composite_queue_ \in Seq(FrameComps \cup ControlComps)
          /\ frame_queue_ \in Seq(FrameComps \cup ControlComps)
      BY DEF TypeInv, QueuesTyped
    <3>2. d \in Frames(composite_queue_) => InQueue(d.id)
      BY <3>1, FramesOfQueue DEF InQueue
    <3>3. d \in Frames(frame_queue_) => InFrameQueue(d.id)
      BY <3>1, FramesOfQueue DEF InFrameQueue
    <3> QED BY <1>2, <3>2, <3>3 DEF InFlight, Prepared, Waiting, InCalls, InHands
  <2>2. d.id \in Nat
    BY <2>1, IdTypes DEF Waiting, InCalls, InQueue, InFrameQueue, InHands
  <2>3. 0 \notin done
    BY DEF TypeInv, DoneTyped
  <2> QED BY <1>1, <2>1, <2>2, <2>3 DEF OwnerInv, FrameInv
<1>3. CASE c = screen
  <2>1. screen # NoComp
    BY <1>3, CompTypes
  <2>2. ASSUME NEW w \in Workers, screen = job[w].comp PROVE c.id \notin done
    BY <1>2, <1>3, <2>2 DEF InFlight, Prepared
  <2>3. CASE screen = active_composition_ /\ \A w \in Workers : job[w].pc \notin Committed
    BY <1>1, <1>3, <2>3 DEF ActiveUnsignalled, Committed
  <2> QED BY <1>1, <2>1, <2>2, <2>3 DEF ScreenOwned
<1> QED BY <1>2, <1>3

\* No frame's fences are signalled while its buffers wait to be shown or are
\* scanned out, whatever commit, test, allocation and interleaving of callers
\* (SignalCompositionDone and the destructor of DrmDisplayComposition, as
\* ApplyFrame, ClearDisplay, Composite and FrameWorker::Routine reach them).  It
\* takes that frames are on screen before SquashAll may run, and that a modeset
\* meets no acquire fence that times out and no ioctl that fails.
THEOREM ReleasedLast ==
  ASSUME "slow" \notin Env,
         "MODESET" \in Requests => "acquire" \notin Env /\ "ioctl" \notin Env
  PROVE  Spec => []NoEarlyRelease
<1>1. Init => TypeInv /\ ReleaseInv
  BY InitTypes, ReleaseInit
<1>2. TypeInv /\ ReleaseInv /\ [Next]_vars => (TypeInv /\ ReleaseInv)'
  BY NextTypes, ReleaseStep
<1>3. TypeInv /\ ReleaseInv => NoEarlyRelease
  BY OwnedNotReleased
<1> QED BY <1>1, <1>2, <1>3, PTL DEF Spec

-----------------------------------------------------------------------------
(* The mode of the CRTC.  A mode waits with its blob, a property set that has *)
(* been built is that of the mode, and a commit that took it has set it.      *)

BlobWaits == mode_.needs_modeset => mode_.blob_id = mode_.mode
PsetCurrent == \A w \in Workers : job[w].pc = "kernel" => job[w].pset = PsetMode
ModeCommitted ==
  \A w \in Workers :
    job[w].pc \in {"modeset", "adopt"} => mode_.needs_modeset /\ crtc_mode = mode_.mode
ModeKept == ~mode_.needs_modeset => crtc_mode = mode_.mode

ModeInv == Alone /\ BlobWaits /\ PsetCurrent /\ ModeCommitted /\ ModeKept

\* The places at which the mode matters.
ModePcs == {"kernel", "modeset", "adopt"}

LEMMA ModeApplyFrame ==
  ASSUME "acquire" \notin Env, TypeInv, ModeInv, NEW w \in Workers, ApplyFrame(w)
  PROVE  (BlobWaits /\ PsetCurrent /\ ModeCommitted /\ ModeKept)'
<1> USE DEF ModeInv, BlobWaits, PsetCurrent, ModeCommitted, ModeKept, PsetMode
<1>1. job[w].pc \in ApplyPcs => \A v \in Workers \ {w} : job[v].pc \notin ApplyPcs
  BY ApplyAlone
<1>2. CASE BuildPset(w)
  <2>1. /\ job'[w].pc = "kernel" /\ job'[w].pset = PsetMode
        /\ \A v \in Workers \ {w} : job'[v] = job[v]
    BY <1>2 DEF BuildPset, TypeInv, JobTyped, Jobs
  <2> QED BY <1>2, <2>1 DEF BuildPset, modeVars
<1>3. CASE CommitFrame(w)
  <2>1. /\ job[w].pc = "kernel" /\ UNCHANGED mode_
        /\ \A v \in Workers \ {w} : job[v].pc \notin ModePcs
    BY <1>1, <1>3 DEF CommitFrame, ApplyPcs, ModePcs
  <2>2. CASE UNCHANGED crtc_mode /\ Goto(w, "clear")
    <3>1. Moves(w, "clear", job[w].comp) BY <2>2, GotoMoves DEF TypeInv, JobPcs
    <3> QED BY <2>1, <2>2, <3>1 DEF Moves, ModePcs
  <2>3. CASE /\ crtc_mode' = IF job[w].pset = None THEN crtc_mode ELSE job[w].pset
             /\ Goto(w, IF mode_.needs_modeset THEN "modeset" ELSE "signal")
    <3>1. Moves(w, IF mode_.needs_modeset THEN "modeset" ELSE "signal", job[w].comp)
      BY <2>3, GotoMoves DEF TypeInv, JobPcs
    <3>2. job[w].pset = IF mode_.needs_modeset THEN mode_.mode ELSE None
      BY <2>1
    <3>3. mode_.mode # None
      BY DEF TypeInv, ModeTyped, None
    <3>4. crtc_mode' = mode_.mode
      BY <2>3, <3>2, <3>3
    <3> QED BY <2>1, <3>1, <3>4 DEF Moves, ModePcs
  <2> QED BY <1>3, <2>2, <2>3 DEF CommitFrame
<1>4. CASE FinishModeset(w)
  <2>1. PICK pc \in {"adopt", "clear"} : Goto(w, pc)
    BY <1>4 DEF FinishModeset
  <2>2. Moves(w, pc, job[w].comp)
    BY <2>1, GotoMoves DEF TypeInv, JobPcs
  <2> QED BY <1>4, <2>1, <2>2 DEF FinishModeset, Moves
<1>5. CASE AdoptMode(w)
  <2>1. Moves(w, "signal", job[w].comp)
    BY <1>5, GotoMoves DEF AdoptMode, TypeInv, JobPcs
  <2>2. \A v \in Workers \ {w} : job[v].pc \notin ModePcs
    BY <1>1, <1>5 DEF AdoptMode, ApplyPcs, ModePcs
  <2>3. mode_'.needs_modeset = FALSE /\ mode_'.mode = mode_.mode /\ UNCHANGED crtc_mode
    BY <1>5 DEF AdoptMode, Adopted, TypeInv, ModeTyped
  <2> QED BY <1>5, <2>1, <2>2, <2>3 DEF AdoptMode, Moves, ModePcs
<1>6. CASE SignalActive(w) \/ SwapActive(w) \/ ClearDisplay(w)
  <2>1. /\ job'[w].pc \notin ModePcs
        /\ \A v \in Workers \ {w} : job'[v] = job[v]
    BY <1>6 DEF SignalActive, SwapActive, ClearDisplay, Goto, EndRoutine, IdleJob, TypeInv, JobTyped,
       Jobs, ModePcs
  <2>2. UNCHANGED <<mode_, crtc_mode>>
    BY <1>6 DEF SignalActive, SwapActive, ClearDisplay, modeVars
  <2> QED BY <2>1, <2>2 DEF ModePcs
<1> QED BY <1>2, <1>3, <1>4, <1>5, <1>6 DEF ApplyFrame

LEMMA ModeStep ==
  ASSUME "slow" \notin Env, "overlap" \notin Env, "acquire" \notin Env, "ioctl" \notin Env,
         TypeInv, ModeInv, [Next]_vars
  PROVE  ModeInv'
<1>0. Alone'
  BY AloneStep DEF ModeInv
<1> USE BothWorkersThere DEF ModeInv
<1>1. CASE Composite
  <2>1. /\ job[cw].pc = "composite" /\ job'[cw].pc \notin ModePcs /\ job'[fw] = job[fw]
        /\ UNCHANGED crtc_mode
    BY <1>1, CompositeWorkerPcs DEF CompositeWorkerStep, Composite, ApplyPcs, ModePcs
  <2>2. CASE UNCHANGED mode_
    BY <1>0, <2>1, <2>2 DEF BlobWaits, PsetCurrent, PsetMode, ModeCommitted, ModeKept, ModePcs
  <2>3. CASE ~UNCHANGED mode_
    <3> DEFINE m == Head(composite_queue_).mode
    <3>1. FrameWorkerIdle /\ mode_' = [mode_ EXCEPT !.mode = m, !.blob_id = m, !.needs_modeset = TRUE]
      BY <1>1, <2>3 DEF Composite
    <3>2. mode_'.needs_modeset /\ mode_'.blob_id = mode_'.mode
      BY <3>1 DEF TypeInv, ModeTyped
    <3>3. \A w \in Workers : job'[w].pc \notin ModePcs
      BY <2>1, <3>1 DEF FrameWorkerIdle, ModePcs
    <3> QED BY <1>0, <3>2, <3>3 DEF BlobWaits, PsetCurrent, ModeCommitted, ModeKept, ModePcs
  <2> QED BY <2>2, <2>3
<1>2. ASSUME NEW w \in Workers, ApplyFrame(w) PROVE ModeInv'
  BY <1>0, <1>2, ModeApplyFrame
<1>3. CASE ~Composite /\ ~\E w \in Workers : ApplyFrame(w)
  <2>1. UNCHANGED <<mode_, crtc_mode>>
    <3>1. CASE CompositeWorkerStep
      BY <1>3, <3>1 DEF CompositeWorkerStep, HaveQueuedComposites, CompositeWorkerWait,
         CompositeWorkerWoken, PrepareSquash, ApplyPreComposite, TestFrame, SquashQueuedFrame,
         QueueFrame, SignalFrameWorker, SquashAll, SquashActive, modeVars
    <3>2. CASE FrameWorkerRoutine \/ FrameWorkerWoken
      BY <3>2 DEF FrameWorkerRoutine, FrameWorkerWoken, modeVars
    <3>3. CASE UNCHANGED vars
      BY <3>3 DEF vars, modeVars
    <3>4. CASE ThreadStep \/ ExitStep
      BY <3>4 DEF ThreadStep, ExitStep, modeVars
    <3>6. CASE Destroy
      BY <3>6 DEF Destroy
    <3>5. ASSUME NEW c \in Callers,
                 \/ \E s \in Shapes : QueueFrameComposition(c, s)
                 \/ QueueControlComposition(c)
                 \/ CallerStep(c)
          PROVE  UNCHANGED <<mode_, crtc_mode>>
      BY <3>5 DEF CallerStep, PushComposition, SignalCompositeWorker, QueueFrameComposition,
         QueueControlComposition, modeVars
    <3> QED BY <1>3, <3>1, <3>2, <3>3, <3>4, <3>5, <3>6 DEF Next
  <2>2. \A w \in Workers : job'[w] = job[w] \/ job'[w].pc \notin ModePcs
    <3>1. CASE CompositeWorkerStep
      BY <3>1, CompositeWorkerPcs DEF ApplyPcs, ModePcs
    <3>2. CASE FrameWorkerRoutine \/ FrameWorkerWoken
      BY <3>2, FrameWorkerPcSteps DEF ModePcs
    <3>3. CASE UNCHANGED vars \/ ThreadStep \/ ExitStep
      BY <3>3 DEF vars, ThreadStep, ExitStep
    <3>5. CASE Destroy
      BY <3>5 DEF Destroy
    <3>4. ASSUME NEW c \in Callers,
                 \/ \E s \in Shapes : QueueFrameComposition(c, s)
                 \/ QueueControlComposition(c)
                 \/ CallerStep(c)
          PROVE  UNCHANGED job
      BY <3>4, CallerOwnership
    <3> QED BY <1>3, <3>1, <3>2, <3>3, <3>4, <3>5 DEF Next
  <2> QED BY <1>0, <2>1, <2>2 DEF BlobWaits, PsetCurrent, PsetMode, ModeCommitted, ModeKept, ModePcs
<1> QED BY <1>1, <1>2, <1>3

\* A mode that was requested is either still to be set or the mode of the CRTC
\* (Composite's MODESET case, and CommitFrame, which builds the property set
\* before it waits and completes the modeset after the commit).  It takes that a
\* MODESET meets no frame that is being committed, no acquire fence that times
\* out and no ioctl that fails.
THEOREM ModeReached ==
  ASSUME "slow" \notin Env, "overlap" \notin Env, "acquire" \notin Env, "ioctl" \notin Env
  PROVE  Spec => []ModeApplied
<1>1. Init => TypeInv /\ ModeInv
  <2> SUFFICES ASSUME Init PROVE TypeInv /\ ModeInv
    OBVIOUS
  <2>1. TypeInv /\ Alone
    BY InitTypes, ReleaseInit DEF ReleaseInv, ModesetInv, BlobInv
  <2>2. \A w \in Workers : job[w].pc = "idle"
    <3>1. job = [w \in Workers |-> IdleJob] BY DEF Init
    <3> QED BY <3>1 DEF IdleJob
  <2> QED BY <2>1, <2>2 DEF Init, ModeInv, BlobWaits, PsetCurrent, ModeCommitted, ModeKept
<1>2. TypeInv /\ ModeInv /\ [Next]_vars => (TypeInv /\ ModeInv)'
  BY NextTypes, ModeStep
<1>3. ModeInv => ModeApplied
  BY DEF ModeInv, ModeKept, ModeApplied
<1> QED BY <1>1, <1>2, <1>3, PTL DEF Spec

-----------------------------------------------------------------------------
(* The panel.  active_ is what was requested last; the last DPMS request that *)
(* is not worked off says the same, and when there is none the panel follows. *)

IsDpms(c) == c.type = "DPMS"
NoDpmsCalled == \A c \in Callers : ~IsDpms(call[c].comp)
NoDpmsAfter(k) == \A j \in DOMAIN composite_queue_ : j > k => ~IsDpms(composite_queue_[j])

CalledOn == \A c \in Callers : IsDpms(call[c].comp) => call[c].comp.on = active_
QueuedOn ==
  \A k \in DOMAIN composite_queue_ :
    NoDpmsCalled /\ NoDpmsAfter(k) /\ IsDpms(composite_queue_[k]) => composite_queue_[k].on = active_
PanelOn == NoDpmsCalled /\ NoDpmsAfter(0) /\ active_ => dpms

PanelInv == destructor # "destroyed" => CalledOn /\ QueuedOn /\ PanelOn

LEMMA NewOn ==
  ASSUME \A c, d \in Callers : c = d, TypeInv, CalledOn, QueuedOn, PanelOn,
         NEW c \in Callers,
         (\E s \in Shapes : QueueFrameComposition(c, s)) \/ QueueControlComposition(c)
  PROVE  (CalledOn /\ QueuedOn /\ PanelOn)'
<1>1. UNCHANGED <<composite_queue_, dpms>> /\ call[c].comp = NoComp
  BY DEF QueueFrameComposition, QueueControlComposition, queueVars, modeVars, TypeInv, CallInHand
<1>2. ~IsDpms(NoComp) BY DEF IsDpms, NoComp
<1>3. CASE UNCHANGED active_ /\ ~IsDpms(call'[c].comp)
  <2>1. NoDpmsCalled /\ NoDpmsCalled' BY <1>1, <1>2, <1>3 DEF NoDpmsCalled
  <2> QED BY <1>1, <1>3, <2>1 DEF CalledOn, QueuedOn, PanelOn, NoDpmsCalled, NoDpmsAfter
<1>4. CASE IsDpms(call'[c].comp) /\ call'[c].comp.on = active_'
  BY <1>4 DEF CalledOn, QueuedOn, PanelOn, NoDpmsCalled
<1>5. \A s \in Shapes : ~IsDpms(Frame(comps + 1, frames + 1, s, squash_state_'))
  BY DEF IsDpms, Frame
<1>6. CASE \E s \in Shapes : QueueFrameComposition(c, s)
  <2>1. UNCHANGED active_ /\ ~IsDpms(call'[c].comp)
    BY <1>1, <1>2, <1>5, <1>6 DEF QueueFrameComposition, TypeInv, CallTyped
  <2> QED BY <1>3, <2>1
<1>7. CASE QueueControlComposition(c)
  <2>1. \A on \in BOOLEAN : IsDpms(Dpms(on)) /\ Dpms(on).on = on
    BY DEF IsDpms, Dpms
  <2>2. ~IsDpms(Modeset(controls + 1))
    BY DEF IsDpms, Modeset
  <2>3. \/ IsDpms(call'[c].comp) /\ call'[c].comp.on = active_'
        \/ UNCHANGED active_ /\ ~IsDpms(call'[c].comp)
    BY <1>7, <2>1, <2>2 DEF QueueControlComposition, TypeInv, CallTyped
  <2> QED BY <1>3, <1>4, <2>3
<1> QED BY <1>6, <1>7

LEMMA PushOn ==
  ASSUME \A c, d \in Callers : c = d, TypeInv, CalledOn, QueuedOn, PanelOn,
         NEW c \in Callers, PushComposition(c)
  PROVE  (CalledOn /\ QueuedOn /\ PanelOn)'
<1> DEFINE q == composite_queue_
           e == call[c].comp
<1>1. /\ q' = Append(q, e) /\ call'[c].comp = NoComp /\ UNCHANGED <<active_, dpms>>
      /\ e \in FrameComps \cup ControlComps /\ q \in Seq(FrameComps \cup ControlComps)
  BY DEF PushComposition, TypeInv, CallTyped, CallStates, CallInHand, QueuesTyped, modeVars
<1>2. ~IsDpms(NoComp) BY DEF IsDpms, NoComp
<1>3. NoDpmsCalled' /\ CalledOn' BY <1>1, <1>2 DEF NoDpmsCalled, CalledOn
<1>4. /\ \A k \in DOMAIN q : k \in DOMAIN q' /\ q'[k] = q[k] /\ k \in Nat /\ k < Len(q) + 1
      /\ Len(q) + 1 \in DOMAIN q' /\ q'[Len(q) + 1] = e
      /\ \A k \in DOMAIN q' : k \in DOMAIN q \/ k = Len(q) + 1
  BY <1>1, AppendKeeps
<1>5. CASE IsDpms(e)
  <2>1. e.on = active_ BY <1>5 DEF CalledOn
  <2>2. \A k \in DOMAIN q' : IsDpms(q'[k]) /\ NoDpmsAfter(k)' => q'[k].on = active_'
    BY <1>1, <1>4, <1>5, <2>1 DEF NoDpmsAfter
  <2>3. ~NoDpmsAfter(0)' BY <1>4, <1>5, <1>1 DEF NoDpmsAfter
  <2> QED BY <1>3, <2>2, <2>3 DEF QueuedOn, PanelOn
<1>6. CASE ~IsDpms(e)
  <2>1. NoDpmsCalled BY <1>6 DEF NoDpmsCalled
  <2>2. \A k \in Nat : NoDpmsAfter(k)' => NoDpmsAfter(k) BY <1>4 DEF NoDpmsAfter
  <2>3. QueuedOn' BY <1>1, <1>4, <1>6, <2>1, <2>2 DEF QueuedOn
  <2>4. PanelOn' BY <1>1, <2>1, <2>2 DEF PanelOn
  <2> QED BY <1>3, <2>3, <2>4
<1> QED BY <1>5, <1>6

LEMMA CompositeOn ==
  ASSUME "ioctl" \notin Env, TypeInv, CalledOn, QueuedOn, PanelOn, Composite
  PROVE  (CalledOn /\ QueuedOn /\ PanelOn)'
<1> DEFINE q == composite_queue_
<1>0. UNCHANGED <<call, active_>> BY DEF Composite, callerVars
<1>1. CalledOn' /\ (NoDpmsCalled' <=> NoDpmsCalled) BY <1>0 DEF CalledOn, NoDpmsCalled
<1>2. CASE UNCHANGED <<composite_queue_, dpms>>
  BY <1>0, <1>1, <1>2 DEF QueuedOn, PanelOn, NoDpmsAfter
<1>3. CASE ~UNCHANGED <<composite_queue_, dpms>>
  <2>1. /\ q # <<>> /\ q' = Tail(q)
        /\ dpms' = IF IsDpms(Head(q)) THEN Head(q).on ELSE dpms
    BY <1>3 DEF Composite, IsDpms
  <2>2. /\ q \in Seq(FrameComps \cup ControlComps) /\ Len(q) \in Nat \ {0}
        /\ 1 \in DOMAIN q /\ Head(q) = q[1]
        /\ \A k \in DOMAIN q' : k \in Nat \ {0} /\ k + 1 \in DOMAIN q /\ q'[k] = q[k + 1]
        /\ \A k \in DOMAIN q : k \in Nat \ {0} /\ (k > 1 => k - 1 \in DOMAIN q' /\ q'[k - 1] = q[k])
    BY <2>1 DEF TypeInv, QueuesTyped
  <2>3. ASSUME NEW k \in Nat, NoDpmsAfter(k)' PROVE NoDpmsAfter(k + 1)
    <3> SUFFICES ASSUME NEW j \in DOMAIN q, j > k + 1 PROVE ~IsDpms(q[j])
      BY DEF NoDpmsAfter
    <3>1. j - 1 \in DOMAIN q' /\ q'[j - 1] = q[j] /\ j - 1 > k BY <2>2
    <3> QED BY <2>3, <3>1 DEF NoDpmsAfter
  <2>4. QueuedOn'
    <3> SUFFICES ASSUME NEW k \in DOMAIN q', NoDpmsCalled', NoDpmsAfter(k)', IsDpms(q'[k])
                 PROVE  q'[k].on = active_'
      BY DEF QueuedOn
    <3>1. k \in Nat /\ k + 1 \in DOMAIN q /\ q'[k] = q[k + 1] BY <2>2
    <3>2. NoDpmsAfter(k + 1) BY <2>3, <3>1
    <3> QED BY <1>0, <1>1, <3>1, <3>2 DEF QueuedOn
  <2>5. PanelOn'
    <3> SUFFICES ASSUME NoDpmsCalled', NoDpmsAfter(0)', active_' PROVE dpms'
      BY DEF PanelOn
    <3>1. NoDpmsAfter(1) /\ NoDpmsCalled BY <1>1, <2>3
    <3>2. CASE IsDpms(Head(q))
      BY <1>0, <2>1, <2>2, <3>1, <3>2 DEF QueuedOn
    <3>3. CASE ~IsDpms(Head(q))
      <4>1. NoDpmsAfter(0) BY <2>2, <3>1, <3>3 DEF NoDpmsAfter
      <4> QED BY <1>0, <2>1, <3>1, <3>3, <4>1 DEF PanelOn
    <3> QED BY <3>2, <3>3
  <2> QED BY <1>1, <2>4, <2>5
<1> QED BY <1>2, <1>3

\* The steps that leave the requests and the panel alone.
LEMMA QuietForPanel ==
  ASSUME TypeInv,
         \/ UNCHANGED vars
         \/ CompositeWorkerStep /\ ~Composite
         \/ FrameWorkerRoutine \/ FrameWorkerWoken
         \/ \E w \in Workers : ApplyFrame(w)
         \/ ThreadStep \/ ExitStep
         \/ \E c \in Callers : SignalCompositeWorker(c)
  PROVE  /\ UNCHANGED <<composite_queue_, active_>>
         /\ \A c \in Callers : call'[c].comp = call[c].comp
         /\ dpms' = TRUE \/ UNCHANGED dpms
<1> USE DEF workerVars, queueVars, fbVars, sqfbVars, modeVars, overlayVars, screenVars, callerVars
<1>1. CASE UNCHANGED vars
  BY <1>1 DEF vars
<1>2. CASE CompositeWorkerStep /\ ~Composite
  BY <1>2 DEF CompositeWorkerStep, HaveQueuedComposites, CompositeWorkerWait, CompositeWorkerWoken,
     PrepareSquash, ApplyPreComposite, TestFrame, SquashQueuedFrame, QueueFrame, SignalFrameWorker,
     SquashAll, SquashActive
<1>3. CASE FrameWorkerRoutine \/ FrameWorkerWoken
  BY <1>3 DEF FrameWorkerRoutine, FrameWorkerWoken
<1>4. CASE \E w \in Workers : ApplyFrame(w)
  BY <1>4 DEF ApplyFrame, BuildPset, CommitFrame, FinishModeset, AdoptMode, SignalActive, SwapActive,
     ClearDisplay
<1>5. CASE ThreadStep \/ ExitStep
  BY <1>5 DEF ThreadStep, ExitStep
<1>6. ASSUME NEW c \in Callers, SignalCompositeWorker(c)
      PROVE  /\ UNCHANGED <<composite_queue_, active_, dpms>>
             /\ \A d \in Callers : call'[d].comp = call[d].comp
  BY <1>6 DEF SignalCompositeWorker, TypeInv, CallTyped, CallStates
<1> QED BY <1>1, <1>2, <1>3, <1>4, <1>5, <1>6

LEMMA DestructorEnds ==
  ASSUME TypeInv, [Next]_vars
  PROVE  destructor = "destroyed" => destructor' = "destroyed"
BY CompositeWorkerPcs, FrameWorkerPcSteps, CallerOwnership
DEF Next, vars, ApplyFrame, BuildPset, CommitFrame, FinishModeset, AdoptMode, SignalActive,
    SwapActive, ClearDisplay, ThreadStep, ExitStep, Destroy

LEMMA PanelStep ==
  ASSUME \A c, d \in Callers : c = d, "ioctl" \notin Env, TypeInv, PanelInv, [Next]_vars
  PROVE  PanelInv'
<1> SUFFICES ASSUME destructor' # "destroyed" PROVE (CalledOn /\ QueuedOn /\ PanelOn)'
  BY DEF PanelInv
<1>0. CalledOn /\ QueuedOn /\ PanelOn
  BY DestructorEnds DEF PanelInv
<1>1. CASE Composite
  BY <1>0, <1>1, CompositeOn
<1>2. ASSUME NEW c \in Callers,
             (\E s \in Shapes : QueueFrameComposition(c, s)) \/ QueueControlComposition(c)
      PROVE  (CalledOn /\ QueuedOn /\ PanelOn)'
  BY <1>0, <1>2, NewOn
<1>3. ASSUME NEW c \in Callers, PushComposition(c) PROVE (CalledOn /\ QueuedOn /\ PanelOn)'
  BY <1>0, <1>3, PushOn
<1>4. CASE \/ UNCHANGED vars
           \/ CompositeWorkerStep /\ ~Composite
           \/ FrameWorkerRoutine \/ FrameWorkerWoken
           \/ \E w \in Workers : ApplyFrame(w)
           \/ ThreadStep \/ ExitStep
           \/ \E c \in Callers : SignalCompositeWorker(c)
  <2>1. /\ UNCHANGED <<composite_queue_, active_>>
        /\ \A c \in Callers : call'[c].comp = call[c].comp
        /\ dpms' = TRUE \/ UNCHANGED dpms
    BY <1>4, QuietForPanel
  <2> QED BY <1>0, <2>1 DEF CalledOn, QueuedOn, PanelOn, NoDpmsCalled, NoDpmsAfter
<1>5. ~Destroy BY DEF Destroy
<1> QED BY <1>1, <1>2, <1>3, <1>4, <1>5 DEF Next, CallerStep

\* When all requests are worked off the panel is on if the display is active
\* (SetDpmsMode, which changes active_ at once and the panel through the queue,
\* and ApplyDpms after a modeset).  It takes one thread that makes requests, and
\* ioctls that succeed.
THEOREM PanelFollows ==
  ASSUME \A c, d \in Callers : c = d, "ioctl" \notin Env
  PROVE  Spec => []PanelLit
<1>1. Init => TypeInv /\ PanelInv
  <2> SUFFICES ASSUME Init PROVE PanelInv
    BY InitTypes
  <2>1. composite_queue_ = <<>> /\ active_ = FALSE /\ call = [c \in Callers |-> [pc |-> "idle", comp |-> NoComp]]
    BY DEF Init
  <2>2. NoDpmsCalled BY <2>1 DEF NoDpmsCalled, IsDpms, NoComp
  <2> QED BY <2>1, <2>2 DEF PanelInv, CalledOn, QueuedOn, PanelOn, NoDpmsCalled
<1>2. TypeInv /\ PanelInv /\ [Next]_vars => (TypeInv /\ PanelInv)'
  BY NextTypes, PanelStep
<1>3. TypeInv /\ PanelInv => PanelLit
  <2> SUFFICES ASSUME TypeInv, PanelInv, Quiescent, active_, destructor # "destroyed" PROVE dpms
    BY DEF PanelLit
  <2>1. \A c \in Callers : call[c].comp = NoComp BY DEF Quiescent, TypeInv, CallInHand
  <2>2. NoDpmsCalled /\ NoDpmsAfter(0)
    BY <2>1 DEF Quiescent, NoDpmsCalled, NoDpmsAfter, IsDpms, NoComp
  <2> QED BY <2>2 DEF PanelInv, PanelOn
<1> QED BY <1>1, <1>2, <1>3, PTL DEF Spec

-----------------------------------------------------------------------------
(* The ring of framebuffers.  One that a prepared frame is going to show, or  *)
(* that is scanned out, carries that frame's fence, which keeps the renderer  *)
(* away until the frame is released.                                          *)

\* A frame that is prepared or on the screen.
Live(c) ==
  \/ c = screen
  \/ \E w \in Workers : c = job[w].comp
  \/ \E k \in DOMAIN frame_queue_ : c = frame_queue_[k]

FencedRing ==
  \A c \in FrameComps : Live(c) /\ c.fb # None => framebuffers_[c.fb] = Rendered(c.id)
RingDomain == framebuffers_ = [i \in 0..DRM_DISPLAY_BUFFERS-1 |-> framebuffers_[i]]

\* A frame has no framebuffer before PrepareFrame gives it one.
Bare(c) == c \in FrameComps => c.fb = None
Unrendered ==
  /\ \A c \in Callers : Bare(call[c].comp)
  /\ \A k \in DOMAIN composite_queue_ : Bare(composite_queue_[k])
  /\ job[cw].pc \in {"squash_fb", "pre_fb"} => Bare(job[cw].comp)

\* The destructor has joined the composite worker before it destroys anything.
Stopped ==
  /\ DOMAIN initialized_ = Workers
  /\ ~initialized_[cw] => thread[cw] = "done"
  /\ destructor \in {"frame worker", "destroyed"} => thread[cw] = "done"

RingInv == RingDomain /\ FencedRing /\ Unrendered /\ Stopped

LEMMA StoppedStep ==
  ASSUME TypeInv, Stopped, [Next]_vars
  PROVE  Stopped'
<1> USE BothWorkersThere DEF Stopped, TypeInv, ThreadTyped
<1>1. thread[cw] = "done" => job[cw].pc = "idle"
  BY DEF RunningInRoutine
<1>2. CASE CompositeWorkerStep
  <2>1. UNCHANGED <<initialized_, destructor>>
    BY <1>2 DEF CompositeWorkerStep, HaveQueuedComposites, CompositeWorkerWait, CompositeWorkerWoken,
       Composite, PrepareSquash, ApplyPreComposite, TestFrame, SquashQueuedFrame, QueueFrame,
       SignalFrameWorker, SquashAll, SquashActive, workerVars
  <2>2. thread[cw] # "done"
    BY <1>1, <1>2 DEF CompositeWorkerStep, HaveQueuedComposites, CompositeWorkerWait,
       CompositeWorkerWoken, Composite, PrepareSquash, ApplyPreComposite, TestFrame,
       SquashQueuedFrame, QueueFrame, SignalFrameWorker, SquashAll, SquashActive, Awake
  <2> QED BY <2>1, <2>2
<1>3. CASE FrameWorkerRoutine \/ FrameWorkerWoken
  BY <1>3 DEF FrameWorkerRoutine, FrameWorkerWoken, WaitForSignalOrExitLocked, Return
<1>4. ASSUME NEW w \in Workers, ApplyFrame(w) PROVE Stopped'
  <2>1. UNCHANGED <<initialized_, destructor>>
    BY <1>4 DEF ApplyFrame, BuildPset, CommitFrame, FinishModeset, AdoptMode, SignalActive,
       SwapActive, ClearDisplay, workerVars
  <2>2. thread'[cw] = thread[cw] \/ w = cw
    BY <1>4, ApplyFrameMoves
  <2>3. w = cw => thread[cw] # "done"
    BY <1>1, <1>4, ApplyFrameMoves DEF ApplyPcs
  <2> QED BY <2>1, <2>2, <2>3
<1>5. CASE ThreadStep
  BY <1>5 DEF ThreadStep, InternalRoutine, SpuriousWakeup, WaitTimeout, Asleep
<1>6. CASE ExitStep
  <2>1. CASE ExitJoin(cw) /\ UNCHANGED destructor
    BY <2>1 DEF ExitJoin
  <2>2. CASE ~initialized_[cw] /\ ExitRequest(fw)
    BY <2>2 DEF ExitRequest
  <2>3. CASE ExitRequest(cw) /\ destructor' = "composite worker"
    BY <2>3 DEF ExitRequest
  <2>4. CASE (ExitNotify(cw) \/ ExitNotify(fw) \/ ExitJoin(fw)) /\ UNCHANGED destructor
    BY <2>4 DEF ExitNotify, ExitJoin, Signal, Notified, Asleep
  <2> QED BY <1>6, <2>1, <2>2, <2>3, <2>4 DEF ExitStep
<1>7. ASSUME NEW c \in Callers,
             \/ \E s \in Shapes : QueueFrameComposition(c, s)
             \/ QueueControlComposition(c)
             \/ CallerStep(c)
      PROVE  Stopped'
  <2>1. UNCHANGED <<initialized_, destructor>>
    BY <1>7 DEF QueueFrameComposition, QueueControlComposition, CallerStep, PushComposition,
       SignalCompositeWorker, workerVars
  <2>2. UNCHANGED thread \/ Signal(cw)
    BY <1>7 DEF QueueFrameComposition, QueueControlComposition, CallerStep, PushComposition,
       SignalCompositeWorker, workerVars
  <2> QED BY <2>1, <2>2 DEF Signal, Notified, Asleep
<1>8. CASE Destroy
  BY <1>8 DEF Destroy, workerVars
<1>9. CASE UNCHANGED vars
  BY <1>9 DEF vars, workerVars
<1> QED BY <1>2, <1>3, <1>4, <1>5, <1>6, <1>7, <1>8, <1>9 DEF Next

LEMMA BareNew ==
  /\ Bare(NoComp)
  /\ \A on \in BOOLEAN : Bare(Dpms(on))
  /\ Bare(Modeset(controls + 1))
  /\ \A s \in Shapes : Bare(Frame(comps + 1, frames + 1, s, squash_state_'))
<1>1. \A s \in Shapes : Frame(comps + 1, frames + 1, s, squash_state_').fb = None
  BY DEF Frame
<1>2. NoComp.type # "FRAME" /\ Modeset(controls + 1).type # "FRAME"
      /\ \A on \in BOOLEAN : Dpms(on).type # "FRAME"
  BY DEF NoComp, Modeset, Dpms
<1> QED BY <1>1, <1>2, CompTypes DEF Bare

LEMMA UnrenderedStep ==
  ASSUME TypeInv, Unrendered, [Next]_vars
  PROVE  Unrendered'
<1> USE BothWorkersThere DEF Unrendered
<1>1. CASE Composite
  <2>1. UNCHANGED call /\ composite_queue_' \in {composite_queue_, Tail(composite_queue_)}
        /\ (composite_queue_ = <<>> => UNCHANGED composite_queue_)
    BY <1>1 DEF Composite, callerVars
  <2>2. \A k \in DOMAIN composite_queue_' : Bare(composite_queue_'[k])
    BY <2>1, PopTypes, ModesTyped
  <2>3. \/ job'[cw].pc \notin {"squash_fb", "pre_fb"}
        \/ composite_queue_ # <<>> /\ job'[cw].comp = Head(composite_queue_)
    <3>1. \/ EndRoutine(cw)
          \/ /\ composite_queue_ # <<>>
             /\ job' = [job EXCEPT ![cw] = [@ EXCEPT !.pc = "squash_fb", !.comp = Head(composite_queue_)]]
      BY <1>1 DEF Composite
    <3> QED BY <3>1, EndRoutineMoves DEF Moves, TypeInv, JobTyped, Jobs
  <2>4. composite_queue_ # <<>> => Bare(Head(composite_queue_))
    BY PopTypes, ModesTyped
  <2> QED BY <2>1, <2>2, <2>3, <2>4
<1>2. CASE PrepareSquash
  <2>1. UNCHANGED <<call, composite_queue_>> BY <1>2 DEF PrepareSquash, callerVars, queueVars
  <2>2. job[cw].comp \in FrameComps /\ job[cw].comp.fb = None
    BY <1>2 DEF PrepareSquash, TypeInv, InHand, EmptyHanded, JobTyped, Jobs, Bare
  <2>3. \/ job'[cw].comp = job[cw].comp
        \/ \E k : job'[cw].comp = [job[cw].comp EXCEPT !.sqfb = k]
        \/ job'[cw].pc = "idle"
    <3>1. \/ EndRoutine(cw) \/ Goto(cw, "pre_fb")
          \/ \E k : job' = [job EXCEPT ![cw] = [@ EXCEPT !.pc = "pre_fb", !.comp.sqfb = k]]
      BY <1>2 DEF PrepareSquash, AbandonFrame
    <3>2. CASE EndRoutine(cw)
      BY <3>2, EndRoutineMoves DEF Moves, TypeInv
    <3>3. CASE Goto(cw, "pre_fb")
      BY <3>3, GotoMoves DEF Moves, TypeInv, JobPcs
    <3>4. ASSUME NEW k, job' = [job EXCEPT ![cw] = [@ EXCEPT !.pc = "pre_fb", !.comp.sqfb = k]]
          PROVE  job'[cw].comp = [job[cw].comp EXCEPT !.sqfb = k]
      BY <3>4 DEF TypeInv, JobTyped, Jobs
    <3> QED BY <3>1, <3>2, <3>3, <3>4
  <2>4. \A k : [job[cw].comp EXCEPT !.sqfb = k].fb = None
    BY <2>2 DEF FrameComps
  <2> QED BY <2>1, <2>2, <2>3, <2>4 DEF Bare
<1>3. CASE CompositeWorkerStep /\ ~Composite /\ ~PrepareSquash
  <2>1. UNCHANGED <<call, composite_queue_>>
    BY <1>3 DEF CompositeWorkerStep, HaveQueuedComposites, CompositeWorkerWait, CompositeWorkerWoken,
       ApplyPreComposite, TestFrame, SquashQueuedFrame, QueueFrame, SignalFrameWorker, SquashAll,
       SquashActive, callerVars, queueVars
  <2>2. job'[cw].pc \notin {"squash_fb", "pre_fb"} \/ UNCHANGED job
    <3>1. CASE HaveQueuedComposites \/ CompositeWorkerWait \/ CompositeWorkerWoken \/ TestFrame
               \/ SignalFrameWorker \/ SquashAll
      <4>1. \/ \E pc \in JobPcs \ {"squash_fb", "pre_fb"} : Goto(cw, pc)
            \/ UNCHANGED job \/ EndRoutine(cw)
        BY <3>1 DEF HaveQueuedComposites, CompositeWorkerWait, CompositeWorkerWoken, TestFrame,
           SignalFrameWorker, SquashAll, JobPcs
      <4> QED BY <4>1, GotoMoves, EndRoutineMoves DEF Moves, TypeInv
    <3>2. CASE QueueFrame \/ ApplyPreComposite
      <4>1. \/ Goto(cw, "test") \/ EndRoutine(cw)
            \/ \E k : job' = [job EXCEPT ![cw] = [@ EXCEPT !.pc = "test", !.comp.fb = k]]
            \/ job' = [job EXCEPT ![cw] = [IdleJob EXCEPT !.pc = "signal_frame"]]
        BY <3>2 DEF QueueFrame, ApplyPreComposite, AbandonFrame
      <4>2. CASE \E k : job' = [job EXCEPT ![cw] = [@ EXCEPT !.pc = "test", !.comp.fb = k]]
        BY <4>2 DEF TypeInv, JobTyped, Jobs
      <4>3. CASE job' = [job EXCEPT ![cw] = [IdleJob EXCEPT !.pc = "signal_frame"]]
        BY <4>3 DEF TypeInv, JobTyped, IdleJob
      <4> QED BY <4>1, <4>2, <4>3, GotoMoves, EndRoutineMoves DEF Moves, TypeInv, JobPcs
    <3>3. CASE SquashQueuedFrame \/ SquashActive
      <4>1. \/ Goto(cw, "clear") \/ EndRoutine(cw)
            \/ SquashSucceeds(job[cw].comp, "queue") \/ SquashSucceeds(active_composition_, "commit")
        BY <3>3 DEF SquashQueuedFrame, SquashActive, SquashFrame, SquashSucceeds
      <4>2. CASE \E pc \in {"queue", "commit"} : \E src : SquashSucceeds(src, pc)
        BY <4>2 DEF SquashSucceeds, TypeInv, JobTyped, Jobs
      <4> QED BY <4>1, <4>2, GotoMoves, EndRoutineMoves DEF Moves, TypeInv, JobPcs
    <3> QED BY <1>3, <3>1, <3>2, <3>3 DEF CompositeWorkerStep
  <2> QED BY <2>1, <2>2
<1>4. CASE FrameWorkerRoutine \/ FrameWorkerWoken
  BY <1>4, FrameWorkerPcSteps
<1>5. ASSUME NEW w \in Workers, ApplyFrame(w) PROVE Unrendered'
  <2>1. UNCHANGED <<call, composite_queue_>>
    BY <1>5 DEF ApplyFrame, BuildPset, CommitFrame, FinishModeset, AdoptMode, SignalActive,
       SwapActive, ClearDisplay, callerVars, queueVars
  <2>2. job'[cw].pc \notin {"squash_fb", "pre_fb"} \/ job'[cw] = job[cw]
    BY <1>5, ApplyFrameMoves DEF Moves, ApplyPcs
  <2> QED BY <2>1, <2>2
<1>6. CASE ThreadStep \/ ExitStep \/ UNCHANGED vars
  BY <1>6 DEF ThreadStep, ExitStep, vars, callerVars, queueVars
<1>7. ASSUME NEW c \in Callers,
             (\E s \in Shapes : QueueFrameComposition(c, s)) \/ QueueControlComposition(c)
      PROVE  Unrendered'
  <2>1. UNCHANGED <<job, composite_queue_>>
    BY <1>7 DEF QueueFrameComposition, QueueControlComposition, queueVars
  <2>2. \A d \in Callers : Bare(call'[d].comp)
    BY <1>7, BareNew DEF QueueFrameComposition, QueueControlComposition, TypeInv, CallTyped
  <2> QED BY <2>1, <2>2
<1>8. ASSUME NEW c \in Callers, PushComposition(c) PROVE Unrendered'
  <2>1. UNCHANGED job /\ composite_queue_' = Append(composite_queue_, call[c].comp)
        /\ call[c].comp \in FrameComps \cup ControlComps
    BY <1>8 DEF PushComposition, TypeInv, CallTyped, CallStates, CallInHand
  <2>2. \A d \in Callers : Bare(call'[d].comp)
    BY <1>8, BareNew DEF PushComposition, TypeInv, CallTyped
  <2>3. \A k \in DOMAIN composite_queue_' : Bare(composite_queue_'[k])
    BY <2>1, AppendKeeps, ModesTyped
  <2> QED BY <2>1, <2>2, <2>3
<1>9. ASSUME NEW c \in Callers, SignalCompositeWorker(c) PROVE Unrendered'
  BY <1>9 DEF SignalCompositeWorker, TypeInv, CallTyped, CallStates, queueVars
<1>10. CASE Destroy
  <2>1. composite_queue_' = <<>> /\ UNCHANGED <<call, job>>
    BY <1>10 DEF Destroy, callerVars
  <2> QED BY <2>1
<1> QED BY <1>1, <1>2, <1>3, <1>4, <1>5, <1>6, <1>7, <1>8, <1>9, <1>10 DEF Next, CallerStep

\* Where a frame that is prepared or on the screen comes from.
LEMMA LiveBefore ==
  ASSUME TypeInv, RingDomain, Unrendered, [Next]_vars,
         NEW c \in FrameComps, Live(c)', c.fb # None
  PROVE  \/ \E d \in FrameComps : Live(d) /\ d.fb = c.fb /\ d.id = c.id
         \/ framebuffers_'[c.fb] = Rendered(c.id)
<1> DEFINE Before == \E d \in FrameComps : Live(d) /\ d.fb = c.fb /\ d.id = c.id
           New == framebuffers_'[c.fb] = Rendered(c.id)
<1> USE BothWorkersThere DEF Unrendered
<1>0. c # NoComp BY CompTypes
<1>1. CASE UNCHANGED <<screen, frame_queue_>> /\ \A w \in Workers : job'[w].comp \in {job[w].comp, NoComp}
  BY <1>0, <1>1 DEF Live
<1>2. CASE CompositeWorkerStep
  <2>0. UNCHANGED screen /\ job'[fw] = job[fw]
    BY <1>2, CompositeWorkerPcs
  <2>1. CASE HaveQueuedComposites \/ CompositeWorkerWait \/ CompositeWorkerWoken \/ TestFrame
             \/ SignalFrameWorker \/ SquashAll
    <3>1. UNCHANGED frame_queue_
      BY <2>1 DEF HaveQueuedComposites, CompositeWorkerWait, CompositeWorkerWoken, TestFrame,
         SignalFrameWorker, SquashAll, queueVars
    <3>2. (\E pc \in JobPcs : Goto(cw, pc)) \/ UNCHANGED job \/ EndRoutine(cw)
      BY <2>1 DEF HaveQueuedComposites, CompositeWorkerWait, CompositeWorkerWoken, TestFrame,
         SignalFrameWorker, SquashAll, JobPcs
    <3>3. job'[cw].comp \in {job[cw].comp, NoComp}
      BY <3>2, GotoMoves, EndRoutineMoves DEF TypeInv, Moves
    <3> QED BY <1>1, <2>0, <3>1, <3>3
  <2>2. CASE Composite
    <3>1. UNCHANGED frame_queue_ BY <2>2 DEF Composite
    <3>2. \/ EndRoutine(cw)
          \/ /\ composite_queue_ # <<>>
             /\ job' = [job EXCEPT ![cw] = [@ EXCEPT !.pc = "squash_fb", !.comp = Head(composite_queue_)]]
      BY <2>2 DEF Composite
    <3>3. CASE EndRoutine(cw)
      BY <1>1, <2>0, <3>1, <3>3, EndRoutineMoves DEF TypeInv, Moves
    <3>4. CASE /\ composite_queue_ # <<>>
               /\ job' = [job EXCEPT ![cw] = [@ EXCEPT !.pc = "squash_fb", !.comp = Head(composite_queue_)]]
      <4>1. job'[cw].comp = Head(composite_queue_) BY <3>4 DEF TypeInv, JobTyped, Jobs
      <4>2. Bare(Head(composite_queue_)) BY <3>4, PopTypes, ModesTyped
      <4>3. c # job'[cw].comp BY <4>1, <4>2 DEF Bare
      <4> QED BY <2>0, <3>1, <4>3 DEF Live
    <3> QED BY <3>2, <3>3, <3>4
  <2>3. CASE PrepareSquash
    <3>1. UNCHANGED frame_queue_ BY <2>3 DEF PrepareSquash, queueVars
    <3>2. job[cw].comp \in FrameComps
      BY <2>3 DEF PrepareSquash, TypeInv, InHand, EmptyHanded, JobTyped, Jobs
    <3>3. \/ EndRoutine(cw) \/ Goto(cw, "pre_fb")
          \/ \E k : job' = [job EXCEPT ![cw] = [@ EXCEPT !.pc = "pre_fb", !.comp.sqfb = k]]
      BY <2>3 DEF PrepareSquash, AbandonFrame
    <3>4. CASE EndRoutine(cw) \/ Goto(cw, "pre_fb")
      BY <1>1, <2>0, <3>1, <3>4, EndRoutineMoves, GotoMoves DEF TypeInv, Moves, JobPcs
    <3>5. ASSUME NEW k, job' = [job EXCEPT ![cw] = [@ EXCEPT !.pc = "pre_fb", !.comp.sqfb = k]]
          PROVE  Before
      <4>1. job'[cw].comp = [job[cw].comp EXCEPT !.sqfb = k]
        BY <3>5 DEF TypeInv, JobTyped, Jobs
      <4>2. job'[cw].comp.fb = job[cw].comp.fb /\ job'[cw].comp.id = job[cw].comp.id
        BY <3>2, <4>1 DEF FrameComps
      <4> QED BY <2>0, <3>1, <3>2, <4>2 DEF Live
    <3> QED BY <3>3, <3>4, <3>5
  <2>4. CASE ApplyPreComposite
    <3>1. UNCHANGED frame_queue_ BY <2>4 DEF ApplyPreComposite, queueVars
    <3>2. job[cw].comp \in FrameComps /\ framebuffer_index_ \in 0..DRM_DISPLAY_BUFFERS-1
      BY <2>4 DEF ApplyPreComposite, TypeInv, InHand, EmptyHanded, JobTyped, Jobs, RingTyped
    <3>3. \/ EndRoutine(cw) \/ Goto(cw, "test")
          \/ /\ job' = [job EXCEPT ![cw] = [@ EXCEPT !.pc = "test", !.comp.fb = framebuffer_index_]]
             /\ framebuffers_' = [framebuffers_ EXCEPT ![framebuffer_index_] = Rendered(job[cw].comp.id)]
      BY <2>4 DEF ApplyPreComposite, AbandonFrame
    <3>4. CASE EndRoutine(cw) \/ Goto(cw, "test")
      BY <1>1, <2>0, <3>1, <3>4, EndRoutineMoves, GotoMoves DEF TypeInv, Moves, JobPcs
    <3>5. CASE /\ job' = [job EXCEPT ![cw] = [@ EXCEPT !.pc = "test", !.comp.fb = framebuffer_index_]]
               /\ framebuffers_' = [framebuffers_ EXCEPT ![framebuffer_index_] = Rendered(job[cw].comp.id)]
      <4>1. job'[cw].comp = [job[cw].comp EXCEPT !.fb = framebuffer_index_]
        BY <3>5 DEF TypeInv, JobTyped, Jobs
      <4>2. job'[cw].comp.fb = framebuffer_index_ /\ job'[cw].comp.id = job[cw].comp.id
        BY <3>2, <4>1 DEF FrameComps
      <4>3. framebuffers_'[framebuffer_index_] = Rendered(job[cw].comp.id)
        BY <3>2, <3>5 DEF RingDomain
      <4> QED BY <2>0, <3>1, <4>2, <4>3 DEF Live
    <3> QED BY <3>3, <3>4, <3>5
  <2>5. CASE SquashQueuedFrame \/ SquashActive
    <3>1. UNCHANGED frame_queue_ BY <2>5 DEF SquashQueuedFrame, SquashActive, queueVars
    <3>2. \/ Goto(cw, "clear") \/ EndRoutine(cw)
          \/ job[cw].pc = "squash" /\ SquashSucceeds(job[cw].comp, "queue")
          \/ job[cw].pc = "squashall_fb" /\ SquashSucceeds(active_composition_, "commit")
      BY <2>5 DEF SquashQueuedFrame, SquashActive, SquashFrame, SquashSucceeds
    <3>3. CASE Goto(cw, "clear") \/ EndRoutine(cw)
      BY <1>1, <2>0, <3>1, <3>3, EndRoutineMoves, GotoMoves DEF TypeInv, Moves, JobPcs
    <3>4. ASSUME NEW src, NEW next \in {"queue", "commit"}, SquashSucceeds(src, next) PROVE Before \/ New
      <4>1. job'[cw].comp = Squashed(src)
        BY <3>4 DEF SquashSucceeds, TypeInv, JobTyped, Jobs
      <4>2. Squashed(src).fb = framebuffer_index_ /\ Squashed(src).id = comps + 1
        BY DEF Squashed, Frame
      <4>3. framebuffers_'[framebuffer_index_] = Rendered(comps + 1)
        BY <3>4 DEF SquashSucceeds, RingDomain, TypeInv, RingTyped
      <4> QED BY <2>0, <3>1, <4>1, <4>2, <4>3 DEF Live
    <3> QED BY <3>2, <3>3, <3>4
  <2>6. CASE QueueFrame
    <3>1. frame_queue_' = Append(frame_queue_, job[cw].comp) /\ frame_queue_ \in Seq(FrameComps)
          /\ job[cw].comp \in FrameComps
      BY <2>6 DEF QueueFrame, TypeInv, QueuesTyped, InHand, EmptyHanded, JobTyped, Jobs
    <3>2. job'[cw].comp = NoComp
      BY <2>6 DEF QueueFrame, TypeInv, JobTyped, IdleJob
    <3>3. \A k \in DOMAIN frame_queue_' :
            \/ k \in DOMAIN frame_queue_ /\ frame_queue_'[k] = frame_queue_[k]
            \/ frame_queue_'[k] = job[cw].comp
      BY <3>1, AppendKeeps
    <3> QED BY <1>0, <2>0, <3>2, <3>3 DEF Live
  <2> QED BY <1>2, <2>1, <2>2, <2>3, <2>4, <2>5, <2>6 DEF CompositeWorkerStep
<1>3. CASE FrameWorkerRoutine \/ FrameWorkerWoken
  <2>1. job'[cw] = job[cw] /\ UNCHANGED screen
    BY <1>3, FrameWorkerPcSteps
  <2>2. \/ UNCHANGED <<job, frame_queue_>>
        \/ frame_queue_ # <<>> /\ frame_queue_' = Tail(frame_queue_) /\ UNCHANGED job
        \/ frame_queue_ # <<>> /\ TakeFrame
    BY <1>3 DEF FrameWorkerRoutine, FrameWorkerWoken
  <2>3. CASE UNCHANGED <<job, frame_queue_>>
    BY <1>1, <2>1, <2>3
  <2>4. CASE frame_queue_ # <<>> /\ frame_queue_' = Tail(frame_queue_)
             /\ job'[fw].comp \in {job[fw].comp, Head(frame_queue_)}
    <3>1. frame_queue_ \in Seq(FrameComps) BY DEF TypeInv, QueuesTyped
    <3>2. /\ Head(frame_queue_) = frame_queue_[1] /\ 1 \in DOMAIN frame_queue_
          /\ \A i \in DOMAIN frame_queue_' : i + 1 \in DOMAIN frame_queue_
                                             /\ frame_queue_'[i] = frame_queue_[i + 1]
      BY <2>4, <3>1, PopTypes
    <3> QED BY <1>0, <2>1, <2>4, <3>2 DEF Live
  <2>5. CASE frame_queue_ # <<>> /\ TakeFrame
    <3>1. Moves(fw, "commit", Head(frame_queue_)) /\ frame_queue_' = Tail(frame_queue_)
      BY <2>5, TakeFrameTypes DEF TakeFrame
    <3> QED BY <2>4, <2>5, <3>1 DEF Moves
  <2> QED BY <2>2, <2>3, <2>4, <2>5
<1>4. ASSUME NEW w \in Workers, ApplyFrame(w) PROVE Before
  <2>1. UNCHANGED frame_queue_ /\ screen' \in {screen, NoComp, job[w].comp}
    BY <1>4 DEF ApplyFrame, BuildPset, CommitFrame, FinishModeset, AdoptMode, SignalActive,
       SwapActive, ClearDisplay, queueVars, screenVars
  <2>2. \A v \in Workers : job'[v].comp \in {job[v].comp, NoComp}
    BY <1>4, ApplyFrameMoves DEF Moves
  <2> QED BY <1>0, <2>1, <2>2 DEF Live
<1>5. CASE ThreadStep \/ ExitStep \/ UNCHANGED vars
  <2>1. UNCHANGED <<screen, frame_queue_, job>>
    BY <1>5 DEF ThreadStep, ExitStep, vars, queueVars, screenVars
  <2> QED BY <1>1, <2>1
<1>6. ASSUME NEW d \in Callers,
             \/ \E s \in Shapes : QueueFrameComposition(d, s)
             \/ QueueControlComposition(d)
             \/ CallerStep(d)
      PROVE  Before \/ New
  <2>1. UNCHANGED <<screen, job, frame_queue_>>
    BY <1>6 DEF QueueFrameComposition, QueueControlComposition, CallerStep, PushComposition,
       SignalCompositeWorker, queueVars, screenVars
  <2> QED BY <1>1, <2>1
<1>7. CASE Destroy
  <2>1. UNCHANGED <<screen, job>> /\ frame_queue_' = <<>>
    BY <1>7 DEF Destroy
  <2> QED BY <2>1 DEF Live
<1> QED BY <1>2, <1>3, <1>4, <1>5, <1>6, <1>7 DEF Next

\* Only a framebuffer whose fence has fired is written to, by the composite worker.
LEMMA RingWrites ==
  ASSUME TypeInv, [Next]_vars
  PROVE  \/ UNCHANGED framebuffers_
         \/ /\ CompositeWorkerStep
            /\ \E k \in 0..DRM_DISPLAY_BUFFERS-1 :
                 \E r : Released(framebuffers_[k]) /\ framebuffers_' = [framebuffers_ EXCEPT ![k] = r]
<1>0. framebuffer_index_ \in 0..DRM_DISPLAY_BUFFERS-1 BY DEF TypeInv, RingTyped
<1>1. CASE ApplyPreComposite
  BY <1>0, <1>1 DEF ApplyPreComposite, CompositeWorkerStep, fbVars
<1>2. CASE SquashQueuedFrame \/ SquashActive
  BY <1>0, <1>2 DEF SquashQueuedFrame, SquashActive, SquashFrame, CompositeWorkerStep, fbVars
<1>3. CASE CompositeWorkerStep /\ ~ApplyPreComposite /\ ~SquashQueuedFrame /\ ~SquashActive
  BY <1>3 DEF CompositeWorkerStep, HaveQueuedComposites, CompositeWorkerWait, CompositeWorkerWoken,
     Composite, PrepareSquash, TestFrame, QueueFrame, SignalFrameWorker, SquashAll, fbVars
<1>4. CASE FrameWorkerRoutine \/ FrameWorkerWoken
  BY <1>4 DEF FrameWorkerRoutine, FrameWorkerWoken, fbVars
<1>5. CASE \E w \in Workers : ApplyFrame(w)
  BY <1>5 DEF ApplyFrame, BuildPset, CommitFrame, FinishModeset, AdoptMode, SignalActive, SwapActive,
     ClearDisplay, fbVars
<1>6. CASE ThreadStep \/ ExitStep \/ UNCHANGED vars
  BY <1>6 DEF ThreadStep, ExitStep, vars, fbVars
<1>7. CASE \E c \in Callers : \/ \E s \in Shapes : QueueFrameComposition(c, s)
                              \/ QueueControlComposition(c)
                              \/ CallerStep(c)
  BY <1>7 DEF QueueFrameComposition, QueueControlComposition, CallerStep, PushComposition,
     SignalCompositeWorker, fbVars
<1>8. CASE Destroy
  BY <1>8 DEF Destroy, fbVars
<1> QED BY <1>1, <1>2, <1>3, <1>4, <1>5, <1>6, <1>7, <1>8 DEF Next

LEMMA CompositeWorkerRuns ==
  ASSUME TypeInv, Stopped, CompositeWorkerStep
  PROVE  destructor # "destroyed"
<1>1. thread[cw] # "done"
  BY BothWorkersThere
  DEF CompositeWorkerStep, HaveQueuedComposites, CompositeWorkerWait, CompositeWorkerWoken, Composite,
      PrepareSquash, ApplyPreComposite, TestFrame, SquashQueuedFrame, QueueFrame, SignalFrameWorker,
      SquashAll, SquashActive, Awake, TypeInv, RunningInRoutine
<1> QED BY <1>1 DEF Stopped

LEMMA RingStep ==
  ASSUME TypeInv, ReleaseInv, RingInv, [Next]_vars
  PROVE  RingInv'
<1> USE DEF RingInv
<1>1. Unrendered' /\ Stopped' BY UnrenderedStep, StoppedStep
<1>2. \/ UNCHANGED framebuffers_
      \/ /\ CompositeWorkerStep
         /\ \E k \in 0..DRM_DISPLAY_BUFFERS-1 :
              \E r : Released(framebuffers_[k]) /\ framebuffers_' = [framebuffers_ EXCEPT ![k] = r]
  BY RingWrites
<1>3. RingDomain' BY <1>2 DEF RingDomain
<1>4. FencedRing'
  <2> SUFFICES ASSUME NEW c \in FrameComps, Live(c)', c.fb # None
               PROVE  framebuffers_'[c.fb] = Rendered(c.id)
    BY DEF FencedRing, Rendered
  <2>1. CASE \E d \in FrameComps : Live(d) /\ d.fb = c.fb /\ d.id = c.id
    <3>1. PICK d \in FrameComps : Live(d) /\ d.fb = c.fb /\ d.id = c.id BY <2>1
    <3>2. framebuffers_[d.fb] = Rendered(d.id) BY <3>1 DEF FencedRing
    <3>3. ASSUME CompositeWorkerStep, NEW k \in 0..DRM_DISPLAY_BUFFERS-1, NEW r,
                 Released(framebuffers_[k]), framebuffers_' = [framebuffers_ EXCEPT ![k] = r]
          PROVE  framebuffers_'[c.fb] = Rendered(c.id)
      <4>1. destructor # "destroyed" BY <3>3, CompositeWorkerRuns
      <4>2. d.type = "FRAME" /\ d.id \in Nat \ {0} BY CompTypes
      <4>3. d \in InFlight \cup {screen}
        <5>1. frame_queue_ \in Seq(FrameComps \cup ControlComps) BY DEF TypeInv, QueuesTyped
        <5>2. (\E j \in DOMAIN frame_queue_ : d = frame_queue_[j]) => d \in Frames(frame_queue_)
          BY <4>2, <5>1, FramesOfQueue DEF Frames
        <5> QED BY <3>1, <5>2 DEF Live, InFlight, Prepared
      <4>4. d.id \notin done BY <4>1, <4>2, <4>3, OwnedNotReleased DEF NoEarlyRelease
      <4>5. k # d.fb BY <3>2, <3>3, <4>2, <4>4 DEF Released, Rendered
      <4> QED BY <3>1, <3>2, <3>3, <4>5 DEF RingDomain
    <3> QED BY <1>2, <3>1, <3>2, <3>3
  <2> QED BY <2>1, LiveBefore
<1> QED BY <1>1, <1>3, <1>4

\* A framebuffer of the ring that is scanned out, or that a prepared frame is
\* going to show, holds what was rendered for that frame
\* (ApplyPreComposite, SquashFrame and SquashAll with
\* DrmFramebuffer::WaitReleased), for any number of framebuffers and any shapes
\* of frames, whatever rendering, test or commit fails.  It rests on
\* NoEarlyRelease and so on what ReleasedLast takes.
THEOREM RingKept ==
  ASSUME "slow" \notin Env,
         "MODESET" \in Requests => "acquire" \notin Env /\ "ioctl" \notin Env
  PROVE  Spec => []RingShown
<1>1. Init => TypeInv /\ ReleaseInv /\ RingInv
  <2> SUFFICES ASSUME Init PROVE RingInv
    BY InitTypes, ReleaseInit
  <2>1. /\ framebuffers_ = [i \in 0..DRM_DISPLAY_BUFFERS-1 |-> [fence |-> 0, content |-> 0]]
        /\ screen = NoComp /\ composite_queue_ = <<>> /\ frame_queue_ = <<>>
        /\ job = [w \in Workers |-> IdleJob]
        /\ call = [c \in Callers |-> [pc |-> "idle", comp |-> NoComp]]
        /\ initialized_ = [w \in Workers |-> TRUE] /\ destructor = "no"
    BY DEF Init
  <2>2. \A w \in Workers : job[w].comp = NoComp /\ job[w].pc = "idle" BY <2>1 DEF IdleJob
  <2>3. RingDomain BY <2>1 DEF RingDomain
  <2>4. FencedRing BY <2>1, <2>2, CompTypes DEF FencedRing, Live
  <2>5. Unrendered BY <2>1, <2>2, BareNew, BothWorkersThere DEF Unrendered
  <2>6. Stopped BY <2>1, BothWorkersThere DEF Stopped
  <2> QED BY <2>3, <2>4, <2>5, <2>6 DEF RingInv
<1>2. TypeInv /\ ReleaseInv /\ RingInv /\ [Next]_vars => (TypeInv /\ ReleaseInv /\ RingInv)'
  BY NextTypes, ReleaseStep, RingStep
<1>3. TypeInv /\ RingInv => RingShown
  <2> SUFFICES ASSUME TypeInv, RingInv, NEW c \in Prepared \cup {screen}, c.type = "FRAME", c.fb # None
               PROVE  framebuffers_[c.fb].content = c.id
    BY DEF RingShown
  <2>1. frame_queue_ \in Seq(FrameComps \cup ControlComps) BY DEF TypeInv, QueuesTyped
  <2>2. c \in Frames(frame_queue_) => c \in FrameComps /\ \E k \in DOMAIN frame_queue_ : c = frame_queue_[k]
    BY <2>1, FramesOfQueue
  <2>3. \A w \in Workers : job[w].comp \in FrameComps \cup {NoComp} BY DEF TypeInv, JobTyped, Jobs
  <2>4. screen \in FrameComps \cup {NoComp} BY DEF TypeInv, ScreenTyped
  <2>5. c \in FrameComps /\ Live(c)
    BY <2>2, <2>3, <2>4, CompTypes DEF Prepared, Live
  <2>6. framebuffers_[c.fb] = Rendered(c.id) BY <2>5 DEF RingInv, FencedRing
  <2> QED BY <2>6 DEF Rendered
<1> QED BY <1>1, <1>2, <1>3, PTL DEF Spec

-----------------------------------------------------------------------------
(* The order of frames.  What is on the screen is not younger than what the   *)
(* frame worker has, that not than its queue, and so on up to the caller;     *)
(* a, b, c, d and e say where one ends and the next begins.                   *)

Within(f, lo, hi) == f \in FrameComps => lo <= f.frame_no /\ f.frame_no <= hi
InOrder(q, lo, hi) ==
  /\ \A k \in DOMAIN q : Within(q[k], lo, hi)
  /\ \A j, k \in DOMAIN q : j < k /\ q[j] \in FrameComps /\ q[k] \in FrameComps
                              => q[j].frame_no <= q[k].frame_no

Chain(a, b, c, d, e) ==
  /\ a <= b /\ b <= c /\ c <= d /\ d <= e /\ e <= frames
  /\ screen.frame_no <= a /\ active_composition_.frame_no <= a
  /\ Within(job[fw].comp, a, b)
  /\ InOrder(frame_queue_, b, c)
  /\ Within(job[cw].comp, c, d)
  /\ InOrder(composite_queue_, d, e)
  /\ \A k \in Callers : Within(call[k].comp, e, frames)

OrderInv == Stopped /\ \E a, b, c, d, e \in Nat : Chain(a, b, c, d, e)

LEMMA FrameNumbers == NoComp.frame_no = 0 /\ \A f \in FrameComps : f.frame_no \in Nat
BY DEF NoComp, FrameComps

LEMMA OrderAppend ==
  ASSUME NEW q \in Seq(FrameComps \cup ControlComps), NEW f \in FrameComps \cup ControlComps,
         NEW lo \in Nat, NEW hi \in Nat, InOrder(q, lo, hi), lo <= hi
  PROVE  /\ f \in FrameComps /\ hi <= f.frame_no => InOrder(Append(q, f), lo, f.frame_no)
         /\ f \notin FrameComps => InOrder(Append(q, f), lo, hi)
<1> DEFINE p == Append(q, f)
<1>1. /\ \A k \in DOMAIN q : k \in DOMAIN p /\ p[k] = q[k] /\ k \in Nat /\ k < Len(q) + 1
      /\ p[Len(q) + 1] = f
      /\ \A k \in DOMAIN p : k \in DOMAIN q \/ k = Len(q) + 1
  BY AppendKeeps
<1>2. Len(q) \in Nat OBVIOUS
<1> HIDE DEF p
<1>3. ASSUME f \in FrameComps, hi <= f.frame_no PROVE InOrder(p, lo, f.frame_no)
  <2>1. \A k \in DOMAIN p : Within(p[k], lo, f.frame_no)
    BY <1>1, <1>3, FrameNumbers DEF InOrder, Within
  <2>2. ASSUME NEW j \in DOMAIN p, NEW k \in DOMAIN p, j < k, p[j] \in FrameComps, p[k] \in FrameComps
        PROVE  p[j].frame_no <= p[k].frame_no
    <3>1. j \in DOMAIN q BY <1>1, <1>2, <2>2
    <3>2. CASE k \in DOMAIN q BY <1>1, <2>2, <3>1, <3>2 DEF InOrder
    <3>3. CASE k = Len(q) + 1 BY <1>1, <1>3, <2>1, <2>2, <3>1, <3>3 DEF Within
    <3> QED BY <1>1, <3>2, <3>3
  <2> QED BY <2>1, <2>2 DEF InOrder
<1>4. ASSUME f \notin FrameComps PROVE InOrder(p, lo, hi)
  <2>1. \A k \in DOMAIN p : Within(p[k], lo, hi)
    BY <1>1, <1>4 DEF InOrder, Within
  <2>2. ASSUME NEW j \in DOMAIN p, NEW k \in DOMAIN p, j < k, p[j] \in FrameComps, p[k] \in FrameComps
        PROVE  p[j].frame_no <= p[k].frame_no
    BY <1>1, <1>4, <2>2 DEF InOrder
  <2> QED BY <2>1, <2>2 DEF InOrder
<1> QED BY <1>3, <1>4 DEF p

LEMMA OrderTail ==
  ASSUME NEW q \in Seq(FrameComps \cup ControlComps), q # <<>>,
         NEW lo \in Nat, NEW hi \in Nat, InOrder(q, lo, hi)
  PROVE  /\ Within(Head(q), lo, hi) /\ InOrder(Tail(q), lo, hi)
         /\ Head(q) \in FrameComps => InOrder(Tail(q), Head(q).frame_no, hi)
<1> DEFINE p == Tail(q)
<1>1. /\ Head(q) = q[1] /\ 1 \in DOMAIN q
      /\ \A i \in DOMAIN p : i \in Nat \ {0} /\ i + 1 \in DOMAIN q /\ p[i] = q[i + 1]
  OBVIOUS
<1> HIDE DEF p
<1>2. Within(Head(q), lo, hi) BY <1>1 DEF InOrder
<1>3. \A j, k \in DOMAIN p : j < k /\ p[j] \in FrameComps /\ p[k] \in FrameComps
                               => p[j].frame_no <= p[k].frame_no
  <2> SUFFICES ASSUME NEW j \in DOMAIN p, NEW k \in DOMAIN p, j < k, p[j] \in FrameComps, p[k] \in FrameComps
               PROVE  p[j].frame_no <= p[k].frame_no
    OBVIOUS
  <2>1. j + 1 \in DOMAIN q /\ k + 1 \in DOMAIN q /\ j + 1 < k + 1 BY <1>1
  <2> QED BY <1>1, <2>1 DEF InOrder
<1>4. InOrder(p, lo, hi)
  <2>1. \A k \in DOMAIN p : Within(p[k], lo, hi) BY <1>1 DEF InOrder
  <2> QED BY <1>3, <2>1 DEF InOrder
<1>5. ASSUME Head(q) \in FrameComps PROVE InOrder(p, Head(q).frame_no, hi)
  <2>1. ASSUME NEW k \in DOMAIN p, p[k] \in FrameComps PROVE Head(q).frame_no <= p[k].frame_no
    <3>1. k + 1 \in DOMAIN q /\ 1 < k + 1 BY <1>1
    <3> QED BY <1>1, <1>5, <2>1, <3>1 DEF InOrder
  <2>2. \A k \in DOMAIN p : Within(p[k], Head(q).frame_no, hi)
    BY <1>4, <2>1 DEF InOrder, Within
  <2> QED BY <1>3, <2>2 DEF InOrder
<1> QED BY <1>2, <1>4, <1>5 DEF p

LEMMA ChainTypes ==
  ASSUME TypeInv
  PROVE  /\ frames \in Nat /\ screen.frame_no \in Nat /\ active_composition_.frame_no \in Nat
         /\ composite_queue_ \in Seq(FrameComps \cup ControlComps)
         /\ frame_queue_ \in Seq(FrameComps \cup ControlComps)
         /\ \A w \in Workers : job[w].comp \in FrameComps \cup {NoComp}
<1>1. frame_queue_ \in Seq(FrameComps) BY DEF TypeInv, QueuesTyped
<1>2. frame_queue_ \in Seq(FrameComps \cup ControlComps) BY <1>1
<1> QED BY <1>2, FrameNumbers DEF TypeInv, CountsTyped, ScreenTyped, QueuesTyped, JobTyped, Jobs

LEMMA NoFrame == \A lo, hi : Within(NoComp, lo, hi)
BY CompTypes DEF Within

\* A step that moves no frame on.
LEMMA ChainStays ==
  ASSUME TypeInv, NEW a \in Nat, NEW b \in Nat, NEW c \in Nat, NEW d \in Nat, NEW e \in Nat,
         Chain(a, b, c, d, e),
         UNCHANGED <<frames, frame_queue_, composite_queue_>>,
         screen' \in {screen, NoComp}, active_composition_' \in {active_composition_, NoComp},
         \A w \in Workers : job'[w].comp \in {job[w].comp, NoComp},
         \A k \in Callers : call'[k].comp = call[k].comp
  PROVE  Chain(a, b, c, d, e)'
<1>1. /\ screen'.frame_no <= a /\ active_composition_'.frame_no <= a
  BY FrameNumbers DEF Chain
<1>2. Within(job'[fw].comp, a, b) /\ Within(job'[cw].comp, c, d)
  BY NoFrame, BothWorkersThere DEF Chain
<1> QED BY <1>1, <1>2 DEF Chain

LEMMA ChainCaller ==
  ASSUME \A k, l \in Callers : k = l,
         TypeInv, NEW a \in Nat, NEW b \in Nat, NEW c \in Nat, NEW d \in Nat, NEW e \in Nat,
         Chain(a, b, c, d, e), NEW k \in Callers,
         \/ \E s \in Shapes : QueueFrameComposition(k, s)
         \/ QueueControlComposition(k)
         \/ CallerStep(k)
  PROVE  \E f \in Nat : Chain(a, b, c, d, f)'
<1>0. UNCHANGED <<screen, active_composition_, job>> BY CallerOwnership
<1>1. CASE \/ \E s \in Shapes : QueueFrameComposition(k, s)
           \/ QueueControlComposition(k)
  <2>1. UNCHANGED <<composite_queue_, frame_queue_>> /\ frames' \in {frames, frames + 1}
    BY <1>1 DEF QueueFrameComposition, QueueControlComposition, queueVars
  <2>2. Within(call'[k].comp, e, frames')
    <3>1. \A s \in Shapes : Frame(comps + 1, frames + 1, s, squash_state_').frame_no = frames + 1
      BY DEF Frame
    <3>2. (\A on \in BOOLEAN : Dpms(on).type # "FRAME") /\ Modeset(controls + 1).type # "FRAME"
      BY DEF Dpms, Modeset
    <3>3. \/ call'[k].comp = NoComp
          \/ \E s \in Shapes : call'[k].comp = Frame(comps + 1, frames + 1, s, squash_state_')
                               /\ frames' = frames + 1
          \/ \E on \in BOOLEAN : call'[k].comp = Dpms(on)
          \/ call'[k].comp = Modeset(controls + 1)
      <4>1. call[k].comp = NoComp
        BY <1>1 DEF QueueFrameComposition, QueueControlComposition, TypeInv, CallInHand
      <4>2. CASE \E s \in Shapes : QueueFrameComposition(k, s)
        BY <4>1, <4>2 DEF QueueFrameComposition, TypeInv, CallTyped
      <4>3. CASE QueueControlComposition(k)
        BY <4>3 DEF QueueControlComposition, TypeInv, CallTyped
      <4> QED BY <1>1, <4>2, <4>3
    <3>4. e <= frames + 1 /\ frames \in Nat BY ChainTypes DEF Chain
    <3> QED BY <3>1, <3>2, <3>3, <3>4, NoFrame, CompTypes DEF Within
  <2>3. e <= frames' BY <2>1, ChainTypes DEF Chain
  <2>4. \A l \in Callers : Within(call'[l].comp, e, frames') BY <2>2
  <2> QED BY <1>0, <2>1, <2>3, <2>4 DEF Chain
<1>2. CASE PushComposition(k)
  <2> DEFINE f == call[k].comp
  <2>1. /\ composite_queue_' = Append(composite_queue_, f) /\ f \in FrameComps \cup ControlComps
        /\ call'[k].comp = NoComp /\ UNCHANGED <<frame_queue_, frames>>
    BY <1>2 DEF PushComposition, TypeInv, CallTyped, CallStates, CallInHand
  <2>2. \A l \in Callers, lo \in Nat : Within(call'[l].comp, lo, frames') BY <2>1, NoFrame
  <2>3. Within(f, e, frames) /\ d <= e /\ InOrder(composite_queue_, d, e) BY DEF Chain
  <2> HIDE DEF f
  <2>4. CASE f \in FrameComps
    <3>1. f.frame_no \in Nat /\ e <= f.frame_no /\ f.frame_no <= frames
      BY <2>3, <2>4, FrameNumbers DEF Within
    <3>2. InOrder(composite_queue_', d, f.frame_no) BY <2>1, <2>3, <2>4, <3>1, OrderAppend, ChainTypes
    <3>3. d <= f.frame_no BY <2>3, <3>1
    <3>4. PICK n \in Nat : n = f.frame_no BY <3>1
    <3>5. Chain(a, b, c, d, n)' BY <1>0, <2>1, <2>2, <3>1, <3>2, <3>3, <3>4 DEF Chain
    <3> QED BY <3>5
  <2>5. CASE f \notin FrameComps
    <3>1. InOrder(composite_queue_', d, e) BY <2>1, <2>3, <2>5, OrderAppend, ChainTypes
    <3> QED BY <1>0, <2>1, <2>2, <3>1 DEF Chain
  <2> QED BY <2>4, <2>5
<1>3. CASE SignalCompositeWorker(k)
  <2>1. UNCHANGED <<composite_queue_, frame_queue_, frames>> /\ \A l \in Callers : call'[l].comp = call[l].comp
    BY <1>3 DEF SignalCompositeWorker, queueVars, TypeInv, CallTyped, CallStates
  <2> QED BY <1>0, <2>1, ChainStays
<1> QED BY <1>1, <1>2, <1>3 DEF CallerStep

LEMMA ChainFrameWorker ==
  ASSUME TypeInv, NEW a \in Nat, NEW b \in Nat, NEW c \in Nat, NEW d \in Nat, NEW e \in Nat,
         Chain(a, b, c, d, e), FrameWorkerRoutine \/ FrameWorkerWoken
  PROVE  \E f \in Nat : Chain(a, f, c, d, e)'
<1> USE BothWorkersThere
<1>0. job'[cw] = job[cw] /\ UNCHANGED <<screen, active_composition_, composite_queue_, call>>
  BY FrameWorkerPcSteps
<1>1. UNCHANGED frames BY DEF FrameWorkerRoutine, FrameWorkerWoken, callerVars
<1>2. \/ UNCHANGED <<job, frame_queue_>>
      \/ frame_queue_ # <<>> /\ frame_queue_' = Tail(frame_queue_) /\ UNCHANGED job
      \/ frame_queue_ # <<>> /\ TakeFrame
  BY DEF FrameWorkerRoutine, FrameWorkerWoken
<1>3. CASE UNCHANGED <<job, frame_queue_>>
  BY <1>0, <1>1, <1>3, ChainStays
<1>4. frame_queue_ # <<>> => /\ Within(Head(frame_queue_), b, c) /\ InOrder(Tail(frame_queue_), b, c)
                             /\ Head(frame_queue_) \in FrameComps
                             /\ InOrder(Tail(frame_queue_), Head(frame_queue_).frame_no, c)
  <2>1. frame_queue_ # <<>> => Head(frame_queue_) \in FrameComps
    BY PopTypes DEF TypeInv, QueuesTyped
  <2> QED BY <2>1, ChainTypes, OrderTail DEF Chain
<1>5. CASE frame_queue_ # <<>> /\ frame_queue_' = Tail(frame_queue_) /\ UNCHANGED job
  BY <1>0, <1>1, <1>4, <1>5 DEF Chain
<1>6. CASE frame_queue_ # <<>> /\ TakeFrame
  <2> DEFINE n == Head(frame_queue_).frame_no
  <2>1. job'[fw].comp = Head(frame_queue_) /\ frame_queue_' = Tail(frame_queue_)
    BY <1>6, TakeFrameTypes DEF TakeFrame, Moves
  <2>2. n \in Nat /\ b <= n /\ n <= c BY <1>4, <1>6, FrameNumbers DEF Within
  <2>3. Within(job'[fw].comp, a, n) /\ InOrder(frame_queue_', n, c) /\ a <= n
    BY <1>4, <1>6, <2>1, <2>2 DEF Within, Chain
  <2> HIDE DEF n
  <2>4. PICK m \in Nat : m = n BY <2>2
  <2>5. Chain(a, m, c, d, e)' BY <1>0, <1>1, <2>2, <2>3, <2>4 DEF Chain
  <2> QED BY <2>5
<1> QED BY <1>2, <1>3, <1>5, <1>6

LEMMA ChainCompositeWorker ==
  ASSUME TypeInv, ReleaseInv, Stopped,
         NEW a \in Nat, NEW b \in Nat, NEW c \in Nat, NEW d \in Nat, NEW e \in Nat,
         Chain(a, b, c, d, e), CompositeWorkerStep
  PROVE  \E a1, b1, c1, d1 \in Nat : Chain(a1, b1, c1, d1, e)'
<1> USE BothWorkersThere
<1>0. UNCHANGED <<screen, active_composition_>> /\ job'[fw] = job[fw]
  BY CompositeWorkerPcs
<1>1. UNCHANGED <<call, frames>>
  BY DEF CompositeWorkerStep, HaveQueuedComposites, CompositeWorkerWait, CompositeWorkerWoken,
     Composite, PrepareSquash, ApplyPreComposite, TestFrame, SquashQueuedFrame, QueueFrame,
     SignalFrameWorker, SquashAll, SquashActive, callerVars
<1>2. CASE HaveQueuedComposites \/ CompositeWorkerWait \/ CompositeWorkerWoken \/ TestFrame
           \/ SignalFrameWorker \/ SquashAll
  <2>1. UNCHANGED <<frame_queue_, composite_queue_>>
    BY <1>2 DEF HaveQueuedComposites, CompositeWorkerWait, CompositeWorkerWoken, TestFrame,
       SignalFrameWorker, SquashAll, queueVars
  <2>2. (\E pc \in JobPcs : Goto(cw, pc)) \/ UNCHANGED job \/ EndRoutine(cw)
    BY <1>2 DEF HaveQueuedComposites, CompositeWorkerWait, CompositeWorkerWoken, TestFrame,
       SignalFrameWorker, SquashAll, JobPcs
  <2>3. job'[cw].comp \in {job[cw].comp, NoComp}
    BY <2>2, GotoMoves, EndRoutineMoves DEF TypeInv, Moves
  <2> QED BY <1>0, <1>1, <2>1, <2>3, ChainStays
<1>3. CASE Composite
  <2>1. UNCHANGED frame_queue_ BY <1>3 DEF Composite
  <2>2. \/ EndRoutine(cw) /\ UNCHANGED composite_queue_
        \/ /\ composite_queue_ # <<>> /\ composite_queue_' = Tail(composite_queue_)
           /\ EndRoutine(cw)
        \/ /\ composite_queue_ # <<>> /\ composite_queue_' = Tail(composite_queue_)
           /\ Head(composite_queue_).type = "FRAME"
           /\ job' = [job EXCEPT ![cw] = [@ EXCEPT !.pc = "squash_fb", !.comp = Head(composite_queue_)]]
    BY <1>3 DEF Composite
  <2>3. EndRoutine(cw) => job'[cw].comp = NoComp BY EndRoutineMoves DEF TypeInv, Moves
  <2>4. CASE EndRoutine(cw) /\ UNCHANGED composite_queue_
    BY <1>0, <1>1, <2>1, <2>3, <2>4, ChainStays
  <2>5. CASE /\ composite_queue_ # <<>> /\ composite_queue_' = Tail(composite_queue_) /\ EndRoutine(cw)
    <3>1. InOrder(composite_queue_', d, e) BY <2>5, OrderTail, ChainTypes DEF Chain
    <3>2. Within(job'[cw].comp, c, d) BY <2>3, <2>5, NoFrame
    <3> QED BY <1>0, <1>1, <2>1, <3>1, <3>2 DEF Chain
  <2>6. CASE /\ composite_queue_ # <<>> /\ composite_queue_' = Tail(composite_queue_)
             /\ Head(composite_queue_).type = "FRAME"
             /\ job' = [job EXCEPT ![cw] = [@ EXCEPT !.pc = "squash_fb", !.comp = Head(composite_queue_)]]
    <3>1. Head(composite_queue_) \in FrameComps
      <4>1. Head(composite_queue_) \in FrameComps \cup ControlComps BY <2>6, PopTypes, ChainTypes
      <4> QED BY <2>6, <4>1, CompTypes
    <3>2. PICK n \in Nat : n = Head(composite_queue_).frame_no BY <3>1, FrameNumbers
    <3>3. d <= n /\ n <= e /\ InOrder(composite_queue_', n, e)
      BY <2>6, <3>1, <3>2, OrderTail, ChainTypes DEF Chain, Within
    <3>4. job'[cw].comp = Head(composite_queue_) BY <2>6 DEF TypeInv, JobTyped, Jobs
    <3>5. Within(job'[cw].comp, c, n) /\ c <= n BY <3>2, <3>3, <3>4 DEF Within, Chain
    <3>6. Chain(a, b, c, n, e)' BY <1>0, <1>1, <2>1, <3>3, <3>5 DEF Chain
    <3> QED BY <3>6
  <2> QED BY <2>2, <2>4, <2>5, <2>6
<1>4. CASE PrepareSquash \/ ApplyPreComposite
  <2>1. UNCHANGED <<frame_queue_, composite_queue_>>
    BY <1>4 DEF PrepareSquash, ApplyPreComposite, queueVars
  <2>2. job[cw].comp \in FrameComps
    BY <1>4 DEF PrepareSquash, ApplyPreComposite, TypeInv, InHand, EmptyHanded, JobTyped, Jobs
  <2>3. \/ EndRoutine(cw) \/ \E pc \in {"pre_fb", "test"} : Goto(cw, pc)
        \/ \E k : \/ job' = [job EXCEPT ![cw] = [@ EXCEPT !.pc = "pre_fb", !.comp.sqfb = k]]
                  \/ job' = [job EXCEPT ![cw] = [@ EXCEPT !.pc = "test", !.comp.fb = k]]
    BY <1>4 DEF PrepareSquash, ApplyPreComposite, AbandonFrame
  <2>4. CASE EndRoutine(cw) \/ \E pc \in {"pre_fb", "test"} : Goto(cw, pc)
    <3>1. job'[cw].comp \in {job[cw].comp, NoComp}
      BY <2>4, EndRoutineMoves, GotoMoves DEF TypeInv, Moves, JobPcs
    <3> QED BY <1>0, <1>1, <2>1, <3>1, ChainStays
  <2>5. ASSUME NEW k, \/ job' = [job EXCEPT ![cw] = [@ EXCEPT !.pc = "pre_fb", !.comp.sqfb = k]]
                      \/ job' = [job EXCEPT ![cw] = [@ EXCEPT !.pc = "test", !.comp.fb = k]]
        PROVE  Chain(a, b, c, d, e)'
    <3>1. job'[cw].comp \in {[job[cw].comp EXCEPT !.sqfb = k], [job[cw].comp EXCEPT !.fb = k]}
      BY <2>5 DEF TypeInv, JobTyped, Jobs
    <3>2. job'[cw].comp.frame_no = job[cw].comp.frame_no
      BY <2>2, <3>1 DEF FrameComps
    <3>3. Within(job'[cw].comp, c, d) BY <2>2, <3>2 DEF Chain, Within
    <3> QED BY <1>0, <1>1, <2>1, <3>3 DEF Chain
  <2> QED BY <2>3, <2>4, <2>5
<1>5. CASE SquashQueuedFrame
  <2>1. UNCHANGED <<frame_queue_, composite_queue_>>
    BY <1>5 DEF SquashQueuedFrame, queueVars
  <2>2. Goto(cw, "clear") \/ SquashSucceeds(job[cw].comp, "queue")
    BY <1>5 DEF SquashQueuedFrame, SquashFrame, SquashSucceeds
  <2>3. CASE Goto(cw, "clear")
    BY <1>0, <1>1, <2>1, <2>3, ChainStays, GotoMoves DEF TypeInv, Moves, JobPcs
  <2>4. CASE SquashSucceeds(job[cw].comp, "queue")
    <3>1. job[cw].comp \in FrameComps
      BY <1>5 DEF SquashQueuedFrame, TypeInv, InHand, EmptyHanded, JobTyped, Jobs
    <3>2. job'[cw].comp = Squashed(job[cw].comp)
      BY <2>4 DEF SquashSucceeds, TypeInv, JobTyped, Jobs
    <3>3. Squashed(job[cw].comp).frame_no = job[cw].comp.frame_no BY DEF Squashed, Frame
    <3>4. Within(job'[cw].comp, c, d) BY <3>1, <3>2, <3>3 DEF Chain, Within
    <3> QED BY <1>0, <1>1, <2>1, <3>4 DEF Chain
  <2> QED BY <2>2, <2>3, <2>4
<1>6. CASE QueueFrame
  <2>1. /\ frame_queue_' = Append(frame_queue_, job[cw].comp) /\ UNCHANGED composite_queue_
        /\ job[cw].comp \in FrameComps
    BY <1>6 DEF QueueFrame, TypeInv, InHand, EmptyHanded, JobTyped, Jobs
  <2>2. job'[cw].comp = NoComp
    BY <1>6 DEF QueueFrame, TypeInv, JobTyped, IdleJob
  <2>3. PICK n \in Nat : n = job[cw].comp.frame_no BY <2>1, FrameNumbers
  <2>4. c <= n /\ n <= d /\ b <= c /\ InOrder(frame_queue_, b, c) BY <2>1, <2>3 DEF Chain, Within
  <2>5. InOrder(frame_queue_', b, n) /\ b <= n BY <2>1, <2>3, <2>4, OrderAppend, ChainTypes
  <2>6. Within(job'[cw].comp, n, d) BY <2>2, NoFrame
  <2>7. Chain(a, b, n, d, e)' BY <1>0, <1>1, <2>1, <2>4, <2>5, <2>6 DEF Chain
  <2> QED BY <2>7
<1>7. CASE SquashActive
  <2>0. UNCHANGED <<frame_queue_, composite_queue_>> /\ job[cw].pc = "squashall_fb"
    BY <1>7 DEF SquashActive, queueVars
  <2>1. EndRoutine(cw) \/ SquashSucceeds(active_composition_, "commit")
    BY <1>7 DEF SquashActive, SquashFrame, SquashSucceeds
  <2>2. CASE EndRoutine(cw)
    BY <1>0, <1>1, <2>0, <2>2, ChainStays, EndRoutineMoves DEF TypeInv, Moves
  <2>3. CASE SquashSucceeds(active_composition_, "commit")
    <3>1. active_composition_ \in FrameComps
      BY <2>0 DEF TypeInv, LockHeld, ScreenTyped
    <3>2. job'[cw].comp = Squashed(active_composition_)
      BY <2>3 DEF SquashSucceeds, TypeInv, JobTyped, Jobs
    <3>3. Squashed(active_composition_).frame_no = active_composition_.frame_no BY DEF Squashed, Frame
    <3>4. PICK n \in Nat : n = active_composition_.frame_no BY <3>1, FrameNumbers
    <3>5. frame_queue_ = <<>> /\ job[fw].pc = "idle" /\ job[fw].comp = NoComp
      <4>1. Alone BY DEF ReleaseInv, ModesetInv, BlobInv
      <4> QED BY <2>0, <4>1 DEF Alone, SquashingAll, FrameWorkerIdle, TypeInv, InHand, EmptyHanded
    <3>6. screen.frame_no <= n
      <4>1. ScreenOwned BY <1>7, CompositeWorkerRuns DEF ReleaseInv
      <4>2. screen = NoComp \/ screen = active_composition_
        BY <2>0, <3>5, <4>1 DEF ScreenOwned, Committed
      <4> QED BY <3>4, <4>2, FrameNumbers
    <3>7. n <= d BY <3>4 DEF Chain
    <3>8. InOrder(frame_queue_', n, n) BY <2>0, <3>5 DEF InOrder
    <3>9. Within(job'[fw].comp, n, n) BY <1>0, <3>5, NoFrame
    <3>10. Within(job'[cw].comp, n, d) BY <3>2, <3>3, <3>4, <3>7 DEF Within
    <3>11. Chain(n, n, n, d, e)'
      BY <1>0, <1>1, <2>0, <3>4, <3>6, <3>7, <3>8, <3>9, <3>10 DEF Chain
    <3> QED BY <3>11
  <2> QED BY <2>1, <2>2, <2>3
<1> QED BY <1>2, <1>3, <1>4, <1>5, <1>6, <1>7 DEF CompositeWorkerStep

\* A commit or a swap moves the frame in a worker's hand on to the screen or to
\* active_composition_; SquashAll does so only when nothing is between them.
LEMMA ChainMoves ==
  ASSUME TypeInv, Alone,
         NEW a \in Nat, NEW b \in Nat, NEW c \in Nat, NEW d \in Nat, NEW e \in Nat,
         Chain(a, b, c, d, e), NEW w \in Workers, job[w].pc \in ApplyPcs,
         UNCHANGED <<frames, frame_queue_, composite_queue_, call>>,
         \/ screen' = job[w].comp /\ UNCHANGED active_composition_
         \/ active_composition_' = job[w].comp /\ UNCHANGED screen,
         job'[w].comp \in {job[w].comp, NoComp}, \A v \in Workers \ {w} : job'[v] = job[v]
  PROVE  /\ screen.frame_no <= job[w].comp.frame_no
         /\ \E a1, b1, c1 \in Nat : Chain(a1, b1, c1, d, e)'
<1> USE BothWorkersThere
<1>1. job[w].comp \in FrameComps
  BY ChainTypes DEF TypeInv, InHand, EmptyHanded, ApplyPcs
<1>2. PICK n \in Nat : n = job[w].comp.frame_no BY <1>1, FrameNumbers
<1>3. a <= n
  <2>1. CASE w = fw BY <1>1, <1>2, <2>1 DEF Chain, Within
  <2>2. CASE w = cw
    <3>1. c <= n /\ a <= b /\ b <= c BY <1>1, <1>2, <2>2 DEF Chain, Within
    <3> QED BY <3>1
  <2> QED BY <2>1, <2>2
<1>4. screen.frame_no <= n /\ screen'.frame_no <= n /\ active_composition_'.frame_no <= n
  <2>1. screen.frame_no <= a /\ active_composition_.frame_no <= a BY DEF Chain
  <2>2. screen.frame_no <= n /\ active_composition_.frame_no <= n BY <1>3, <2>1, ChainTypes
  <2> QED BY <1>2, <2>2
<1>5. CASE w = fw
  <2>1. n <= b /\ Within(job[fw].comp, n, n) BY <1>1, <1>2, <1>5 DEF Chain, Within
  <2>2. Within(job'[fw].comp, n, n) BY <1>5, <2>1, NoFrame
  <2>3. Within(job'[fw].comp, n, b) BY <2>1, <2>2, FrameNumbers DEF Within
  <2>4. job'[cw] = job[cw] BY <1>5 DEF cw, fw
  <2>5. Chain(n, b, c, d, e)' BY <1>4, <2>1, <2>3, <2>4 DEF Chain
  <2> QED BY <1>2, <1>4, <2>5
<1>6. CASE w = cw
  <2>1. frame_queue_ = <<>> /\ job[fw].comp = NoComp /\ job'[fw] = job[fw]
    BY <1>6 DEF Alone, SquashingAll, FrameWorkerIdle, TypeInv, InHand, EmptyHanded, cw, fw
  <2>2. n <= d /\ Within(job[cw].comp, n, d) BY <1>1, <1>2, <1>6 DEF Chain, Within
  <2>3. Within(job'[cw].comp, n, d) BY <1>6, <2>2, NoFrame
  <2>4. Within(job'[fw].comp, n, n) BY <2>1, NoFrame
  <2>5. InOrder(frame_queue_', n, n) BY <2>1 DEF InOrder
  <2>6. Chain(n, n, n, d, e)' BY <1>4, <2>2, <2>3, <2>4, <2>5 DEF Chain
  <2> QED BY <1>2, <1>4, <2>6
<1> QED BY <1>5, <1>6

\* What ApplyFrame may put on the screen.
LEMMA ChainApplyFrame ==
  ASSUME TypeInv, Alone,
         NEW a \in Nat, NEW b \in Nat, NEW c \in Nat, NEW d \in Nat, NEW e \in Nat,
         Chain(a, b, c, d, e), NEW w \in Workers, ApplyFrame(w)
  PROVE  /\ screen' = screen \/ screen' = NoComp \/ screen.frame_no <= screen'.frame_no
         /\ \E a1, b1, c1 \in Nat : Chain(a1, b1, c1, d, e)'
<1>0. UNCHANGED <<frames, frame_queue_, composite_queue_, call>>
  BY DEF ApplyFrame, BuildPset, CommitFrame, FinishModeset, AdoptMode, SignalActive, SwapActive,
     ClearDisplay, queueVars, callerVars
<1>1. job'[w].comp \in {job[w].comp, NoComp} /\ \A v \in Workers \ {w} : job'[v] = job[v]
  <2>1. CASE BuildPset(w) BY <2>1 DEF BuildPset, TypeInv, JobTyped, Jobs
  <2>2. CASE EndRoutine(w) BY <2>2, EndRoutineMoves DEF TypeInv, Moves
  <2>3. CASE \E pc \in JobPcs : Goto(w, pc) BY <2>3, GotoMoves DEF TypeInv, Moves
  <2> QED BY <2>1, <2>2, <2>3
      DEF ApplyFrame, CommitFrame, FinishModeset, AdoptMode, SignalActive, SwapActive, ClearDisplay, JobPcs
<1>2. CASE /\ screen' \in {screen, NoComp} /\ active_composition_' \in {active_composition_, NoComp}
  <2>1. \A v \in Workers : job'[v].comp \in {job[v].comp, NoComp} BY <1>1
  <2>2. Chain(a, b, c, d, e)' BY <1>0, <1>2, <2>1, ChainStays
  <2> QED BY <1>2, <2>2
<1>3. CASE /\ job[w].pc \in ApplyPcs
           /\ \/ screen' = job[w].comp /\ UNCHANGED active_composition_
              \/ active_composition_' = job[w].comp /\ UNCHANGED screen
  <2>1. /\ screen.frame_no <= job[w].comp.frame_no
        /\ \E a1, b1, c1 \in Nat : Chain(a1, b1, c1, d, e)'
    BY <1>0, <1>1, <1>3, ChainMoves
  <2>2. screen' = screen \/ screen.frame_no <= screen'.frame_no BY <1>3, <2>1
  <2> QED BY <2>1, <2>2
<1>4. CASE BuildPset(w) \/ FinishModeset(w) \/ AdoptMode(w) \/ SignalActive(w)
  <2>1. UNCHANGED <<screen, active_composition_>>
    BY <1>4 DEF BuildPset, FinishModeset, AdoptMode, SignalActive, screenVars
  <2> QED BY <1>2, <2>1
<1>5. CASE CommitFrame(w)
  BY <1>2, <1>3, <1>5 DEF CommitFrame, ApplyPcs
<1>6. CASE SwapActive(w)
  BY <1>3, <1>6 DEF SwapActive, ApplyPcs
<1>7. CASE ClearDisplay(w)
  <2>1. screen' \in {screen, NoComp} /\ active_composition_' \in {active_composition_, NoComp}
    BY <1>7 DEF ClearDisplay, screenVars
  <2> QED BY <1>2, <2>1
<1> QED BY <1>4, <1>5, <1>6, <1>7 DEF ApplyFrame

LEMMA ChainDestroyed ==
  ASSUME TypeInv, NEW a \in Nat, NEW b \in Nat, NEW c \in Nat, NEW d \in Nat, NEW e \in Nat,
         Chain(a, b, c, d, e), Destroy
  PROVE  Chain(a, b, c, d, e)'
<1>1. /\ UNCHANGED <<screen, job, call, frames>> /\ active_composition_' = NoComp
      /\ composite_queue_' = <<>> /\ frame_queue_' = <<>>
  BY Zenon DEF Destroy, callerVars
<1>2. InOrder(frame_queue_', b, c) /\ InOrder(composite_queue_', d, e) BY <1>1 DEF InOrder
<1>3. active_composition_'.frame_no <= a BY <1>1, FrameNumbers
<1> QED BY <1>1, <1>2, <1>3 DEF Chain

LEMMA OrderStep ==
  ASSUME \A k, l \in Callers : k = l, TypeInv, ReleaseInv, OrderInv, [Next]_vars
  PROVE  /\ OrderInv'
         /\ screen' = screen \/ screen' = NoComp \/ screen.frame_no <= screen'.frame_no
<1>1. Stopped /\ Stopped' BY StoppedStep DEF OrderInv
<1>2. PICK a, b, c, d, e \in Nat : Chain(a, b, c, d, e) BY DEF OrderInv
<1>3. Alone BY DEF ReleaseInv, ModesetInv, BlobInv
<1> SUFFICES /\ \E a1, b1, c1, d1, e1 \in Nat : Chain(a1, b1, c1, d1, e1)'
             /\ screen' = screen \/ screen' = NoComp \/ screen.frame_no <= screen'.frame_no
  BY <1>1 DEF OrderInv
<1>4. CASE \E k \in Callers : \/ \E s \in Shapes : QueueFrameComposition(k, s)
                              \/ QueueControlComposition(k)
                              \/ CallerStep(k)
  <2>1. UNCHANGED screen BY <1>4, CallerOwnership
  <2>2. \E f \in Nat : Chain(a, b, c, d, f)' BY <1>2, <1>4, ChainCaller
  <2> QED BY <2>1, <2>2
<1>5. CASE CompositeWorkerStep
  <2>1. UNCHANGED screen BY <1>5, CompositeWorkerPcs
  <2>2. \E a1, b1, c1, d1 \in Nat : Chain(a1, b1, c1, d1, e)' BY <1>1, <1>2, <1>5, ChainCompositeWorker
  <2> QED BY <2>1, <2>2
<1>6. CASE FrameWorkerRoutine \/ FrameWorkerWoken
  <2>1. UNCHANGED screen BY <1>6, FrameWorkerPcSteps
  <2>2. \E f \in Nat : Chain(a, f, c, d, e)' BY <1>2, <1>6, ChainFrameWorker
  <2> QED BY <2>1, <2>2
<1>7. CASE \E w \in Workers : ApplyFrame(w)
  BY <1>2, <1>3, <1>7, ChainApplyFrame
<1>8. CASE ThreadStep \/ ExitStep \/ UNCHANGED vars
  <2>1. UNCHANGED <<screen, active_composition_, job, frames, frame_queue_, composite_queue_, call>>
    BY Zenon, <1>8 DEF ThreadStep, ExitStep, vars, screenVars, queueVars, callerVars
  <2>2. Chain(a, b, c, d, e)' BY <1>2, <2>1, ChainStays
  <2> QED BY <2>1, <2>2
<1>9. CASE Destroy
  <2>1. UNCHANGED screen BY Zenon, <1>9 DEF Destroy
  <2>2. Chain(a, b, c, d, e)' BY <1>2, <1>9, ChainDestroyed
  <2> QED BY <2>1, <2>2
<1> QED BY <1>4, <1>5, <1>6, <1>7, <1>8, <1>9 DEF Next

\* The screen never goes back to a frame SurfaceFlinger set before the one it
\* shows (FrameWorker::Routine and SquashAll, which commit on two threads), for
\* any number of frames and any queue depth, whatever rendering, test or commit
\* fails.  It takes one caller, for two may overtake each other in
\* QueueComposition, and, like ReleasedLast, that a frame is on screen before
\* kSquashWait is over and that a modeset meets no failing fence or ioctl.
THEOREM NeverBack ==
  ASSUME \A k, l \in Callers : k = l, "slow" \notin Env,
         "MODESET" \in Requests => "acquire" \notin Env /\ "ioctl" \notin Env
  PROVE  Spec => NoStaleFrame
<1>1. Init => TypeInv /\ ReleaseInv /\ OrderInv
  <2> SUFFICES ASSUME Init PROVE OrderInv
    BY InitTypes, ReleaseInit
  <2>1. /\ screen = NoComp /\ active_composition_ = NoComp /\ frames = 0
        /\ composite_queue_ = <<>> /\ frame_queue_ = <<>>
        /\ job = [w \in Workers |-> IdleJob]
        /\ call = [c \in Callers |-> [pc |-> "idle", comp |-> NoComp]]
        /\ initialized_ = [w \in Workers |-> TRUE] /\ destructor = "no"
    BY DEF Init
  <2>2. job[cw].comp = NoComp /\ job[fw].comp = NoComp BY <2>1, BothWorkersThere DEF IdleJob
  <2>3. Stopped BY <2>1, BothWorkersThere DEF Stopped
  <2>4. Chain(0, 0, 0, 0, 0)
    BY <2>1, <2>2, NoFrame, FrameNumbers DEF Chain, InOrder
  <2> QED BY <2>3, <2>4 DEF OrderInv
<1>2. TypeInv /\ ReleaseInv /\ OrderInv /\ [Next]_vars => (TypeInv /\ ReleaseInv /\ OrderInv)'
  BY NextTypes, ReleaseStep, OrderStep
<1>3. TypeInv /\ ReleaseInv /\ OrderInv /\ [Next]_vars
        => [screen' # NoComp => screen'.frame_no >= screen.frame_no]_screen
  <2> SUFFICES ASSUME TypeInv, ReleaseInv, OrderInv, [Next]_vars, screen' # screen, screen' # NoComp
               PROVE  screen'.frame_no >= screen.frame_no
    OBVIOUS
  <2>1. screen.frame_no \in Nat /\ screen'.frame_no \in Nat
    <3>1. TypeInv' BY NextTypes
    <3> QED BY <3>1, ChainTypes, FrameNumbers DEF TypeInv, ScreenTyped
  <2>2. screen.frame_no <= screen'.frame_no BY OrderStep
  <2> QED BY <2>1, <2>2
<1> QED BY <1>1, <1>2, <1>3, PTL DEF Spec, NoStaleFrame

-----------------------------------------------------------------------------
(* The squash framebuffers.  A frame may show one that was rendered for an    *)
(* earlier frame; its fence is then that of the latest frame that shows it,   *)
(* so the framebuffer is kept only as long as that frame is not released      *)
(* before the earlier ones are off the screen.                                *)

Uses(c, k) == c \in FrameComps /\ c.sqfb = k
UsesLast(c, k) == Uses(c, k) /\ c.id = squash_framebuffers_[k].fence

Hand == job[cw].comp

\* The latest frame that shows k is behind j in the frame worker's queue.
Behind(j, k) ==
  \/ UsesLast(Hand, k)
  \/ \E i \in DOMAIN frame_queue_ : i >= j /\ UsesLast(frame_queue_[i], k)

\* Behind every frame that shows k, or is that frame, is the latest one to do so.
LatestLives(k) ==
  /\ Uses(Hand, k) => UsesLast(Hand, k)
  /\ \A j \in DOMAIN frame_queue_ : Uses(frame_queue_[j], k) => Behind(j, k)
  /\ Uses(job[fw].comp, k) => UsesLast(job[fw].comp, k) \/ Behind(1, k)
  /\ Uses(screen, k) => UsesLast(screen, k) \/ UsesLast(job[fw].comp, k) \/ Behind(1, k)
LatestInv == thread[cw] # "done" => \A k \in 0..1 : LatestLives(k)

SquashHeld ==
  \A c \in FrameComps, k \in 0..1 :
    Live(c) /\ Uses(c, k) => squash_framebuffers_[k].content = c.squash
SquashDomain == squash_framebuffers_ = [i \in 0..1 |-> squash_framebuffers_[i]]

\* The frames whose way to the screen is decided by use_hw_overlays_.
Tested(c) ==
  \/ c = screen \/ c = job[fw].comp
  \/ \E i \in DOMAIN frame_queue_ : c = frame_queue_[i]
  \/ c = Hand /\ job[cw].pc = "queue"

\* Frames with the current squash framebuffer were let through, and whether they
\* are has not changed since.
Overlays == \A c \in FrameComps : Tested(c) /\ Uses(c, squash_framebuffer_index_) => use_hw_overlays_

\* A frame that is being prepared shows the current squash framebuffer; one that
\* is refused is refused like all others since that framebuffer was rendered.
HandInv ==
  \A k \in 0..1 : Uses(Hand, k) =>
    /\ k = squash_framebuffer_index_ /\ Overlays /\ Hand.shape.sq # "none"
    /\ job[cw].pc \notin ApplyPcs
    /\ job[cw].pc \in {"squash", "clear"} => ~use_hw_overlays_

PipeInv == LatestInv /\ SquashHeld /\ HandInv

\* What the next frame may show again: the current squash framebuffer holds what
\* was rendered for frame b, and there was no frame without one since.
Usable(b) ==
  /\ squash_framebuffers_[squash_framebuffer_index_].content = b /\ Overlays
  /\ job[cw].pc \in {"pre_fb", "test"} => Hand.shape.sq # "none"

\* SquashState before and after the plan of composition c.
Planned(c, before, after) ==
  IF c \in FrameComps
  THEN /\ c.sqfb = None
       /\ \/ c.shape.sq = "none" /\ after = 0
          \/ c.shape.sq = "render" /\ c.squash = c.id /\ after = c.id
          \/ c.shape.sq = "reuse" /\ before # 0 /\ c.squash = before /\ after = before
  ELSE after = before

ToPrepare == IF job[cw].pc = "squash_fb" THEN Hand ELSE NoComp

\* s[i] is the SquashState after the plan of composite_queue_[i]: what was planned
\* comes to the compositor in the order of the plan.
PlanLine(b, s) ==
  /\ b # 0 => Usable(b)
  /\ Planned(ToPrepare, b, s[0])
  /\ \A i \in DOMAIN composite_queue_ : Planned(composite_queue_[i], s[i - 1], s[i])
  /\ \A c \in Callers : Planned(call[c].comp, s[Len(composite_queue_)], squash_state_)
PlanInv == destructor # "destroyed" => \E b \in Nat, s \in [Nat -> Nat] : PlanLine(b, s)

\* The frame worker is told to exit when the composite worker has.
ExitInOrder == DOMAIN exit_ = Workers /\ (exit_[fw] => thread[cw] = "done")

SquashInv == SquashDomain /\ PipeInv /\ PlanInv /\ ExitInOrder /\ Stopped

LEMMA UsesTypes ==
  /\ \A k : ~Uses(NoComp, k)
  /\ None \notin 0..1 /\ \A c \in FrameComps : c.sqfb # None => c.sqfb \in 0..1
<1>1. \A c \in FrameComps : c.sqfb \in -1..1 BY DEF FrameComps
<1> QED BY <1>1, CompTypes DEF Uses, None

\* The composite worker lets go of its frame, or takes one that shows no squash
\* framebuffer; the frame worker and its queue stay.
LEMMA HandGone ==
  ASSUME TypeInv, PipeInv,
         UNCHANGED <<squash_framebuffers_, squash_framebuffer_index_, use_hw_overlays_, frame_queue_>>,
         job'[fw] = job[fw], thread[cw] # "done",
         screen' = screen \/ \A k \in 0..1 : ~Uses(screen', k),
         \A k \in 0..1 : ~Uses(job'[cw].comp, k),
         (\A k \in 0..1 : ~Uses(Hand, k)) \/ job[cw].pc \in {"squash", "clear"}
  PROVE  PipeInv' /\ (Overlays => Overlays')
<1> USE BothWorkersThere DEF Hand
<1>1. ASSUME NEW c \in FrameComps, NEW k \in 0..1, Live(c)', Uses(c, k)
      PROVE  Live(c) /\ Tested(c)
  BY <1>1 DEF Live, Tested
<1>2. ASSUME NEW k \in 0..1 PROVE LatestLives(k)'
  <2>0. LatestLives(k) BY DEF PipeInv, LatestInv
  <2>1. CASE Uses(Hand, k)
    <3>1. k = squash_framebuffer_index_ /\ Overlays /\ ~use_hw_overlays_
      BY <2>1 DEF PipeInv, HandInv
    <3>2. \A c \in FrameComps : Uses(c, k) => ~Tested(c) BY <3>1 DEF Overlays
    <3>3. ~Uses(screen', k) /\ ~Uses(job'[fw].comp, k)
          /\ \A j \in DOMAIN frame_queue_' : ~Uses(frame_queue_'[j], k)
      BY <3>2 DEF Tested, Uses
    <3> QED BY <3>3 DEF LatestLives
  <2>2. CASE ~Uses(Hand, k)
    <3>1. \A j : Behind(j, k) <=> Behind(j, k)' BY <2>2 DEF Behind, UsesLast
    <3> QED BY <2>0, <3>1 DEF LatestLives, UsesLast
  <2> QED BY <2>1, <2>2
<1>3. SquashHeld' BY <1>1 DEF PipeInv, SquashHeld
<1>4. HandInv' BY DEF HandInv
<1>5. Overlays => Overlays'
  <2> SUFFICES ASSUME Overlays, NEW c \in FrameComps, Tested(c)', Uses(c, squash_framebuffer_index_)
               PROVE  use_hw_overlays_
    BY DEF Overlays, Uses
  <2>1. squash_framebuffer_index_ \in 0..1 BY DEF TypeInv, SquashTyped
  <2>2. Live(c)' BY DEF Tested, Live
  <2> QED BY <1>1, <2>1, <2>2 DEF Overlays
<1> QED BY <1>2, <1>3, <1>4, <1>5 DEF PipeInv, LatestInv

\* The frame worker commits, gives away or destroys its frame.
LEMMA FrameWorkerMoves ==
  ASSUME TypeInv, PipeInv,
         UNCHANGED <<squash_framebuffers_, squash_framebuffer_index_, use_hw_overlays_, frame_queue_>>,
         job'[cw] = job[cw], thread'[cw] = thread[cw],
         \/ screen' = screen /\ job'[fw].comp = job[fw].comp
         \/ screen' = job[fw].comp /\ job'[fw].comp = job[fw].comp
         \/ screen' = screen /\ screen = job[fw].comp /\ job'[fw].comp = NoComp
         \/ screen' = NoComp /\ job'[fw].comp = NoComp
  PROVE  PipeInv' /\ (Overlays => Overlays')
<1> USE BothWorkersThere DEF Hand
<1>1. ASSUME NEW c \in FrameComps, Live(c)' \/ Tested(c)'
      PROVE  (Live(c)' => Live(c)) /\ (Tested(c)' => Tested(c))
  BY <1>1, CompTypes DEF Live, Tested
<1>2. ASSUME NEW k \in 0..1, thread[cw] # "done" PROVE LatestLives(k)'
  <2>0. LatestLives(k) BY <1>2 DEF PipeInv, LatestInv
  <2>1. \A j : Behind(j, k) <=> Behind(j, k)' BY DEF Behind, UsesLast
  <2> QED BY <2>0, <2>1, UsesTypes DEF LatestLives, UsesLast
<1>3. SquashHeld' BY <1>1 DEF PipeInv, SquashHeld
<1>4. Overlays => Overlays' BY <1>1 DEF Overlays, Uses
<1>5. HandInv' BY <1>4 DEF PipeInv, HandInv
<1> QED BY <1>2, <1>3, <1>4, <1>5 DEF PipeInv, LatestInv

\* The frame worker takes the first frame of its queue.
LEMMA FrameTaken ==
  ASSUME TypeInv, PipeInv,
         UNCHANGED <<squash_framebuffers_, squash_framebuffer_index_, use_hw_overlays_, screen>>,
         job'[cw] = job[cw], thread'[cw] = thread[cw],
         frame_queue_ # <<>>, frame_queue_' = Tail(frame_queue_),
         job[fw].comp = NoComp, job'[fw].comp = Head(frame_queue_)
  PROVE  PipeInv' /\ (Overlays => Overlays')
<1> USE BothWorkersThere DEF Hand
<1>0. frame_queue_ \in Seq(FrameComps) BY DEF TypeInv, QueuesTyped
<1>a. /\ job'[fw].comp = frame_queue_[1] /\ 1 \in DOMAIN frame_queue_
      /\ \A i \in DOMAIN frame_queue_' : /\ i \in Nat /\ i >= 1 /\ i + 1 \in DOMAIN frame_queue_
                                         /\ frame_queue_'[i] = frame_queue_[i + 1]
      /\ \A i \in DOMAIN frame_queue_ : i # 1 => /\ i \in Nat /\ i - 1 >= 1 /\ i - 1 \in DOMAIN frame_queue_'
                                                 /\ frame_queue_'[i - 1] = frame_queue_[i]
  BY <1>0
<1>1. ASSUME NEW c \in FrameComps, Live(c)' \/ Tested(c)'
      PROVE  (Live(c)' => Live(c)) /\ (Tested(c)' => Tested(c))
  BY <1>1, <1>a DEF Live, Tested
<1>2. ASSUME NEW k \in 0..1, thread[cw] # "done" PROVE LatestLives(k)'
  <2>0. LatestLives(k) BY <1>2 DEF PipeInv, LatestInv
  <2>1. UsesLast(Hand, k)' <=> UsesLast(Hand, k) BY DEF UsesLast
  <2>2. Behind(1, k) => UsesLast(job[fw].comp, k)' \/ Behind(1, k)'
    <3> SUFFICES ASSUME NEW i \in DOMAIN frame_queue_, UsesLast(frame_queue_[i], k)
                 PROVE  UsesLast(job[fw].comp, k)' \/ Behind(1, k)'
      BY <2>1 DEF Behind
    <3>1. CASE i = 1 BY <1>a, <3>1 DEF UsesLast
    <3>2. CASE i # 1
      <4>1. i - 1 >= 1 /\ i - 1 \in DOMAIN frame_queue_' /\ frame_queue_'[i - 1] = frame_queue_[i]
        BY <1>a, <3>2
      <4>2. UsesLast(frame_queue_[i - 1], k)' BY <4>1 DEF UsesLast
      <4> QED BY <4>1, <4>2 DEF Behind
    <3> QED BY <3>1, <3>2
  <2>3. ASSUME NEW j \in DOMAIN frame_queue_', Uses(frame_queue_'[j], k) PROVE Behind(j, k)'
    <3>1. Behind(j + 1, k) BY <1>a, <2>0, <2>3 DEF LatestLives
    <3> SUFFICES ASSUME NEW i \in DOMAIN frame_queue_, i >= j + 1, UsesLast(frame_queue_[i], k)
                 PROVE  Behind(j, k)'
      BY <2>1, <3>1 DEF Behind
    <3>2. i # 1 /\ i - 1 >= j BY <1>a, <1>0
    <3>3. i - 1 \in DOMAIN frame_queue_' /\ frame_queue_'[i - 1] = frame_queue_[i] BY <1>a, <3>2
    <3>4. UsesLast(frame_queue_[i - 1], k)' BY <3>3 DEF UsesLast
    <3> QED BY <3>2, <3>3, <3>4 DEF Behind
  <2>4. Uses(job[fw].comp, k)' => Behind(1, k) BY <1>a, <2>0 DEF LatestLives
  <2>5. Uses(screen, k) => UsesLast(screen, k) \/ Behind(1, k)
    BY <2>0, UsesTypes DEF LatestLives, UsesLast
  <2> QED BY <2>0, <2>1, <2>2, <2>3, <2>4, <2>5 DEF LatestLives, UsesLast
<1>3. SquashHeld' BY <1>1 DEF PipeInv, SquashHeld
<1>4. Overlays => Overlays' BY <1>1 DEF Overlays, Uses
<1>5. HandInv' BY <1>4 DEF PipeInv, HandInv
<1> QED BY <1>2, <1>3, <1>4, <1>5 DEF PipeInv, LatestInv

\* The composite worker queues its frame for the frame worker.
LEMMA FrameQueued ==
  ASSUME TypeInv, PipeInv, job[cw].pc = "queue",
         UNCHANGED <<squash_framebuffers_, squash_framebuffer_index_, use_hw_overlays_, screen>>,
         job'[fw] = job[fw], thread[cw] # "done",
         frame_queue_' = Append(frame_queue_, Hand), Hand \in FrameComps, job'[cw].comp = NoComp
  PROVE  PipeInv' /\ (Overlays => Overlays')
<1> USE BothWorkersThere
<1>0. frame_queue_ \in Seq(FrameComps) BY DEF TypeInv, QueuesTyped
<1>a. /\ \A i \in DOMAIN frame_queue_ : /\ i \in DOMAIN frame_queue_' /\ frame_queue_'[i] = frame_queue_[i]
                                        /\ i \in Nat /\ i >= 1 /\ i <= Len(frame_queue_)
      /\ Len(frame_queue_) + 1 \in DOMAIN frame_queue_' /\ frame_queue_'[Len(frame_queue_) + 1] = Hand
      /\ \A i \in DOMAIN frame_queue_' : i \in DOMAIN frame_queue_ \/ i = Len(frame_queue_) + 1
      /\ Len(frame_queue_) \in Nat
  BY <1>0
<1>1. ASSUME NEW c \in FrameComps, Live(c)' \/ Tested(c)'
      PROVE  (Live(c)' => Live(c)) /\ (Tested(c)' => Tested(c))
  <2>1. \A i \in DOMAIN frame_queue_' :
          frame_queue_'[i] = Hand \/ \E k \in DOMAIN frame_queue_ : frame_queue_'[i] = frame_queue_[k]
    BY <1>a
  <2>2. NoComp \notin FrameComps BY CompTypes
  <2>3. Live(c)' => Live(c) BY <2>1, <2>2 DEF Live, Hand
  <2>4. Tested(c)' => Tested(c) BY <2>1, <2>2 DEF Tested, Hand
  <2> QED BY <2>3, <2>4
<1>2. ASSUME NEW k \in 0..1 PROVE LatestLives(k)'
  <2>0. LatestLives(k) BY DEF PipeInv, LatestInv
  <2>1. UsesLast(Hand, k) => \A j \in 1..Len(frame_queue_)+1 : Behind(j, k)'
    BY <1>a DEF UsesLast, Behind
  <2>2. \A j \in 1..Len(frame_queue_)+1 : Behind(j, k) => Behind(j, k)'
    BY <1>a, <2>1 DEF UsesLast, Behind
  <2>3. ~Uses(Hand, k)' BY UsesTypes DEF Hand
  <2>4. ASSUME NEW j \in DOMAIN frame_queue_', Uses(frame_queue_'[j], k) PROVE Behind(j, k)'
    <3>1. CASE j \in DOMAIN frame_queue_
      BY <1>a, <2>0, <2>2, <2>4, <3>1 DEF LatestLives
    <3>2. CASE j = Len(frame_queue_) + 1
      BY <1>a, <2>0, <2>1, <2>4, <3>2 DEF LatestLives
    <3> QED BY <1>a, <3>1, <3>2
  <2>5. Behind(1, k) => Behind(1, k)' BY <1>a, <2>2
  <2> QED BY <2>0, <2>3, <2>4, <2>5 DEF LatestLives, UsesLast
<1>3. SquashHeld' BY <1>1 DEF PipeInv, SquashHeld
<1>4. Overlays => Overlays' BY <1>1 DEF Overlays, Uses
<1>5. HandInv' BY UsesTypes DEF HandInv, Hand
<1> QED BY <1>2, <1>3, <1>4, <1>5 DEF PipeInv, LatestInv

\* The composite worker goes on with its frame, which shows what it did before.
LEMMA HandKept ==
  ASSUME TypeInv, PipeInv, thread[cw] # "done",
         UNCHANGED <<squash_framebuffers_, squash_framebuffer_index_, frame_queue_, screen>>,
         job'[fw] = job[fw], Hand \in FrameComps, Hand' \in FrameComps,
         Hand'.sqfb = Hand.sqfb, Hand'.id = Hand.id, Hand'.squash = Hand.squash, Hand'.shape = Hand.shape,
         Hand.shape.sq # "none" => UNCHANGED use_hw_overlays_,
         job'[cw].pc \notin ApplyPcs,
         job'[cw].pc = "queue" => use_hw_overlays_',
         job'[cw].pc \in {"squash", "clear"} => ~use_hw_overlays_'
  PROVE  PipeInv' /\ (UNCHANGED use_hw_overlays_ /\ Overlays => Overlays')
<1> USE BothWorkersThere
<1>0. \A k : (Uses(Hand, k)' <=> Uses(Hand, k)) /\ (UsesLast(Hand, k)' <=> UsesLast(Hand, k))
  BY DEF Uses, UsesLast
<1>1. ASSUME NEW k \in 0..1 PROVE LatestLives(k)'
  <2>0. LatestLives(k) BY DEF PipeInv, LatestInv
  <2>1. \A j : Behind(j, k) <=> Behind(j, k)' BY <1>0 DEF Behind, UsesLast
  <2> QED BY <1>0, <2>0, <2>1 DEF LatestLives, UsesLast
<1>2. SquashHeld'
  <2> SUFFICES ASSUME NEW c \in FrameComps, NEW k \in 0..1, Live(c)', Uses(c, k)
               PROVE  squash_framebuffers_[k].content = c.squash
    BY DEF SquashHeld, Uses
  <2>1. Live(c) \/ c = Hand' BY DEF Live, Hand
  <2>2. Live(Hand) BY DEF Live, Hand
  <2> QED BY <2>1, <2>2 DEF PipeInv, SquashHeld, Uses
<1>3. UNCHANGED use_hw_overlays_ /\ Overlays => Overlays'
  <2> SUFFICES ASSUME UNCHANGED use_hw_overlays_, Overlays,
                      NEW c \in FrameComps, Tested(c)', Uses(c, squash_framebuffer_index_)
               PROVE  use_hw_overlays_'
    BY DEF Overlays, Uses
  <2>1. Tested(c) \/ job'[cw].pc = "queue" BY DEF Tested
  <2> QED BY <2>1 DEF Overlays
<1>4. HandInv'
  <2> SUFFICES ASSUME NEW k \in 0..1, Uses(Hand, k)
               PROVE  /\ k = squash_framebuffer_index_ /\ Overlays' /\ Hand'.shape.sq # "none"
                      /\ job'[cw].pc \notin ApplyPcs
                      /\ job'[cw].pc \in {"squash", "clear"} => ~use_hw_overlays_'
    BY <1>0 DEF HandInv
  <2>1. k = squash_framebuffer_index_ /\ Overlays /\ Hand.shape.sq # "none" BY DEF PipeInv, HandInv
  <2> QED BY <1>3, <2>1
<1> QED BY <1>1, <1>2, <1>3, <1>4 DEF PipeInv, LatestInv

\* A framebuffer whose fence has fired is shown by no frame.
LEMMA ReleasedUnused ==
  ASSUME TypeInv, ReleaseInv, PipeInv, destructor # "destroyed", thread[cw] # "done",
         NEW k \in 0..1, Released(squash_framebuffers_[k])
  PROVE  /\ ~Uses(screen, k) /\ ~Uses(job[fw].comp, k)
         /\ \A j \in DOMAIN frame_queue_ : ~Uses(frame_queue_[j], k)
<1>0. frame_queue_ \in Seq(FrameComps \cup ControlComps) BY ChainTypes
<1>1. ASSUME NEW d \in FrameComps, Live(d) PROVE ~UsesLast(d, k)
  <2>1. d.type = "FRAME" /\ d.id # 0 BY CompTypes
  <2>2. (\E j \in DOMAIN frame_queue_ : d = frame_queue_[j]) => d \in Frames(frame_queue_)
    BY <1>0, <2>1, FramesOfQueue DEF Frames
  <2>3. d \in InFlight \cup {screen} BY <1>1, <2>2 DEF Live, InFlight, Prepared
  <2>4. d.id \notin done BY <2>1, <2>3, OwnedNotReleased DEF NoEarlyRelease
  <2> QED BY <2>1, <2>4 DEF UsesLast, Released
<1>2. \A c : Live(c) => ~UsesLast(c, k) BY <1>1 DEF UsesLast, Uses
<1>3. \A j : ~Behind(j, k) BY <1>2, BothWorkersThere DEF Behind, Live, Hand
<1>4. ~UsesLast(screen, k) /\ ~UsesLast(job[fw].comp, k) BY <1>2, BothWorkersThere DEF Live
<1> QED BY <1>3, <1>4 DEF PipeInv, LatestInv, LatestLives

\* The frame in the composite worker's hand gets framebuffer k, which no other
\* frame shows, or which all of them show that came before it.
LEMMA HandRendered ==
  ASSUME TypeInv, PipeInv, SquashDomain, NEW k \in 0..1, NEW fb, NEW n, n = Hand.squash,
         Hand \in FrameComps, Hand.sqfb = None, Hand.shape.sq # "none",
         UNCHANGED <<use_hw_overlays_, frame_queue_, screen>>, thread[cw] # "done",
         job'[fw] = job[fw], Hand' = [Hand EXCEPT !.sqfb = k], job'[cw].pc = "pre_fb",
         squash_framebuffer_index_' = k, squash_framebuffers_' = [squash_framebuffers_ EXCEPT ![k] = fb],
         fb.fence = Hand.id, fb.content = Hand.squash,
         \/ k = squash_framebuffer_index_ /\ Overlays /\ fb.content = squash_framebuffers_[k].content
         \/ /\ ~Uses(screen, k) /\ ~Uses(job[fw].comp, k)
            /\ \A j \in DOMAIN frame_queue_ : ~Uses(frame_queue_[j], k)
  PROVE  PipeInv' /\ SquashDomain' /\ Usable(n)'
<1> USE BothWorkersThere
<1>1. /\ Hand' \in FrameComps /\ Hand'.sqfb = k /\ Hand'.id = Hand.id
      /\ Hand'.squash = Hand.squash /\ Hand'.shape = Hand.shape
  BY DEF FrameComps
<1>2. squash_framebuffers_'[k] = fb /\ \A i \in 0..1 : i # k => squash_framebuffers_'[i] = squash_framebuffers_[i]
  BY DEF SquashDomain
<1>3. SquashDomain' BY DEF SquashDomain
<1>4. ~Uses(Hand, 0) /\ ~Uses(Hand, 1) BY UsesTypes DEF Uses
<1>5. UsesLast(Hand, k)' BY <1>1, <1>2 DEF UsesLast, Uses
<1>6. ASSUME NEW i \in 0..1 PROVE LatestLives(i)'
  <2>1. CASE i = k BY <1>5, <2>1 DEF LatestLives, Behind
  <2>2. CASE i # k
    <3>1. ~Uses(Hand, i)' /\ ~Uses(Hand, i) BY <1>1, <1>4, <2>2 DEF Uses
    <3>2. squash_framebuffers_'[i] = squash_framebuffers_[i] BY <1>2, <2>2
    <3>3. \A j : Behind(j, i) <=> Behind(j, i)' BY <3>1, <3>2 DEF Behind, UsesLast
    <3>4. LatestLives(i) BY DEF PipeInv, LatestInv
    <3> QED BY <3>1, <3>2, <3>3, <3>4 DEF LatestLives, UsesLast
  <2> QED BY <2>1, <2>2
<1>7. SquashHeld'
  <2> SUFFICES ASSUME NEW c \in FrameComps, NEW i \in 0..1, Live(c)', Uses(c, i)
               PROVE  squash_framebuffers_'[i].content = c.squash
    BY DEF SquashHeld, Uses
  <2>1. CASE c = Hand' BY <1>1, <1>2, <2>1 DEF Uses
  <2>2. CASE c # Hand'
    <3>1. Live(c) /\ (c = screen \/ c = job[fw].comp \/ \E j \in DOMAIN frame_queue_ : c = frame_queue_[j])
      BY <2>2 DEF Live, Hand
    <3>2. squash_framebuffers_[i].content = c.squash BY <3>1 DEF PipeInv, SquashHeld
    <3> QED BY <1>2, <3>1, <3>2
  <2> QED BY <2>1, <2>2
<1>8. Overlays'
  <2> SUFFICES ASSUME NEW c \in FrameComps, Tested(c)', Uses(c, k) PROVE use_hw_overlays_
    BY DEF Overlays, Uses
  <2>1. Tested(c) /\ (c = screen \/ c = job[fw].comp \/ \E j \in DOMAIN frame_queue_ : c = frame_queue_[j])
    BY DEF Tested
  <2> QED BY <2>1 DEF Overlays
<1>9. HandInv' BY <1>1, <1>8 DEF HandInv, Uses, ApplyPcs
<1> QED BY <1>1, <1>2, <1>3, <1>6, <1>7, <1>8, <1>9 DEF PipeInv, LatestInv, Usable

LEMMA SquashPrepared ==
  ASSUME "gl" \notin Env, TypeInv, ReleaseInv, PipeInv, SquashDomain, Stopped, PrepareSquash,
         NEW b \in Nat, NEW n \in Nat, b # 0 => Usable(b), Planned(Hand, b, n)
  PROVE  PipeInv' /\ SquashDomain' /\ (n # 0 => Usable(n)')
<1> USE BothWorkersThere
<1>1. /\ job[cw].pc = "squash_fb" /\ UNCHANGED <<use_hw_overlays_, frame_queue_, screen>>
      /\ Hand \in FrameComps /\ Hand.sqfb = None /\ job'[fw] = job[fw]
  <2>1. job[cw].pc = "squash_fb" /\ UNCHANGED <<use_hw_overlays_, frame_queue_, screen>>
    BY DEF PrepareSquash, overlayVars, queueVars, screenVars
  <2>2. Hand \in FrameComps BY <2>1 DEF TypeInv, InHand, EmptyHanded, JobTyped, Jobs, Hand
  <2>3. job'[fw] = job[fw] BY CompositeWorkerPcs DEF CompositeWorkerStep
  <2> QED BY <2>1, <2>2, <2>3 DEF Planned
<1>2. destructor # "destroyed" /\ thread[cw] # "done"
  BY <1>1, CompositeWorkerRuns DEF CompositeWorkerStep, TypeInv, RunningInRoutine
<1>3. squash_framebuffer_index_ \in 0..1 BY DEF TypeInv, SquashTyped
<1>4. ASSUME NEW k, job' = [job EXCEPT ![cw] = [@ EXCEPT !.pc = "pre_fb", !.comp.sqfb = k]]
      PROVE  job'[cw].pc = "pre_fb" /\ Hand' = [Hand EXCEPT !.sqfb = k]
  BY <1>4 DEF TypeInv, JobTyped, Jobs, Hand
<1>5. CASE Hand.shape.sq = "none"
  <2>1. Goto(cw, "pre_fb") /\ UNCHANGED <<squash_framebuffers_, squash_framebuffer_index_>>
    BY <1>5 DEF PrepareSquash, sqfbVars, Hand
  <2>2. Hand' = Hand /\ job'[cw].pc = "pre_fb" BY <2>1, GotoMoves DEF TypeInv, JobPcs, Moves, Hand
  <2>3. PipeInv' BY <1>1, <1>2, <2>1, <2>2, HandKept DEF ApplyPcs
  <2>4. n = 0 BY <1>1, <1>5 DEF Planned
  <2> QED BY <2>1, <2>3, <2>4 DEF SquashDomain
<1>6. CASE Hand.shape.sq = "reuse"
  <2> DEFINE k == squash_framebuffer_index_
             fb == Reused(squash_framebuffers_[k], Hand.id)
  <2>1. /\ job' = [job EXCEPT ![cw] = [@ EXCEPT !.pc = "pre_fb", !.comp.sqfb = k]]
        /\ squash_framebuffers_' = [squash_framebuffers_ EXCEPT ![k] = fb]
        /\ squash_framebuffer_index_' = k
    BY <1>6 DEF PrepareSquash, Hand
  <2>2. Hand.squash = b /\ n = b /\ Usable(b) BY <1>1, <1>6 DEF Planned
  <2>3. fb.fence = Hand.id /\ fb.content = squash_framebuffers_[k].content
    BY DEF Reused
  <2>4. fb.content = Hand.squash /\ Overlays BY <2>2, <2>3 DEF Usable
  <2> HIDE DEF fb, k
  <2>5. k \in 0..1 /\ k = squash_framebuffer_index_ BY <1>3 DEF k
  <2> QED BY <1>1, <1>2, <1>4, <1>6, <2>1, <2>2, <2>3, <2>4, <2>5, HandRendered
<1>7. CASE Hand.shape.sq = "render"
  <2> DEFINE k == (squash_framebuffer_index_ + 1) % 2
             fb == Rendered(Hand.id)
  <2>1. /\ job' = [job EXCEPT ![cw] = [@ EXCEPT !.pc = "pre_fb", !.comp.sqfb = k]]
        /\ squash_framebuffers_' = [squash_framebuffers_ EXCEPT ![k] = fb]
        /\ squash_framebuffer_index_' = k /\ Released(squash_framebuffers_[k])
    BY <1>7 DEF PrepareSquash, Hand
  <2>2. Hand.squash = Hand.id /\ n = Hand.id BY <1>1, <1>7 DEF Planned
  <2>3. fb.fence = Hand.id /\ fb.content = Hand.squash BY <2>2 DEF Rendered
  <2>5. k \in 0..1 BY <1>3
  <2> HIDE DEF fb, k
  <2>6. /\ ~Uses(screen, k) /\ ~Uses(job[fw].comp, k)
        /\ \A j \in DOMAIN frame_queue_ : ~Uses(frame_queue_[j], k)
    BY <1>2, <2>1, <2>5, ReleasedUnused
  <2> QED BY <1>1, <1>2, <1>4, <1>7, <2>1, <2>2, <2>3, <2>5, <2>6, HandRendered
<1> QED BY <1>1, <1>5, <1>6, <1>7 DEF Planned

\* What is left to reuse stays so.
KeepsUsable == \A b \in Nat : Usable(b) => Usable(b)'
SquashStays == UNCHANGED <<squash_framebuffers_, squash_framebuffer_index_>>

\* Frames go, when nothing is prepared any more.
LEMMA PipeEnds ==
  ASSUME TypeInv, PipeInv, thread'[cw] = "done", SquashStays, UNCHANGED use_hw_overlays_,
         job'[cw] = job[cw], \A c \in FrameComps : Live(c)' => Live(c),
         \A c \in FrameComps : Tested(c)' => Tested(c)
  PROVE  PipeInv' /\ KeepsUsable
<1> USE DEF Hand, SquashStays
<1>1. SquashHeld' BY DEF PipeInv, SquashHeld
<1>2. Overlays => Overlays' BY DEF Overlays
<1>3. HandInv' BY <1>2 DEF PipeInv, HandInv
<1>4. KeepsUsable BY <1>2 DEF KeepsUsable, Usable
<1> QED BY <1>1, <1>3, <1>4 DEF PipeInv, LatestInv

LEMMA PipeFrameWorker ==
  ASSUME TypeInv, PipeInv, ExitInOrder, FrameWorkerRoutine \/ FrameWorkerWoken
  PROVE  PipeInv' /\ KeepsUsable /\ SquashStays
<1> USE BothWorkersThere
<1>1. /\ job[fw].pc = "idle" /\ job[fw].comp = NoComp /\ job'[cw] = job[cw] /\ UNCHANGED screen
      /\ SquashStays /\ UNCHANGED use_hw_overlays_
  <2>1. job[fw].pc = "idle" /\ job'[cw] = job[cw] /\ UNCHANGED screen BY FrameWorkerPcSteps
  <2>2. job[fw].comp = NoComp BY <2>1 DEF TypeInv, InHand, EmptyHanded
  <2> QED BY <2>1, <2>2 DEF FrameWorkerRoutine, FrameWorkerWoken, sqfbVars, overlayVars, SquashStays
<1>2. thread'[cw] = thread[cw]
  BY DEF FrameWorkerRoutine, FrameWorkerWoken, WaitForSignalOrExitLocked, Return, TypeInv, ThreadTyped, cw, fw
<1>3. \/ UNCHANGED <<job, frame_queue_>>
      \/ frame_queue_ # <<>> /\ TakeFrame
      \/ exit_[fw] /\ frame_queue_ # <<>> /\ frame_queue_' = Tail(frame_queue_) /\ UNCHANGED job
  BY DEF FrameWorkerRoutine, FrameWorkerWoken, WaitResult
<1>4. ASSUME Overlays => Overlays' PROVE KeepsUsable
  BY <1>1, <1>4 DEF KeepsUsable, Usable, SquashStays, Hand
<1>5. CASE UNCHANGED <<job, frame_queue_>>
  BY <1>1, <1>2, <1>4, <1>5, FrameWorkerMoves DEF SquashStays
<1>6. CASE frame_queue_ # <<>> /\ TakeFrame
  <2>1. job'[fw].comp = Head(frame_queue_) /\ frame_queue_' = Tail(frame_queue_)
    BY <1>6, TakeFrameTypes DEF Moves, TakeFrame
  <2> QED BY <1>1, <1>2, <1>4, <1>6, <2>1, FrameTaken DEF SquashStays
<1>7. CASE exit_[fw] /\ frame_queue_ # <<>> /\ frame_queue_' = Tail(frame_queue_) /\ UNCHANGED job
  <2>1. thread'[cw] = "done" BY <1>2, <1>7 DEF ExitInOrder
  <2>2. frame_queue_ \in Seq(FrameComps) BY DEF TypeInv, QueuesTyped
  <2>3. \A i \in DOMAIN frame_queue_' : i + 1 \in DOMAIN frame_queue_ /\ frame_queue_'[i] = frame_queue_[i + 1]
    BY <1>7, <2>2, PopTypes
  <2>4. \A c \in FrameComps : (Live(c)' => Live(c)) /\ (Tested(c)' => Tested(c))
    BY <1>1, <1>7, <2>3 DEF Live, Tested, Hand
  <2> QED BY <1>1, <1>7, <2>1, <2>4, PipeEnds
<1> QED BY <1>1, <1>3, <1>5, <1>6, <1>7

LEMMA PipeApplyFrame ==
  ASSUME "MODESET" \in Requests => "acquire" \notin Env /\ "ioctl" \notin Env, "disable" \notin Env,
         TypeInv, ReleaseInv, PipeInv, Stopped, NEW w \in Workers, ApplyFrame(w)
  PROVE  PipeInv' /\ KeepsUsable /\ SquashStays
<1> USE BothWorkersThere
<1>1. SquashStays /\ UNCHANGED <<use_hw_overlays_, frame_queue_>>
  BY DEF ApplyFrame, BuildPset, CommitFrame, FinishModeset, AdoptMode, SignalActive, SwapActive,
     ClearDisplay, sqfbVars, overlayVars, queueVars, SquashStays
<1>2. /\ job[w].pc \in ApplyPcs \cup {"clear"} /\ job[w].comp \in FrameComps
      /\ job'[w].comp \in {job[w].comp, NoComp} /\ \A v \in Workers \ {w} : job'[v] = job[v]
      /\ \A v \in Workers \ {w} : thread'[v] = thread[v]
      /\ job'[w].pc \notin {"pre_fb", "test"}
  BY ApplyFrameMoves DEF Moves, ApplyPcs
<1>3. /\ screen' \in {screen, NoComp, job[w].comp}
      /\ job[w].pc = "clear" => job'[w].comp = NoComp
  <2>1. CASE ClearDisplay(w)
    BY <2>1, EndRoutineMoves DEF ClearDisplay, screenVars, TypeInv, Moves
  <2> QED BY <2>1 DEF ApplyFrame, BuildPset, CommitFrame, FinishModeset, AdoptMode, SignalActive, SwapActive,
             screenVars
<1>4. CASE w = cw
  <2>1. thread[cw] # "done" BY <1>2, <1>4 DEF TypeInv, RunningInRoutine, ApplyPcs
  <2>2. job[cw].pc \in ApplyPcs => \A k \in 0..1 : ~Uses(Hand, k) BY DEF PipeInv, HandInv
  <2>3. \A k \in 0..1 : ~Uses(job'[cw].comp, k)
    BY <1>2, <1>3, <1>4, <2>2, UsesTypes DEF Hand
  <2>4. screen' = screen \/ \A k \in 0..1 : ~Uses(screen', k)
    <3>1. CASE job[cw].pc \in ApplyPcs BY <1>3, <1>4, <2>2, <3>1, UsesTypes DEF Hand
    <3>2. CASE job[cw].pc = "clear"
      <4>1. ClearDisplay(cw)
        BY <1>4, <3>2 DEF ApplyFrame, BuildPset, CommitFrame, FinishModeset, AdoptMode, SignalActive, SwapActive
      <4> QED BY <4>1, UsesTypes DEF ClearDisplay, screenVars
    <3> QED BY <1>2, <1>4, <3>1, <3>2
  <2>5. PipeInv' /\ (Overlays => Overlays')
    <3>1. job'[fw] = job[fw] BY <1>2, <1>4
    <3>2. (\A k \in 0..1 : ~Uses(Hand, k)) \/ job[cw].pc \in {"squash", "clear"}
      BY <1>2, <1>4, <2>2
    <3> QED BY <1>1, <2>1, <2>3, <2>4, <3>1, <3>2, HandGone DEF SquashStays
  <2> QED BY <1>1, <1>2, <1>4, <2>5 DEF KeepsUsable, Usable, SquashStays
<1>5. CASE w = fw
  <2>1. job'[cw] = job[cw] /\ thread'[cw] = thread[cw] BY <1>2, <1>5
  <2>2. CASE destructor = "destroyed"
    <3>1. thread'[cw] = "done" BY <2>1, <2>2 DEF Stopped
    <3>2. \A c \in FrameComps : (Live(c)' => Live(c)) /\ (Tested(c)' => Tested(c))
      BY <1>1, <1>2, <1>3, <1>5, <2>1, CompTypes DEF Live, Tested, Hand
    <3> QED BY <1>1, <2>1, <3>1, <3>2, PipeEnds
  <2>3. CASE destructor # "destroyed"
    <3>0. ModesetInv /\ ScreenOwned /\ Alone BY <2>3 DEF ReleaseInv, ModesetInv, BlobInv
    <3>1. job[cw].pc \notin ApplyPcs
      BY <1>2, <1>5, <3>0 DEF Alone, SquashingAll, FrameWorkerIdle, ApplyPcs
    <3>2. \/ screen' = screen /\ job'[fw].comp = job[fw].comp
          \/ screen' = job[fw].comp /\ job'[fw].comp = job[fw].comp
          \/ screen' = screen /\ screen = job[fw].comp /\ job'[fw].comp = NoComp
          \/ screen' = NoComp /\ job'[fw].comp = NoComp
      <4>1. CASE BuildPset(fw) \/ FinishModeset(fw) \/ AdoptMode(fw) \/ SignalActive(fw)
        <5>1. UNCHANGED screen BY <4>1 DEF BuildPset, FinishModeset, AdoptMode, SignalActive, screenVars
        <5>2. job'[fw].comp = job[fw].comp
          BY <4>1 DEF BuildPset, FinishModeset, AdoptMode, SignalActive, Goto, TypeInv, JobTyped, Jobs
        <5> QED BY <5>1, <5>2
      <4>2. CASE CommitFrame(fw)
        <5>1. screen' = screen \/ screen' = job[fw].comp BY <4>2 DEF CommitFrame
        <5>2. job'[fw].comp = job[fw].comp BY <4>2 DEF CommitFrame, Goto, TypeInv, JobTyped, Jobs
        <5> QED BY <5>1, <5>2
      <4>3. CASE SwapActive(fw)
        <5>1. job[fw].pc = "swap" /\ UNCHANGED screen /\ job'[fw].comp = NoComp
          BY <4>3, EndRoutineMoves DEF SwapActive, TypeInv, Moves
        <5>2. screen = NoComp \/ screen = job[fw].comp
          BY <3>0, <3>1, <5>1 DEF ScreenOwned, Committed, ApplyPcs
        <5> QED BY <5>1, <5>2
      <4>4. CASE ClearDisplay(fw)
        <5>1. job[fw].pc = "clear" /\ job'[fw].comp = NoComp
          BY <4>4, EndRoutineMoves DEF ClearDisplay, TypeInv, Moves
        <5>2. screen' = NoComp \/ (active_composition_ = NoComp /\ screen' = screen)
          BY <4>4 DEF ClearDisplay, screenVars
        <5>3. screen = NoComp \/ screen = active_composition_
          BY <3>0, <3>1, <5>1 DEF ScreenOwned, Committed, ApplyPcs
        <5> QED BY <5>1, <5>2, <5>3
      <4> QED BY <1>5, <4>1, <4>2, <4>3, <4>4 DEF ApplyFrame
    <3>3. PipeInv' /\ (Overlays => Overlays')
      BY <1>1, <2>1, <3>2, FrameWorkerMoves DEF SquashStays
    <3> QED BY <1>1, <2>1, <3>3 DEF KeepsUsable, Usable, SquashStays, Hand
  <2> QED BY <2>2, <2>3
<1> QED BY <1>4, <1>5

\* The composite worker between two frames.
LEMMA PipeEmptyHanded ==
  ASSUME TypeInv, Stopped, PipeInv,
         \/ HaveQueuedComposites \/ CompositeWorkerWait \/ CompositeWorkerWoken \/ SignalFrameWorker
         \/ SquashAll \/ SquashActive \/ Composite,
         Composite => composite_queue_ = <<>> \/ \A k \in 0..1 : ~Uses(Head(composite_queue_), k)
  PROVE  PipeInv' /\ KeepsUsable /\ SquashStays
<1> USE BothWorkersThere
<1>0. CompositeWorkerStep BY DEF CompositeWorkerStep
<1>1. /\ SquashStays /\ UNCHANGED <<use_hw_overlays_, frame_queue_>>
  BY DEF HaveQueuedComposites, CompositeWorkerWait, CompositeWorkerWoken, SignalFrameWorker, SquashAll,
     SquashActive, Composite, sqfbVars, overlayVars, queueVars, SquashStays
<1>2. job'[fw] = job[fw] /\ UNCHANGED screen BY <1>0, CompositeWorkerPcs
<1>3. job[cw].pc \in EmptyHanded /\ Hand = NoComp /\ thread[cw] # "done"
  <2>1. job[cw].pc \in EmptyHanded
    BY DEF HaveQueuedComposites, CompositeWorkerWait, CompositeWorkerWoken, SignalFrameWorker, SquashAll,
       SquashActive, Composite, EmptyHanded, TypeInv, RunningInRoutine, Awake
  <2>2. thread[cw] # "done"
    BY DEF HaveQueuedComposites, CompositeWorkerWait, CompositeWorkerWoken, SignalFrameWorker, SquashAll,
       SquashActive, Composite, TypeInv, RunningInRoutine, Awake
  <2> QED BY <2>1, <2>2 DEF TypeInv, InHand, Hand
<1>4. (\A k \in 0..1 : ~Uses(job'[cw].comp, k)) /\ job'[cw].pc \notin {"pre_fb", "test"}
  <2>1. CASE HaveQueuedComposites \/ CompositeWorkerWait \/ CompositeWorkerWoken \/ SignalFrameWorker \/ SquashAll
    <3>1. \/ \E pc \in JobPcs \ {"pre_fb", "test"} : Goto(cw, pc)
          \/ UNCHANGED job \/ EndRoutine(cw)
      BY <2>1 DEF HaveQueuedComposites, CompositeWorkerWait, CompositeWorkerWoken, SignalFrameWorker,
         SquashAll, JobPcs
    <3>2. job'[cw].comp = NoComp /\ job'[cw].pc \notin {"pre_fb", "test"}
      BY <1>3, <3>1, GotoMoves, EndRoutineMoves DEF Moves, TypeInv, Hand, EmptyHanded
    <3> QED BY <3>2, UsesTypes
  <2>2. CASE SquashActive
    <3>1. EndRoutine(cw) \/ SquashSucceeds(active_composition_, "commit")
      BY <2>2 DEF SquashActive, SquashFrame, SquashSucceeds
    <3>2. CASE EndRoutine(cw) BY <3>2, EndRoutineMoves, UsesTypes DEF Moves, TypeInv
    <3>3. CASE SquashSucceeds(active_composition_, "commit")
      <4>1. active_composition_ \in FrameComps BY <2>2 DEF SquashActive, TypeInv, LockHeld, ScreenTyped
      <4>2. job'[cw].comp = Squashed(active_composition_) /\ job'[cw].pc = "commit"
        BY <3>3 DEF SquashSucceeds, TypeInv, JobTyped, Jobs
      <4>3. Squashed(active_composition_).sqfb = None
        BY <4>1, SquashedTypes DEF TypeInv, CountsTyped, RingTyped
      <4> QED BY <4>2, <4>3, UsesTypes DEF Uses
    <3> QED BY <3>1, <3>2, <3>3
  <2>3. CASE Composite
    <3>1. \/ EndRoutine(cw)
          \/ /\ composite_queue_ # <<>>
             /\ job' = [job EXCEPT ![cw] = [@ EXCEPT !.pc = "squash_fb", !.comp = Head(composite_queue_)]]
      BY <2>3 DEF Composite
    <3>2. CASE EndRoutine(cw) BY <3>2, EndRoutineMoves, UsesTypes DEF Moves, TypeInv
    <3>3. CASE /\ composite_queue_ # <<>>
               /\ job' = [job EXCEPT ![cw] = [@ EXCEPT !.pc = "squash_fb", !.comp = Head(composite_queue_)]]
      <4>1. job'[cw].comp = Head(composite_queue_) /\ job'[cw].pc = "squash_fb"
        BY <3>3 DEF TypeInv, JobTyped, Jobs
      <4> QED BY <2>3, <3>3, <4>1
    <3> QED BY <3>1, <3>2, <3>3
  <2> QED BY <2>1, <2>2, <2>3
<1>5. PipeInv' /\ (Overlays => Overlays')
  BY <1>1, <1>2, <1>3, <1>4, UsesTypes, HandGone DEF SquashStays
<1> QED BY <1>1, <1>4, <1>5 DEF KeepsUsable, Usable, SquashStays

\* The composite worker with a frame in hand that has its squash framebuffer.
LEMMA PipeHandStep ==
  ASSUME "gl" \notin Env, TypeInv, Stopped, PipeInv,
         ApplyPreComposite \/ TestFrame \/ SquashQueuedFrame \/ QueueFrame
  PROVE  PipeInv' /\ KeepsUsable /\ SquashStays
<1> USE BothWorkersThere
<1>0. CompositeWorkerStep BY DEF CompositeWorkerStep
<1>1. SquashStays
  BY DEF ApplyPreComposite, TestFrame, SquashQueuedFrame, QueueFrame, sqfbVars, SquashStays
<1>2. job'[fw] = job[fw] /\ UNCHANGED screen BY <1>0, CompositeWorkerPcs
<1>3. /\ job[cw].pc \in {"pre_fb", "test", "squash", "queue"}
      /\ Hand \in FrameComps /\ thread[cw] # "done"
  <2>1. job[cw].pc \in {"pre_fb", "test", "squash", "queue"}
    BY DEF ApplyPreComposite, TestFrame, SquashQueuedFrame, QueueFrame
  <2> QED BY <2>1 DEF TypeInv, InHand, EmptyHanded, JobTyped, Jobs, Hand, RunningInRoutine
<1>4. CASE ApplyPreComposite
  <2>1. UNCHANGED <<use_hw_overlays_, frame_queue_>> /\ job[cw].pc = "pre_fb"
    BY <1>4 DEF ApplyPreComposite, overlayVars, queueVars
  <2>2. \/ Goto(cw, "test")
        \/ job' = [job EXCEPT ![cw] = [@ EXCEPT !.pc = "test", !.comp.fb = framebuffer_index_]]
    BY <1>4 DEF ApplyPreComposite
  <2>3. job'[cw].pc = "test" /\ (Hand' = Hand \/ Hand' = [Hand EXCEPT !.fb = framebuffer_index_])
    BY <2>2 DEF Goto, TypeInv, JobTyped, Jobs, Hand
  <2>4. framebuffer_index_ \in -1..DRM_DISPLAY_BUFFERS-1
    BY CompositorAssumption DEF TypeInv, RingTyped
  <2>5. /\ Hand' \in FrameComps /\ Hand'.sqfb = Hand.sqfb /\ Hand'.id = Hand.id
        /\ Hand'.squash = Hand.squash /\ Hand'.shape = Hand.shape
    BY <1>3, <2>3, <2>4 DEF FrameComps
  <2>6. PipeInv' /\ (Overlays => Overlays')
    BY <1>1, <1>2, <1>3, <2>1, <2>3, <2>5, HandKept DEF SquashStays, ApplyPcs
  <2> QED BY <1>1, <2>1, <2>5, <2>6 DEF KeepsUsable, Usable, SquashStays
<1>5. CASE TestFrame
  <2>1. UNCHANGED frame_queue_ /\ job[cw].pc = "test" BY <1>5 DEF TestFrame, queueVars
  <2>2. PICK pc \in {"queue", "squash", "clear"} :
          /\ Goto(cw, pc) /\ (pc = "queue" => use_hw_overlays_') /\ (pc # "queue" => ~use_hw_overlays_')
    BY <1>5 DEF TestFrame
  <2>3. Hand' = Hand /\ job'[cw].pc = pc BY <2>2, GotoMoves DEF TypeInv, JobPcs, Moves, Hand
  <2>4. Hand.shape.sq # "none" => UNCHANGED use_hw_overlays_
    <3>1. Hand.shape.geom => Hand.shape.sq = "none" BY <1>3 DEF FrameComps, FrameShapes
    <3> QED BY <1>5, <3>1 DEF TestFrame, Hand
  <2>5. PipeInv' /\ (UNCHANGED use_hw_overlays_ /\ Overlays => Overlays')
    BY <1>1, <1>2, <1>3, <2>1, <2>2, <2>3, <2>4, HandKept DEF SquashStays, ApplyPcs
  <2> QED BY <1>1, <2>1, <2>2, <2>3, <2>4, <2>5 DEF KeepsUsable, Usable, SquashStays
<1>6. CASE SquashQueuedFrame
  <2>1. UNCHANGED <<use_hw_overlays_, frame_queue_>> /\ job[cw].pc = "squash"
    BY <1>6 DEF SquashQueuedFrame, overlayVars, queueVars
  <2>2. Goto(cw, "clear") \/ SquashSucceeds(job[cw].comp, "queue")
    BY <1>6 DEF SquashQueuedFrame, SquashFrame, SquashSucceeds
  <2>3. CASE Goto(cw, "clear")
    <3>1. Hand' = Hand /\ job'[cw].pc = "clear" BY <2>3, GotoMoves DEF TypeInv, JobPcs, Moves, Hand
    <3>2. CASE \A k \in 0..1 : ~Uses(Hand, k)
      <4>1. \A k \in 0..1 : ~Uses(job'[cw].comp, k) BY <3>1, <3>2 DEF Hand
      <4>2. PipeInv' /\ (Overlays => Overlays')
        BY <1>1, <1>2, <1>3, <2>1, <3>2, <4>1, HandGone DEF SquashStays
      <4> QED BY <1>1, <3>1, <4>2 DEF KeepsUsable, Usable, SquashStays
    <3>3. CASE \E k \in 0..1 : Uses(Hand, k)
      <4>1. ~use_hw_overlays_ BY <2>1, <3>3 DEF PipeInv, HandInv
      <4>2. PipeInv' /\ (Overlays => Overlays')
        BY <1>1, <1>2, <1>3, <2>1, <3>1, <4>1, HandKept DEF SquashStays, ApplyPcs
      <4> QED BY <1>1, <3>1, <4>2 DEF KeepsUsable, Usable, SquashStays
    <3> QED BY <3>2, <3>3
  <2>4. CASE SquashSucceeds(job[cw].comp, "queue")
    <3>1. job'[cw].comp = Squashed(Hand) /\ job'[cw].pc = "queue"
      BY <2>4 DEF SquashSucceeds, TypeInv, JobTyped, Jobs, Hand
    <3>2. Squashed(Hand).sqfb = None BY <1>3, SquashedTypes DEF TypeInv, CountsTyped, RingTyped
    <3>3. \A k \in 0..1 : ~Uses(job'[cw].comp, k) BY <3>1, <3>2, UsesTypes DEF Uses
    <3>4. PipeInv' /\ (Overlays => Overlays')
      BY <1>1, <1>2, <1>3, <2>1, <3>3, HandGone DEF SquashStays
    <3> QED BY <1>1, <3>1, <3>4 DEF KeepsUsable, Usable, SquashStays
  <2> QED BY <2>2, <2>3, <2>4
<1>7. CASE QueueFrame
  <2>1. /\ UNCHANGED use_hw_overlays_ /\ job[cw].pc = "queue"
        /\ frame_queue_' = Append(frame_queue_, Hand)
    BY <1>7 DEF QueueFrame, overlayVars, Hand
  <2>2. job'[cw].comp = NoComp /\ job'[cw].pc = "signal_frame"
    BY <1>7 DEF QueueFrame, TypeInv, JobTyped, IdleJob
  <2>3. PipeInv' /\ (Overlays => Overlays')
    BY <1>1, <1>2, <1>3, <2>1, <2>2, FrameQueued DEF SquashStays
  <2> QED BY <1>1, <2>2, <2>3 DEF KeepsUsable, Usable, SquashStays
<1> QED BY <1>1, <1>4, <1>5, <1>6, <1>7

LEMMA DoneStays ==
  ASSUME TypeInv, thread[cw] = "done", [Next]_vars
  PROVE  thread'[cw] = "done"
<1> USE BothWorkersThere DEF TypeInv, ThreadTyped
<1>1. job[cw].pc = "idle" BY DEF RunningInRoutine
<1>2. CASE CompositeWorkerStep
  BY <1>1, <1>2 DEF CompositeWorkerStep, HaveQueuedComposites, CompositeWorkerWait, CompositeWorkerWoken,
     Composite, PrepareSquash, ApplyPreComposite, TestFrame, SquashQueuedFrame, QueueFrame,
     SignalFrameWorker, SquashAll, SquashActive, Awake
<1>3. CASE FrameWorkerRoutine \/ FrameWorkerWoken
  BY <1>3 DEF FrameWorkerRoutine, FrameWorkerWoken, WaitForSignalOrExitLocked, Return
<1>4. ASSUME NEW w \in Workers, ApplyFrame(w) PROVE thread'[cw] = "done"
  <2>1. w # cw BY <1>1, <1>4, ApplyFrameMoves DEF ApplyPcs
  <2> QED BY <1>4, <2>1, ApplyFrameMoves
<1>5. CASE ThreadStep
  BY <1>5 DEF ThreadStep, InternalRoutine, SpuriousWakeup, WaitTimeout, Asleep
<1>6. CASE ExitStep
  BY <1>6 DEF ExitStep, ExitRequest, ExitNotify, ExitJoin, Signal, Notified, Asleep
<1>7. CASE \E c \in Callers : \/ \E s \in Shapes : QueueFrameComposition(c, s)
                              \/ QueueControlComposition(c)
                              \/ CallerStep(c)
  BY <1>7 DEF QueueFrameComposition, QueueControlComposition, CallerStep, PushComposition,
     SignalCompositeWorker, workerVars, Signal, Notified, Asleep
<1>8. CASE Destroy \/ UNCHANGED vars
  BY <1>8 DEF Destroy, vars, workerVars
<1> QED BY <1>2, <1>3, <1>4, <1>5, <1>6, <1>7, <1>8 DEF Next

LEMMA ExitOrderStep ==
  ASSUME TypeInv, Stopped, ExitInOrder, [Next]_vars
  PROVE  ExitInOrder'
<1> USE BothWorkersThere
<1>1. CASE UNCHANGED exit_ BY <1>1, DoneStays DEF ExitInOrder
<1>2. CASE ExitStep
  <2>1. CASE ExitRequest(cw) BY <2>1, DoneStays DEF ExitInOrder, ExitRequest
  <2>2. CASE ~initialized_[cw] /\ ExitRequest(fw) BY <2>2, DoneStays DEF ExitInOrder, ExitRequest, Stopped
  <2>3. CASE UNCHANGED exit_ BY <1>1, <2>3
  <2> QED BY <1>2, <2>1, <2>2, <2>3 DEF ExitStep, ExitNotify, ExitJoin
<1>3. CASE CompositeWorkerStep
  <2>1. UNCHANGED exit_
    BY <1>3 DEF CompositeWorkerStep, HaveQueuedComposites, CompositeWorkerWait, CompositeWorkerWoken,
       Composite, PrepareSquash, ApplyPreComposite, TestFrame, SquashQueuedFrame, QueueFrame,
       SignalFrameWorker, SquashAll, SquashActive, workerVars
  <2> QED BY <1>1, <2>1
<1>4. CASE FrameWorkerRoutine \/ FrameWorkerWoken
  BY <1>1, <1>4 DEF FrameWorkerRoutine, FrameWorkerWoken
<1>5. CASE \E w \in Workers : ApplyFrame(w)
  BY <1>1, <1>5 DEF ApplyFrame, BuildPset, CommitFrame, FinishModeset, AdoptMode, SignalActive, SwapActive,
     ClearDisplay, workerVars
<1>6. CASE ThreadStep
  BY <1>1, <1>6 DEF ThreadStep, InternalRoutine, SpuriousWakeup, WaitTimeout
<1>7. CASE \E c \in Callers : \/ \E s \in Shapes : QueueFrameComposition(c, s)
                              \/ QueueControlComposition(c)
                              \/ CallerStep(c)
  BY <1>1, <1>7 DEF QueueFrameComposition, QueueControlComposition, CallerStep, PushComposition,
     SignalCompositeWorker, workerVars
<1>8. CASE Destroy \/ UNCHANGED vars
  BY <1>1, <1>8 DEF Destroy, vars, workerVars
<1> QED BY <1>2, <1>3, <1>4, <1>5, <1>6, <1>7, <1>8 DEF Next

LEMMA PipeQuiet ==
  ASSUME TypeInv, PipeInv, SquashStays, UNCHANGED <<job, screen, frame_queue_, use_hw_overlays_>>,
         thread[cw] = "done" => thread'[cw] = "done"
  PROVE  PipeInv' /\ KeepsUsable
<1> USE DEF SquashStays, Hand
<1>1. \A k \in 0..1 : LatestLives(k) => LatestLives(k)' BY DEF LatestLives, Behind, UsesLast
<1>2. SquashHeld' BY DEF PipeInv, SquashHeld, Live
<1>3. Overlays => Overlays' BY DEF Overlays, Tested
<1>4. HandInv' BY <1>3 DEF PipeInv, HandInv
<1>5. KeepsUsable BY <1>3 DEF KeepsUsable, Usable
<1> QED BY <1>1, <1>2, <1>4, <1>5 DEF PipeInv, LatestInv

\* Compositions that were planned have no squash framebuffer yet.
LEMMA QueuedUnrendered ==
  ASSUME TypeInv, PlanInv, destructor # "destroyed", composite_queue_ # <<>>
  PROVE  \A k \in 0..1 : ~Uses(Head(composite_queue_), k)
<1>1. PICK b \in Nat, s \in [Nat -> Nat] : PlanLine(b, s) BY DEF PlanInv
<1>2. Head(composite_queue_) = composite_queue_[1] /\ 1 \in DOMAIN composite_queue_
  BY DEF TypeInv, QueuesTyped
<1>3. Planned(composite_queue_[1], s[1 - 1], s[1]) BY <1>1, <1>2 DEF PlanLine
<1> QED BY <1>2, <1>3, UsesTypes DEF Planned, Uses

\* All steps but PrepareSquash.
LEMMA PipeStep ==
  ASSUME "gl" \notin Env, "disable" \notin Env,
         "MODESET" \in Requests => "acquire" \notin Env /\ "ioctl" \notin Env,
         TypeInv, ReleaseInv, SquashInv, [Next]_vars, ~PrepareSquash
  PROVE  PipeInv' /\ KeepsUsable /\ SquashStays
<1> USE BothWorkersThere DEF SquashInv
<1>0. thread[cw] = "done" => thread'[cw] = "done" BY DoneStays
<1>1. CASE CompositeWorkerStep
  <2>1. CASE ApplyPreComposite \/ TestFrame \/ SquashQueuedFrame \/ QueueFrame
    BY <2>1, PipeHandStep
  <2>2. CASE \/ HaveQueuedComposites \/ CompositeWorkerWait \/ CompositeWorkerWoken \/ SignalFrameWorker
             \/ SquashAll \/ SquashActive \/ Composite
    <3>1. destructor # "destroyed" BY <1>1, CompositeWorkerRuns
    <3> QED BY <2>2, <3>1, PipeEmptyHanded, QueuedUnrendered
  <2> QED BY <1>1, <2>1, <2>2 DEF CompositeWorkerStep
<1>2. CASE FrameWorkerRoutine \/ FrameWorkerWoken BY <1>2, PipeFrameWorker
<1>3. CASE \E w \in Workers : ApplyFrame(w) BY <1>3, PipeApplyFrame
<1>4. CASE ThreadStep \/ ExitStep \/ UNCHANGED vars
  <2>1. SquashStays /\ UNCHANGED <<job, screen, frame_queue_, use_hw_overlays_>>
    BY <1>4 DEF ThreadStep, ExitStep, vars, sqfbVars, screenVars, queueVars, overlayVars, SquashStays
  <2> QED BY <1>0, <2>1, PipeQuiet
<1>5. CASE \E c \in Callers : \/ \E s \in Shapes : QueueFrameComposition(c, s)
                              \/ QueueControlComposition(c)
                              \/ CallerStep(c)
  <2>1. SquashStays /\ UNCHANGED <<job, screen, frame_queue_, use_hw_overlays_>>
    BY <1>5 DEF QueueFrameComposition, QueueControlComposition, CallerStep, PushComposition,
       SignalCompositeWorker, sqfbVars, screenVars, queueVars, overlayVars, SquashStays
  <2> QED BY <1>0, <2>1, PipeQuiet
<1>6. CASE Destroy
  <2>1. SquashStays /\ UNCHANGED <<job, screen, use_hw_overlays_>> /\ frame_queue_' = <<>>
    BY <1>6 DEF Destroy, sqfbVars, overlayVars, SquashStays
  <2>2. thread'[cw] = "done" BY <1>0, <1>6 DEF Destroy, Stopped
  <2>3. \A c \in FrameComps : (Live(c)' => Live(c)) /\ (Tested(c)' => Tested(c))
    BY <2>1 DEF Live, Tested, Hand
  <2> QED BY <2>1, <2>2, <2>3, PipeEnds
<1> QED BY <1>1, <1>2, <1>3, <1>4, <1>5, <1>6 DEF Next

LEMMA PlanStays ==
  ASSUME PlanInv, KeepsUsable, UNCHANGED <<composite_queue_, squash_state_>>,
         destructor' # "destroyed" => destructor # "destroyed",
         \A c \in Callers : call'[c].comp = call[c].comp, ToPrepare' = ToPrepare
  PROVE  PlanInv'
<1> SUFFICES ASSUME destructor' # "destroyed"
             PROVE  \E b \in Nat, s \in [Nat -> Nat] : PlanLine(b, s)'
  BY DEF PlanInv
<1>1. PICK b \in Nat, s \in [Nat -> Nat] : PlanLine(b, s) BY DEF PlanInv
<1>2. b # 0 => Usable(b)' BY <1>1 DEF PlanLine, KeepsUsable
<1>3. Planned(ToPrepare', b, s[0]) BY <1>1 DEF PlanLine
<1>4. /\ \A i \in DOMAIN composite_queue_' : Planned(composite_queue_'[i], s[i - 1], s[i])
      /\ \A c \in Callers : Planned(call'[c].comp, s[Len(composite_queue_')], squash_state_')
  BY <1>1 DEF PlanLine
<1>5. PlanLine(b, s)' BY <1>2, <1>3, <1>4 DEF PlanLine, Planned
<1> QED BY <1>5

\* A caller plans and makes a composition.
LEMMA PlanCreated ==
  ASSUME \A k, l \in Callers : k = l, "inactive" \notin Env, TypeInv, TypeInv', PlanInv, KeepsUsable,
         NEW c \in Callers,
         (\E shape \in Shapes : QueueFrameComposition(c, shape)) \/ QueueControlComposition(c)
  PROVE  PlanInv'
<1>1. /\ call[c].pc = "idle" /\ UNCHANGED <<composite_queue_, job, destructor>>
  BY DEF QueueFrameComposition, QueueControlComposition, queueVars
<1> SUFFICES ASSUME destructor # "destroyed"
             PROVE  \E b \in Nat, s \in [Nat -> Nat] : PlanLine(b, s)'
  BY <1>1 DEF PlanInv
<1>2. PICK b \in Nat, s \in [Nat -> Nat] : PlanLine(b, s) BY DEF PlanInv
<1>3. call[c].comp = NoComp BY <1>1 DEF TypeInv, CallInHand
<1>4. s[Len(composite_queue_)] = squash_state_
  BY <1>2, <1>3, CompTypes DEF PlanLine, Planned
<1>5. Planned(call'[c].comp, squash_state_, squash_state_')
  <2>1. ASSUME NEW shape \in Shapes, QueueFrameComposition(c, shape)
        PROVE  Planned(call'[c].comp, squash_state_, squash_state_')
    <3> DEFINE f == Frame(comps + 1, frames + 1, shape, squash_state_')
    <3>1. call'[c].comp = f
      BY <2>1 DEF QueueFrameComposition, TypeInv, CallTyped
    <3>2. PlanSquash(shape) BY <2>1 DEF QueueFrameComposition
    <3>3. shape \in FrameShapes BY CompositorAssumption
    <3>4. f \in FrameComps
      <4>1. comps + 1 \in Nat \ {0} /\ frames + 1 \in Nat \ {0} /\ squash_state_' \in Nat
        BY DEF TypeInv, CountsTyped
      <4> QED BY <3>3, <4>1, NewFrameTypes
    <3>5. f.id = comps + 1 /\ f.shape = shape /\ f.squash = squash_state_' /\ f.sqfb = None
      BY DEF Frame
    <3> HIDE DEF f
    <3>6. shape.sq \in {"none", "render", "reuse"} BY <3>3 DEF FrameShapes
    <3> QED BY <3>1, <3>2, <3>4, <3>5, <3>6 DEF Planned, PlanSquash
  <2>2. CASE QueueControlComposition(c)
    <3>1. UNCHANGED squash_state_ BY <2>2 DEF QueueControlComposition
    <3>2. call'[c].comp \notin FrameComps
      <4>1. call'[c].comp = Modeset(controls + 1) \/ \E on \in BOOLEAN : call'[c].comp = Dpms(on)
        BY <2>2 DEF QueueControlComposition, TypeInv, CallTyped
      <4>2. Modeset(controls + 1).type # "FRAME" /\ \A on \in BOOLEAN : Dpms(on).type # "FRAME"
        BY DEF Modeset, Dpms
      <4> QED BY <4>1, <4>2, CompTypes
    <3> QED BY <3>1, <3>2 DEF Planned
  <2> QED BY <2>1, <2>2
<1>6. b # 0 => Usable(b)' BY <1>2 DEF PlanLine, KeepsUsable
<1>7. ToPrepare' = ToPrepare BY <1>1 DEF ToPrepare, Hand
<1>8. /\ Planned(ToPrepare', b, s[0])
      /\ \A i \in DOMAIN composite_queue_' : Planned(composite_queue_'[i], s[i - 1], s[i])
  BY <1>1, <1>2, <1>7 DEF PlanLine
<1>9. \A d \in Callers : Planned(call'[d].comp, s[Len(composite_queue_')], squash_state_')
  BY <1>1, <1>4, <1>5
<1>10. PlanLine(b, s)' BY <1>6, <1>8, <1>9 DEF PlanLine, Planned
<1> QED BY <1>10

LEMMA LineTail ==
  ASSUME NEW S, NEW q \in Seq(S), q # <<>>
  PROVE  \A r, L : r = Tail(q) /\ L = Len(q) =>
           /\ Head(q) = q[1] /\ 1 \in DOMAIN q /\ L \in Nat /\ L - 1 \in Nat /\ Len(r) = L - 1
           /\ \A i \in DOMAIN r : i \in Nat /\ i >= 1 /\ i + 1 \in DOMAIN q /\ r[i] = q[i + 1]
<1> TAKE r, L
<1> HAVE r = Tail(q) /\ L = Len(q)
<1>1. L \in Nat /\ L >= 1 /\ Head(q) = q[1] OBVIOUS
<1>2. Len(r) = L - 1 /\ r \in Seq(S) BY <1>1
<1>3. DOMAIN r = 1..(L - 1) /\ DOMAIN q = 1..L BY <1>1, <1>2
<1>4. \A i \in 1..(L - 1) : r[i] = q[i + 1] BY <1>1
<1> QED BY <1>1, <1>2, <1>3, <1>4

LEMMA PlanPushed ==
  ASSUME \A k, l \in Callers : k = l, TypeInv, PlanInv, KeepsUsable,
         NEW c \in Callers, PushComposition(c)
  PROVE  PlanInv'
<1>1. /\ UNCHANGED <<job, destructor, squash_state_>> /\ call'[c].comp = NoComp
      /\ composite_queue_' = Append(composite_queue_, call[c].comp)
      /\ call[c].comp \in FrameComps \cup ControlComps
  BY DEF PushComposition, TypeInv, CallTyped, CallStates, CallInHand
<1> SUFFICES ASSUME destructor # "destroyed"
             PROVE  \E b \in Nat, s \in [Nat -> Nat] : PlanLine(b, s)'
  BY <1>1 DEF PlanInv
<1>2. PICK b \in Nat, s \in [Nat -> Nat] : PlanLine(b, s) BY DEF PlanInv
<1>3. composite_queue_ \in Seq(FrameComps \cup ControlComps) /\ Len(composite_queue_) \in Nat
  BY DEF TypeInv, QueuesTyped
<1>4. PICK L \in Nat : L = Len(composite_queue_) BY <1>3
<1>5. /\ Len(composite_queue_') = L + 1 /\ composite_queue_'[L + 1] = call[c].comp
      /\ \A i \in DOMAIN composite_queue_' :
           i = L + 1 \/ (i \in DOMAIN composite_queue_ /\ i \in 1..L /\ composite_queue_'[i] = composite_queue_[i])
  <2>1. PICK q \in Seq(FrameComps \cup ControlComps) : q = composite_queue_ BY <1>3
  <2>2. PICK e \in FrameComps \cup ControlComps : e = call[c].comp BY <1>1
  <2>3. PICK r : r = composite_queue_' OBVIOUS
  <2>4. r = Append(q, e) /\ L = Len(q) BY <1>1, <1>4, <2>1, <2>2, <2>3
  <2>5. /\ Len(r) = L + 1 /\ r[L + 1] = e
        /\ \A i \in DOMAIN r : i = L + 1 \/ (i \in DOMAIN q /\ i \in 1..L /\ r[i] = q[i])
    <3>1. PICK S : S = FrameComps \cup ControlComps OBVIOUS
    <3>2. q \in Seq(S) /\ e \in S BY <2>1, <2>2, <3>1
    <3>3. L \in Nat /\ Len(r) = L + 1 /\ r \in Seq(S) BY <2>4, <3>2
    <3>4. DOMAIN r = 1..(L + 1) /\ DOMAIN q = 1..L BY <2>4, <3>2, <3>3
    <3>5. r[L + 1] = e /\ \A i \in 1..L : r[i] = q[i] BY <2>4, <3>2, <3>3
    <3>6. \A i \in 1..(L + 1) : i = L + 1 \/ i \in 1..L BY ONLY L \in Nat
    <3> QED BY ONLY <3>3, <3>4, <3>5, <3>6, Zenon
  <2> QED BY <2>1, <2>2, <2>3, <2>5
<1>6. PICK t \in [Nat -> Nat] : t[L + 1] = squash_state_ /\ \A i \in 0..L : t[i] = s[i]
  <2> DEFINE u == [s EXCEPT ![L + 1] = squash_state_]
  <2>1. u \in [Nat -> Nat] /\ u[L + 1] = squash_state_ /\ \A i \in 0..L : u[i] = s[i]
    BY DEF TypeInv, CountsTyped
  <2> HIDE DEF u
  <2> QED BY <2>1
<1>7. ASSUME NEW i \in DOMAIN composite_queue_' PROVE Planned(composite_queue_'[i], t[i - 1], t[i])
  <2>1. CASE i = L + 1
    <3>1. Planned(call[c].comp, s[L], squash_state_) BY <1>2, <1>4 DEF PlanLine
    <3>2. i - 1 = L /\ L \in 0..L BY <2>1
    <3>3. t[i - 1] = s[L] /\ t[i] = squash_state_ BY <1>6, <2>1, <3>2
    <3> QED BY <1>5, <2>1, <3>1, <3>3
  <2>2. CASE i \in DOMAIN composite_queue_ /\ i \in 1..L /\ composite_queue_'[i] = composite_queue_[i]
    <3>1. Planned(composite_queue_[i], s[i - 1], s[i]) BY <1>2, <2>2 DEF PlanLine
    <3>2. i \in 0..L /\ i - 1 \in 0..L BY <2>2
    <3>3. t[i - 1] = s[i - 1] /\ t[i] = s[i] BY <1>6, <3>2
    <3> QED BY <2>2, <3>1, <3>3
  <2> QED BY <1>5, <2>1, <2>2
<1>8. \A d \in Callers : Planned(call'[d].comp, t[Len(composite_queue_')], squash_state_')
  <2>1. Planned(NoComp, t[L + 1], squash_state_') BY <1>1, <1>6, CompTypes DEF Planned
  <2> QED BY <1>1, <1>5, <2>1
<1>9. b # 0 => Usable(b)' BY <1>2 DEF PlanLine, KeepsUsable
<1>10. ToPrepare' = ToPrepare BY <1>1 DEF ToPrepare, Hand
<1>11. t[0] = s[0] BY <1>6
<1>12. Planned(ToPrepare', b, t[0]) BY <1>2, <1>10, <1>11 DEF PlanLine
<1>13. PlanLine(b, t)' BY <1>7, <1>8, <1>9, <1>12 DEF PlanLine, Planned
<1> QED BY <1>13

\* The composite worker takes the front of the queue.
LEMMA PlanComposite ==
  ASSUME TypeInv, PlanInv, KeepsUsable, Composite
  PROVE  PlanInv'
<1> USE BothWorkersThere
<1>1. /\ UNCHANGED <<call, destructor, squash_state_>> /\ job[cw].pc = "composite"
      /\ \/ EndRoutine(cw) /\ UNCHANGED composite_queue_
         \/ /\ composite_queue_ # <<>> /\ composite_queue_' = Tail(composite_queue_)
            /\ \/ EndRoutine(cw) /\ Head(composite_queue_).type # "FRAME"
               \/ job' = [job EXCEPT ![cw] = [@ EXCEPT !.pc = "squash_fb", !.comp = Head(composite_queue_)]]
  BY DEF Composite, callerVars
<1>2. ToPrepare = NoComp BY <1>1 DEF ToPrepare
<1>3. EndRoutine(cw) => ToPrepare' = NoComp BY EndRoutineMoves DEF ToPrepare, TypeInv, Moves
<1>4. CASE EndRoutine(cw) /\ UNCHANGED composite_queue_
  BY <1>1, <1>2, <1>3, <1>4, PlanStays
<1>5. CASE /\ composite_queue_ # <<>> /\ composite_queue_' = Tail(composite_queue_)
           /\ \/ EndRoutine(cw) /\ Head(composite_queue_).type # "FRAME"
              \/ job' = [job EXCEPT ![cw] = [@ EXCEPT !.pc = "squash_fb", !.comp = Head(composite_queue_)]]
  <2> SUFFICES ASSUME destructor # "destroyed"
               PROVE  \E b \in Nat, s \in [Nat -> Nat] : PlanLine(b, s)'
    BY <1>1 DEF PlanInv
  <2>1. PICK b \in Nat, s \in [Nat -> Nat] : PlanLine(b, s) BY DEF PlanInv
  <2>2. composite_queue_ \in Seq(FrameComps \cup ControlComps) /\ Len(composite_queue_) \in Nat
    BY DEF TypeInv, QueuesTyped
  <2>3. PICK L \in Nat : L = Len(composite_queue_) BY <2>2
  <2>4. /\ Head(composite_queue_) = composite_queue_[1] /\ 1 \in DOMAIN composite_queue_
        /\ Len(composite_queue_') = L - 1 /\ L - 1 \in Nat
        /\ \A i \in DOMAIN composite_queue_' : i \in Nat /\ i >= 1 /\ i + 1 \in DOMAIN composite_queue_
                                               /\ composite_queue_'[i] = composite_queue_[i + 1]
    <3>1. PICK q \in Seq(FrameComps \cup ControlComps) : q = composite_queue_ BY <2>2
    <3>2. PICK r : r = composite_queue_' OBVIOUS
    <3>3. r = Tail(q) /\ q # <<>> /\ L = Len(q) BY <1>5, <2>3, <3>1, <3>2
    <3>4. /\ Head(q) = q[1] /\ 1 \in DOMAIN q /\ L - 1 \in Nat /\ Len(r) = L - 1
          /\ \A i \in DOMAIN r : i \in Nat /\ i >= 1 /\ i + 1 \in DOMAIN q /\ r[i] = q[i + 1]
      BY ONLY <3>3, LineTail, q \in Seq(FrameComps \cup ControlComps)
    <3> QED BY <3>1, <3>2, <3>4
  <2>t. PICK t \in [Nat -> Nat] : \A i \in Nat : t[i] = s[i + 1]
    <3> DEFINE u == [i \in Nat |-> s[i + 1]]
    <3>1. u \in [Nat -> Nat] /\ \A i \in Nat : u[i] = s[i + 1] OBVIOUS
    <3> HIDE DEF u
    <3> QED BY <3>1
  <2>5. s[0] = b BY <1>2, <2>1, CompTypes DEF PlanLine, Planned
  <2>6. Planned(Head(composite_queue_), b, t[0])
    <3>1. Planned(composite_queue_[1], s[1 - 1], s[1]) BY <2>1, <2>4 DEF PlanLine
    <3>2. t[0] = s[1] /\ s[1 - 1] = b BY <2>t, <2>5
    <3> QED BY <2>4, <3>1, <3>2
  <2>7. Planned(ToPrepare', b, t[0])
    <3>1. CASE EndRoutine(cw) /\ Head(composite_queue_).type # "FRAME"
      <4>1. t[0] = b BY <2>6, <3>1, CompTypes DEF Planned
      <4> QED BY <1>3, <3>1, <4>1, CompTypes DEF Planned
    <3>2. CASE job' = [job EXCEPT ![cw] = [@ EXCEPT !.pc = "squash_fb", !.comp = Head(composite_queue_)]]
      <4>1. ToPrepare' = Head(composite_queue_) BY <3>2 DEF ToPrepare, Hand, TypeInv, JobTyped, Jobs
      <4> QED BY <2>6, <4>1
    <3> QED BY <1>5, <3>1, <3>2
  <2>8. ASSUME NEW i \in DOMAIN composite_queue_' PROVE Planned(composite_queue_'[i], t[i - 1], t[i])
    <3>1. i \in Nat /\ i >= 1 /\ i + 1 \in DOMAIN composite_queue_ BY <2>4
    <3>2. Planned(composite_queue_[i + 1], s[(i + 1) - 1], s[i + 1]) BY <2>1, <3>1 DEF PlanLine
    <3>3. (i + 1) - 1 = i /\ i - 1 \in Nat /\ (i - 1) + 1 = i BY <3>1
    <3>4. s[(i + 1) - 1] = t[i - 1] /\ s[i + 1] = t[i] BY <2>t, <3>1, <3>3
    <3> QED BY <2>4, <3>2, <3>4
  <2>9. \A c \in Callers : Planned(call'[c].comp, t[Len(composite_queue_')], squash_state_')
    <3>1. (L - 1) + 1 = L BY <2>3
    <3>2. t[L - 1] = s[L] BY <2>t, <2>4, <3>1
    <3> QED BY <1>1, <2>1, <2>3, <2>4, <3>2 DEF PlanLine
  <2>10. b # 0 => Usable(b)' BY <2>1 DEF PlanLine, KeepsUsable
  <2>11. PlanLine(b, t)' BY <2>7, <2>8, <2>9, <2>10 DEF PlanLine, Planned
  <2> QED BY <2>11
<1> QED BY <1>1, <1>4, <1>5

LEMMA PlanPrepare ==
  ASSUME "gl" \notin Env, TypeInv, ReleaseInv, SquashInv, PrepareSquash
  PROVE  PipeInv' /\ SquashDomain' /\ PlanInv'
<1> USE BothWorkersThere
<1>0. CompositeWorkerStep /\ ~Composite BY DEF CompositeWorkerStep, PrepareSquash, Composite
<1>1. /\ job[cw].pc = "squash_fb"
      /\ UNCHANGED <<composite_queue_, squash_state_, call, destructor>>
  BY DEF PrepareSquash, queueVars, callerVars
<1>2. destructor # "destroyed" BY <1>0, CompositeWorkerRuns DEF SquashInv
<1>3. PICK b \in Nat, s \in [Nat -> Nat] : PlanLine(b, s) BY <1>2 DEF SquashInv, PlanInv
<1>4. PICK n \in Nat : n = s[0] OBVIOUS
<1>5. (b # 0 => Usable(b)) /\ Planned(Hand, b, n) BY <1>1, <1>3, <1>4 DEF PlanLine, ToPrepare
<1>6. PipeInv' /\ SquashDomain' /\ (n # 0 => Usable(n)') BY <1>5, SquashPrepared DEF SquashInv
<1>7. job'[cw].pc = "pre_fb"
  <2>1. \/ job' = [job EXCEPT ![cw].pc = "pre_fb"]
        \/ \E k : job' = [job EXCEPT ![cw] = [@ EXCEPT !.pc = "pre_fb", !.comp.sqfb = k]]
    BY Zenon DEF PrepareSquash, Goto
  <2>2. job \in [Workers -> Jobs] BY DEF TypeInv, JobTyped
  <2> QED BY <2>1, <2>2 DEF Jobs
<1>8. Planned(ToPrepare', n, s[0]) BY <1>4, <1>7, CompTypes DEF ToPrepare, Planned
<1>9. /\ \A i \in DOMAIN composite_queue_' : Planned(composite_queue_'[i], s[i - 1], s[i])
      /\ \A c \in Callers : Planned(call'[c].comp, s[Len(composite_queue_')], squash_state_')
  BY <1>1, <1>3 DEF PlanLine
<1>10. PlanLine(n, s)' BY <1>6, <1>8, <1>9 DEF PlanLine, Planned
<1> QED BY <1>6, <1>10 DEF PlanInv

\* No other step comes to or leaves the preparation of a frame.
LEMMA PreparesNothing ==
  ASSUME TypeInv, CompositeWorkerStep, ~Composite, ~PrepareSquash
  PROVE  ToPrepare = NoComp /\ ToPrepare' = NoComp
<1> USE BothWorkersThere DEF TypeInv, JobPcs
<1>1. CASE HaveQueuedComposites \/ CompositeWorkerWait \/ CompositeWorkerWoken \/ TestFrame
           \/ SignalFrameWorker \/ SquashAll \/ QueueFrame
  <2>1. job[cw].pc # "squash_fb"
    BY <1>1 DEF HaveQueuedComposites, CompositeWorkerWait, CompositeWorkerWoken, TestFrame,
       SignalFrameWorker, SquashAll, QueueFrame, RunningInRoutine, Awake
  <2>2. \/ \E pc \in JobPcs \ {"squash_fb"} : Goto(cw, pc)
        \/ UNCHANGED job
        \/ EndRoutine(cw)
        \/ job' = [job EXCEPT ![cw] = [IdleJob EXCEPT !.pc = "signal_frame"]]
    BY <1>1 DEF HaveQueuedComposites, CompositeWorkerWait, CompositeWorkerWoken, TestFrame,
       SignalFrameWorker, SquashAll, QueueFrame
  <2>3. job'[cw].pc # "squash_fb"
    <3>1. CASE \E pc \in JobPcs \ {"squash_fb"} : Goto(cw, pc)
      BY <3>1, GotoMoves DEF Moves
    <3>2. CASE UNCHANGED job BY <2>1, <3>2
    <3>3. CASE EndRoutine(cw) BY <3>3, EndRoutineMoves DEF Moves
    <3>4. CASE job' = [job EXCEPT ![cw] = [IdleJob EXCEPT !.pc = "signal_frame"]]
      BY <3>4 DEF JobTyped, IdleJob
    <3> QED BY <2>2, <3>1, <3>2, <3>3, <3>4
  <2> QED BY <2>1, <2>3 DEF ToPrepare
<1>2. CASE ApplyPreComposite
  <2>1. job[cw].pc # "squash_fb" BY <1>2 DEF ApplyPreComposite
  <2>2. EndRoutine(cw) \/ job'[cw].pc = "test"
    <3>1. \/ EndRoutine(cw)
          \/ job' = [job EXCEPT ![cw].pc = "test"]
          \/ \E k : job' = [job EXCEPT ![cw] = [@ EXCEPT !.pc = "test", !.comp.fb = k]]
      BY Zenon, <1>2 DEF ApplyPreComposite, AbandonFrame, Goto
    <3>2. job \in [Workers -> Jobs] BY DEF JobTyped
    <3> QED BY <3>1, <3>2 DEF Jobs
  <2> QED BY <2>1, <2>2, EndRoutineMoves DEF Moves, ToPrepare
<1>3. CASE SquashQueuedFrame \/ SquashActive
  <2>1. job[cw].pc # "squash_fb" BY <1>3 DEF SquashQueuedFrame, SquashActive
  <2>2. EndRoutine(cw) \/ job'[cw].pc \in {"queue", "clear", "commit"}
    <3>1. \/ EndRoutine(cw)
          \/ job' = [job EXCEPT ![cw].pc = "clear"]
          \/ \E pc \in {"queue", "commit"} : \E d : job' = [job EXCEPT ![cw] = [@ EXCEPT !.pc = pc, !.comp = d]]
      BY <1>3, Zenon DEF SquashQueuedFrame, SquashActive, SquashFrame, Goto
    <3>2. job \in [Workers -> Jobs] BY DEF JobTyped
    <3> QED BY <3>1, <3>2 DEF Jobs
  <2> QED BY <2>1, <2>2, EndRoutineMoves DEF Moves, ToPrepare
<1> QED BY <1>1, <1>2, <1>3 DEF CompositeWorkerStep

LEMMA PlanStep ==
  ASSUME \A k, l \in Callers : k = l, "inactive" \notin Env,
         TypeInv, PlanInv, KeepsUsable, [Next]_vars, ~PrepareSquash
  PROVE  PlanInv'
<1> USE BothWorkersThere
<1>1. CASE CompositeWorkerStep
  <2>1. CASE Composite BY <2>1, PlanComposite
  <2>2. CASE ~Composite
    <3>1. ToPrepare' = ToPrepare BY <1>1, <2>2, PreparesNothing
    <3>2. UNCHANGED <<composite_queue_, squash_state_, call, destructor>>
      BY Zenon, <1>1, <2>2
      DEF CompositeWorkerStep, HaveQueuedComposites, CompositeWorkerWait, CompositeWorkerWoken,
          ApplyPreComposite, TestFrame, SquashQueuedFrame, QueueFrame, SignalFrameWorker, SquashAll,
          SquashActive, queueVars, callerVars
    <3> QED BY <3>1, <3>2, PlanStays
  <2> QED BY <2>1, <2>2
<1>2. CASE FrameWorkerRoutine \/ FrameWorkerWoken
  <2>1. job'[cw] = job[cw] /\ UNCHANGED <<composite_queue_, call, destructor>> BY <1>2, FrameWorkerPcSteps
  <2>2. UNCHANGED squash_state_ BY <1>2 DEF FrameWorkerRoutine, FrameWorkerWoken, callerVars
  <2>3. ToPrepare' = ToPrepare BY <2>1 DEF ToPrepare, Hand
  <2> QED BY <2>1, <2>2, <2>3, PlanStays
<1>3. ASSUME NEW w \in Workers, ApplyFrame(w) PROVE PlanInv'
  <2>1. UNCHANGED <<composite_queue_, squash_state_, call, destructor>>
    BY <1>3 DEF ApplyFrame, BuildPset, CommitFrame, FinishModeset, AdoptMode, SignalActive, SwapActive,
       ClearDisplay, queueVars, callerVars
  <2>2. /\ job[w].pc \in ApplyPcs \cup {"clear"} /\ job'[w].pc \in ApplyPcs \cup {"clear", "idle"}
        /\ \A v \in Workers \ {w} : job'[v] = job[v]
    BY <1>3, ApplyFrameMoves DEF Moves
  <2>3. ToPrepare' = ToPrepare
    <3>1. CASE w = cw BY <2>2, <3>1 DEF ToPrepare, ApplyPcs
    <3>2. CASE w # cw BY <2>2, <3>2 DEF ToPrepare, Hand
    <3> QED BY <3>1, <3>2
  <2> QED BY <2>1, <2>3, PlanStays
<1>4. CASE ThreadStep \/ ExitStep \/ UNCHANGED vars
  <2>1. UNCHANGED <<composite_queue_, squash_state_, call, job>>
    BY Zenon, <1>4 DEF ThreadStep, ExitStep, vars, queueVars, callerVars
  <2>2. destructor' # "destroyed" => destructor # "destroyed"
    BY <1>4 DEF ThreadStep, ExitStep, vars
  <2>3. ToPrepare' = ToPrepare BY <2>1 DEF ToPrepare, Hand
  <2> QED BY <2>1, <2>2, <2>3, PlanStays
<1>5. ASSUME NEW c \in Callers,
             (\E s \in Shapes : QueueFrameComposition(c, s)) \/ QueueControlComposition(c)
      PROVE  PlanInv'
  <2>1. TypeInv' BY NextTypes
  <2> QED BY <1>5, <2>1, PlanCreated
<1>6. ASSUME NEW c \in Callers, PushComposition(c) PROVE PlanInv'
  BY <1>6, PlanPushed
<1>7. ASSUME NEW c \in Callers, SignalCompositeWorker(c) PROVE PlanInv'
  <2>1. /\ UNCHANGED <<composite_queue_, squash_state_, job, destructor>>
        /\ \A k \in Callers : call'[k].comp = call[k].comp
    BY <1>7 DEF SignalCompositeWorker, queueVars, TypeInv, CallTyped, CallStates
  <2>2. ToPrepare' = ToPrepare BY <2>1 DEF ToPrepare, Hand
  <2> QED BY <2>1, <2>2, PlanStays
<1>8. CASE Destroy BY <1>8 DEF Destroy, PlanInv
<1> QED BY <1>1, <1>2, <1>3, <1>4, <1>5, <1>6, <1>7, <1>8 DEF Next, CallerStep

LEMMA SquashStep ==
  ASSUME \A k, l \in Callers : k = l, "gl" \notin Env, "disable" \notin Env, "inactive" \notin Env,
         "MODESET" \in Requests => "acquire" \notin Env /\ "ioctl" \notin Env,
         TypeInv, ReleaseInv, SquashInv, [Next]_vars
  PROVE  SquashInv'
<1>1. ExitInOrder' /\ Stopped' BY ExitOrderStep, StoppedStep DEF SquashInv
<1>2. CASE PrepareSquash BY <1>1, <1>2, PlanPrepare DEF SquashInv
<1>3. CASE ~PrepareSquash
  <2>1. PipeInv' /\ KeepsUsable /\ SquashStays BY <1>3, PipeStep
  <2>2. SquashDomain' BY <2>1 DEF SquashInv, SquashDomain, SquashStays
  <2>3. PlanInv' BY <1>3, <2>1, PlanStep DEF SquashInv
  <2> QED BY <1>1, <2>1, <2>2, <2>3 DEF SquashInv
<1> QED BY <1>2, <1>3

LEMMA SquashInit ==
  ASSUME Init PROVE SquashInv
<1> USE BothWorkersThere
<1>1. /\ squash_framebuffers_ = [i \in 0..1 |-> [fence |-> 0, content |-> 0]]
      /\ screen = NoComp /\ composite_queue_ = <<>> /\ frame_queue_ = <<>>
      /\ job = [w \in Workers |-> IdleJob] /\ squash_state_ = 0
      /\ call = [c \in Callers |-> [pc |-> "idle", comp |-> NoComp]]
      /\ exit_ = [w \in Workers |-> FALSE]
      /\ initialized_ = [w \in Workers |-> TRUE] /\ destructor = "no"
  BY DEF Init
<1>2. \A w \in Workers : job[w].comp = NoComp /\ job[w].pc = "idle" BY <1>1 DEF IdleJob
<1>3. SquashDomain BY <1>1 DEF SquashDomain
<1>4. PipeInv
  <2>1. \A k : ~Uses(screen, k) /\ ~Uses(Hand, k) /\ ~Uses(job[fw].comp, k)
    BY <1>1, <1>2, CompTypes DEF Uses, Hand
  <2>2. DOMAIN frame_queue_ = {} BY <1>1
  <2>3. LatestInv BY <2>1, <2>2 DEF LatestInv, LatestLives
  <2>4. SquashHeld BY <1>1, <1>2, <2>2, CompTypes DEF SquashHeld, Live
  <2>5. HandInv BY <2>1 DEF HandInv
  <2> QED BY <2>3, <2>4, <2>5 DEF PipeInv
<1>5. PlanInv
  <2> DEFINE s == [i \in Nat |-> 0]
  <2>1. s \in [Nat -> Nat] /\ \A i \in Nat : s[i] = 0 OBVIOUS
  <2> HIDE DEF s
  <2>2. Planned(ToPrepare, 0, s[0]) BY <1>2, <2>1, CompTypes DEF ToPrepare, Planned
  <2>3. DOMAIN composite_queue_ = {} /\ Len(composite_queue_) = 0 BY <1>1
  <2>4. \A c \in Callers : Planned(call[c].comp, s[Len(composite_queue_)], squash_state_)
    BY <1>1, <2>1, <2>3, CompTypes DEF Planned
  <2>5. PlanLine(0, s) BY <2>2, <2>3, <2>4 DEF PlanLine
  <2> QED BY <2>1, <2>5 DEF PlanInv
<1>6. ExitInOrder BY <1>1 DEF ExitInOrder
<1>7. Stopped BY <1>1 DEF Stopped
<1> QED BY <1>3, <1>4, <1>5, <1>6, <1>7 DEF SquashInv

\* What is on the screen or prepared for it is what was rendered for it, in the
\* squash framebuffers as in the ring (PrepareFrame, CommitFrame), for any number
\* of frames, buffers and queue depths.  Besides what RingKept asks it takes that
\* no rendering fails, that planes can be disabled, that frames are set only while
\* the display is on, and one caller: the plan of a frame trusts the squash
\* framebuffer of the frame planned before it.
THEOREM NothingTorn ==
  ASSUME \A k, l \in Callers : k = l,
         "slow" \notin Env, "gl" \notin Env, "disable" \notin Env, "inactive" \notin Env,
         "MODESET" \in Requests => "acquire" \notin Env /\ "ioctl" \notin Env
  PROVE  Spec => []NoTearing
<1>1. Init => TypeInv /\ ReleaseInv /\ SquashInv BY InitTypes, ReleaseInit, SquashInit
<1>2. TypeInv /\ ReleaseInv /\ SquashInv /\ [Next]_vars => (TypeInv /\ ReleaseInv /\ SquashInv)'
  BY NextTypes, ReleaseStep, SquashStep
<1>3. TypeInv /\ SquashInv => SquashShown
  <2> SUFFICES ASSUME TypeInv, SquashInv, NEW c \in Prepared \cup {screen}, c.type = "FRAME", c.sqfb # None
               PROVE  squash_framebuffers_[c.sqfb].content = c.squash
    BY DEF SquashShown
  <2>1. frame_queue_ \in Seq(FrameComps \cup ControlComps) BY DEF TypeInv, QueuesTyped
  <2>2. c \in Frames(frame_queue_) => c \in FrameComps /\ \E k \in DOMAIN frame_queue_ : c = frame_queue_[k]
    BY <2>1, FramesOfQueue
  <2>3. \A w \in Workers : job[w].comp \in FrameComps \cup {NoComp} BY DEF TypeInv, JobTyped, Jobs
  <2>4. screen \in FrameComps \cup {NoComp} BY DEF TypeInv, ScreenTyped
  <2>5. c \in FrameComps /\ Live(c)
    BY <2>2, <2>3, <2>4, CompTypes DEF Prepared, Live
  <2>6. c.sqfb \in 0..1 /\ Uses(c, c.sqfb) BY <2>5 DEF FrameComps, None, Uses
  <2> QED BY <2>5, <2>6 DEF SquashInv, PipeInv, SquashHeld
<1>4. Spec => []RingShown BY RingKept
<1> QED BY <1>1, <1>2, <1>3, <1>4, PTL DEF Spec, NoTearing
=============================================================================
