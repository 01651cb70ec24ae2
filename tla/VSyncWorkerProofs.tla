-------------------------- MODULE VSyncWorkerProofs --------------------------
(***************************************************************************)
(* What SurfaceFlinger may expect of the vsync callbacks, for every length *)
(* of a frame, any callbacks and any calls: after a change at most one     *)
(* callback goes by the old state (StaleOnce), and the reported times only *)
(* move forward (MovesForward), whichever mixture of hardware vblanks,     *)
(* synthetic ones, interruptions and switches leads there.                 *)
(***************************************************************************)
EXTENDS VSyncWorker, TLAPS

-----------------------------------------------------------------------------
(* At most one outdated callback *)

\* The worker has copied a callback and not yet called it.
Pending == pc \in {"vblank", "sleep", "callback"}

\* Its callback would be outdated.
Outdated == callback # NoCallback /\ (~enabled_ \/ callback # callback_)

\* OneStaleCallback is not inductive: why is the second callback not outdated
\* too?  Because after an outdated one the copy is made anew.
StaleInv ==
  /\ stale \in {0, 1}
  /\ stale = 1 /\ Pending => ~Outdated

LEMMA InitStale == Init => StaleInv
BY DEF Init, StaleInv, Pending

\* Copying takes the state as it is.
LEMMA CopyFresh ==
  ASSUME StaleInv, CopyState, UNCHANGED <<enabled_, callback_, stale>>
  PROVE  StaleInv'
BY DEF CopyState, StaleInv, Pending, Outdated

LEMMA NextStale ==
  ASSUME StaleInv, [Next]_vars
  PROVE  StaleInv'
<1> USE DEF StaleInv, Pending, Outdated
<1>1. CASE Start \/ Close \/ ThreadStep
  BY <1>1 DEF Start, Close, ThreadStep, vsyncVars
<1>2. ASSUME NEW cb \in Callbacks, RegisterCallback(cb) PROVE StaleInv'
  BY <1>2 DEF RegisterCallback
<1>3. ASSUME NEW enabled \in BOOLEAN, VSyncControl(enabled) PROVE StaleInv'
  BY <1>3 DEF VSyncControl
<1>4. CASE VSyncControlSignal \/ Tick
  BY <1>4 DEF VSyncControlSignal, Tick
<1>5. CASE Routine
  BY <1>5, CopyFresh DEF Routine
<1>6. CASE RoutineWoken
  BY <1>6, CopyFresh DEF RoutineWoken
<1>7. CASE WaitVBlank
  BY <1>7 DEF WaitVBlank
<1>8. CASE SyntheticWaitVBlank
  BY <1>8 DEF SyntheticWaitVBlank
<1>9. CASE Callback
  BY <1>9 DEF Callback
<1>10. CASE RecordTimestamp
  BY <1>10 DEF RecordTimestamp
<1>11. CASE UNCHANGED vars
  BY <1>11 DEF vars, vsyncVars
<1> QED
  BY <1>1, <1>2, <1>3, <1>4, <1>5, <1>6, <1>7, <1>8, <1>9, <1>10, <1>11
     DEF Next, RoutineStep

\* Routine() calls the callback with the lock dropped.  After VSyncControl or
\* RegisterCallback SurfaceFlinger gets at most one more callback that goes by
\* the old state.
THEOREM StaleOnce == Spec => []OneStaleCallback
<1>1. StaleInv /\ [Next]_vars => StaleInv'
  BY NextStale
<1>2. StaleInv => OneStaleCallback
  BY DEF StaleInv, OneStaleCallback
<1> QED BY InitStale, <1>1, <1>2, PTL DEF Spec

-----------------------------------------------------------------------------
(* Reported times *)

\* GetPhasedVSync returns a time after the current one: the quotient of the
\* time since the last vsync is rounded down, and a frame is added.
LEMMA PhasedIsLater ==
  ASSUME NEW current \in Int, last_timestamp_ \in Int
  PROVE  /\ GetPhasedVSync(FrameNs, current) \in Int
         /\ GetPhasedVSync(FrameNs, current) > current
<1> DEFINE past == current - last_timestamp_
           q == past \div FrameNs
<1>0. FrameNs \in Int /\ FrameNs > 0 /\ past \in Int
  BY VSyncAssumption
<1>1. q \in Int /\ past < FrameNs * (q + 1)
  <2>1. past = FrameNs * q + (past % FrameNs) /\ (past % FrameNs) \in 0..(FrameNs - 1) /\ q \in Int
    BY <1>0
  <2>2. FrameNs * q + FrameNs = FrameNs * (q + 1)
    BY <1>0, <2>1
  <2> QED BY <1>0, <2>1, <2>2
<1>2. FrameNs * (q + 1) \in Int
  BY <1>0, <1>1
<1> QED BY <1>0, <1>1, <1>2 DEF GetPhasedVSync

\* The time that is going to be reported lies after the last one reported, and
\* no time is reported before it has come.
TimeInv ==
  /\ clock \in Nat /\ timestamp \in Int /\ reported \in Int /\ last_timestamp_ \in Int
  /\ reported <= clock
  /\ pc \in {"sleep", "callback"} => timestamp > reported
  /\ pc = "callback" => timestamp <= clock

LEMMA InitTime == Init => TimeInv
BY DEF Init, TimeInv

LEMMA NextTime ==
  ASSUME TimeInv, [Next]_vars
  PROVE  TimeInv'
<1> USE DEF TimeInv
<1>1. CASE Start \/ Close \/ ThreadStep
  BY <1>1 DEF Start, Close, ThreadStep, vsyncVars
<1>2. ASSUME NEW cb \in Callbacks, RegisterCallback(cb) PROVE TimeInv'
  BY <1>2 DEF RegisterCallback
<1>3. ASSUME NEW enabled \in BOOLEAN, VSyncControl(enabled) PROVE TimeInv'
  BY <1>3 DEF VSyncControl
<1>4. CASE VSyncControlSignal \/ Tick
  BY <1>4 DEF VSyncControlSignal, Tick
<1>5. CASE Routine \/ RoutineWoken
  BY <1>5 DEF Routine, RoutineWoken, CopyState
<1>6. CASE WaitVBlank
  <2>1. /\ GetPhasedVSync(FrameNs, clock) \in Int
        /\ GetPhasedVSync(FrameNs, clock) > clock
    BY PhasedIsLater
  <2> QED BY <1>6, <2>1 DEF WaitVBlank
<1>7. CASE SyntheticWaitVBlank
  BY <1>7 DEF SyntheticWaitVBlank
<1>8. CASE Callback
  BY <1>8 DEF Callback
<1>9. CASE RecordTimestamp
  BY <1>9 DEF RecordTimestamp
<1>10. CASE UNCHANGED vars
  BY <1>10 DEF vars, vsyncVars
<1> QED
  BY <1>1, <1>2, <1>3, <1>4, <1>5, <1>6, <1>7, <1>8, <1>9, <1>10
     DEF Next, RoutineStep

\* The timestamps passed to hwc_procs_t::vsync increase strictly, also when
\* VSyncControl resets last_timestamp_ between the computation and the report
\* and when hardware and synthetic vblanks alternate.
THEOREM MovesForward == Spec => TimestampsIncrease
<1>1. TimeInv /\ [Next]_vars => TimeInv'
  BY NextTime
<1>2. TimeInv /\ [Next]_vars => [pc = "callback" /\ pc' = "record" => timestamp > reported]_vars
  BY DEF TimeInv
<1> QED BY InitTime, <1>1, <1>2, PTL DEF Spec, TimestampsIncrease
=============================================================================
