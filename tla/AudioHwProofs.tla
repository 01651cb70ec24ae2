---------------------------- MODULE AudioHwProofs ----------------------------
(***************************************************************************)
(* For any number of threads and input streams and any calls:              *)
(*  - LocksInOrder: the mutexes are taken in the order audio_hw.h asks for;*)
(*  - ChosenInputStillActive: the input that the output side has chosen to *)
(*    reset is still the active one when it gets that input's lock;        *)
(*  - ClosedNotUsed: no call works on a stream that was closed;            *)
(*  - RoutesAreCounted: the reference counts of the sound devices are those*)
(*    of the use cases, and a mixer path is on while its device is counted;*)
(*  - StandbyHasReleased: a stream in standby holds no use case and no PCM;*)
(*  - MicHasFollowed: a voice communication input has the microphone that  *)
(*    goes with the output's device.                                       *)
(*                                                                         *)
(* Each has an inductive invariant that rests on the ones before it.       *)
(* LockInv ties the owner of every mutex to the place of the thread in its *)
(* call, in both directions.  InputInv needs it because only a holder of   *)
(* lock_inputs changes active_input, and who has chosen an input holds     *)
(* lock_inputs.  ClosedInv and StandbyInv need both, and MicInv needs all  *)
(* four: a wrong microphone is only ever seen while the input that has it  *)
(* is chosen, hence while lock_inputs is held.  RoutesInv is about         *)
(* the state of the HAL alone and needs no mutex: every operator that      *)
(* changes the use cases and the counts runs under adev->lock.             *)
(***************************************************************************)
EXTENDS AudioHw, FiniteSetTheorems, WellFoundedInduction, SequenceTheorems, TLAPS

-----------------------------------------------------------------------------
(* Who holds which mutex *)

\* Bodies that always run with lock_inputs held, and those that do if an input
\* is to be reset after them.
UnderInputs == {"write_start", "out_set_parameters", "read_start", "in_standby",
                "in_set_parameters", "add_effect", "remove_effect",
                "close_input", "force_input"}

MayReset == {"write_pcm", "out_standby"}

\* The bodies in which there may be an input to reset.
Resets(b) == b \in MayReset \/ b = "force_input"

Needs(c, b) == b \in UnderInputs \/ (b \in MayReset /\ c.in # NoStream)

\* A call in state c is in a section of lock_inputs.
Section(c) ==
  \/ c.pc \in {"pre", "lock"} /\ Needs(c, c.then)
  \/ c.pc \in Bodies /\ Needs(c, c.pc)

\* A thread waits for lock_inputs before a body that needs it, and for the lock
\* of a stream before a body; an input to reset is known only at the end of a
\* call.
WellFormed(c) ==
  /\ DOMAIN c = {"pc", "s", "on", "then", "in"}
  /\ c.pc \in {"idle", "inputs", "pre", "lock"} \cup Bodies
  /\ c.pc = "inputs" => c.then \in UnderInputs \ {"force_input"}
  /\ c.pc \in {"pre", "lock"} => c.then \in Bodies
  /\ c.in # NoStream => Resets(c.pc) \/ (c.pc \in {"pre", "lock"} /\ Resets(c.then))

PreLocks(c, s) == c.pc = "lock" /\ c.on = s
Locks(c, s) == c.pc \in Bodies /\ c.on = s

\* Where a thread is tells which mutexes it holds.
LockInv ==
  /\ DOMAIN call = Threads /\ DOMAIN lock = Streams /\ DOMAIN pre_lock = Streams
  /\ \A t \in Threads :
       /\ WellFormed(call[t])
       /\ lock_inputs = t <=> Section(call[t])
       /\ \A s \in Streams : /\ pre_lock[s] = t <=> PreLocks(call[t], s)
                             /\ lock[s] = t <=> Locks(call[t], s)

\* A step of thread t, seen from the mutexes: c is the new state of its call.
LockStep(t, c) ==
  /\ DOMAIN call' = Threads /\ call'[t] = c
  /\ \A u \in Threads \ {t} : call'[u] = call[u]
  /\ DOMAIN lock' = Streams /\ DOMAIN pre_lock' = Streams
  /\ WellFormed(c)
  /\ lock_inputs' = t <=> Section(c)
  /\ \A u \in Threads \ {t} : lock_inputs' = u <=> lock_inputs = u
  /\ \A s \in Streams :
       /\ pre_lock'[s] = t <=> PreLocks(c, s)
       /\ lock'[s] = t <=> Locks(c, s)
       /\ \A u \in Threads \ {t} : /\ pre_lock'[s] = u <=> pre_lock[s] = u
                                   /\ lock'[s] = u <=> lock[s] = u

LEMMA LockStepPreserves ==
  ASSUME LockInv, NEW t \in Threads, NEW c, LockStep(t, c)
  PROVE  LockInv'
<1>1. call'[t] = c /\ \A u \in Threads \ {t} : call'[u] = call[u]
  BY DEF LockStep, LockInv
<1>2. DOMAIN call' = Threads
  BY DEF LockStep, LockInv
<1>3. ASSUME NEW u \in Threads
      PROVE  /\ WellFormed(call'[u])
             /\ lock_inputs' = u <=> Section(call'[u])
             /\ \A s \in Streams : /\ pre_lock'[s] = u <=> PreLocks(call'[u], s)
                                   /\ lock'[s] = u <=> Locks(call'[u], s)
  <2>1. CASE u = t
    BY <1>1, <2>1 DEF LockStep
  <2>2. CASE u # t
    BY <1>1, <2>2 DEF LockStep, LockInv
  <2> QED BY <2>1, <2>2
<1> QED BY <1>2, <1>3 DEF LockStep, LockInv, WellFormed, Section, Needs, Resets, PreLocks, Locks

LEMMA InitLocks == Init => LockInv
BY AudioHwAssumption, StreamsAssumption
   DEF Init, LockInv, WellFormed, Section, PreLocks, Locks, Idle, Bodies

\* What the invariant says about the thread that takes a step.
LEMMA Mine ==
  ASSUME LockInv, NEW t \in Threads
  PROVE  /\ DOMAIN call[t] = {"pc", "s", "on", "then", "in"}
         /\ call[t].pc \in {"idle", "inputs", "pre", "lock"} \cup Bodies
         /\ call[t].pc = "inputs" => call[t].then \in UnderInputs \ {"force_input"}
         /\ call[t].pc \in {"pre", "lock"} => call[t].then \in Bodies
         /\ call[t].in # NoStream =>
              \/ Resets(call[t].pc)
              \/ call[t].pc \in {"pre", "lock"} /\ Resets(call[t].then)
         /\ lock_inputs = t <=> Section(call[t])
         /\ \A s \in Streams : /\ pre_lock[s] = t <=> PreLocks(call[t], s)
                               /\ lock[s] = t <=> Locks(call[t], s)
         /\ DOMAIN call = Threads /\ DOMAIN lock = Streams
         /\ DOMAIN pre_lock = Streams
         /\ t # NoThread
BY AudioHwAssumption DEF LockInv, WellFormed

LEMMA AcquireLocks ==
  ASSUME LockInv, NEW t \in Threads,
         AcquireInputs(t) \/ AcquirePreLock(t) \/ AcquireLock(t)
  PROVE  LockInv'
<1> SUFFICES LockStep(t, call'[t])
  BY LockStepPreserves
<1> USE Mine DEF LockStep, WellFormed, Section, Needs, PreLocks, Locks, Bodies,
                 UnderInputs, MayReset, Resets
<1>1. CASE AcquireInputs(t)
  BY <1>1 DEF AcquireInputs
<1>2. CASE AcquirePreLock(t)
  BY <1>2 DEF AcquirePreLock
<1>3. CASE AcquireLock(t)
  BY <1>3 DEF AcquireLock
<1> QED BY <1>1, <1>2, <1>3

\* out_write: the bodies between its locks.
LEMMA WriteLocks ==
  ASSUME LockInv, NEW t \in Threads,
         WriteCheck(t) \/ WriteStart(t) \/ WritePcm(t)
  PROVE  LockInv'
<1> SUFFICES LockStep(t, call'[t])
  BY LockStepPreserves
<1> USE Mine DEF LockStep, WellFormed, Section, Needs, PreLocks, Locks, Bodies,
                 UnderInputs, MayReset, Resets, Unlock, UnlockInputs
<1>1. CASE WriteCheck(t)
  <2>1. CASE stream[call[t].on].standby
    BY <1>1, <2>1 DEF WriteCheck, LockInputs
  <2>2. CASE ~ stream[call[t].on].standby
    BY <1>1, <2>2 DEF WriteCheck
  <2> QED BY <2>1, <2>2
<1>2. CASE WriteStart(t)
  <2>1. /\ call[t].pc = "write_start" /\ pre_lock' = pre_lock
        /\ \/ /\ lock_inputs' = NoThread /\ lock' = lock            \* false_alarm
              /\ call' = [call EXCEPT ![t].pc = "write_pcm"]
           \/ \E in : /\ lock_inputs' = IF in = NoStream THEN NoThread
                                        ELSE lock_inputs
                      /\ lock' = lock
                      /\ call' = [call EXCEPT ![t].pc = "write_pcm", ![t].in = in]
           \/ /\ lock_inputs' = NoThread
              /\ lock' = [lock EXCEPT ![call[t].on] = NoThread]
              /\ LockStream(t, call[t].on, "out_standby")
    BY <1>2 DEF WriteStart
  <2>2. CASE lock' = lock /\ call' = [call EXCEPT ![t].pc = "write_pcm"]
             /\ lock_inputs' = NoThread
    BY <2>1, <2>2
  <2>3. ASSUME NEW in, lock' = lock,
               lock_inputs' = IF in = NoStream THEN NoThread ELSE lock_inputs,
               call' = [call EXCEPT ![t].pc = "write_pcm", ![t].in = in]
        PROVE  LockStep(t, call'[t])
    BY <2>1, <2>3
  <2>4. CASE LockStream(t, call[t].on, "out_standby")
             /\ lock' = [lock EXCEPT ![call[t].on] = NoThread]
             /\ lock_inputs' = NoThread
    BY <2>1, <2>4 DEF LockStream
  <2> QED BY <2>1, <2>2, <2>3, <2>4
<1>3. CASE WritePcm(t)
  <2>1. CASE ForceInputStandby(t, call[t].in)
    BY <1>3, <2>1 DEF WritePcm, ForceInputStandby, Return, Idle
  <2>2. CASE LockStream(t, call[t].on, "out_standby")
    BY <1>3, <2>2 DEF WritePcm, LockStream
  <2> QED BY <1>3, <2>1, <2>2 DEF WritePcm
<1> QED BY <1>1, <1>2, <1>3

LEMMA OutputLocks ==
  ASSUME LockInv, NEW t \in Threads,
         OutStandby(t) \/ OutSetParameters(t) \/ ForceInput(t)
  PROVE  LockInv'
<1> SUFFICES LockStep(t, call'[t])
  BY LockStepPreserves
<1> USE Mine DEF LockStep, WellFormed, Section, Needs, PreLocks, Locks, Bodies,
                 UnderInputs, MayReset, Resets, Unlock, UnlockInputs,
                 ForceInputStandby, Return, Idle
<1>1. CASE OutStandby(t)
  BY <1>1 DEF OutStandby
<1>2. CASE OutSetParameters(t)
  <2>1. PICK in : /\ lock_inputs' = IF in = NoStream THEN NoThread ELSE lock_inputs
                  /\ ForceInputStandby(t, in)
    BY <1>2 DEF OutSetParameters
  <2>2. /\ call[t].pc = "out_set_parameters" /\ pre_lock' = pre_lock
        /\ lock' = [lock EXCEPT ![call[t].on] = NoThread]
    BY <1>2 DEF OutSetParameters
  <2> QED BY <2>1, <2>2
<1>3. CASE ForceInput(t)
  BY <1>3 DEF ForceInput
<1> QED BY <1>1, <1>2, <1>3

LEMMA InputLocks ==
  ASSUME LockInv, NEW t \in Threads,
         \/ ReadCheck(t) \/ ReadStart(t) \/ ReadPcm(t)
         \/ InStandby(t) \/ InSetParameters(t)
         \/ AddEffect(t) \/ RemoveEffect(t) \/ CloseInput(t)
  PROVE  LockInv'
<1> SUFFICES LockStep(t, call'[t])
  BY LockStepPreserves
<1> USE Mine DEF LockStep, WellFormed, Section, Needs, PreLocks, Locks, Bodies,
                 UnderInputs, MayReset, Resets, Unlock, UnlockInputs, LockInputs,
                 Return, Idle
<1>1. CASE ReadCheck(t)
  BY <1>1 DEF ReadCheck
<1>2. CASE ReadStart(t)
  <2>1. /\ call[t].pc = "read_start" /\ pre_lock' = pre_lock
        /\ lock_inputs' = NoThread
        /\ \/ lock' = lock /\ call' = [call EXCEPT ![t].pc = "read_pcm"]
           \/ /\ lock' = [lock EXCEPT ![call[t].on] = NoThread]
              /\ LockInputs(t, call[t].on, "in_standby")
    BY <1>2 DEF ReadStart
  <2> QED BY <2>1
<1>3. CASE ReadPcm(t)
  BY <1>3 DEF ReadPcm
<1>4. CASE InStandby(t)
  BY <1>4 DEF InStandby
<1>5. CASE InSetParameters(t)
  <2>1. /\ call[t].pc = "in_set_parameters" /\ pre_lock' = pre_lock
        /\ lock' = [lock EXCEPT ![call[t].on] = NoThread]
        /\ lock_inputs' = NoThread /\ Return(t)
    BY <1>5 DEF InSetParameters
  <2> QED BY <2>1
<1>6. CASE AddEffect(t)
  <2>1. /\ call[t].pc = "add_effect" /\ pre_lock' = pre_lock
        /\ lock' = [lock EXCEPT ![call[t].on] = NoThread]
        /\ lock_inputs' = NoThread /\ Return(t)
    BY <1>6 DEF AddEffect
  <2> QED BY <2>1
<1>7. CASE RemoveEffect(t)
  BY <1>7 DEF RemoveEffect
<1>8. CASE CloseInput(t)
  BY <1>8 DEF CloseInput
<1> QED BY <1>1, <1>2, <1>3, <1>4, <1>5, <1>6, <1>7, <1>8

\* Every step of the HAL or of its callers keeps the invariant.
LEMMA NextLocks == LockInv /\ [Next]_vars => LockInv'
<1> SUFFICES ASSUME LockInv, [Next]_vars PROVE LockInv'
  OBVIOUS
<1>1. CASE UNCHANGED vars
  BY <1>1 DEF vars, LockInv, WellFormed, Section, Needs, Resets, PreLocks, Locks
<1>2. ASSUME NEW t \in Threads, Step(t) PROVE LockInv'
  BY <1>2, AcquireLocks, WriteLocks, OutputLocks, InputLocks DEF Step
<1>3. ASSUME NEW t \in Threads, NEW s \in Streams,
             NEW f \in EntryPoints \ {"open_input"}, Begin(t, s, f)
      PROVE  LockInv'
  <2> SUFFICES LockStep(t, call'[t])
    BY LockStepPreserves
  <2> QED BY <1>3, Mine
      DEF Begin, LockStep, WellFormed, Section, Needs, PreLocks, Locks, Bodies,
          UnderInputs, MayReset, Resets, EntryPoints, lockVars
<1>4. ASSUME NEW t \in Threads, OpenCall(t) PROVE LockInv'
  BY <1>4 DEF OpenCall, OpenInput, lockVars, LockInv, WellFormed, Section, Needs,
              Resets, PreLocks, Locks
<1> QED BY <1>1, <1>2, <1>3, <1>4 DEF Next, CallHal

\* What LockInv is for: the documented order of the mutexes.
LEMMA LocksOrdered == LockInv => LockOrder
<1> SUFFICES ASSUME LockInv, NEW t \in Threads,
                    NEW w \in Wanted(t), NEW m \in Held(t)
             PROVE  Rank(m) < Rank(w)
  BY DEF LockOrder
<1> USE Mine DEF Section, Needs, PreLocks, Locks, Bodies
<1>1. CASE call[t].pc = "inputs"
  BY <1>1 DEF Held, Wanted
<1>2. CASE call[t].pc = "pre"
  BY <1>2 DEF Held, Wanted, Rank
<1>3. CASE call[t].pc = "lock"
  BY <1>3 DEF Held, Wanted, Rank
<1> QED BY <1>1, <1>2, <1>3 DEF Wanted

\* audio_hw.h, "when multiple mutexes have to be acquired, always take the
\* lock_inputs, stream_in, stream_out": for any number of threads and input
\* streams and any calls, no thread asks for a mutex out of order.
THEOREM LocksInOrder == Spec => []LockOrder
<1>1. LockInv /\ [Next]_vars => LockInv'
  BY NextLocks
<1> QED BY <1>1, InitLocks, LocksOrdered, PTL DEF Spec

-----------------------------------------------------------------------------
(* The input that out_write and out_set_parameters put in standby *)

AdevFields == {"active_input", "usecase_list", "snd_dev_ref_cnt", "route"}
IsAdev(a) == DOMAIN a = AdevFields
IsHal(h) == DOMAIN h = {"adev", "stream", "alsa"} /\ IsAdev(h.adev)

\* g is a state of the HAL with the active input of h.
SameInput(g, h) == IsHal(g) /\ g.adev.active_input = h.adev.active_input

LEMMA SndDevices_ActiveInput ==
  ASSUME NEW a, IsAdev(a), NEW uc, NEW d
  PROVE  /\ IsAdev(enable_snd_device(a, uc, d))
         /\ enable_snd_device(a, uc, d).active_input = a.active_input
         /\ IsAdev(disable_snd_device(a, uc, d))
         /\ disable_snd_device(a, uc, d).active_input = a.active_input
BY DEF enable_snd_device, disable_snd_device, IsAdev, AdevFields

LEMMA Switch_ActiveInput ==
  ASSUME NEW a, IsAdev(a), NEW i, NEW out, NEW in
  PROVE  /\ IsAdev(switch_devices(a, i, out, in))
         /\ switch_devices(a, i, out, in).active_input = a.active_input
<1> DEFINE uc == a.usecase_list[i]
           off1 == disable_snd_device(a, uc, uc.out_snd_device)
           off == disable_snd_device(off1, uc, uc.in_snd_device)
           on1 == enable_snd_device(off, uc, out)
           on == enable_snd_device(on1, uc, in)
<1>1. IsAdev(off1) /\ off1.active_input = a.active_input
  BY SndDevices_ActiveInput
<1>2. IsAdev(off) /\ off.active_input = a.active_input
  BY <1>1, SndDevices_ActiveInput
<1>3. IsAdev(on1) /\ on1.active_input = a.active_input
  BY <1>2, SndDevices_ActiveInput
<1>4. IsAdev(on) /\ on.active_input = a.active_input
  BY <1>3, SndDevices_ActiveInput
<1> HIDE DEF on
<1>5. /\ IsAdev([on EXCEPT !.usecase_list[i].out_snd_device = out,
                           !.usecase_list[i].in_snd_device = in])
      /\ [on EXCEPT !.usecase_list[i].out_snd_device = out,
                    !.usecase_list[i].in_snd_device = in].active_input
         = a.active_input
  BY <1>4 DEF IsAdev, AdevFields
<1> USE DEF on
<1> QED BY <1>5 DEF switch_devices

LEMMA Select_ActiveInput ==
  ASSUME NEW h, IsHal(h), NEW s
  PROVE  SameInput(select_devices(h, AUDIO_USECASE(s)), h)
<1>1. ASSUME NEW g, IsHal(g) PROVE SameInput(select_capture(g), g)
  BY <1>1, Switch_ActiveInput DEF select_capture, SameInput, IsHal
<1>2. SameInput(select_playback(h), h)
  <2> DEFINE in == active_input(h.adev)
             h1 == IF in \in Captures /\ h.stream[in].source = "voice_communication"
                   THEN select_capture(h) ELSE h
  <2>1. SameInput(h1, h)
    BY <1>1 DEF SameInput
  <2> HIDE DEF h1
  <2>2. ASSUME NEW i, NEW out
        PROVE  SameInput([h1 EXCEPT !.adev = switch_devices(@, i, out, SND_DEVICE_NONE)], h)
    BY <2>1, Switch_ActiveInput DEF SameInput, IsHal
  <2> USE DEF h1
  <2> QED BY <2>2 DEF select_playback, SameInput
<1> QED BY <1>1, <1>2 DEF select_devices, AUDIO_USECASE, SameInput

LEMMA Pcm_ActiveInput ==
  ASSUME NEW h, IsHal(h), NEW s, NEW device, NEW ready
  PROVE  /\ SameInput(close_pcm_devices(h, s), h)
         /\ SameInput(pcm_open(h, s, device, ready).h, h)
BY DEF close_pcm_devices, pcm_open, SameInput, IsHal

LEMMA StopOutput_ActiveInput ==
  ASSUME NEW h, IsHal(h), NEW s
  PROVE  SameInput(stop_output_stream(h, s), h)
<1> DEFINE i == get_usecase_from_id(h.adev, AUDIO_USECASE(s))
           uc == h.adev.usecase_list[i]
           a == disable_snd_device(h.adev, uc, uc.out_snd_device)
<1>1. IsAdev(a) /\ a.active_input = h.adev.active_input
  BY SndDevices_ActiveInput DEF IsHal
<1> HIDE DEF a
<1>2. SameInput([h EXCEPT !.adev = [a EXCEPT !.usecase_list = RemoveAt(@, i)],
                          !.stream[s].pcm = NO_PCM], h)
  BY <1>1 DEF SameInput, IsHal, IsAdev, AdevFields
<1> USE DEF a
<1> QED BY <1>2 DEF stop_output_stream, SameInput

\* The output's functions leave the active input alone.
LEMMA Output_ActiveInput ==
  ASSUME NEW h, IsHal(h), NEW s, NEW ready
  PROVE  /\ SameInput(start_output_stream(h, s, ready).h, h)
         /\ SameInput(do_out_standby_l(h, s), h)
<1>1. SameInput(do_out_standby_l(h, s), h)
  <2>1. SameInput([h EXCEPT !.stream[s].standby = TRUE], h)
    BY DEF SameInput, IsHal
  <2>2. SameInput(close_pcm_devices([h EXCEPT !.stream[s].standby = TRUE], s), h)
    BY <2>1, Pcm_ActiveInput DEF SameInput
  <2> QED BY <2>2, StopOutput_ActiveInput DEF do_out_standby_l, SameInput
<1>2. SameInput(enable_output_path_l(h, s), h)
  <2>1. ASSUME NEW pcm, NEW uc
        PROVE  SameInput(select_devices([h EXCEPT !.stream[s].pcm = pcm,
                                         !.adev.usecase_list = Append(@, uc)],
                                        AUDIO_USECASE(s)), h)
    <3>1. SameInput([h EXCEPT !.stream[s].pcm = pcm,
                              !.adev.usecase_list = Append(@, uc)], h)
      BY DEF SameInput, IsHal, IsAdev, AdevFields
    <3> QED BY <3>1, Select_ActiveInput DEF SameInput
  <2> QED BY <2>1 DEF enable_output_path_l
<1>3. SameInput(start_output_stream(h, s, ready).h, h)
  <2> DEFINE h1 == enable_output_path_l(h, s)
             device == get_pcm_device(s, h.stream[s].devices)
             opened == pcm_open(h1, s, device, ready)
  <2>1. SameInput(opened.h, h)
    BY <1>2, Pcm_ActiveInput DEF SameInput
  <2>2. SameInput(stop_output_stream(opened.h, s), h)
    BY <2>1, StopOutput_ActiveInput DEF SameInput
  <2> QED BY <1>2, <2>1, <2>2 DEF start_output_stream
<1> QED BY <1>1, <1>3

\* The input's functions keep the fields of adev.
LEMMA StopInput_Fields ==
  ASSUME NEW h, IsHal(h), NEW s
  PROVE  IsHal(stop_input_stream(h, s))
<1> DEFINE i == get_usecase_from_id(h.adev, AUDIO_USECASE(s))
           uc == h.adev.usecase_list[i]
           a == [h.adev EXCEPT !.active_input = NoStream]
           b == disable_snd_device(a, uc, uc.in_snd_device)
<1>1. IsAdev(a)
  BY DEF IsHal, IsAdev
<1>2. IsAdev(b)
  BY <1>1, SndDevices_ActiveInput
<1> HIDE DEF a, b
<1>3. /\ IsHal([h EXCEPT !.adev = a])
      /\ IsHal([h EXCEPT !.adev = [b EXCEPT !.usecase_list = RemoveAt(@, i)],
                         !.stream[s].pcm = NO_PCM])
  BY <1>1, <1>2 DEF IsHal, IsAdev
<1> USE DEF a, b
<1> QED BY <1>3 DEF stop_input_stream

LEMMA Input_Fields ==
  ASSUME NEW h, IsHal(h), NEW s, NEW ready, NEW resampler
  PROVE  /\ IsHal(start_input_stream(h, s, ready, resampler).h)
         /\ IsHal(do_in_standby_l(h, s))
<1>1. IsHal(do_in_standby_l(h, s))
  <2>1. IsHal(stop_input_stream(close_pcm_devices(h, s), s))
    BY Pcm_ActiveInput, StopInput_Fields DEF SameInput
  <2> QED BY <2>1 DEF do_in_standby_l, IsHal
<1>2. IsHal(start_input_stream(h, s, ready, resampler).h)
  <2> DEFINE device == get_pcm_device(s, h.stream[s].devices)
             st == h.stream[s]
             h0 == [h EXCEPT !.adev.active_input = s,
                             !.adev.usecase_list = Append(@, NewUsecase(s, TRUE)),
                             !.stream[s].pcm = CLOSED_PCM]
             h1 == select_devices(h0, AUDIO_USECASE(s))
             h2 == [h1 EXCEPT !.stream[s].channels =
                      IF st.aux_channels_changed THEN st.aux_channels
                      ELSE ProfileChannels(s)]
             opened == pcm_open(h2, s, device, ready)
  <2>1. IsHal(h0)
    BY DEF IsHal, IsAdev
  <2>2. IsHal(h1)
    BY <2>1, Select_ActiveInput DEF SameInput
  <2> HIDE DEF h1
  <2>3. IsHal(h2)
    BY <2>2 DEF IsHal
  <2>4. IsHal(opened.h) /\ IsHal(stop_input_stream(opened.h, s))
    BY <2>3, Pcm_ActiveInput, StopInput_Fields DEF SameInput
  <2>5. IsHal([h EXCEPT !.adev.active_input = NoStream])
    BY DEF IsHal, IsAdev
  <2> USE DEF h1
  <2> QED BY <2>4, <2>5 DEF start_input_stream
<1> QED BY <1>1, <1>2

\* The input a call has chosen is the active one, and it is the one whose lock
\* the call ends with.
Chosen(c, a) == c.in # NoStream => c.in = a.active_input

Forced(c) ==
  (c.pc = "force_input" \/ (c.pc \in {"pre", "lock"} /\ c.then = "force_input"))
  => c.on = c.in /\ c.in # NoStream

InputInv ==
  /\ IsAdev(adev)
  /\ \A t \in Threads : Chosen(call[t], adev) /\ Forced(call[t])

\* A step of thread t, seen from the active input: only who holds lock_inputs
\* changes it.
InputStep(t) ==
  /\ IsAdev(adev')
  /\ lock_inputs = t \/ adev'.active_input = adev.active_input
  /\ Chosen(call'[t], adev') /\ Forced(call'[t])
  /\ \A u \in Threads \ {t} : call'[u] = call[u]

LEMMA InputStepPreserves ==
  ASSUME LockInv, InputInv, NEW t \in Threads, InputStep(t)
  PROVE  InputInv'
<1>1. ASSUME NEW u \in Threads \ {t}, call[u].in # NoStream
      PROVE  lock_inputs = u
  BY <1>1, Mine DEF Section, Needs, Resets, UnderInputs, MayReset, Bodies
<1>2. ASSUME NEW u \in Threads
      PROVE  Chosen(call'[u], adev') /\ Forced(call'[u])
  <2>1. CASE u = t
    BY <2>1 DEF InputStep
  <2>2. CASE u # t
    BY <1>1, <2>2 DEF InputStep, InputInv, Chosen
  <2> QED BY <2>1, <2>2
<1> QED BY <1>2 DEF InputInv, InputStep, IsAdev, Chosen, Forced

LEMMA HalIsHal == ASSUME InputInv PROVE IsHal(HAL) /\ HAL.adev = adev
BY DEF HAL, IsHal, InputInv

LEMMA WriteInputs ==
  ASSUME LockInv, InputInv, NEW t \in Threads,
         WriteCheck(t) \/ WriteStart(t) \/ WritePcm(t)
  PROVE  InputStep(t)
<1> USE Mine DEF InputInv, InputStep, Chosen, Forced, Bodies, Resets, MayReset
<1>1. CASE WriteCheck(t)
  BY <1>1 DEF WriteCheck, LockInputs, halVars
<1>2. CASE WriteStart(t)
  <2>0. call[t].pc = "write_start" /\ lock_inputs = t /\ call[t].in = NoStream
    BY <1>2 DEF WriteStart, Section, Needs, UnderInputs
  <2>1. CASE call' = [call EXCEPT ![t].pc = "write_pcm"] /\ adev' = adev
    BY <2>0, <2>1
  <2>2. ASSUME NEW ready,
               LET r == start_output_stream(HAL, call[t].on, ready) IN
               \/ /\ Become([r.h EXCEPT !.stream[call[t].on].standby = FALSE])
                  /\ call' = [call EXCEPT ![t].pc = "write_pcm",
                                          ![t].in = InputToReset(r.h.adev)]
               \/ Become(r.h) /\ LockStream(t, call[t].on, "out_standby")
        PROVE  InputStep(t)
    <3> DEFINE h == start_output_stream(HAL, call[t].on, ready).h
    <3>1. IsHal(h)
      BY HalIsHal, Output_ActiveInput DEF SameInput
    <3> HIDE DEF h
    <3>2. CASE /\ Become([h EXCEPT !.stream[call[t].on].standby = FALSE])
               /\ call' = [call EXCEPT ![t].pc = "write_pcm",
                                       ![t].in = InputToReset(h.adev)]
      <4>1. adev' = h.adev
        BY <3>1, <3>2 DEF IsHal, Become
      <4> QED BY <2>0, <3>1, <3>2, <4>1 DEF IsHal, InputToReset
    <3>3. CASE Become(h) /\ LockStream(t, call[t].on, "out_standby")
      BY <2>0, <3>1, <3>3 DEF IsHal, Become, LockStream
    <3> USE DEF h
    <3> QED BY <2>2, <3>2, <3>3
  <2>3. ASSUME stream[call[t].on].standby
        PROVE  \E ready :
                 LET r == start_output_stream(HAL, call[t].on, ready) IN
                 \/ /\ Become([r.h EXCEPT !.stream[call[t].on].standby = FALSE])
                    /\ call' = [call EXCEPT ![t].pc = "write_pcm",
                                            ![t].in = InputToReset(r.h.adev)]
                 \/ Become(r.h) /\ LockStream(t, call[t].on, "out_standby")
    <3>1. PICK r \in {start_output_stream(HAL, call[t].on, ready) :
                        ready \in May("pcm_open")} :
            \/ /\ Become([r.h EXCEPT !.stream[call[t].on].standby = FALSE])
               /\ call' = [call EXCEPT ![t].pc = "write_pcm",
                                       ![t].in = InputToReset(r.h.adev)]
            \/ Become(r.h) /\ LockStream(t, call[t].on, "out_standby")
      BY <1>2, <2>3, Zenon DEF WriteStart
    <3>2. PICK ready \in May("pcm_open") : r = start_output_stream(HAL, call[t].on, ready)
      BY <3>1
    <3> WITNESS ready
    <3> QED BY <3>1, <3>2
  <2> QED BY <1>2, <2>1, <2>2, <2>3 DEF WriteStart, halVars
<1>3. CASE WritePcm(t)
  <2>1. CASE ForceInputStandby(t, call[t].in)
    BY <1>3, <2>1 DEF WritePcm, ForceInputStandby, Return, Idle, halVars
  <2>2. CASE LockStream(t, call[t].on, "out_standby")
    BY <1>3, <2>2 DEF WritePcm, LockStream, halVars
  <2> QED BY <1>3, <2>1, <2>2 DEF WritePcm
<1> QED BY <1>1, <1>2, <1>3

LEMMA OutputInputs ==
  ASSUME LockInv, InputInv, NEW t \in Threads,
         OutStandby(t) \/ OutSetParameters(t) \/ ForceInput(t)
  PROVE  InputStep(t)
<1> USE Mine, HalIsHal DEF InputInv, InputStep, Chosen, Forced, Bodies, Resets,
                           MayReset
<1>1. CASE OutStandby(t)
  <2>1. IsAdev(adev') /\ adev'.active_input = adev.active_input
    <3>1. SameInput(do_out_standby_l(HAL, call[t].on), HAL)
      BY Output_ActiveInput
    <3> QED BY <1>1, <3>1 DEF OutStandby, Become, SameInput, IsHal, halVars
  <2> QED BY <1>1, <2>1 DEF OutStandby, ForceInputStandby, Return, Idle
<1>2. CASE OutSetParameters(t)
  <2>0. call[t].pc = "out_set_parameters" /\ lock_inputs = t
    BY <1>2 DEF OutSetParameters, Section, Needs, UnderInputs
  <2>1. PICK val \in OutRoutings :
          LET s == call[t].on
              old == stream[s]
              in == IF old.devices # val /\ ~ old.standby
                    THEN InputToReset(adev) ELSE NoStream
              h == [HAL EXCEPT !.stream[s].devices = val]
          IN /\ Become(IF old.standby THEN h
                       ELSE IF old.devices # val THEN do_out_standby_l(h, s)
                       ELSE select_devices(h, AUDIO_USECASE(s)))
             /\ ForceInputStandby(t, in)
    BY <1>2 DEF OutSetParameters
  <2> DEFINE s == call[t].on
             h == [HAL EXCEPT !.stream[s].devices = val]
  <2>2. SameInput(h, HAL)
    BY DEF SameInput, IsHal
  <2> HIDE DEF h
  <2>3. SameInput(do_out_standby_l(h, s), HAL)
    BY <2>2, Output_ActiveInput DEF SameInput
  <2>4. SameInput(select_devices(h, AUDIO_USECASE(s)), HAL)
    BY <2>2, Select_ActiveInput DEF SameInput
  <2>5. IsAdev(adev') /\ adev'.active_input = adev.active_input
    <3>1. adev' \in {h.adev, do_out_standby_l(h, s).adev,
                     select_devices(h, AUDIO_USECASE(s)).adev}
      BY <2>1 DEF h, Become
    <3> QED BY <2>2, <2>3, <2>4, <3>1 DEF SameInput, IsHal
  <2>6. CASE ForceInputStandby(t, InputToReset(adev))
    BY <2>0, <2>5, <2>6 DEF InputToReset, ForceInputStandby, Return, Idle
  <2>7. CASE ForceInputStandby(t, NoStream)
    BY <2>0, <2>5, <2>7 DEF ForceInputStandby, Return, Idle
  <2> QED BY <2>1, <2>6, <2>7
<1>3. CASE ForceInput(t)
  <2>1. IsAdev(adev')
    <3>1. IsHal(do_in_standby_l(HAL, call[t].on))
      BY Input_Fields
    <3> QED BY <1>3, <3>1 DEF ForceInput, Become, IsHal
  <2> QED BY <1>3, <2>1 DEF ForceInput, Return, Idle, Section, Needs, UnderInputs
<1> QED BY <1>1, <1>2, <1>3

LEMMA InputInputs ==
  ASSUME LockInv, InputInv, NEW t \in Threads,
         \/ ReadCheck(t) \/ ReadStart(t) \/ ReadPcm(t)
         \/ InStandby(t) \/ InSetParameters(t)
         \/ AddEffect(t) \/ RemoveEffect(t) \/ CloseInput(t)
  PROVE  InputStep(t)
<1> USE Mine DEF InputInv, InputStep, Chosen, Forced, Bodies, Resets, MayReset,
                 LockInputs, Return, Idle
<1>1. CASE ReadCheck(t)
  BY <1>1 DEF ReadCheck, halVars
<1>2. CASE ReadPcm(t)
  BY <1>2 DEF ReadPcm
<1>3. CASE ReadStart(t)
  <2>1. IsAdev(adev')
    BY <1>3, HalIsHal, Input_Fields DEF ReadStart, Become, IsHal, halVars
  <2>2. lock_inputs = t /\ call[t].in = NoStream
    BY <1>3 DEF ReadStart, Section, Needs, UnderInputs
  <2>3. \/ call' = [call EXCEPT ![t].pc = "read_pcm"]
        \/ LockInputs(t, call[t].on, "in_standby")
    BY <1>3 DEF ReadStart
  <2> QED BY <2>1, <2>2, <2>3
<1>4. CASE \/ InStandby(t) \/ InSetParameters(t)
           \/ AddEffect(t) \/ RemoveEffect(t) \/ CloseInput(t)
  <2>1. lock_inputs = t
    BY <1>4 DEF InStandby, InSetParameters, AddEffect, RemoveEffect, CloseInput,
                Section, Needs, UnderInputs
  <2>2. Return(t)
    BY <1>4 DEF InStandby, InSetParameters, AddEffect, RemoveEffect, CloseInput
  <2>3. IsAdev(adev')
    <3>1. CASE InStandby(t)
      BY <3>1, HalIsHal, Input_Fields DEF InStandby, Become, IsHal
    <3>2. CASE InSetParameters(t)
      <4>1. ASSUME NEW val \in InRoutings, NEW source \in InSources,
              LET s == call[t].on
                  old == stream[s]
                  new == IF old.standby /\ s \in Captures THEN source ELSE old.source
                  h == [HAL EXCEPT !.stream[s].source = new, !.stream[s].devices = val]
              IN Become(IF old.standby \/ old.devices = val THEN h
                        ELSE IF old.pcm # NO_PCM /\ profile_devices(s) \cap val = {}
                        THEN do_in_standby_l(h, s)
                        ELSE select_devices(h, AUDIO_USECASE(s)))
            PROVE  IsAdev(adev')
        <5> DEFINE s == call[t].on
                   old == stream[s]
                   new == IF old.standby /\ s \in Captures THEN source ELSE old.source
                   h == [HAL EXCEPT !.stream[s].source = new, !.stream[s].devices = val]
        <5>1. IsHal(h)
          BY HalIsHal DEF IsHal
        <5>2. adev' \in {h.adev, do_in_standby_l(h, s).adev,
                         select_devices(h, AUDIO_USECASE(s)).adev}
          BY <4>1 DEF Become
        <5> HIDE DEF h
        <5>3. /\ IsHal(do_in_standby_l(h, s))
              /\ IsHal(select_devices(h, AUDIO_USECASE(s)))
          BY <5>1, Input_Fields, Select_ActiveInput DEF SameInput
        <5> QED BY <5>1, <5>2, <5>3 DEF IsHal
      <4> QED BY <3>2, <4>1 DEF InSetParameters
    <3>3. CASE AddEffect(t)
      <4>1. CASE UNCHANGED halVars
        BY <4>1 DEF halVars
      <4>2. ASSUME NEW configured \in May("effect"),
              LET s == call[t].on
                  st == stream[s]
                  aux == aux_channels(st, configured)
                  h == [HAL EXCEPT !.stream[s].num_preprocessors = @ + 1,
                                   !.stream[s].aux_channels = aux,
                                   !.stream[s].aux_channels_changed = TRUE]
              IN Become(IF aux # st.aux_channels THEN do_in_standby_l(h, s) ELSE h)
            PROVE  IsAdev(adev')
        <5> DEFINE s == call[t].on
                   aux == aux_channels(stream[s], configured)
                   h == [HAL EXCEPT !.stream[s].num_preprocessors = @ + 1,
                                    !.stream[s].aux_channels = aux,
                                    !.stream[s].aux_channels_changed = TRUE]
        <5>1. IsHal(h)
          BY HalIsHal DEF IsHal
        <5>2. adev' \in {h.adev, do_in_standby_l(h, s).adev}
          BY <4>2 DEF Become
        <5> HIDE DEF h
        <5>3. IsHal(do_in_standby_l(h, s))
          BY <5>1, Input_Fields
        <5> QED BY <5>1, <5>2, <5>3 DEF IsHal
      <4> QED BY <3>3, <4>1, <4>2 DEF AddEffect
    <3>4. CASE RemoveEffect(t)
      BY <3>4, HalIsHal DEF RemoveEffect, Become, IsHal, halVars
    <3>5. CASE CloseInput(t)
      <4>1. IsHal(do_in_standby_l(HAL, call[t].on))
        BY HalIsHal, Input_Fields
      <4> QED BY <3>5, <4>1 DEF CloseInput, Become, IsHal
    <3> QED BY <1>4, <3>1, <3>2, <3>3, <3>4, <3>5
  <2> QED BY <2>1, <2>2, <2>3
<1> QED BY <1>1, <1>2, <1>3, <1>4

LEMMA NextInputs == LockInv /\ InputInv /\ [Next]_vars => InputInv'
<1> SUFFICES ASSUME LockInv, InputInv, [Next]_vars PROVE InputInv'
  OBVIOUS
<1>1. CASE UNCHANGED vars
  BY <1>1 DEF vars, InputInv, IsAdev, Chosen, Forced
<1>2. ASSUME NEW t \in Threads, Step(t) PROVE InputStep(t)
  <2>1. CASE AcquireInputs(t) \/ AcquirePreLock(t) \/ AcquireLock(t)
    <3> USE Mine DEF InputInv, InputStep, Chosen, Forced, Bodies, Resets, halVars
    <3>1. CASE AcquireInputs(t)
      BY <3>1 DEF AcquireInputs, UnderInputs, MayReset
    <3>2. CASE AcquirePreLock(t)
      BY <3>2 DEF AcquirePreLock
    <3>3. CASE AcquireLock(t)
      BY <3>3 DEF AcquireLock
    <3> QED BY <2>1, <3>1, <3>2, <3>3
  <2> QED BY <1>2, <2>1, WriteInputs, OutputInputs, InputInputs DEF Step
<1>3. ASSUME NEW t \in Threads, CallHal(t) PROVE InputStep(t)
  BY <1>3, Mine DEF CallHal, Begin, InputInv, InputStep, Chosen, Forced, EntryPoints,
                    halVars
<1>4. ASSUME NEW t \in Threads, OpenCall(t) PROVE InputStep(t)
  BY <1>4 DEF OpenCall, OpenInput, InputInv, InputStep
<1> QED BY <1>1, <1>2, <1>3, <1>4, InputStepPreserves DEF Next

\* LOG_ALWAYS_FATAL_IF(in != adev->active_input) in out_write and
\* out_set_parameters never fires, for any number of threads and input streams,
\* whatever fails: lock_inputs keeps the chosen input the active one.
THEOREM ChosenInputStillActive == Spec => []InputStillActive
<1>1. Init => LockInv /\ InputInv
  BY InitLocks DEF Init, InputInv, IsAdev, AdevFields, Chosen, Forced, Idle
<1>2. LockInv /\ InputInv /\ [Next]_vars => LockInv' /\ InputInv'
  BY NextLocks, NextInputs
<1>3. LockInv /\ InputInv => InputStillActive
  BY DEF InputInv, Chosen, Forced, InputStillActive
<1> QED BY <1>1, <1>2, <1>3, PTL DEF Spec

-----------------------------------------------------------------------------
(* Closed inputs *)

\* What a call does, or waits for the lock to do.
Now(c) == IF c.pc \in {"inputs", "pre", "lock"} THEN c.then ELSE c.pc

OutBodies == OutFunctions \cup {"write_start", "write_pcm"}
InBodies == Bodies \ (OutBodies \cup {"force_input"})

\* A call works on the stream it was made on, of the right direction, until it
\* resets an input; who is to close a stream has not been sidetracked.
Placed(c) ==
  /\ c.pc = "idle" => c.s = NoStream /\ c.on = NoStream
  /\ Now(c) \in OutBodies => c.on = primary_output
  /\ Now(c) \in InBodies => c.on \in Ins /\ c.s = c.on
  /\ Now(c) = "close_input" => c.then = "close_input"

\* The framework closes a stream when no other call was made on it.
SoleCloser ==
  \A t, u \in Threads :
    t # u /\ call[t].s = call[u].s /\ call[t].s # NoStream
    => call[t].then # "close_input"

StreamFields == {"open", "standby", "devices", "source", "pcm", "channels",
                 "num_preprocessors", "aux_channels", "aux_channels_changed"}

IsStreams(st) == DOMAIN st = Streams /\ \A s \in Streams : DOMAIN st[s] = StreamFields

\* The input is out of standby, or in_read has started it and is about to say so.
Started(s) == \/ ~ stream[s].standby
              \/ \E t \in Threads : call[t].pc = "read_pcm" /\ call[t].on = s

\* create_resampler does not fail; after a failure of it start_input_stream leaves
\* an input active that is still in standby.
ResamplerWorks == "resampler" \notin Env

ActiveOpen ==
  adev.active_input # NoStream =>
    /\ adev.active_input \in Ins
    /\ ResamplerWorks => /\ stream[adev.active_input].open
                         /\ Started(adev.active_input)

\* NoClosedStream with what it rests on: a stream that is closed is the active
\* input only if it is out of standby, and then the standby that comes first
\* takes it off.
ClosedInv ==
  /\ IsStreams(stream)
  /\ \A t \in Threads :
       /\ Placed(call[t])
       /\ call[t].on # NoStream => /\ call[t].on \in Streams
                                   /\ ResamplerWorks => stream[call[t].on].open
  /\ SoleCloser
  /\ ActiveOpen

IsWhole(h) == IsHal(h) /\ IsStreams(h.stream)

\* g is a state of the HAL that opens, closes, starts and routes no stream of h.
SameFlags(g, h) ==
  /\ IsWhole(g)
  /\ \A s \in Streams : /\ g.stream[s].open = h.stream[s].open
                        /\ g.stream[s].standby = h.stream[s].standby
                        /\ g.stream[s].devices = h.stream[s].devices
                        /\ g.stream[s].source = h.stream[s].source

LEMMA SetPcm_Flags ==
  ASSUME NEW h, IsWhole(h), NEW s, NEW x
  PROVE  /\ SameFlags([h EXCEPT !.stream[s].pcm = x], h)
         /\ SameFlags([h EXCEPT !.stream[s].channels = x], h)
BY DEF SameFlags, IsWhole, IsHal, IsStreams, StreamFields

LEMMA SetAdev_Flags ==
  ASSUME NEW h, IsWhole(h), NEW a, IsAdev(a)
  PROVE  /\ SameFlags([h EXCEPT !.adev = a], h)
         /\ [h EXCEPT !.adev = a].adev = a
BY DEF SameFlags, IsWhole, IsHal

LEMMA Flags_Trans ==
  ASSUME NEW f, NEW g, NEW h, SameFlags(f, g), SameFlags(g, h)
  PROVE  SameFlags(f, h)
BY DEF SameFlags

\* Choosing devices touches adev only.
LEMMA Select_Flags ==
  ASSUME NEW h, IsWhole(h), NEW s
  PROVE  SameFlags(select_devices(h, AUDIO_USECASE(s)), h)
<1>1. ASSUME NEW g, IsWhole(g) PROVE SameFlags(select_capture(g), g)
  <2>1. ASSUME NEW i, NEW mic
        PROVE  SameFlags([g EXCEPT !.adev = switch_devices(@, i, SND_DEVICE_NONE, mic)], g)
    <3>1. IsAdev(switch_devices(g.adev, i, SND_DEVICE_NONE, mic))
      BY <1>1, Switch_ActiveInput DEF IsWhole, IsHal
    <3> QED BY <1>1, <3>1, SetAdev_Flags
  <2>2. SameFlags(g, g)
    BY <1>1 DEF SameFlags
  <2> QED BY <2>1, <2>2 DEF select_capture
<1>2. SameFlags(select_playback(h), h)
  <2> DEFINE in == active_input(h.adev)
             h1 == IF in \in Captures /\ h.stream[in].source = "voice_communication"
                   THEN select_capture(h) ELSE h
  <2>1. SameFlags(h, h)
    BY DEF SameFlags
  <2>2. SameFlags(h1, h)
    BY <1>1, <2>1
  <2> HIDE DEF h1
  <2>3. ASSUME NEW i, NEW out
        PROVE  SameFlags([h1 EXCEPT !.adev = switch_devices(@, i, out, SND_DEVICE_NONE)], h)
    <3>1. IsWhole(h1)
      BY <2>2 DEF SameFlags
    <3>2. IsAdev(switch_devices(h1.adev, i, out, SND_DEVICE_NONE))
      BY <3>1, Switch_ActiveInput DEF IsWhole, IsHal
    <3>3. SameFlags([h1 EXCEPT !.adev = switch_devices(@, i, out, SND_DEVICE_NONE)], h1)
      BY <3>1, <3>2, SetAdev_Flags
    <3> QED BY <2>2, <3>3, Flags_Trans
  <2> USE DEF h1
  <2> QED BY <2>1, <2>3 DEF select_playback
<1>3. SameFlags(h, h)
  BY DEF SameFlags
<1> QED BY <1>1, <1>2, <1>3 DEF select_devices, AUDIO_USECASE

LEMMA Pcm_Flags ==
  ASSUME NEW h, IsWhole(h), NEW s, NEW device, NEW ready
  PROVE  /\ SameFlags(close_pcm_devices(h, s), h)
         /\ SameFlags(pcm_open(h, s, device, ready).h, h)
         /\ pcm_open(h, s, device, ready).h.adev = h.adev
<1>1. SameFlags(close_pcm_devices(h, s), h)
  <2>1. ASSUME NEW x, NEW y
        PROVE  SameFlags([h EXCEPT !.alsa = x, !.stream[s].pcm = y], h)
    BY DEF SameFlags, IsWhole, IsHal, IsStreams, StreamFields
  <2>2. SameFlags(h, h)
    BY DEF SameFlags
  <2> QED BY <2>1, <2>2 DEF close_pcm_devices
<1>2. /\ SameFlags(pcm_open(h, s, device, ready).h, h)
      /\ pcm_open(h, s, device, ready).h.adev = h.adev
  <2>1. ASSUME NEW x, NEW y
        PROVE  /\ SameFlags([h EXCEPT !.alsa = x, !.stream[s].pcm = y], h)
               /\ [h EXCEPT !.alsa = x, !.stream[s].pcm = y].adev = h.adev
    BY DEF SameFlags, IsWhole, IsHal, IsStreams, StreamFields
  <2>2. /\ SameFlags([h EXCEPT !.stream[s].pcm = CLOSED_PCM], h)
        /\ [h EXCEPT !.stream[s].pcm = CLOSED_PCM].adev = h.adev
    BY SetPcm_Flags DEF IsWhole, IsHal
  <2> QED BY <2>1, <2>2 DEF pcm_open
<1> QED BY <1>1, <1>2

LEMMA StopOutput_Flags ==
  ASSUME NEW h, IsWhole(h), NEW s
  PROVE  SameFlags(stop_output_stream(h, s), h)
<1> DEFINE i == get_usecase_from_id(h.adev, AUDIO_USECASE(s))
           uc == h.adev.usecase_list[i]
           a == disable_snd_device(h.adev, uc, uc.out_snd_device)
           b == [a EXCEPT !.usecase_list = RemoveAt(@, i)]
<1>1. IsAdev(a)
  BY SndDevices_ActiveInput DEF IsHal, IsWhole
<1> HIDE DEF a
<1>2. IsAdev(b)
  BY <1>1 DEF IsAdev
<1> HIDE DEF b
<1>3. SameFlags([h EXCEPT !.adev = b, !.stream[s].pcm = NO_PCM], h)
  BY <1>2 DEF SameFlags, IsWhole, IsHal, IsStreams, StreamFields
<1> USE DEF a, b
<1> QED BY <1>3 DEF stop_output_stream, SameFlags

LEMMA StopInput_Flags ==
  ASSUME NEW h, IsWhole(h), NEW s
  PROVE  /\ SameFlags(stop_input_stream(h, s), h)
         /\ stop_input_stream(h, s).adev.active_input = NoStream
<1> DEFINE i == get_usecase_from_id(h.adev, AUDIO_USECASE(s))
           uc == h.adev.usecase_list[i]
           a == [h.adev EXCEPT !.active_input = NoStream]
           b == disable_snd_device(a, uc, uc.in_snd_device)
           c == [b EXCEPT !.usecase_list = RemoveAt(@, i)]
<1>1. IsAdev(a) /\ a.active_input = NoStream
  BY DEF IsWhole, IsHal, IsAdev, AdevFields
<1> HIDE DEF a
<1>2. IsAdev(b) /\ b.active_input = NoStream
  BY <1>1, SndDevices_ActiveInput
<1> HIDE DEF b
<1>3. IsAdev(c) /\ c.active_input = NoStream
  BY <1>2 DEF IsAdev
<1> HIDE DEF c
<1>4. /\ SameFlags([h EXCEPT !.adev = c, !.stream[s].pcm = NO_PCM], h)
      /\ [h EXCEPT !.adev = c, !.stream[s].pcm = NO_PCM].adev = c
  BY <1>3 DEF SameFlags, IsWhole, IsHal, IsStreams, StreamFields
<1>5. SameFlags([h EXCEPT !.adev = a], h) /\ [h EXCEPT !.adev = a].adev = a
  BY <1>1, SetAdev_Flags
<1> USE DEF a, b, c
<1>6. stop_input_stream(h, s) = IF i = 0 THEN [h EXCEPT !.adev = a]
                                ELSE [h EXCEPT !.adev = c, !.stream[s].pcm = NO_PCM]
  BY DEF stop_input_stream
<1> HIDE DEF a, b, c, i
<1> QED BY <1>1, <1>3, <1>4, <1>5, <1>6

\* What a call does to the flags of its stream s, and to no other's.
SameOthers(g, h, s) ==
  /\ IsWhole(g)
  /\ \A r \in Streams : /\ g.stream[r].open = h.stream[r].open
                        /\ r # s => g.stream[r].standby = h.stream[r].standby

LEMMA SetStandby_Others ==
  ASSUME NEW h, IsWhole(h), NEW s, NEW x
  PROVE  /\ SameOthers([h EXCEPT !.stream[s].standby = x], h, s)
         /\ [h EXCEPT !.stream[s].standby = x].adev = h.adev
BY DEF SameOthers, IsWhole, IsHal, IsStreams, StreamFields

LEMMA SetDevices_Others ==
  ASSUME NEW h, IsWhole(h), NEW s, NEW x
  PROVE  /\ SameOthers([h EXCEPT !.stream[s].devices = x], h, s)
         /\ [h EXCEPT !.stream[s].devices = x].adev = h.adev
BY DEF SameOthers, IsWhole, IsHal, IsStreams, StreamFields

LEMMA StartedFlags ==
  ASSUME NEW g, NEW h, SameFlags(g, h), NEW s
  PROVE  /\ SameOthers([g EXCEPT !.stream[s].standby = FALSE], h, s)
         /\ [g EXCEPT !.stream[s].standby = FALSE].adev = g.adev
<1> DEFINE f == [g EXCEPT !.stream[s].standby = FALSE]
<1>0. IsWhole(g)
  BY DEF SameFlags
<1>1. SameOthers(f, g, s) /\ f.adev = g.adev
  BY <1>0, SetStandby_Others
<1> HIDE DEF f
<1>2. SameOthers(f, h, s) /\ f.adev = g.adev
  BY <1>1 DEF SameFlags, SameOthers
<1> QED BY <1>2 DEF f

LEMMA Output_Flags ==
  ASSUME NEW h, IsWhole(h), NEW s, NEW ready
  PROVE  /\ SameFlags(start_output_stream(h, s, ready).h, h)
         /\ SameOthers(do_out_standby_l(h, s), h, s)
<1>1. SameOthers(do_out_standby_l(h, s), h, s)
  <2> DEFINE h1 == [h EXCEPT !.stream[s].standby = TRUE]
  <2>1. SameOthers(h1, h, s)
    BY SetStandby_Others
  <2> HIDE DEF h1
  <2>2. SameFlags(close_pcm_devices(h1, s), h1)
    BY <2>1, Pcm_Flags DEF SameOthers
  <2>3. SameFlags(stop_output_stream(close_pcm_devices(h1, s), s), h1)
    BY <2>2, StopOutput_Flags, Flags_Trans DEF SameFlags
  <2>4. SameOthers(stop_output_stream(close_pcm_devices(h1, s), s), h, s)
    BY <2>1, <2>3 DEF SameFlags, SameOthers
  <2> USE DEF h1
  <2> QED BY <2>4 DEF do_out_standby_l
<1>2. SameFlags(enable_output_path_l(h, s), h)
  <2>1. ASSUME NEW pcm, NEW uc
        PROVE  SameFlags(select_devices([h EXCEPT !.stream[s].pcm = pcm,
                                         !.adev.usecase_list = Append(@, uc)],
                                        AUDIO_USECASE(s)), h)
    <3> DEFINE g == [h EXCEPT !.stream[s].pcm = pcm,
                              !.adev.usecase_list = Append(@, uc)]
    <3>1. SameFlags(g, h)
      BY DEF SameFlags, IsWhole, IsHal, IsAdev, AdevFields, IsStreams, StreamFields
    <3> HIDE DEF g
    <3>2. IsWhole(g)
      BY <3>1 DEF SameFlags
    <3>3. SameFlags(select_devices(g, AUDIO_USECASE(s)), g)
      BY <3>2, Select_Flags
    <3>4. SameFlags(select_devices(g, AUDIO_USECASE(s)), h)
      BY <3>1, <3>3, Flags_Trans
    <3> QED BY <3>4 DEF g
  <2> QED BY <2>1 DEF enable_output_path_l
<1>3. SameFlags(start_output_stream(h, s, ready).h, h)
  <2> DEFINE h1 == enable_output_path_l(h, s)
             device == get_pcm_device(s, h.stream[s].devices)
             opened == pcm_open(h1, s, device, ready)
  <2>1. SameFlags(opened.h, h1)
    BY <1>2, Pcm_Flags DEF SameFlags
  <2>2. SameFlags(opened.h, h)
    BY <1>2, <2>1, Flags_Trans
  <2>3. SameFlags(stop_output_stream(opened.h, s), opened.h)
    BY <2>2, StopOutput_Flags DEF SameFlags
  <2>4. SameFlags(stop_output_stream(opened.h, s), h)
    BY <2>2, <2>3, Flags_Trans
  <2> QED BY <1>2, <2>2, <2>4 DEF start_output_stream
<1> QED BY <1>1, <1>3

\* do_in_standby_l of a running input leaves no input active.
LEMMA InStandby_Flags ==
  ASSUME NEW h, IsWhole(h), NEW s
  PROVE  /\ SameOthers(do_in_standby_l(h, s), h, s)
         /\ \A r \in Streams :
              do_in_standby_l(h, s).stream[r].devices = h.stream[r].devices
         /\ \/ h.stream[s].standby /\ do_in_standby_l(h, s) = h
            \/ do_in_standby_l(h, s).adev.active_input = NoStream
<1> DEFINE h1 == stop_input_stream(close_pcm_devices(h, s), s)
           h2 == [h1 EXCEPT !.stream[s].standby = TRUE]
<1>1. SameFlags(close_pcm_devices(h, s), h)
  BY Pcm_Flags
<1>2. /\ SameFlags(h1, close_pcm_devices(h, s))
      /\ h1.adev.active_input = NoStream
  BY <1>1, StopInput_Flags DEF SameFlags
<1>3. SameFlags(h1, h)
  BY <1>1, <1>2, Flags_Trans
<1> HIDE DEF h1
<1>4. /\ SameOthers(h2, h, s) /\ h2.adev = h1.adev
      /\ \A r \in Streams : h2.stream[r].devices = h.stream[r].devices
  BY <1>3 DEF SameFlags, SameOthers, IsWhole, IsHal, IsStreams, StreamFields
<1>5. do_in_standby_l(h, s) = IF h.stream[s].standby THEN h ELSE h2
  BY DEF do_in_standby_l, h1
<1> HIDE DEF h2
<1>6. SameOthers(h, h, s)
  BY DEF SameOthers
<1> QED BY <1>2, <1>4, <1>5, <1>6

\* A start that succeeds makes the input the active one; one that fails, with a
\* resampler or without need of one, leaves none active.
LEMMA StartInput_Flags ==
  ASSUME NEW h, IsWhole(h), NEW s, NEW ready, NEW resampler
  PROVE  LET r == start_input_stream(h, s, ready, resampler) IN
         /\ SameFlags(r.h, h)
         /\ \/ r.h.adev.active_input = NoStream
            \/ r.h.adev.active_input = s /\ r.ok = resampler
<1> DEFINE device == get_pcm_device(s, h.stream[s].devices)
           st == h.stream[s]
           h0 == [h EXCEPT !.adev.active_input = s,
                           !.adev.usecase_list = Append(@, NewUsecase(s, TRUE)),
                           !.stream[s].pcm = CLOSED_PCM]
           h1 == select_devices(h0, AUDIO_USECASE(s))
           n == IF st.aux_channels_changed THEN st.aux_channels ELSE ProfileChannels(s)
           h2 == [h1 EXCEPT !.stream[s].channels = n]
           opened == pcm_open(h2, s, device, ready)
           stopped == stop_input_stream(opened.h, s)
           none == [h EXCEPT !.adev.active_input = NoStream]
<1>1. SameFlags(h0, h) /\ h0.adev.active_input = s
  BY DEF SameFlags, IsWhole, IsHal, IsAdev, AdevFields, IsStreams, StreamFields
<1> HIDE DEF h0
<1>2. SameFlags(h1, h) /\ h1.adev.active_input = s
  BY <1>1, Select_Flags, Select_ActiveInput, Flags_Trans DEF SameFlags, SameInput, IsWhole
<1> HIDE DEF h1, n
<1>3. SameFlags(h2, h) /\ h2.adev.active_input = s
  <2>0. IsWhole(h1)
    BY <1>2 DEF SameFlags
  <2>1. SameFlags(h2, h1)
    BY <2>0, SetPcm_Flags
  <2>2. h2.adev = h1.adev
    BY <1>2 DEF SameFlags, IsWhole, IsHal
  <2> QED BY <1>2, <2>1, <2>2, Flags_Trans
<1> HIDE DEF h2
<1>4. SameFlags(opened.h, h) /\ opened.h.adev.active_input = s
  BY <1>3, Pcm_Flags, Flags_Trans DEF SameFlags
<1> HIDE DEF opened
<1>5. SameFlags(stopped, h) /\ stopped.adev.active_input = NoStream
  BY <1>4, StopInput_Flags, Flags_Trans DEF SameFlags
<1> HIDE DEF stopped
<1>6. SameFlags(none, h) /\ none.adev.active_input = NoStream
  BY DEF SameFlags, IsWhole, IsHal, IsAdev, AdevFields
<1> HIDE DEF none
<1>7. start_input_stream(h, s, ready, resampler) \in
        {[h |-> none, ok |-> FALSE], [h |-> opened.h, ok |-> resampler],
         [h |-> stopped, ok |-> FALSE]}
  BY DEF start_input_stream, none, stopped, opened, h2, n, h1, h0
<1> HIDE DEF device
<1> QED BY <1>4, <1>5, <1>6, <1>7

\* A step of thread t that closes no stream and begins no call.
QuietStep(t) ==
  /\ IsStreams(stream')
  /\ \A s \in Streams : stream[s].open => stream'[s].open
  /\ \A u \in Threads \ {t} : call'[u] = call[u]
  /\ call'[t].s \in {call[t].s, NoStream}
  /\ call'[t].then = "close_input" => call[t].then = "close_input"
  /\ Placed(call'[t])
  /\ call'[t].on # NoStream => call'[t].on \in {call[t].on, adev.active_input}
  /\ adev'.active_input # NoStream =>
       /\ adev'.active_input \in {adev.active_input} \cup Ins
       /\ ResamplerWorks =>
            \/ /\ adev'.active_input = adev.active_input
               /\ stream'[adev.active_input].standby =>
                    /\ stream[adev.active_input].standby
                    /\ ~ (call[t].pc = "read_pcm" /\ call[t].on = adev.active_input)
            \/ call'[t].pc = "read_pcm" /\ call'[t].on = adev'.active_input

LEMMA QuietPreserves ==
  ASSUME ClosedInv, NEW t \in Threads, QuietStep(t)
  PROVE  ClosedInv'
<1>1. ASSUME NEW u \in Threads
      PROVE  /\ Placed(call'[u])
             /\ call'[u].on # NoStream =>
                  /\ call'[u].on \in Streams
                  /\ ResamplerWorks => stream'[call'[u].on].open
  <2>1. CASE u = t
    BY <2>1 DEF ClosedInv, QuietStep, ActiveOpen, Streams
  <2>2. CASE u # t
    <3>1. call'[u] = call[u]
      BY <2>2 DEF QuietStep
    <3> QED BY <3>1 DEF ClosedInv, QuietStep
  <2> QED BY <2>1, <2>2
<1>2. SoleCloser'
  <2> SUFFICES ASSUME NEW v \in Threads, NEW u \in Threads, v # u,
                      call'[v].s = call'[u].s, call'[v].s # NoStream
               PROVE  call'[v].then # "close_input"
    BY DEF SoleCloser
  <2>1. ASSUME NEW w \in Threads, w = v \/ w = u
        PROVE  /\ call'[w].s = call[w].s
               /\ call'[w].then = "close_input" => call[w].then = "close_input"
    BY <2>1 DEF QuietStep
  <2>2. call[v].s = call[u].s /\ call[v].s # NoStream
    BY <2>1
  <2> QED BY <2>1, <2>2 DEF ClosedInv, SoleCloser
<1>3. ActiveOpen'
  <2> SUFFICES ASSUME adev'.active_input # NoStream
               PROVE  /\ adev'.active_input \in Ins
                      /\ ResamplerWorks =>
                           /\ stream'[adev'.active_input].open
                           /\ \/ ~ stream'[adev'.active_input].standby
                              \/ \E u \in Threads : call'[u].pc = "read_pcm"
                                                    /\ call'[u].on = adev'.active_input
    BY DEF ActiveOpen, Started
  <2>1. adev'.active_input \in Ins
    BY DEF QuietStep, ClosedInv, ActiveOpen
  <2> SUFFICES ASSUME ResamplerWorks
               PROVE  /\ stream'[adev'.active_input].open
                      /\ \/ ~ stream'[adev'.active_input].standby
                         \/ \E u \in Threads : call'[u].pc = "read_pcm"
                                               /\ call'[u].on = adev'.active_input
    BY <2>1
  <2>2. CASE call'[t].pc = "read_pcm" /\ call'[t].on = adev'.active_input
    BY <1>1, <2>2
  <2>3. CASE /\ adev'.active_input = adev.active_input
             /\ stream'[adev.active_input].standby =>
                  /\ stream[adev.active_input].standby
                  /\ ~ (call[t].pc = "read_pcm" /\ call[t].on = adev.active_input)
    <3>1. stream[adev.active_input].open /\ Started(adev.active_input)
      BY <2>3 DEF ClosedInv, ActiveOpen
    <3>2. stream'[adev.active_input].open
      BY <2>1, <2>3, <3>1 DEF QuietStep, Streams
    <3>3. CASE ~ stream'[adev.active_input].standby
      BY <2>3, <3>2, <3>3
    <3>4. CASE stream'[adev.active_input].standby
      <4>1. PICK u \in Threads : call[u].pc = "read_pcm" /\ call[u].on = adev.active_input
        BY <2>3, <3>1, <3>4 DEF Started
      <4>2. call'[u] = call[u]
        BY <2>3, <3>4, <4>1 DEF QuietStep
      <4> QED BY <2>3, <3>2, <4>1, <4>2
    <3> QED BY <3>3, <3>4
  <2> QED BY <2>2, <2>3 DEF QuietStep
<1> QED BY <1>1, <1>2, <1>3 DEF ClosedInv, QuietStep, IsStreams, Placed, Now

\* What the invariants say of the state and of the thread that takes a step.
LEMMA MyStream ==
  ASSUME InputInv, ClosedInv, NEW t \in Threads
  PROVE  /\ IsWhole(HAL) /\ HAL.adev = adev /\ HAL.stream = stream
         /\ Placed(call[t])
         /\ call[t].on # NoStream => call[t].on \in Streams
         /\ adev.active_input # NoStream => adev.active_input \in Ins
         /\ ResamplerWorks =>
              /\ call[t].on # NoStream => stream[call[t].on].open
              /\ adev.active_input # NoStream => stream[adev.active_input].open
         /\ call[t].in # NoStream => call[t].in = adev.active_input
BY HalIsHal DEF ClosedInv, ActiveOpen, InputInv, Chosen, IsWhole, HAL

LEMMA AcquireQuiet ==
  ASSUME LockInv, InputInv, ClosedInv, NEW t \in Threads,
         AcquireInputs(t) \/ AcquirePreLock(t) \/ AcquireLock(t)
  PROVE  QuietStep(t)
<1> USE Mine, MyStream DEF QuietStep, Placed, Now, Bodies, halVars, ClosedInv
<1>1. CASE AcquireInputs(t)
  BY <1>1 DEF AcquireInputs
<1>2. CASE AcquirePreLock(t)
  BY <1>2 DEF AcquirePreLock
<1>3. CASE AcquireLock(t)
  BY <1>3 DEF AcquireLock, OutBodies, InBodies, OutFunctions
<1> QED BY <1>1, <1>2, <1>3

\* The step leaves the flags of streams other than s, and what is open, alone.
KeptFlags(s) ==
  /\ IsStreams(stream')
  /\ \A r \in Streams : /\ stream'[r].open = stream[r].open
                        /\ r # s => stream'[r].standby = stream[r].standby

LEMMA BecomeFlags ==
  ASSUME InputInv, ClosedInv, NEW g, Become(g), NEW s, SameOthers(g, HAL, s)
  PROVE  KeptFlags(s)
BY DEF Become, SameOthers, IsWhole, KeptFlags, HAL

LEMMA FlagsOthers ==
  ASSUME NEW g, NEW h, SameFlags(g, h), NEW s
  PROVE  SameOthers(g, h, s)
BY DEF SameFlags, SameOthers

LEMMA UnchangedFlags ==
  ASSUME ClosedInv, NEW s, stream' = stream
  PROVE  KeptFlags(s)
BY DEF ClosedInv, KeptFlags, IsStreams

\* The output side: the flags of inputs and the active input stay as they are.
LEMMA OutputQuiet ==
  ASSUME InputInv, ClosedInv, NEW t \in Threads,
         Now(call[t]) \in OutBodies, call[t].pc \in OutBodies,
         KeptFlags(call[t].on), adev'.active_input = adev.active_input,
         \A u \in Threads \ {t} : call'[u] = call[u],
         call'[t].s \in {call[t].s, NoStream},
         call'[t].then = "close_input" => call[t].then = "close_input",
         Placed(call'[t]),
         call'[t].on # NoStream => call'[t].on \in {call[t].on, adev.active_input}
  PROVE  QuietStep(t)
<1>1. call[t].on = primary_output
  BY MyStream DEF Placed
<1>2. call[t].pc # "read_pcm"
  BY DEF OutBodies, OutFunctions
<1>3. adev.active_input # NoStream =>
        adev.active_input # primary_output /\ adev.active_input \in Streams
  BY MyStream, StreamsAssumption DEF Streams
<1> QED BY <1>1, <1>2, <1>3 DEF QuietStep, KeptFlags

LEMMA WriteQuiet ==
  ASSUME LockInv, InputInv, ClosedInv, NEW t \in Threads,
         WriteCheck(t) \/ WriteStart(t) \/ WritePcm(t)
  PROVE  QuietStep(t)
<1>0. call[t].pc \in OutBodies /\ Now(call[t]) \in OutBodies
  BY DEF WriteCheck, WriteStart, WritePcm, OutBodies, OutFunctions, Now
<1>1. call[t].on = primary_output /\ call[t].on # NoStream
  BY <1>0, MyStream, StreamsAssumption DEF Placed, Streams
<1> USE Mine, MyStream DEF Placed, Now, Bodies, OutBodies, InBodies, OutFunctions
<1>2. CASE WriteCheck(t)
  <2>1. stream' = stream /\ adev' = adev
    BY <1>2 DEF WriteCheck, halVars
  <2>2. KeptFlags(call[t].on)
    BY <2>1, UnchangedFlags
  <2>3. \/ LockInputs(t, call[t].on, "write_start")
        \/ call' = [call EXCEPT ![t].pc = "write_pcm"]
    BY <1>2 DEF WriteCheck
  <2> QED BY <1>0, <1>1, <2>1, <2>2, <2>3, OutputQuiet DEF LockInputs
<1>3. CASE WriteStart(t)
  <2>1. KeptFlags(call[t].on) /\ adev'.active_input = adev.active_input
    <3>1. CASE UNCHANGED halVars
      BY <3>1, UnchangedFlags DEF halVars
    <3>2. ASSUME NEW ready, NEW g, g = start_output_stream(HAL, call[t].on, ready).h,
                 \/ Become([g EXCEPT !.stream[call[t].on].standby = FALSE])
                 \/ Become(g)
          PROVE  KeptFlags(call[t].on) /\ adev'.active_input = adev.active_input
      <4>1. SameFlags(g, HAL) /\ SameInput(g, HAL)
        BY <3>2, Output_Flags, Output_ActiveInput DEF IsWhole
      <4> DEFINE f == [g EXCEPT !.stream[call[t].on].standby = FALSE]
      <4>2. SameOthers(f, HAL, call[t].on) /\ f.adev = g.adev
        BY ONLY <4>1, StartedFlags
      <4>3. SameOthers(g, HAL, call[t].on)
        BY <4>1, FlagsOthers
      <4> HIDE DEF f
      <4>4. CASE Become(f)
        BY <4>1, <4>2, <4>4, BecomeFlags DEF Become, SameInput
      <4>5. CASE Become(g)
        BY <4>1, <4>3, <4>5, BecomeFlags DEF Become, SameInput
      <4> QED BY <3>2, <4>4, <4>5 DEF f
    <3>3. ASSUME stream[call[t].on].standby
          PROVE  \E ready, g : /\ g = start_output_stream(HAL, call[t].on, ready).h
                               /\ \/ Become([g EXCEPT !.stream[call[t].on].standby = FALSE])
                                  \/ Become(g)
      <4>1. PICK r \in {start_output_stream(HAL, call[t].on, ready) :
                          ready \in May("pcm_open")} :
              \/ Become([r.h EXCEPT !.stream[call[t].on].standby = FALSE])
              \/ Become(r.h)
        BY <1>3, <3>3, Zenon DEF WriteStart
      <4>2. PICK ready \in May("pcm_open") : r = start_output_stream(HAL, call[t].on, ready)
        BY <4>1
      <4> WITNESS ready, r.h
      <4> QED BY <4>1, <4>2
    <3> QED BY <1>3, <3>1, <3>2, <3>3 DEF WriteStart
  <2>2. \/ call' = [call EXCEPT ![t].pc = "write_pcm"]
        \/ \E in : call' = [call EXCEPT ![t].pc = "write_pcm", ![t].in = in]
        \/ LockStream(t, call[t].on, "out_standby")
    BY <1>3 DEF WriteStart
  <2> QED BY <1>0, <1>1, <2>1, <2>2, OutputQuiet DEF LockStream
<1>4. CASE WritePcm(t)
  <2>1. stream' = stream /\ adev' = adev
    BY <1>4 DEF WritePcm, halVars
  <2>2. KeptFlags(call[t].on)
    BY <2>1, UnchangedFlags
  <2>3. \/ ForceInputStandby(t, call[t].in)
        \/ LockStream(t, call[t].on, "out_standby")
    BY <1>4 DEF WritePcm
  <2> QED BY <1>0, <1>1, <2>1, <2>2, <2>3, OutputQuiet
          DEF ForceInputStandby, Return, Idle, LockStream
<1> QED BY <1>2, <1>3, <1>4

LEMMA OutQuiet ==
  ASSUME LockInv, InputInv, ClosedInv, NEW t \in Threads,
         OutStandby(t) \/ OutSetParameters(t)
  PROVE  QuietStep(t)
<1>0. call[t].pc \in OutBodies /\ Now(call[t]) \in OutBodies
  BY DEF OutStandby, OutSetParameters, OutBodies, OutFunctions, Now
<1>1. call[t].on = primary_output /\ call[t].on # NoStream
  BY <1>0, MyStream, StreamsAssumption DEF Placed, Streams
<1> USE Mine, MyStream DEF Placed, Now, Bodies, OutBodies, InBodies, OutFunctions
<1>2. CASE OutStandby(t)
  <2>1. KeptFlags(call[t].on) /\ adev'.active_input = adev.active_input
    <3>1. CASE UNCHANGED halVars
      BY <3>1, UnchangedFlags DEF halVars
    <3>2. CASE Become(do_out_standby_l(HAL, call[t].on))
      <4> DEFINE g == do_out_standby_l(HAL, call[t].on)
      <4>1. SameOthers(g, HAL, call[t].on) /\ SameInput(g, HAL)
        BY Output_Flags, Output_ActiveInput DEF IsWhole
      <4> HIDE DEF g
      <4>2. Become(g)
        BY <3>2 DEF g
      <4> QED BY <4>1, <4>2, BecomeFlags DEF Become, SameInput
    <3> QED BY <1>2, <3>1, <3>2 DEF OutStandby
  <2>2. ForceInputStandby(t, call[t].in)
    BY <1>2 DEF OutStandby
  <2> QED BY <1>0, <1>1, <2>1, <2>2, OutputQuiet
          DEF ForceInputStandby, Return, Idle
<1>3. CASE OutSetParameters(t)
  <2>1. PICK val \in OutRoutings :
          LET s == call[t].on
              old == stream[s]
              in == IF old.devices # val /\ ~ old.standby
                    THEN InputToReset(adev) ELSE NoStream
              h == [HAL EXCEPT !.stream[s].devices = val]
          IN /\ Become(IF old.standby THEN h
                       ELSE IF old.devices # val THEN do_out_standby_l(h, s)
                       ELSE select_devices(h, AUDIO_USECASE(s)))
             /\ ForceInputStandby(t, in)
    BY <1>3 DEF OutSetParameters
  <2> DEFINE s == call[t].on
             h == [HAL EXCEPT !.stream[s].devices = val]
  <2>2. /\ \/ Become(h) \/ Become(do_out_standby_l(h, s))
           \/ Become(select_devices(h, AUDIO_USECASE(s)))
        /\ \/ ForceInputStandby(t, InputToReset(adev))
           \/ ForceInputStandby(t, NoStream)
    BY <2>1
  <2>3. SameOthers(h, HAL, s) /\ SameInput(h, HAL)
    <3>1. IsWhole(HAL)
      BY MyStream
    <3>2. SameOthers(h, HAL, s) /\ h.adev = HAL.adev
      BY ONLY <3>1, SetDevices_Others
    <3> HIDE DEF h
    <3>3. IsHal(h)
      BY <3>2 DEF SameOthers, IsWhole
    <3> QED BY <3>2, <3>3 DEF SameInput
  <2> HIDE DEF h
  <2>4. /\ SameOthers(do_out_standby_l(h, s), h, s)
        /\ SameInput(do_out_standby_l(h, s), h)
        /\ SameFlags(select_devices(h, AUDIO_USECASE(s)), h)
        /\ SameInput(select_devices(h, AUDIO_USECASE(s)), h)
    <3>1. IsWhole(h) /\ IsHal(h)
      BY <2>3 DEF SameOthers, IsWhole
    <3>2. SameOthers(do_out_standby_l(h, s), h, s)
      BY <3>1, Output_Flags
    <3>3. SameInput(do_out_standby_l(h, s), h)
      BY <3>1, Output_ActiveInput
    <3>4. SameFlags(select_devices(h, AUDIO_USECASE(s)), h)
      BY <3>1, Select_Flags
    <3>5. SameInput(select_devices(h, AUDIO_USECASE(s)), h)
      BY <3>1, Select_ActiveInput
    <3> QED BY <3>2, <3>3, <3>4, <3>5
  <2>5. KeptFlags(s) /\ adev'.active_input = adev.active_input
    <3>1. PICK g : /\ Become(g) /\ SameOthers(g, HAL, s) /\ SameInput(g, HAL)
      BY <2>2, <2>3, <2>4 DEF SameFlags, SameOthers, SameInput
    <3> QED BY <3>1, BecomeFlags DEF Become, SameInput
  <2> QED BY <1>0, <1>1, <2>2, <2>5, OutputQuiet
          DEF ForceInputStandby, Return, Idle, InputToReset
<1> QED BY <1>2, <1>3

\* The HAL stops stream s, or leaves flags and the active input alone.
StopsOrKeeps(g, h, s) ==
  /\ SameOthers(g, h, s)
  /\ \/ g.adev.active_input = NoStream
     \/ /\ g.adev.active_input = h.adev.active_input
        /\ g.stream[s].standby = h.stream[s].standby

LEMMA FlagsKeep ==
  ASSUME NEW g, NEW h, SameFlags(g, h), SameInput(g, h), NEW s \in Streams
  PROVE  StopsOrKeeps(g, h, s)
BY DEF SameFlags, SameInput, StopsOrKeeps, SameOthers

LEMMA StandbyStops ==
  ASSUME NEW h, IsWhole(h), NEW s \in Streams
  PROVE  StopsOrKeeps(do_in_standby_l(h, s), h, s)
BY InStandby_Flags DEF StopsOrKeeps

LEMMA StopsTrans ==
  ASSUME NEW f, NEW g, NEW h, NEW s \in Streams,
         StopsOrKeeps(f, g, s), StopsOrKeeps(g, h, s)
  PROVE  StopsOrKeeps(f, h, s)
BY DEF StopsOrKeeps, SameOthers

\* A call that ends, on an input.
LEMMA ReturnQuiet ==
  ASSUME LockInv, InputInv, ClosedInv, NEW t \in Threads, call[t].pc # "read_pcm",
         call[t].on \in Streams, NEW g, StopsOrKeeps(g, HAL, call[t].on),
         Become(g), Return(t)
  PROVE  QuietStep(t)
<1>1. KeptFlags(call[t].on)
  BY BecomeFlags DEF StopsOrKeeps
<1>2. \/ adev'.active_input = NoStream
      \/ /\ adev'.active_input = adev.active_input
         /\ stream'[call[t].on].standby = stream[call[t].on].standby
  BY DEF StopsOrKeeps, Become, HAL
<1>3. adev.active_input # NoStream => adev.active_input \in Streams
  BY MyStream DEF Streams
<1>4. call'[t] = Idle /\ \A u \in Threads \ {t} : call'[u] = call[u]
  BY Mine DEF Return
<1> QED BY <1>1, <1>2, <1>3, <1>4
        DEF QuietStep, KeptFlags, Idle, Placed, Now, OutBodies, InBodies,
            OutFunctions, Bodies

LEMMA StandbyQuiet ==
  ASSUME LockInv, InputInv, ClosedInv, NEW t \in Threads, ForceInput(t) \/ InStandby(t)
  PROVE  QuietStep(t)
<1>1. call[t].on \in Streams /\ call[t].pc # "read_pcm"
  <2>1. CASE ForceInput(t)
    BY <2>1, MyStream DEF ForceInput, InputInv, Forced
  <2>2. CASE InStandby(t)
    BY <2>2, MyStream DEF InStandby, Placed, Now, InBodies, Bodies, OutBodies,
                          OutFunctions, Streams
  <2> QED BY <2>1, <2>2
<1>2. Become(do_in_standby_l(HAL, call[t].on)) /\ Return(t)
  BY DEF ForceInput, InStandby
<1>3. IsWhole(HAL)
  BY MyStream
<1>4. StopsOrKeeps(do_in_standby_l(HAL, call[t].on), HAL, call[t].on)
  BY <1>1, <1>3, StandbyStops
<1> QED BY <1>1, <1>2, <1>4, ReturnQuiet

LEMMA ReadQuiet ==
  ASSUME LockInv, InputInv, ClosedInv, NEW t \in Threads,
         ReadCheck(t) \/ ReadStart(t) \/ ReadPcm(t)
  PROVE  QuietStep(t)
<1>0. call[t].on \in Ins /\ call[t].s = call[t].on /\ call[t].on \in Streams
      /\ call[t].on # NoStream
  BY MyStream, StreamsAssumption
     DEF ReadCheck, ReadStart, ReadPcm, Placed, Now, InBodies, Bodies, OutBodies,
         OutFunctions, Streams
<1>1. adev.active_input # NoStream => adev.active_input \in Streams
  BY MyStream DEF Streams
<1>2. DOMAIN call = Threads /\ DOMAIN call[t] = {"pc", "s", "on", "then", "in"}
  BY Mine
<1>3. ASSUME KeptFlags(call[t].on),
             \A u \in Threads \ {t} : call'[u] = call[u],
             \/ call'[t] = Idle
             \/ /\ call'[t].s = call[t].s /\ call'[t].on = call[t].on
                /\ call'[t].pc \in {"inputs", "read_pcm"}
                /\ call'[t].pc = "inputs" =>
                     call'[t].then \in {"read_start", "in_standby"}
                /\ call'[t].then \in {"read_start", "in_standby", call[t].then},
             \/ adev'.active_input = NoStream
             \/ /\ adev'.active_input = adev.active_input
                /\ \/ ~ stream'[call[t].on].standby
                   \/ /\ stream'[call[t].on].standby = stream[call[t].on].standby
                      /\ call[t].pc # "read_pcm"
             \/ /\ adev'.active_input = call[t].on
                /\ ResamplerWorks => call'[t].pc = "read_pcm"
      PROVE  QuietStep(t)
  <2>1. Placed(call'[t])
    BY <1>0, <1>3 DEF Placed, Now, InBodies, OutBodies, OutFunctions, Bodies, Idle
  <2> QED BY <1>0, <1>1, <1>3, <2>1 DEF QuietStep, KeptFlags, Idle
<1>4. CASE ReadCheck(t)
  <2>1. stream' = stream /\ adev' = adev /\ call[t].pc = "read_check"
    BY <1>4 DEF ReadCheck, halVars
  <2>2. KeptFlags(call[t].on)
    BY <2>1, UnchangedFlags
  <2>3. \/ LockInputs(t, call[t].on, "read_start")
        \/ call' = [call EXCEPT ![t].pc = "read_pcm"]
    BY <1>4 DEF ReadCheck
  <2> QED BY <1>2, <1>3, <2>1, <2>2, <2>3 DEF LockInputs
<1>5. CASE ReadStart(t)
  <2>0. call[t].pc = "read_start"
    BY <1>5 DEF ReadStart
  <2>1. CASE UNCHANGED halVars /\ call' = [call EXCEPT ![t].pc = "read_pcm"]
    <3>1. stream' = stream /\ adev' = adev
      BY <2>1 DEF halVars
    <3>2. KeptFlags(call[t].on)
      BY <3>1, UnchangedFlags
    <3> QED BY <1>2, <1>3, <2>0, <2>1, <3>1, <3>2
  <2>2. CASE stream[call[t].on].standby
    <3>1. PICK r :
            /\ r \in {start_input_stream(HAL, call[t].on, ready, resampler) :
                       ready \in May("pcm_open"), resampler \in May("resampler")}
            /\ Become(r.h)
            /\ \/ r.ok /\ call' = [call EXCEPT ![t].pc = "read_pcm"]
               \/ ~ r.ok /\ LockInputs(t, call[t].on, "in_standby")
      BY <1>5, <2>2 DEF ReadStart
    <3>2. PICK ready \in May("pcm_open"), resampler \in May("resampler") :
            r = start_input_stream(HAL, call[t].on, ready, resampler)
      BY <3>1
    <3>3. ResamplerWorks => resampler = TRUE
      BY <3>2 DEF May, ResamplerWorks
    <3>4. IsWhole(HAL)
      BY MyStream
    <3>5. /\ SameFlags(r.h, HAL)
          /\ \/ r.h.adev.active_input = NoStream
             \/ r.h.adev.active_input = call[t].on /\ r.ok = resampler
      BY ONLY <3>2, <3>4, StartInput_Flags
    <3>6. SameOthers(r.h, HAL, call[t].on)
      BY <3>5, FlagsOthers
    <3>7. KeptFlags(call[t].on)
      BY <3>1, <3>6, BecomeFlags
    <3>8. \/ adev'.active_input = NoStream
          \/ adev'.active_input = call[t].on /\ (ResamplerWorks => r.ok = TRUE)
      <4>1. adev' = r.h.adev
        BY <3>1 DEF Become
      <4>2. r.h.adev.active_input # NoStream =>
              r.h.adev.active_input = call[t].on /\ (ResamplerWorks => r.ok = TRUE)
        BY ONLY <3>3, <3>5
      <4> QED BY ONLY <4>1, <4>2
    <3>9. CASE call' = [call EXCEPT ![t].pc = "read_pcm"]
      BY <1>2, <1>3, <2>0, <3>7, <3>8, <3>9
    <3>10. CASE ~ r.ok /\ LockInputs(t, call[t].on, "in_standby")
      BY <1>2, <1>3, <2>0, <3>7, <3>8, <3>10 DEF LockInputs
    <3> QED BY <3>1, <3>9, <3>10
  <2> QED BY <1>5, <2>1, <2>2 DEF ReadStart
<1>6. CASE ReadPcm(t)
  <2>1. /\ stream' = [stream EXCEPT ![call[t].on].standby = FALSE]
        /\ adev' = adev /\ call[t].pc = "read_pcm"
    BY <1>6 DEF ReadPcm
  <2>2. KeptFlags(call[t].on) /\ stream'[call[t].on].standby = FALSE
    BY <1>0, <2>1 DEF ClosedInv, IsStreams, StreamFields, KeptFlags
  <2>3. Return(t) \/ LockInputs(t, call[t].on, "in_standby")
    BY <1>6 DEF ReadPcm
  <2> QED BY <1>2, <1>3, <2>1, <2>2, <2>3 DEF LockInputs, Return
<1> QED BY <1>4, <1>5, <1>6

\* in_set_parameters and the effects change a stream's own fields, and may stop
\* it or choose other devices for it.
LEMMA ParametersQuiet ==
  ASSUME LockInv, InputInv, ClosedInv, NEW t \in Threads,
         InSetParameters(t) \/ AddEffect(t) \/ RemoveEffect(t)
  PROVE  QuietStep(t)
<1>1. /\ call[t].on \in Streams /\ call[t].pc # "read_pcm" /\ Return(t)
      /\ IsWhole(HAL)
  BY MyStream DEF InSetParameters, AddEffect, RemoveEffect, Placed, Now, InBodies,
                  Bodies, OutBodies, OutFunctions, Streams
<1> DEFINE s == call[t].on
<1>2. ASSUME NEW g, Become(g), StopsOrKeeps(g, HAL, s) PROVE QuietStep(t)
  BY <1>1, <1>2, ReturnQuiet
<1>3. StopsOrKeeps(HAL, HAL, s)
  BY <1>1 DEF StopsOrKeeps, SameOthers
<1>4. ASSUME NEW h, StopsOrKeeps(h, HAL, s),
             \/ Become(h) \/ Become(do_in_standby_l(h, s))
             \/ Become(select_devices(h, AUDIO_USECASE(s)))
      PROVE  QuietStep(t)
  <2>1. IsWhole(h) /\ IsHal(h)
    BY <1>4 DEF StopsOrKeeps, SameOthers, IsWhole
  <2>2. StopsOrKeeps(do_in_standby_l(h, s), h, s)
    BY <1>1, <2>1, StandbyStops
  <2>3. StopsOrKeeps(select_devices(h, AUDIO_USECASE(s)), h, s)
    BY <1>1, <2>1, Select_Flags, Select_ActiveInput, FlagsKeep
  <2>4. /\ StopsOrKeeps(do_in_standby_l(h, s), HAL, s)
        /\ StopsOrKeeps(select_devices(h, AUDIO_USECASE(s)), HAL, s)
    BY <1>1, <1>4, <2>2, <2>3, StopsTrans
  <2> QED BY <1>2, <1>4, <2>4
<1>5. UNCHANGED halVars => Become(HAL)
  BY DEF halVars, Become, HAL
<1>6. CASE InSetParameters(t)
  <2>1. PICK val \in InRoutings, source \in InSources :
          LET old == stream[s]
              new == IF old.standby /\ s \in Captures THEN source ELSE old.source
              h == [HAL EXCEPT !.stream[s].source = new, !.stream[s].devices = val]
          IN Become(IF old.standby \/ old.devices = val THEN h
                    ELSE IF old.pcm # NO_PCM /\ profile_devices(s) \cap val = {}
                    THEN do_in_standby_l(h, s)
                    ELSE select_devices(h, AUDIO_USECASE(s)))
    BY <1>6 DEF InSetParameters
  <2> DEFINE new == IF stream[s].standby /\ s \in Captures THEN source
                    ELSE stream[s].source
             h == [HAL EXCEPT !.stream[s].source = new, !.stream[s].devices = val]
  <2>2. \/ Become(h) \/ Become(do_in_standby_l(h, s))
        \/ Become(select_devices(h, AUDIO_USECASE(s)))
    BY <2>1
  <2> HIDE DEF new
  <2>3. StopsOrKeeps(h, HAL, s)
    BY <1>1 DEF StopsOrKeeps, SameOthers, IsWhole, IsHal, IsStreams, StreamFields
  <2> HIDE DEF h
  <2> QED BY <1>4, <2>2, <2>3
<1>7. CASE AddEffect(t)
  <2>1. CASE UNCHANGED halVars
    BY <1>2, <1>3, <1>5, <2>1
  <2>2. ASSUME NEW configured \in May("effect"),
          LET st == stream[s]
              aux == aux_channels(st, configured)
              h == [HAL EXCEPT !.stream[s].num_preprocessors = @ + 1,
                               !.stream[s].aux_channels = aux,
                               !.stream[s].aux_channels_changed = TRUE]
          IN Become(IF aux # st.aux_channels THEN do_in_standby_l(h, s) ELSE h)
        PROVE  QuietStep(t)
    <3> DEFINE aux == aux_channels(stream[s], configured)
               h == [HAL EXCEPT !.stream[s].num_preprocessors = @ + 1,
                                !.stream[s].aux_channels = aux,
                                !.stream[s].aux_channels_changed = TRUE]
    <3>1. Become(h) \/ Become(do_in_standby_l(h, s))
      BY <2>2
    <3> HIDE DEF aux
    <3>2. StopsOrKeeps(h, HAL, s)
      BY <1>1 DEF StopsOrKeeps, SameOthers, IsWhole, IsHal, IsStreams, StreamFields
    <3> HIDE DEF h
    <3> QED BY <1>4, <3>1, <3>2
  <2> QED BY <1>7, <2>1, <2>2 DEF AddEffect
<1>8. CASE RemoveEffect(t)
  <2>1. CASE UNCHANGED halVars
    BY <1>2, <1>3, <1>5, <2>1
  <2> DEFINE h == [HAL EXCEPT !.stream[s].num_preprocessors = @ - 1,
                              !.stream[s].aux_channels_changed = FALSE]
  <2>2. CASE Become(h)
    <3>1. StopsOrKeeps(h, HAL, s)
      BY <1>1 DEF StopsOrKeeps, SameOthers, IsWhole, IsHal, IsStreams, StreamFields
    <3> HIDE DEF h
    <3> QED BY <1>2, <2>2, <3>1
  <2> QED BY <1>8, <2>1, <2>2 DEF RemoveEffect
<1> QED BY <1>6, <1>7, <1>8

\* adev_open_input_stream: a stream that is not open is not the active input.
LEMMA OpenQuiet ==
  ASSUME LockInv, InputInv, ClosedInv, NEW t \in Threads, OpenCall(t)
  PROVE  QuietStep(t)
<1>1. PICK s, x, y :
        /\ s \in Ins /\ ~ stream[s].open /\ call[t].pc = "idle"
        /\ stream' = [stream EXCEPT ![s] = NewStream(s, x, y)]
        /\ adev' = adev /\ call' = call
  BY DEF OpenCall, OpenInput
<1>2. /\ DOMAIN NewStream(s, x, y) = StreamFields
      /\ NewStream(s, x, y).open = TRUE
  BY DEF NewStream, StreamFields
<1>3. /\ IsStreams(stream')
      /\ \A r \in Streams : stream[r].open => stream'[r].open
      /\ \A r \in Streams : r # s => stream'[r] = stream[r]
  BY <1>1, <1>2 DEF ClosedInv, IsStreams, Streams
<1>4. adev.active_input # NoStream =>
        /\ adev.active_input \in Streams
        /\ ResamplerWorks => adev.active_input # s
  BY <1>1, MyStream DEF Streams
<1>5. Placed(call[t])
  BY MyStream
<1> QED BY <1>1, <1>3, <1>4, <1>5 DEF QuietStep

\* A call is made on an open stream, and not while it is being closed.
LEMMA BeginCall ==
  ASSUME LockInv, InputInv, ClosedInv, NEW t \in Threads, CallHal(t)
  PROVE  ClosedInv'
<1>1. PICK s \in Streams, f \in EntryPoints \ {"open_input"} :
        <<t, f, s>> \in Calls /\ Begin(t, s, f)
  BY DEF CallHal
<1>2. f \in OutFunctions <=> s = primary_output
  <2>1. <<t, f, s>>[2] \in OutFunctions <=> <<t, f, s>>[3] = primary_output
    BY <1>1, AudioHwAssumption
  <2> QED BY <2>1
<1>3. /\ stream' = stream /\ adev' = adev /\ stream[s].open
      /\ \A u \in Threads : call[u].s = s =>
           f # "close_input" /\ call[u].then # "close_input"
      /\ call[t].pc = "idle"
  BY <1>1 DEF Begin, halVars
<1>4. /\ \A u \in Threads \ {t} : call'[u] = call[u]
      /\ call'[t].s = s /\ call'[t].on = s /\ call'[t].then = f
      /\ call'[t].pc \in {"pre", "inputs"}
  BY <1>1, Mine DEF Begin
<1>5. s # NoStream
  BY StreamsAssumption
<1>6. Placed(call'[t])
  <2>1. Now(call'[t]) = f
    BY <1>4 DEF Now
  <2>2. f \in InBodies => s \in Ins
    BY <1>2 DEF InBodies, Streams, OutBodies
  <2>3. f \in OutBodies => s = primary_output
    BY <1>2 DEF OutBodies, OutFunctions, EntryPoints
  <2> QED BY <1>4, <2>1, <2>2, <2>3 DEF Placed
<1>7. ASSUME NEW u \in Threads
      PROVE  /\ Placed(call'[u])
             /\ call'[u].on # NoStream =>
                  /\ call'[u].on \in Streams
                  /\ ResamplerWorks => stream'[call'[u].on].open
  <2>1. CASE u = t
    BY <1>3, <1>4, <1>6, <2>1
  <2>2. CASE u # t
    BY <1>3, <1>4, <2>2 DEF ClosedInv
  <2> QED BY <2>1, <2>2
<1>8. SoleCloser'
  <2> SUFFICES ASSUME NEW v \in Threads, NEW u \in Threads, v # u,
                      call'[v].s = call'[u].s, call'[v].s # NoStream
               PROVE  call'[v].then # "close_input"
    BY DEF SoleCloser
  <2>1. CASE v = t
    BY <1>3, <1>4, <2>1
  <2>2. CASE u = t
    BY <1>3, <1>4, <2>2
  <2>3. CASE v # t /\ u # t
    BY <1>4, <2>3 DEF ClosedInv, SoleCloser
  <2> QED BY <2>1, <2>2, <2>3
<1>9. ActiveOpen'
  <2>1. ASSUME NEW u \in Threads, call[u].pc = "read_pcm" PROVE call'[u] = call[u]
    BY <1>3, <1>4, <2>1
  <2> SUFFICES ASSUME adev.active_input # NoStream
               PROVE  /\ adev.active_input \in Ins
                      /\ ResamplerWorks =>
                           /\ stream[adev.active_input].open
                           /\ \/ ~ stream[adev.active_input].standby
                              \/ \E u \in Threads : call'[u].pc = "read_pcm"
                                                    /\ call'[u].on = adev.active_input
    BY <1>3 DEF ActiveOpen, Started
  <2> QED BY <2>1 DEF ClosedInv, ActiveOpen, Started
<1> QED BY <1>3, <1>7, <1>8, <1>9 DEF ClosedInv, IsStreams, Placed, Now

\* adev_close_input_stream has the stream to itself: no other call was made on
\* it, and who would reset it holds lock_inputs.
LEMMA CloseAlone ==
  ASSUME LockInv, InputInv, ClosedInv, NEW t \in Threads, CloseInput(t)
  PROVE  ClosedInv'
<1> DEFINE s == call[t].on
           g == do_in_standby_l(HAL, s)
           h == [g EXCEPT !.stream[s].open = FALSE]
<1>1. /\ s \in Ins /\ s \in Streams /\ s # NoStream /\ call[t].s = s
      /\ call[t].then = "close_input"
      /\ IsWhole(HAL)
  BY MyStream, StreamsAssumption
     DEF CloseInput, Placed, Now, InBodies, Bodies, OutBodies, OutFunctions, Streams
<1>2. lock_inputs = t /\ lock[s] = t
  BY <1>1, Mine DEF CloseInput, Section, Needs, UnderInputs, Locks, Bodies
<1>3. Become(h) /\ call'[t] = Idle /\ \A u \in Threads \ {t} : call'[u] = call[u]
  BY Mine DEF CloseInput, Return
<1>4. StopsOrKeeps(g, HAL, s)
      /\ (g = HAL \/ g.adev.active_input = NoStream)
      /\ (stream[s].standby \/ g.adev.active_input = NoStream)
  BY <1>1, StandbyStops, InStandby_Flags, MyStream
<1> HIDE DEF g
<1>5. /\ IsStreams(stream')
      /\ \A r \in Streams : r # s => /\ stream'[r].open = stream[r].open
                                     /\ stream'[r].standby = stream[r].standby
      /\ adev'.active_input \in {adev.active_input, NoStream}
      /\ stream[s].standby \/ adev'.active_input = NoStream
  <2>1. IsWhole(g)
    BY <1>4 DEF StopsOrKeeps, SameOthers
  <2>2. /\ h.adev = g.adev /\ IsStreams(h.stream)
        /\ \A r \in Streams : r # s => h.stream[r] = g.stream[r]
    BY <2>1 DEF IsWhole, IsHal, IsStreams, StreamFields
  <2> HIDE DEF h
  <2>3. stream' = h.stream /\ adev' = h.adev
    BY <1>3 DEF Become
  <2>4. HAL.adev = adev /\ HAL.stream = stream
    BY MyStream
  <2> QED BY <1>4, <2>2, <2>3, <2>4 DEF StopsOrKeeps, SameOthers
<1> HIDE DEF h
<1>6. ASSUME NEW u \in Threads, u # t PROVE call[u].on # s
  <2>1. CASE Now(call[u]) \in OutBodies
    BY <1>1, <2>1, MyStream, StreamsAssumption DEF Placed
  <2>2. CASE Now(call[u]) \in InBodies
    <3>1. call[u].s = call[u].on
      BY <2>2, MyStream DEF Placed
    <3> QED BY <1>1, <1>6, <3>1 DEF ClosedInv, SoleCloser
  <2>3. CASE Now(call[u]) = "force_input"
    <3>1. call[u].pc = "force_input"
          \/ (call[u].pc \in {"pre", "lock"} /\ call[u].then = "force_input")
      BY <2>3, Mine DEF Now, UnderInputs
    <3>2. lock_inputs = u
      BY <3>1, Mine DEF Section, Needs, UnderInputs, Bodies
    <3> QED BY <1>2, <1>6, <3>2
  <2>4. CASE call[u].pc = "idle"
    BY <1>1, <2>4, MyStream DEF Placed
  <2>5. Now(call[u]) \in Bodies \/ call[u].pc = "idle"
    BY Mine DEF Now, UnderInputs, Bodies
  <2> QED BY <2>1, <2>2, <2>3, <2>4, <2>5 DEF InBodies
<1>7. ResamplerWorks /\ adev'.active_input # NoStream => adev'.active_input # s
  <2> SUFFICES ASSUME ResamplerWorks, adev'.active_input = s PROVE FALSE
    OBVIOUS
  <2>1. adev.active_input = s /\ stream[s].standby
    BY <1>1, <1>5
  <2>2. PICK u \in Threads : call[u].pc = "read_pcm" /\ call[u].on = s
    BY <1>1, <2>1 DEF ClosedInv, ActiveOpen, Started
  <2>3. u # t
    BY <2>2 DEF CloseInput
  <2> QED BY <1>6, <2>2, <2>3
<1>8. ASSUME NEW u \in Threads
      PROVE  /\ Placed(call'[u])
             /\ call'[u].on # NoStream =>
                  /\ call'[u].on \in Streams
                  /\ ResamplerWorks => stream'[call'[u].on].open
  <2>1. CASE u = t
    BY <1>3, <2>1 DEF Idle, Placed, Now, InBodies, OutBodies, OutFunctions, Bodies
  <2>2. CASE u # t
    BY <1>3, <1>5, <1>6, <2>2 DEF ClosedInv
  <2> QED BY <2>1, <2>2
<1>9. SoleCloser'
  BY <1>3 DEF ClosedInv, SoleCloser, Idle
<1>10. ActiveOpen'
  <2> SUFFICES ASSUME adev'.active_input # NoStream
               PROVE  /\ adev'.active_input \in Ins
                      /\ ResamplerWorks =>
                           /\ stream'[adev'.active_input].open
                           /\ \/ ~ stream'[adev'.active_input].standby
                              \/ \E u \in Threads : call'[u].pc = "read_pcm"
                                                    /\ call'[u].on = adev'.active_input
    BY DEF ActiveOpen, Started
  <2>1. adev'.active_input = adev.active_input /\ adev.active_input \in Ins
    BY <1>5 DEF ClosedInv, ActiveOpen
  <2> SUFFICES ASSUME ResamplerWorks
               PROVE  /\ stream'[adev'.active_input].open
                      /\ \/ ~ stream'[adev'.active_input].standby
                         \/ \E u \in Threads : call'[u].pc = "read_pcm"
                                               /\ call'[u].on = adev'.active_input
    BY <2>1
  <2>2. /\ adev.active_input # s /\ stream[adev.active_input].open
        /\ Started(adev.active_input)
    BY <1>7, <2>1 DEF ClosedInv, ActiveOpen
  <2>3. /\ stream'[adev.active_input].open
        /\ stream'[adev.active_input].standby = stream[adev.active_input].standby
    BY <1>5, <2>1, <2>2 DEF Streams
  <2>4. ASSUME NEW u \in Threads, call[u].pc = "read_pcm" PROVE call'[u] = call[u]
    BY <1>3, <2>4 DEF CloseInput
  <2> QED BY <2>1, <2>2, <2>3, <2>4 DEF Started
<1> QED BY <1>5, <1>8, <1>9, <1>10 DEF ClosedInv

LEMMA NextClosed == LockInv /\ InputInv /\ ClosedInv /\ [Next]_vars => ClosedInv'
<1> SUFFICES ASSUME LockInv, InputInv, ClosedInv, [Next]_vars PROVE ClosedInv'
  OBVIOUS
<1>1. CASE UNCHANGED vars
  BY <1>1 DEF vars, ClosedInv, IsStreams, Placed, Now, SoleCloser, ActiveOpen, Started
<1>2. ASSUME NEW t \in Threads, Step(t) PROVE ClosedInv'
  BY <1>2, AcquireQuiet, WriteQuiet, OutQuiet, StandbyQuiet, ReadQuiet,
     ParametersQuiet, CloseAlone, QuietPreserves DEF Step
<1>3. ASSUME NEW t \in Threads, OpenCall(t) PROVE ClosedInv'
  BY <1>3, OpenQuiet, QuietPreserves
<1> QED BY <1>1, <1>2, <1>3, BeginCall DEF Next

LEMMA InitClosed == Init => ClosedInv
<1> SUFFICES ASSUME Init PROVE ClosedInv
  OBVIOUS
<1>1. IsStreams(stream)
  BY DEF Init, IsStreams, NewStream, StreamFields
<1>2. adev.active_input = NoStream /\ \A t \in Threads : call[t] = Idle
  BY DEF Init
<1> QED BY <1>1, <1>2 DEF ClosedInv, Placed, Now, Idle, SoleCloser, ActiveOpen,
                          InBodies, OutBodies, OutFunctions, Bodies

\* "lock_inputs must be held in order to either close the input stream, or
\* prevent closure": for any number of threads and inputs, as long as creating a
\* resampler does not fail, no call works on, or waits for a mutex of, an input
\* that has been closed, and the active input is open.
THEOREM ClosedNotUsed == ResamplerWorks => (Spec => []NoClosedStream)
<1> SUFFICES ASSUME ResamplerWorks PROVE Spec => []NoClosedStream
  OBVIOUS
<1>1. Init => LockInv /\ InputInv /\ ClosedInv
  BY InitLocks, InitClosed DEF Init, InputInv, IsAdev, AdevFields, Chosen, Forced, Idle
<1>2. LockInv /\ InputInv /\ ClosedInv /\ [Next]_vars
      => LockInv' /\ InputInv' /\ ClosedInv'
  BY NextLocks, NextInputs, NextClosed
<1>3. ClosedInv => NoClosedStream
  BY DEF ClosedInv, ActiveOpen, NoClosedStream
<1> QED BY <1>1, <1>2, <1>3, PTL DEF Spec

-----------------------------------------------------------------------------
(* Use cases and reference counts *)

LEMMA LeastIn ==
  ASSUME NEW I \in SUBSET Nat, I # {}
  PROVE  Min(I) \in I
<1>1. PICK x \in I : \A y \in I : ~ (<<y, x>> \in OpToRel(<, Nat))
  BY WFMin, NatLessThanWellFounded, Zenon
<1>2. ASSUME NEW y \in I PROVE ~ (y < x)
  BY <1>1, Zenon DEF OpToRel
<1>3. \A y \in I : x <= y
  BY <1>2
<1> QED BY <1>3 DEF Min

\* What get_usecase_from_id finds.
LEMMA UsecaseFound ==
  ASSUME NEW a, NEW S, a.usecase_list \in Seq(S), NEW id
  PROVE  LET i == get_usecase_from_id(a, id) IN
         \/ i = 0 /\ \A j \in DOMAIN a.usecase_list : a.usecase_list[j].id # id
         \/ i \in DOMAIN a.usecase_list /\ i # 0 /\ a.usecase_list[i].id = id
<1> DEFINE I == {i \in 1 .. Len(a.usecase_list) : a.usecase_list[i].id = id}
<1>1. get_usecase_from_id(a, id) = IF I # {} THEN Min(I) ELSE 0
  BY DEF get_usecase_from_id, SelectInSeq
<1>2. I \in SUBSET Nat
  OBVIOUS
<1> HIDE DEF I
<1>3. I # {} => Min(I) \in I
  BY <1>2, LeastIn
<1> USE DEF I
<1> QED BY <1>1, <1>3

LEMMA Removed ==
  ASSUME NEW S, NEW l \in Seq(S), NEW i \in 1 .. Len(l)
  PROVE  /\ RemoveAt(l, i) \in Seq(S)
         /\ Len(RemoveAt(l, i)) = Len(l) - 1
         /\ \A j \in 1 .. Len(l) - 1 :
              RemoveAt(l, i)[j] = IF j < i THEN l[j] ELSE l[j + 1]
<1> DEFINE p == SubSeq(l, 1, i - 1)
           q == SubSeq(l, i + 1, Len(l))
<1>1. /\ p \in Seq(S) /\ Len(p) = i - 1
      /\ \A j \in 1 .. i - 1 : p[j] = l[j]
  BY SubSeqProperties
<1>2. /\ q \in Seq(S) /\ Len(q) = Len(l) - i
      /\ \A j \in 1 .. Len(l) - i : q[j] = l[i + j]
  BY SubSeqProperties
<1> HIDE DEF p, q
<1>3. /\ p \o q \in Seq(S) /\ Len(p \o q) = Len(p) + Len(q)
      /\ \A j \in 1 .. Len(p) + Len(q) :
           (p \o q)[j] = IF j <= Len(p) THEN p[j] ELSE q[j - Len(p)]
  BY <1>1, <1>2, ConcatProperties
<1>4. RemoveAt(l, i) = p \o q
  BY DEF RemoveAt, p, q
<1>5. Len(p \o q) = Len(l) - 1
  BY <1>1, <1>2, <1>3
<1>6. ASSUME NEW j \in 1 .. Len(l) - 1
      PROVE  (p \o q)[j] = IF j < i THEN l[j] ELSE l[j + 1]
  <2>1. (p \o q)[j] = IF j <= i - 1 THEN p[j] ELSE q[j - (i - 1)]
    BY <1>1, <1>2, <1>3
  <2>2. CASE j < i
    BY <1>1, <2>1, <2>2
  <2>3. CASE ~ (j < i)
    <3>1. j - (i - 1) \in 1 .. Len(l) - i /\ i + (j - (i - 1)) = j + 1
      BY <2>3
    <3> QED BY <1>2, <2>1, <2>3, <3>1
  <2> QED BY <2>2, <2>3
<1> QED BY <1>3, <1>4, <1>5, <1>6

Uses(uc, d) == d \in {uc.out_snd_device, uc.in_snd_device}
UsersOf(l, d) == {i \in DOMAIN l : Uses(l[i], d)}

\* The same as numbers.
Is(d, e) == IF d = e THEN 1 ELSE 0
Use(uc, d) == IF Uses(uc, d) THEN 1 ELSE 0

LEMMA UsersFinite ==
  ASSUME NEW S, NEW l \in Seq(S), NEW d
  PROVE  /\ IsFiniteSet(UsersOf(l, d))
         /\ Cardinality(UsersOf(l, d)) \in Nat
         /\ UsersOf(l, d) # {} => Cardinality(UsersOf(l, d)) > 0
<1>1. IsFiniteSet(1 .. Len(l))
  BY FS_Interval
<1>2. UsersOf(l, d) \in SUBSET (1 .. Len(l))
  BY DEF UsersOf
<1> DEFINE U == UsersOf(l, d)
<1> HIDE DEF U
<1>3. IsFiniteSet(U)
  BY <1>1, <1>2, FS_Subset DEF U
<1>4. Cardinality(U) \in Nat
  BY <1>3, FS_CardinalityType
<1>5. Cardinality(U) = 0 => U = {}
  BY <1>3, FS_EmptySet
<1> QED BY <1>3, <1>4, <1>5 DEF U

LEMMA UsersAppend ==
  ASSUME NEW S, NEW l \in Seq(S), NEW uc, NEW d, ~ Uses(uc, d)
  PROVE  UsersOf(Append(l, uc), d) = UsersOf(l, d)
<1>1. /\ DOMAIN Append(l, uc) = 1 .. Len(l) + 1
      /\ \A i \in 1 .. Len(l) : Append(l, uc)[i] = l[i]
      /\ Append(l, uc)[Len(l) + 1] = uc
  OBVIOUS
<1> QED BY <1>1 DEF UsersOf

\* What the number of users of d becomes when use case i of the list changes.
LEMMA UsersChange ==
  ASSUME NEW S, NEW l \in Seq(S), NEW m \in Seq(S), NEW i \in DOMAIN l, NEW d,
         DOMAIN m = DOMAIN l, \A j \in DOMAIN l : j # i => m[j] = l[j]
  PROVE  Cardinality(UsersOf(m, d))
         = Cardinality(UsersOf(l, d)) - Use(l[i], d) + Use(m[i], d)
<1> DEFINE U == UsersOf(l, d)
           V == UsersOf(m, d)
<1>1. /\ IsFiniteSet(U) /\ Cardinality(U) \in Nat
      /\ IsFiniteSet(V) /\ Cardinality(V) \in Nat
  BY UsersFinite
<1>2. U \ {i} = V \ {i}
  BY DEF UsersOf
<1>3. (i \in U <=> Uses(l[i], d)) /\ (i \in V <=> Uses(m[i], d))
  BY DEF UsersOf
<1> HIDE DEF U, V
<1>4. /\ Cardinality(U \ {i}) = IF i \in U THEN Cardinality(U) - 1 ELSE Cardinality(U)
      /\ Cardinality(V \ {i}) = IF i \in V THEN Cardinality(V) - 1 ELSE Cardinality(V)
  BY <1>1, FS_RemoveElement
<1>5. /\ Use(l[i], d) = IF i \in U THEN 1 ELSE 0
      /\ Use(m[i], d) = IF i \in V THEN 1 ELSE 0
  BY <1>3 DEF Is, Use
<1>6. Cardinality(V) = Cardinality(U) - Use(l[i], d) + Use(m[i], d)
  <2>1. Cardinality(U \ {i}) = Cardinality(V \ {i})
    BY <1>2, Zenon
  <2> QED BY <1>1, <1>4, <1>5, <2>1
<1> QED BY <1>6 DEF U, V

LEMMA UsersRemove ==
  ASSUME NEW S, NEW l \in Seq(S), NEW i \in 1 .. Len(l), NEW d
  PROVE  Cardinality(UsersOf(RemoveAt(l, i), d))
         = Cardinality(UsersOf(l, d)) - Use(l[i], d)
<1> DEFINE U == UsersOf(l, d)
           m == RemoveAt(l, i)
           V == UsersOf(m, d)
           f == [j \in U \ {i} |-> IF j < i THEN j ELSE j - 1]
<1>1. /\ m \in Seq(S) /\ Len(m) = Len(l) - 1
      /\ \A j \in 1 .. Len(l) - 1 : m[j] = IF j < i THEN l[j] ELSE l[j + 1]
  BY Removed
<1>2. IsFiniteSet(U) /\ Cardinality(U) \in Nat
  BY UsersFinite
<1>3. /\ DOMAIN m = 1 .. Len(l) - 1
      /\ U \subseteq 1 .. Len(l)
      /\ \A j \in 1 .. Len(l) : j \in U <=> Uses(l[j], d)
  BY <1>1 DEF UsersOf
<1> HIDE DEF m, U
<1>4. \A j \in 1 .. Len(l) - 1 : j \in V <=> (IF j < i THEN j \in U ELSE j + 1 \in U)
  BY <1>1, <1>3 DEF UsersOf
<1>5. V \subseteq 1 .. Len(l) - 1
  BY <1>3 DEF UsersOf
<1> HIDE DEF V
<1>6. f \in [U \ {i} -> V]
  BY <1>3, <1>4
<1>7. \A j, k \in U \ {i} : f[j] = f[k] => j = k
  BY <1>3
<1>8. \A v \in V : \E j \in U \ {i} : f[j] = v
  <2> SUFFICES ASSUME NEW v \in V PROVE \E j \in U \ {i} : f[j] = v
    OBVIOUS
  <2>1. CASE v < i
    <3>1. v \in U \ {i} /\ f[v] = v
      BY <1>4, <1>5, <2>1
    <3> QED BY <3>1
  <2>2. CASE ~ (v < i)
    <3>1. v + 1 \in U \ {i} /\ f[v + 1] = v
      BY <1>4, <1>5, <2>2
    <3> QED BY <3>1
  <2> QED BY <2>1, <2>2
<1> HIDE DEF f
<1>9. f \in Bijection(U \ {i}, V)
  BY <1>6, <1>7, <1>8 DEF Bijection, Injection, Surjection, IsInjective
<1>10. ExistsBijection(U \ {i}, V)
  BY <1>9 DEF ExistsBijection
<1>11. /\ IsFiniteSet(U \ {i})
       /\ Cardinality(U \ {i}) = IF i \in U THEN Cardinality(U) - 1 ELSE Cardinality(U)
  BY <1>2, FS_RemoveElement
<1>12. Cardinality(V) = Cardinality(U \ {i})
  BY <1>10, <1>11, FS_Bijection
<1>13. Cardinality(V) = Cardinality(U) - Use(l[i], d)
  BY <1>2, <1>3, <1>11, <1>12 DEF Is, Use
<1> QED BY <1>13 DEF U, V, m

\* The mixer's paths follow the reference counts.
Routed(a) ==
  /\ IsAdev(a)
  /\ DOMAIN a.snd_dev_ref_cnt = SndDevices
  /\ \A d \in SndDevices : /\ a.snd_dev_ref_cnt[d] \in Nat
                           /\ d \in a.route <=> a.snd_dev_ref_cnt[d] > 0

LEMMA NoneIsNoDevice == SND_DEVICE_NONE \notin SndDevices
BY DEF SND_DEVICE_NONE, SndDevices, OutSndDevices, InSndDevices

LEMMA Enabled_Counts ==
  ASSUME NEW a, Routed(a), NEW uc, NEW dev \in SndDevices \cup {SND_DEVICE_NONE},
         uc.mixer_list = TRUE \/ dev = SND_DEVICE_NONE
  PROVE  LET b == enable_snd_device(a, uc, dev) IN
         /\ Routed(b)
         /\ b.usecase_list = a.usecase_list
         /\ \A d \in SndDevices :
              b.snd_dev_ref_cnt[d] = a.snd_dev_ref_cnt[d] + Is(d, dev)
<1>1. CASE dev = SND_DEVICE_NONE
  BY <1>1, NoneIsNoDevice DEF enable_snd_device, Routed, Is, Use
<1>2. CASE dev # SND_DEVICE_NONE
  <2> DEFINE r == IF a.snd_dev_ref_cnt[dev] = 0 THEN a.route \cup {dev} ELSE a.route
             b == [a EXCEPT !.snd_dev_ref_cnt[dev] = @ + 1, !.route = r]
  <2>1. enable_snd_device(a, uc, dev) = b
    BY <1>2 DEF enable_snd_device
  <2>2. IsAdev(b) /\ b.usecase_list = a.usecase_list /\ b.route = r
        /\ DOMAIN b.snd_dev_ref_cnt = SndDevices
        /\ \A d \in SndDevices : b.snd_dev_ref_cnt[d] =
             IF d = dev THEN a.snd_dev_ref_cnt[d] + 1 ELSE a.snd_dev_ref_cnt[d]
    BY <1>2 DEF Routed, IsAdev, AdevFields
  <2>3. \A d \in SndDevices : d \in r <=> d = dev \/ d \in a.route
    BY <1>2 DEF Routed
  <2> HIDE DEF b, r
  <2>4. Routed(b)
    BY <1>2, <2>2, <2>3 DEF Routed
  <2>5. \A d \in SndDevices : Is(d, dev) = IF d = dev THEN 1 ELSE 0
    BY DEF Is, Use
  <2> QED BY <2>1, <2>2, <2>4, <2>5 DEF Routed
<1> QED BY <1>1, <1>2

LEMMA Disabled_Counts ==
  ASSUME NEW a, Routed(a), NEW uc, NEW dev \in SndDevices \cup {SND_DEVICE_NONE},
         \/ uc.mixer_list = TRUE /\ (dev \in SndDevices => a.snd_dev_ref_cnt[dev] > 0)
         \/ dev = SND_DEVICE_NONE
  PROVE  LET b == disable_snd_device(a, uc, dev) IN
         /\ Routed(b)
         /\ b.usecase_list = a.usecase_list
         /\ \A d \in SndDevices :
              b.snd_dev_ref_cnt[d] = a.snd_dev_ref_cnt[d] - Is(d, dev)
<1>1. CASE dev = SND_DEVICE_NONE
  BY <1>1, NoneIsNoDevice DEF disable_snd_device, Routed, Is, Use
<1>2. CASE dev # SND_DEVICE_NONE
  <2> DEFINE r == IF a.snd_dev_ref_cnt[dev] = 1 THEN a.route \ {dev} ELSE a.route
             b == [a EXCEPT !.snd_dev_ref_cnt[dev] = @ - 1, !.route = r]
  <2>0. ~ (a.snd_dev_ref_cnt[dev] <= 0) /\ uc.mixer_list = TRUE
    BY <1>2 DEF Routed
  <2>1. disable_snd_device(a, uc, dev) = b
    BY <1>2, <2>0 DEF disable_snd_device
  <2>2. IsAdev(b) /\ b.usecase_list = a.usecase_list /\ b.route = r
        /\ DOMAIN b.snd_dev_ref_cnt = SndDevices
        /\ \A d \in SndDevices : b.snd_dev_ref_cnt[d] =
             IF d = dev THEN a.snd_dev_ref_cnt[d] - 1 ELSE a.snd_dev_ref_cnt[d]
    BY <1>2 DEF Routed, IsAdev, AdevFields
  <2>3. \A d \in SndDevices :
          d \in r <=> d \in a.route /\ ~ (d = dev /\ a.snd_dev_ref_cnt[dev] = 1)
    BY <1>2
  <2> HIDE DEF b, r
  <2>4. Routed(b)
    BY <1>2, <2>2, <2>3 DEF Routed
  <2>5. \A d \in SndDevices : Is(d, dev) = IF d = dev THEN 1 ELSE 0
    BY DEF Is, Use
  <2> QED BY <2>1, <2>2, <2>4, <2>5 DEF Routed
<1> QED BY <1>1, <1>2

AnyDevice == SndDevices \cup {SND_DEVICE_NONE}

\* A use case has devices of one direction, and the output's has none if there is
\* no mixer in its list.
Sided(uc) ==
  /\ uc.out_snd_device \in AnyDevice /\ uc.in_snd_device \in AnyDevice
  /\ uc.id = "playback" => /\ uc.in_snd_device = SND_DEVICE_NONE
                           /\ uc.mixer_list = TRUE \/ uc.out_snd_device = SND_DEVICE_NONE
  /\ uc.id # "playback" => /\ uc.out_snd_device = SND_DEVICE_NONE
                           /\ uc.mixer_list = TRUE

\* RoutesCounted of a, and what it rests on.
Counted(a) ==
  /\ Routed(a)
  /\ a.usecase_list \in Seq(Usecases)
  /\ \A i \in DOMAIN a.usecase_list : Sided(a.usecase_list[i])
  /\ \A d \in SndDevices :
       a.snd_dev_ref_cnt[d] = Cardinality(UsersOf(a.usecase_list, d))

LEMMA UseOnce ==
  ASSUME NEW uc, Sided(uc), NEW d \in SndDevices
  PROVE  Use(uc, d) = Is(d, uc.out_snd_device) + Is(d, uc.in_snd_device)
<1>1. d # SND_DEVICE_NONE
  BY NoneIsNoDevice
<1>2. uc.out_snd_device = SND_DEVICE_NONE \/ uc.in_snd_device = SND_DEVICE_NONE
  BY DEF Sided
<1>3. CASE d = uc.out_snd_device
  <2>1. ~ (d = uc.in_snd_device)
    BY <1>1, <1>2, <1>3
  <2> QED BY <1>3, <2>1 DEF Is, Use, Uses
<1>4. CASE d # uc.out_snd_device
  BY <1>4 DEF Is, Use, Uses
<1> QED BY <1>3, <1>4

\* The devices of a use case in the list are counted, so that they can be taken
\* off again.
LEMMA TakenOff ==
  ASSUME NEW a, Counted(a), NEW i \in DOMAIN a.usecase_list
  PROVE  LET uc == a.usecase_list[i]
             off1 == disable_snd_device(a, uc, uc.out_snd_device)
             off == disable_snd_device(off1, uc, uc.in_snd_device)
         IN /\ Routed(off1) /\ off1.usecase_list = a.usecase_list
            /\ Routed(off) /\ off.usecase_list = a.usecase_list
            /\ \A d \in SndDevices :
                 /\ off1.snd_dev_ref_cnt[d]
                    = a.snd_dev_ref_cnt[d] - Is(d, uc.out_snd_device)
                 /\ off.snd_dev_ref_cnt[d] = a.snd_dev_ref_cnt[d] - Use(uc, d)
<1> DEFINE l == a.usecase_list
           uc == l[i]
           off1 == disable_snd_device(a, uc, uc.out_snd_device)
           off == disable_snd_device(off1, uc, uc.in_snd_device)
<1>1. Sided(uc) /\ Routed(a) /\ l \in Seq(Usecases)
  BY DEF Counted
<1>2. ASSUME NEW d \in SndDevices, Uses(uc, d) PROVE a.snd_dev_ref_cnt[d] > 0
  <2>1. UsersOf(l, d) # {}
    BY <1>2 DEF UsersOf
  <2> QED BY <1>1, <2>1, UsersFinite DEF Counted
<1> HIDE DEF uc
<1>3. /\ Routed(off1) /\ off1.usecase_list = l
      /\ \A d \in SndDevices : off1.snd_dev_ref_cnt[d]
                               = a.snd_dev_ref_cnt[d] - Is(d, uc.out_snd_device)
  <2>1. \/ /\ uc.mixer_list = TRUE
           /\ uc.out_snd_device \in SndDevices => a.snd_dev_ref_cnt[uc.out_snd_device] > 0
        \/ uc.out_snd_device = SND_DEVICE_NONE
    BY <1>1, <1>2 DEF Sided, Uses
  <2>2. uc.out_snd_device \in SndDevices \cup {SND_DEVICE_NONE}
    BY <1>1 DEF Sided, AnyDevice
  <2> QED BY <1>1, <2>1, <2>2, Disabled_Counts
<1> HIDE DEF off1
<1>4. /\ Routed(off) /\ off.usecase_list = off1.usecase_list
      /\ \A d \in SndDevices : off.snd_dev_ref_cnt[d]
                               = off1.snd_dev_ref_cnt[d] - Is(d, uc.in_snd_device)
  <2>1. \/ /\ uc.mixer_list = TRUE
           /\ uc.in_snd_device \in SndDevices => off1.snd_dev_ref_cnt[uc.in_snd_device] > 0
        \/ uc.in_snd_device = SND_DEVICE_NONE
    <3>1. CASE uc.in_snd_device \in SndDevices
      <4>1. uc.out_snd_device = SND_DEVICE_NONE /\ uc.mixer_list = TRUE
        BY <1>1, <3>1, NoneIsNoDevice DEF Sided
      <4>2. Is(uc.in_snd_device, uc.out_snd_device) = 0
        BY <3>1, <4>1, NoneIsNoDevice DEF Is, Use
      <4>3. Uses(uc, uc.in_snd_device)
        BY DEF Uses
      <4>4. a.snd_dev_ref_cnt[uc.in_snd_device] > 0
        BY <1>2, <3>1, <4>3
      <4>5. a.snd_dev_ref_cnt[uc.in_snd_device] \in Nat
        BY <1>1, <3>1 DEF Routed
      <4> QED BY <1>3, <3>1, <4>1, <4>2, <4>4, <4>5
    <3> QED BY <1>1, <3>1 DEF Sided, AnyDevice
  <2>2. uc.in_snd_device \in SndDevices \cup {SND_DEVICE_NONE}
    BY <1>1 DEF Sided, AnyDevice
  <2>3. Routed(off1)
    BY <1>3
  <2> QED BY ONLY <2>1, <2>2, <2>3, Disabled_Counts
<1> HIDE DEF off
<1>5. ASSUME NEW d \in SndDevices
      PROVE  off.snd_dev_ref_cnt[d] = a.snd_dev_ref_cnt[d] - Use(uc, d)
  <2>1. Use(uc, d) = Is(d, uc.out_snd_device) + Is(d, uc.in_snd_device)
    BY <1>1, UseOnce
  <2>2. Is(d, uc.out_snd_device) \in {0, 1} /\ Is(d, uc.in_snd_device) \in {0, 1}
    BY DEF Is, Use
  <2>3. a.snd_dev_ref_cnt[d] \in Nat
    BY <1>1 DEF Routed
  <2> QED BY <1>3, <1>4, <2>1, <2>2, <2>3
<1> QED BY <1>3, <1>4, <1>5 DEF off, off1, uc

\* The use cases are the same but for their devices.
SameUses(m, l) ==
  /\ DOMAIN m = DOMAIN l
  /\ \A j \in DOMAIN l : /\ m[j].id = l[j].id
                         /\ m[j].stream = l[j].stream
                         /\ m[j].mixer_list = l[j].mixer_list

LEMMA Switch_Counts ==
  ASSUME NEW a, Counted(a), NEW i \in DOMAIN a.usecase_list,
         NEW out \in OutSndDevices \cup {SND_DEVICE_NONE},
         NEW in \in InSndDevices \cup {SND_DEVICE_NONE},
         a.usecase_list[i].id = "playback" =>
           /\ in = SND_DEVICE_NONE
           /\ a.usecase_list[i].mixer_list = TRUE \/ out = SND_DEVICE_NONE,
         a.usecase_list[i].id # "playback" => out = SND_DEVICE_NONE
  PROVE  /\ Counted(switch_devices(a, i, out, in))
         /\ SameUses(switch_devices(a, i, out, in).usecase_list, a.usecase_list)
<1> DEFINE l == a.usecase_list
           uc == l[i]
           off1 == disable_snd_device(a, uc, uc.out_snd_device)
           off == disable_snd_device(off1, uc, uc.in_snd_device)
           on1 == enable_snd_device(off, uc, out)
           on == enable_snd_device(on1, uc, in)
           vc == [uc EXCEPT !.out_snd_device = out, !.in_snd_device = in]
           m == [l EXCEPT ![i] = vc]
           b == [on EXCEPT !.usecase_list = m]
<1>1. Sided(uc) /\ Routed(a) /\ l \in Seq(Usecases) /\ uc \in Usecases
  BY DEF Counted
<1>2. /\ Routed(off) /\ off.usecase_list = l
      /\ \A d \in SndDevices : off.snd_dev_ref_cnt[d] = a.snd_dev_ref_cnt[d] - Use(uc, d)
  BY TakenOff
<1>3. /\ vc \in Usecases /\ vc.out_snd_device = out /\ vc.in_snd_device = in
      /\ vc.id = uc.id /\ vc.stream = uc.stream /\ vc.mixer_list = uc.mixer_list
  BY <1>1 DEF Usecases
<1>4. /\ out \in AnyDevice /\ in \in AnyDevice
      /\ uc.mixer_list = TRUE \/ out = SND_DEVICE_NONE
      /\ uc.mixer_list = TRUE \/ in = SND_DEVICE_NONE
  BY <1>1 DEF Sided, AnyDevice, SndDevices
<1>5. Sided(vc)
  BY <1>1, <1>3, <1>4 DEF Sided
<1>6. switch_devices(a, i, out, in)
      = IF out = uc.out_snd_device /\ in = uc.in_snd_device THEN a
        ELSE [on EXCEPT !.usecase_list[i].out_snd_device = out,
                        !.usecase_list[i].in_snd_device = in]
  BY DEF switch_devices
<1> HIDE DEF off, vc
<1>7. /\ Routed(on1) /\ on1.usecase_list = off.usecase_list
      /\ \A d \in SndDevices : on1.snd_dev_ref_cnt[d] = off.snd_dev_ref_cnt[d] + Is(d, out)
  <2>1. Routed(off) /\ out \in SndDevices \cup {SND_DEVICE_NONE}
    BY <1>2, <1>4 DEF AnyDevice
  <2> HIDE DEF uc
  <2> QED BY ONLY <1>4, <2>1, Enabled_Counts
<1> HIDE DEF on1
<1>8. /\ Routed(on) /\ on.usecase_list = on1.usecase_list
      /\ \A d \in SndDevices : on.snd_dev_ref_cnt[d] = on1.snd_dev_ref_cnt[d] + Is(d, in)
  <2>1. Routed(on1) /\ in \in SndDevices \cup {SND_DEVICE_NONE}
    BY <1>4, <1>7 DEF AnyDevice
  <2> HIDE DEF uc
  <2> QED BY ONLY <1>4, <2>1, Enabled_Counts
<1> HIDE DEF on
<1>9. /\ m \in Seq(Usecases) /\ DOMAIN m = DOMAIN l /\ m[i] = vc
      /\ \A j \in DOMAIN l : j # i => m[j] = l[j]
  BY <1>1, <1>3
<1>10. [on EXCEPT !.usecase_list[i].out_snd_device = out,
                  !.usecase_list[i].in_snd_device = in] = b
  BY <1>2, <1>7, <1>8, <1>9 DEF Routed, IsAdev, AdevFields, vc
<1>11. /\ b.usecase_list = m /\ b.snd_dev_ref_cnt = on.snd_dev_ref_cnt
       /\ b.route = on.route /\ IsAdev(b)
  BY <1>8 DEF Routed, IsAdev, AdevFields
<1> HIDE DEF b, m
<1>12. ASSUME NEW d \in SndDevices
       PROVE  b.snd_dev_ref_cnt[d] = Cardinality(UsersOf(m, d))
  <2>1. Cardinality(UsersOf(m, d)) = Cardinality(UsersOf(l, d)) - Use(uc, d) + Use(vc, d)
    BY <1>1, <1>9, UsersChange
  <2>2. Use(vc, d) = Is(d, out) + Is(d, in)
    BY <1>3, <1>5, UseOnce
  <2>3. a.snd_dev_ref_cnt[d] \in Nat /\ a.snd_dev_ref_cnt[d] = Cardinality(UsersOf(l, d))
    BY DEF Counted, Routed
  <2>4. Use(uc, d) \in {0, 1} /\ Is(d, out) \in {0, 1} /\ Is(d, in) \in {0, 1}
    BY DEF Use, Is
  <2>5. b.snd_dev_ref_cnt[d] = a.snd_dev_ref_cnt[d] - Use(uc, d) + Is(d, out) + Is(d, in)
    BY <1>2, <1>7, <1>8, <1>11, <2>3, <2>4
  <2> QED BY <2>1, <2>2, <2>3, <2>4, <2>5
<1>13. Counted(b) /\ SameUses(b.usecase_list, l)
  <2>1. Routed(b)
    BY <1>8, <1>11 DEF Routed
  <2>2. \A j \in DOMAIN m : Sided(m[j])
    BY <1>5, <1>9 DEF Counted
  <2>3. SameUses(m, l)
    BY <1>3, <1>9 DEF SameUses
  <2> QED BY <1>9, <1>11, <1>12, <2>1, <2>2, <2>3 DEF Counted
<1>14. SameUses(l, l)
  BY DEF SameUses
<1> QED BY <1>6, <1>10, <1>13, <1>14

\* The list without one of its use cases.
LEMMA Stop_Counts ==
  ASSUME NEW a, Counted(a), NEW i \in DOMAIN a.usecase_list, NEW b, Routed(b),
         b.usecase_list = a.usecase_list,
         \A d \in SndDevices : b.snd_dev_ref_cnt[d]
                               = a.snd_dev_ref_cnt[d] - Use(a.usecase_list[i], d)
  PROVE  /\ Counted([b EXCEPT !.usecase_list = RemoveAt(@, i)])
         /\ [b EXCEPT !.usecase_list = RemoveAt(@, i)].usecase_list
            = RemoveAt(a.usecase_list, i)
<1> DEFINE l == a.usecase_list
           m == RemoveAt(l, i)
           c == [b EXCEPT !.usecase_list = m]
<1>1. l \in Seq(Usecases) /\ i \in 1 .. Len(l)
  BY DEF Counted
<1>2. /\ m \in Seq(Usecases) /\ Len(m) = Len(l) - 1
      /\ \A j \in 1 .. Len(l) - 1 : m[j] = IF j < i THEN l[j] ELSE l[j + 1]
  BY <1>1, Removed
<1>3. \A d \in SndDevices :
        Cardinality(UsersOf(m, d)) = Cardinality(UsersOf(l, d)) - Use(l[i], d)
  BY <1>1, UsersRemove
<1> HIDE DEF m
<1>4. /\ c.usecase_list = m /\ c.snd_dev_ref_cnt = b.snd_dev_ref_cnt
      /\ c.route = b.route /\ IsAdev(c)
  BY DEF Routed, IsAdev, AdevFields
<1> HIDE DEF c
<1>5. Routed(c)
  BY <1>4 DEF Routed
<1>6. ASSUME NEW j \in DOMAIN m PROVE Sided(m[j])
  <2>1. \E k \in DOMAIN l : m[j] = l[k]
    BY <1>1, <1>2
  <2> QED BY <2>1 DEF Counted
<1>7. Counted(c)
  BY <1>2, <1>3, <1>4, <1>5, <1>6 DEF Counted
<1> QED BY <1>4, <1>7 DEF c, m

NoPlay(l) == \A j \in DOMAIN l : l[j].id # "playback"
OnePlay(l) == \A j, k \in DOMAIN l : l[j].id = "playback" /\ l[k].id = "playback" => j = k

\* The output's use case has a mixer in its list if there is a path for devices.
Matched(l, devices) ==
  \A j \in DOMAIN l : l[j].id = "playback" =>
    l[j].mixer_list = TRUE \/ get_output_snd_device(devices) = SND_DEVICE_NONE

LEMMA SameUsesKeep ==
  ASSUME NEW m, NEW l, SameUses(m, l), NEW devices
  PROVE  /\ NoPlay(l) => NoPlay(m)
         /\ OnePlay(l) => OnePlay(m)
         /\ Matched(l, devices) => Matched(m, devices)
BY DEF SameUses, NoPlay, OnePlay, Matched

LEMMA OutDevice ==
  ASSUME NEW devices
  PROVE  get_output_snd_device(devices) \in OutSndDevices \cup {SND_DEVICE_NONE}
BY DEF get_output_snd_device, OutSndDevices

LEMMA InDevice ==
  ASSUME NEW h, NEW out
  PROVE  get_input_snd_device(h, out) \in InSndDevices \cup {SND_DEVICE_NONE}
<1>1. ASSUME NEW x PROVE default_mic(x) \in InSndDevices
  BY DEF default_mic, InSndDevices
<1> QED BY <1>1 DEF get_input_snd_device, InSndDevices

\* A set of devices for which no profile has a PCM has no sound device either.
LEMMA NoPcmNoDevice ==
  ASSUME NEW devices, get_pcm_device(primary_output, devices) = NO_PCM
  PROVE  get_output_snd_device(devices) = SND_DEVICE_NONE
<1> DEFINE wired == {"headset", "headphone"}
<1>1. devices = {} \/ ~ devices \subseteq profile_devices(primary_output)
  BY Zenon DEF get_pcm_device, NO_PCM
<1>2. profile_devices(primary_output) = {"speaker", "headset", "headphone"}
  BY DEF profile_devices
<1>3. Cardinality({}) = 0
  BY FS_EmptySet
<1>4. devices \notin {{"speaker", w} : w \in wired}
  BY <1>1, <1>2
<1>5. Cardinality(devices) # 1 \/ ~ (devices \subseteq wired)
  BY <1>1, <1>2, <1>3
<1>6. devices # {"speaker"}
  BY <1>1, <1>2
<1> QED BY <1>4, <1>5, <1>6 DEF get_output_snd_device

\* select_devices counts what it switches on and off.
Selected(g, h) ==
  /\ IsHal(g) /\ Counted(g.adev)
  /\ SameUses(g.adev.usecase_list, h.adev.usecase_list)

LEMMA Select_Counts ==
  ASSUME NEW h, IsHal(h), Counted(h.adev), NEW s,
         Matched(h.adev.usecase_list, h.stream[primary_output].devices)
  PROVE  Selected(select_devices(h, AUDIO_USECASE(s)), h)
<1>1. Selected(h, h)
  BY DEF Selected, SameUses
<1>2. Selected(select_capture(h), h)
  <2>1. PICK mic, i :
          /\ mic \in InSndDevices \cup {SND_DEVICE_NONE}
          /\ i = get_usecase_from_id(h.adev, "capture")
          /\ select_capture(h)
             = IF i = 0 THEN h
               ELSE [h EXCEPT !.adev = switch_devices(h.adev, i, SND_DEVICE_NONE, mic)]
    BY InDevice DEF select_capture
  <2>2. i # 0 => i \in DOMAIN h.adev.usecase_list /\ h.adev.usecase_list[i].id = "capture"
    BY <2>1, UsecaseFound DEF Counted
  <2>3. CASE i # 0
    <3> DEFINE b == switch_devices(h.adev, i, SND_DEVICE_NONE, mic)
    <3>1. Counted(b) /\ SameUses(b.usecase_list, h.adev.usecase_list)
      <4>1. /\ h.adev.usecase_list[i].id # "playback"
            /\ SND_DEVICE_NONE \in OutSndDevices \cup {SND_DEVICE_NONE}
        BY <2>2, <2>3
      <4> QED BY <2>1, <2>2, <2>3, <4>1, Switch_Counts
    <3> HIDE DEF b
    <3>2. IsHal([h EXCEPT !.adev = b]) /\ [h EXCEPT !.adev = b].adev = b
      BY <3>1 DEF IsHal, Counted, Routed
    <3>3. Selected([h EXCEPT !.adev = b], h)
      BY <3>1, <3>2 DEF Selected
    <3> QED BY <2>1, <2>3, <3>3 DEF b
  <2> QED BY <1>1, <2>1, <2>3
<1>3. Selected(select_playback(h), h)
  <2>1. PICK h1, i, out :
          /\ h1 = h \/ h1 = select_capture(h)
          /\ i = get_usecase_from_id(h.adev, "playback")
          /\ out = get_output_snd_device(h.stream[primary_output].devices)
          /\ select_playback(h)
             = IF i = 0 THEN h
               ELSE [h1 EXCEPT !.adev = switch_devices(h1.adev, i, out, SND_DEVICE_NONE)]
    BY DEF select_playback
  <2>2. Selected(h1, h)
    BY <1>1, <1>2, <2>1
  <2>3. CASE i # 0
    <3>1. /\ i \in DOMAIN h.adev.usecase_list
          /\ h.adev.usecase_list[i].id = "playback"
      BY <2>1, <2>3, UsecaseFound DEF Counted
    <3>2. /\ i \in DOMAIN h1.adev.usecase_list
          /\ h1.adev.usecase_list[i].id = "playback"
          /\ h1.adev.usecase_list[i].mixer_list = TRUE \/ out = SND_DEVICE_NONE
      BY <2>1, <2>2, <3>1 DEF Selected, SameUses, Matched
    <3> DEFINE b == switch_devices(h1.adev, i, out, SND_DEVICE_NONE)
    <3>3. Counted(b) /\ SameUses(b.usecase_list, h1.adev.usecase_list)
      <4>1. /\ out \in OutSndDevices \cup {SND_DEVICE_NONE}
            /\ SND_DEVICE_NONE \in InSndDevices \cup {SND_DEVICE_NONE}
            /\ Counted(h1.adev)
        BY <2>1, <2>2, OutDevice DEF Selected
      <4> QED BY <3>2, <4>1, Switch_Counts
    <3> HIDE DEF b
    <3>4. IsHal([h1 EXCEPT !.adev = b]) /\ [h1 EXCEPT !.adev = b].adev = b
      BY <2>2, <3>3 DEF IsHal, Counted, Routed, Selected
    <3>5. SameUses(b.usecase_list, h.adev.usecase_list)
      BY <2>2, <3>3 DEF Selected, SameUses
    <3>6. Selected([h1 EXCEPT !.adev = b], h)
      BY <3>3, <3>4, <3>5 DEF Selected
    <3> QED BY <2>1, <2>3, <3>6 DEF b
  <2> QED BY <1>1, <2>1, <2>3
<1> QED BY <1>1, <1>2, <1>3 DEF select_devices, AUDIO_USECASE

PlaysLike(m, l) ==
  /\ NoPlay(l) => NoPlay(m)
  /\ OnePlay(l) => OnePlay(m)
  /\ \A devices : Matched(l, devices) => Matched(m, devices)

\* g counts its routes as h does, and has no other use case of the output.
KeepsRoutes(g, h) ==
  Counted(g.adev) /\ PlaysLike(g.adev.usecase_list, h.adev.usecase_list)

LEMMA SelectedKeeps ==
  ASSUME NEW g, NEW h, Selected(g, h)
  PROVE  KeepsRoutes(g, h)
BY SameUsesKeep DEF Selected, KeepsRoutes, PlaysLike

\* A use case that has no device yet joins the list.
LEMMA Append_Counts ==
  ASSUME NEW a, Counted(a), NEW uc \in Usecases, Sided(uc),
         uc.out_snd_device = SND_DEVICE_NONE, uc.in_snd_device = SND_DEVICE_NONE,
         NEW b, IsAdev(b), b.usecase_list = Append(a.usecase_list, uc),
         b.snd_dev_ref_cnt = a.snd_dev_ref_cnt, b.route = a.route
  PROVE  Counted(b)
<1> DEFINE l == a.usecase_list
           m == Append(l, uc)
<1>1. l \in Seq(Usecases) /\ Routed(a) /\ \A i \in DOMAIN l : Sided(l[i])
  BY DEF Counted
<1>2. m \in Seq(Usecases) /\ \A i \in DOMAIN m : (i \in DOMAIN l /\ m[i] = l[i]) \/ m[i] = uc
  BY <1>1
<1>3. \A d \in SndDevices : UsersOf(m, d) = UsersOf(l, d)
  <2>1. \A d \in SndDevices : ~ Uses(uc, d)
    BY NoneIsNoDevice DEF Uses
  <2> QED BY <1>1, <2>1, UsersAppend
<1> HIDE DEF m
<1>4. \A d \in SndDevices : b.snd_dev_ref_cnt[d] = Cardinality(UsersOf(m, d))
  BY <1>3 DEF Counted
<1>5. Routed(b)
  BY <1>1 DEF Routed
<1> QED BY <1>1, <1>2, <1>4, <1>5 DEF Counted, m

LEMMA NewUsecaseSided ==
  ASSUME NEW s \in Streams, NEW b \in BOOLEAN, s # primary_output => b = TRUE
  PROVE  /\ NewUsecase(s, b) \in Usecases /\ Sided(NewUsecase(s, b))
         /\ NewUsecase(s, b).out_snd_device = SND_DEVICE_NONE
         /\ NewUsecase(s, b).in_snd_device = SND_DEVICE_NONE
         /\ NewUsecase(s, b).id = "playback" <=> s = primary_output
         /\ NewUsecase(s, b).mixer_list = b
<1>1. /\ AUDIO_USECASE(s) \in {"playback", "capture", "capture-hotword"}
      /\ AUDIO_USECASE(s) = "playback" <=> s = primary_output
  BY StreamsAssumption DEF AUDIO_USECASE, Ins
<1> DEFINE uc == NewUsecase(s, b)
<1>2. /\ uc.id = AUDIO_USECASE(s) /\ uc.out_snd_device = SND_DEVICE_NONE
      /\ uc.in_snd_device = SND_DEVICE_NONE /\ uc.mixer_list = b
      /\ uc \in Usecases
  BY <1>1 DEF NewUsecase, Usecases
<1> HIDE DEF uc
<1>3. Sided(uc)
  BY <1>1, <1>2 DEF Sided, AnyDevice
<1> QED BY <1>1, <1>2, <1>3 DEF uc

LEMMA Append_Plays ==
  ASSUME NEW l \in Seq(Usecases), NEW uc
  PROVE  /\ uc.id # "playback" => PlaysLike(Append(l, uc), l)
         /\ NoPlay(l) => OnePlay(Append(l, uc))
         /\ \A devices :
              /\ NoPlay(l)
              /\ uc.mixer_list = TRUE \/ get_output_snd_device(devices) = SND_DEVICE_NONE
              => Matched(Append(l, uc), devices)
<1> DEFINE m == Append(l, uc)
<1>1. /\ DOMAIN m = 1 .. Len(l) + 1 /\ DOMAIN l = 1 .. Len(l) /\ Len(l) \in Nat
      /\ \A i \in 1 .. Len(l) : m[i] = l[i]
      /\ m[Len(l) + 1] = uc
  OBVIOUS
<1> HIDE DEF m
<1>2. \A i \in DOMAIN m : \/ i \in DOMAIN l /\ m[i] = l[i]
                          \/ i = Len(l) + 1 /\ m[i] = uc
  <2> SUFFICES ASSUME NEW i \in 1 .. Len(l) + 1
               PROVE  \/ i \in 1 .. Len(l) /\ m[i] = l[i]
                      \/ i = Len(l) + 1 /\ m[i] = uc
    BY <1>1
  <2>1. i \in 1 .. Len(l) \/ i = Len(l) + 1
    BY <1>1
  <2> QED BY <1>1, <2>1
<1>3. uc.id # "playback" => PlaysLike(m, l)
  BY <1>2 DEF PlaysLike, NoPlay, OnePlay, Matched
<1>4. NoPlay(l) => OnePlay(m)
  BY <1>2 DEF NoPlay, OnePlay
<1>5. ASSUME NEW devices, NoPlay(l),
             uc.mixer_list = TRUE \/ get_output_snd_device(devices) = SND_DEVICE_NONE
      PROVE  Matched(m, devices)
  BY <1>2, <1>5 DEF NoPlay, Matched
<1> QED BY <1>3, <1>4, <1>5 DEF m

LEMMA Remove_Plays ==
  ASSUME NEW l \in Seq(Usecases), NEW i \in 1 .. Len(l)
  PROVE  /\ PlaysLike(RemoveAt(l, i), l)
         /\ OnePlay(l) /\ l[i].id = "playback" => NoPlay(RemoveAt(l, i))
<1> DEFINE m == RemoveAt(l, i)
<1>1. /\ m \in Seq(Usecases) /\ Len(m) = Len(l) - 1
      /\ \A j \in 1 .. Len(l) - 1 : m[j] = IF j < i THEN l[j] ELSE l[j + 1]
  BY Removed
<1> HIDE DEF m
<1> DEFINE o(j) == IF j < i THEN j ELSE j + 1
<1>2. /\ DOMAIN m = 1 .. Len(l) - 1 /\ DOMAIN l = 1 .. Len(l) /\ Len(l) \in Nat
  BY <1>1
<1>3. \A j \in DOMAIN m : o(j) \in DOMAIN l /\ o(j) # i /\ m[j] = l[o(j)]
  BY <1>1, <1>2
<1>4. \A j, k \in DOMAIN m : o(j) = o(k) => j = k
  BY <1>2
<1>5. i \in DOMAIN l
  OBVIOUS
<1> HIDE DEF o
<1>6. NoPlay(l) => NoPlay(m)
  BY <1>3 DEF NoPlay
<1>7. OnePlay(l) => OnePlay(m)
  BY <1>3, <1>4 DEF OnePlay
<1>8. \A devices : Matched(l, devices) => Matched(m, devices)
  BY <1>3 DEF Matched
<1>9. OnePlay(l) /\ l[i].id = "playback" => NoPlay(m)
  BY <1>3, <1>5 DEF NoPlay, OnePlay
<1> QED BY <1>6, <1>7, <1>8, <1>9 DEF m, PlaysLike

\* The output's use case leaves the list and its device is counted down.
LEMMA StopOutput_Counts ==
  ASSUME NEW h, IsWhole(h), Counted(h.adev), OnePlay(h.adev.usecase_list)
  PROVE  LET g == stop_output_stream(h, primary_output)
         IN Counted(g.adev) /\ NoPlay(g.adev.usecase_list)
<1> DEFINE l == h.adev.usecase_list
           i == get_usecase_from_id(h.adev, "playback")
           uc == l[i]
           b == disable_snd_device(h.adev, uc, uc.out_snd_device)
           c == [b EXCEPT !.usecase_list = RemoveAt(@, i)]
           g == stop_output_stream(h, primary_output)
<1>0. AUDIO_USECASE(primary_output) = "playback"
  BY StreamsAssumption DEF AUDIO_USECASE, Ins
<1>1. g = IF i = 0 THEN h ELSE [h EXCEPT !.adev = c, !.stream[primary_output].pcm = NO_PCM]
  BY <1>0 DEF stop_output_stream
<1>2. l \in Seq(Usecases)
  BY DEF Counted
<1>3. \/ i = 0 /\ NoPlay(l)
      \/ i \in DOMAIN l /\ i # 0 /\ uc.id = "playback"
  BY <1>2, UsecaseFound DEF NoPlay
<1>4. CASE i # 0
  <2>1. Sided(uc) /\ i \in DOMAIN l /\ uc.id = "playback"
    BY <1>3, <1>4 DEF Counted
  <2>2. /\ Routed(b) /\ b.usecase_list = l
        /\ \A d \in SndDevices : b.snd_dev_ref_cnt[d]
                                 = h.adev.snd_dev_ref_cnt[d] - Is(d, uc.out_snd_device)
    BY <2>1, TakenOff
  <2>3. ASSUME NEW d \in SndDevices PROVE Use(uc, d) = Is(d, uc.out_snd_device)
    <3>1. Is(d, uc.in_snd_device) = 0
      BY <2>1, NoneIsNoDevice DEF Sided, Is
    <3>2. Is(d, uc.out_snd_device) \in {0, 1}
      BY DEF Is
    <3> QED BY <2>1, <3>1, <3>2, UseOnce
  <2> HIDE DEF b
  <2>4. Counted(c) /\ c.usecase_list = RemoveAt(l, i)
    BY <2>1, <2>2, <2>3, Stop_Counts
  <2>5. NoPlay(RemoveAt(l, i))
    BY <1>2, <2>1, Remove_Plays
  <2> HIDE DEF c
  <2>6. [h EXCEPT !.adev = c, !.stream[primary_output].pcm = NO_PCM].adev = c
    BY DEF IsWhole, IsHal
  <2> QED BY <1>1, <1>4, <2>4, <2>5, <2>6
<1> QED BY <1>1, <1>3, <1>4

LEMMA StopInput_Counts ==
  ASSUME NEW h, IsWhole(h), Counted(h.adev), NEW s \in Ins
  PROVE  KeepsRoutes(stop_input_stream(h, s), h)
<1> DEFINE l == h.adev.usecase_list
           i == get_usecase_from_id(h.adev, AUDIO_USECASE(s))
           uc == l[i]
           a == [h.adev EXCEPT !.active_input = NoStream]
           b == disable_snd_device(a, uc, uc.in_snd_device)
           c == [b EXCEPT !.usecase_list = RemoveAt(@, i)]
           g == stop_input_stream(h, s)
<1>0. AUDIO_USECASE(s) # "playback"
  BY StreamsAssumption DEF AUDIO_USECASE, Ins
<1>1. g = IF i = 0 THEN [h EXCEPT !.adev = a]
          ELSE [h EXCEPT !.adev = c, !.stream[s].pcm = NO_PCM]
  BY DEF stop_input_stream
<1>2. l \in Seq(Usecases)
  BY DEF Counted
<1>3. i = 0 \/ (i \in DOMAIN l /\ i # 0 /\ uc.id # "playback")
  BY <1>0, <1>2, UsecaseFound
<1>4. /\ a.usecase_list = l /\ a.snd_dev_ref_cnt = h.adev.snd_dev_ref_cnt
      /\ a.route = h.adev.route /\ IsAdev(a)
  BY DEF IsWhole, IsHal, IsAdev, AdevFields
<1> HIDE DEF a
<1>5. Counted(a)
  BY <1>4 DEF Counted, Routed
<1>6. CASE i = 0
  <2>1. g.adev = a
    BY <1>1, <1>6 DEF IsWhole, IsHal
  <2> QED BY <1>4, <1>5, <2>1 DEF KeepsRoutes, PlaysLike
<1>7. CASE i # 0
  <2>1. Sided(uc) /\ i \in DOMAIN l /\ uc.id # "playback"
    BY <1>3, <1>7 DEF Counted
  <2>2. disable_snd_device(a, uc, uc.out_snd_device) = a
    BY <2>1 DEF Sided, disable_snd_device
  <2>3. /\ Routed(b) /\ b.usecase_list = l
        /\ \A d \in SndDevices : b.snd_dev_ref_cnt[d] = a.snd_dev_ref_cnt[d] - Use(uc, d)
    BY <1>4, <1>5, <2>1, <2>2, TakenOff
  <2> HIDE DEF b
  <2>4. Counted(c) /\ c.usecase_list = RemoveAt(l, i)
    BY <1>4, <1>5, <2>1, <2>3, Stop_Counts
  <2>5. PlaysLike(RemoveAt(l, i), l)
    BY <1>2, <2>1, Remove_Plays
  <2> HIDE DEF c
  <2>6. [h EXCEPT !.adev = c, !.stream[s].pcm = NO_PCM].adev = c
    BY DEF IsWhole, IsHal
  <2> QED BY <1>1, <1>7, <2>4, <2>5, <2>6 DEF KeepsRoutes
<1> QED BY <1>6, <1>7

LEMMA KeepsTrans ==
  ASSUME NEW f, NEW g, NEW h, KeepsRoutes(f, g), KeepsRoutes(g, h)
  PROVE  KeepsRoutes(f, h)
BY DEF KeepsRoutes, PlaysLike

LEMMA KeepsSame ==
  ASSUME NEW g, NEW h, Counted(h.adev), g.adev = h.adev
  PROVE  KeepsRoutes(g, h)
BY DEF KeepsRoutes, PlaysLike

LEMMA ClosePcm_Adev ==
  ASSUME NEW h, IsWhole(h), NEW s
  PROVE  close_pcm_devices(h, s).adev = h.adev
BY DEF close_pcm_devices, IsWhole, IsHal

LEMMA InStandby_Counts ==
  ASSUME NEW h, IsWhole(h), Counted(h.adev), NEW s \in Ins
  PROVE  KeepsRoutes(do_in_standby_l(h, s), h)
<1> DEFINE h0 == close_pcm_devices(h, s)
           h1 == stop_input_stream(h0, s)
           h2 == [h1 EXCEPT !.stream[s].standby = TRUE]
<1>1. do_in_standby_l(h, s) = IF h.stream[s].standby THEN h ELSE h2
  BY DEF do_in_standby_l
<1>2. IsWhole(h0) /\ h0.adev = h.adev
  BY Pcm_Flags, ClosePcm_Adev DEF SameFlags
<1> HIDE DEF h0
<1>3. KeepsRoutes(h1, h0) /\ IsWhole(h1)
  BY <1>2, StopInput_Counts, StopInput_Flags DEF SameFlags
<1> HIDE DEF h1
<1>4. h2.adev = h1.adev
  BY <1>3, SetStandby_Others
<1> HIDE DEF h2
<1>5. KeepsRoutes(h2, h)
  BY <1>2, <1>3, <1>4 DEF KeepsRoutes
<1>6. KeepsRoutes(h, h)
  BY KeepsSame
<1> QED BY <1>1, <1>5, <1>6

LEMMA StartInput_Counts ==
  ASSUME NEW h, IsWhole(h), Counted(h.adev), NEW s \in Ins,
         Matched(h.adev.usecase_list, h.stream[primary_output].devices),
         NEW ready, NEW resampler
  PROVE  KeepsRoutes(start_input_stream(h, s, ready, resampler).h, h)
<1> DEFINE device == get_pcm_device(s, h.stream[s].devices)
           st == h.stream[s]
           uc == NewUsecase(s, TRUE)
           h0 == [h EXCEPT !.adev.active_input = s,
                           !.adev.usecase_list = Append(@, uc),
                           !.stream[s].pcm = CLOSED_PCM]
           h1 == select_devices(h0, AUDIO_USECASE(s))
           n == IF st.aux_channels_changed THEN st.aux_channels ELSE ProfileChannels(s)
           h2 == [h1 EXCEPT !.stream[s].channels = n]
           opened == pcm_open(h2, s, device, ready)
           stopped == stop_input_stream(opened.h, s)
           none == [h EXCEPT !.adev.active_input = NoStream]
<1>0. s \in Streams /\ s # primary_output /\ primary_output \in Streams
  BY StreamsAssumption DEF Streams
<1>1. /\ uc \in Usecases /\ Sided(uc) /\ uc.id # "playback"
      /\ uc.out_snd_device = SND_DEVICE_NONE /\ uc.in_snd_device = SND_DEVICE_NONE
  BY <1>0, NewUsecaseSided
<1> HIDE DEF uc
<1>2. /\ SameFlags(h0, h)
      /\ h0.adev.usecase_list = Append(h.adev.usecase_list, uc)
      /\ h0.adev.snd_dev_ref_cnt = h.adev.snd_dev_ref_cnt
      /\ h0.adev.route = h.adev.route
  BY DEF SameFlags, IsWhole, IsHal, IsAdev, AdevFields, IsStreams, StreamFields
<1> HIDE DEF h0
<1>3. KeepsRoutes(h0, h) /\ IsWhole(h0)
  <2>1. IsWhole(h0) /\ IsAdev(h0.adev)
    BY <1>2 DEF SameFlags, IsWhole, IsHal
  <2>2. Counted(h0.adev)
    BY <1>1, <1>2, <2>1, Append_Counts
  <2>3. PlaysLike(h0.adev.usecase_list, h.adev.usecase_list)
    BY <1>1, <1>2, Append_Plays DEF Counted
  <2> QED BY <2>1, <2>2, <2>3 DEF KeepsRoutes
<1>4. KeepsRoutes(h1, h) /\ IsWhole(h1)
  <2>1. Matched(h0.adev.usecase_list, h0.stream[primary_output].devices)
    BY <1>0, <1>2, <1>3 DEF KeepsRoutes, PlaysLike, SameFlags
  <2>2. Selected(h1, h0)
    BY <1>3, <2>1, Select_Counts DEF KeepsRoutes, IsWhole
  <2>3. KeepsRoutes(h1, h)
    BY <1>3, <2>2, SelectedKeeps, KeepsTrans
  <2> QED BY <1>3, <2>3, Select_Flags DEF SameFlags
<1> HIDE DEF h1, n
<1>5. h2.adev = h1.adev /\ IsWhole(h2)
  <2>1. IsWhole(h2)
    BY <1>4, SetPcm_Flags DEF SameFlags
  <2> QED BY <1>4, <2>1 DEF IsWhole, IsHal
<1> HIDE DEF h2, device
<1>6. opened.h.adev = h1.adev /\ IsWhole(opened.h)
  BY <1>5, Pcm_Flags DEF SameFlags
<1> HIDE DEF opened
<1>7. KeepsRoutes(opened.h, h)
  BY <1>4, <1>6 DEF KeepsRoutes
<1>8. KeepsRoutes(stopped, h)
  <2>1. KeepsRoutes(stopped, opened.h)
    BY <1>6, <1>7, StopInput_Counts DEF KeepsRoutes
  <2> QED BY <1>7, <2>1, KeepsTrans
<1> HIDE DEF stopped
<1>9. KeepsRoutes(none, h)
  <2>1. /\ none.adev.usecase_list = h.adev.usecase_list
        /\ none.adev.snd_dev_ref_cnt = h.adev.snd_dev_ref_cnt
        /\ none.adev.route = h.adev.route /\ IsAdev(none.adev)
    BY DEF IsWhole, IsHal, IsAdev, AdevFields
  <2> QED BY <2>1 DEF KeepsRoutes, PlaysLike, Counted, Routed
<1> HIDE DEF none
<1>10. start_input_stream(h, s, ready, resampler) \in
         {[h |-> none, ok |-> FALSE], [h |-> opened.h, ok |-> resampler],
          [h |-> stopped, ok |-> FALSE]}
  BY DEF start_input_stream, none, stopped, opened, h2, n, h1, h0, uc, device
<1> QED BY <1>7, <1>8, <1>9, <1>10

LEMMA OutStandby_Counts ==
  ASSUME NEW h, IsWhole(h), Counted(h.adev), OnePlay(h.adev.usecase_list)
  PROVE  LET g == do_out_standby_l(h, primary_output)
         IN Counted(g.adev) /\ NoPlay(g.adev.usecase_list)
<1> DEFINE h0 == [h EXCEPT !.stream[primary_output].standby = TRUE]
           h1 == close_pcm_devices(h0, primary_output)
<1>1. IsWhole(h0) /\ h0.adev = h.adev
  BY SetStandby_Others DEF SameOthers
<1> HIDE DEF h0
<1>2. IsWhole(h1) /\ h1.adev = h.adev
  BY <1>1, Pcm_Flags, ClosePcm_Adev DEF SameFlags
<1>3. do_out_standby_l(h, primary_output) = stop_output_stream(h1, primary_output)
  BY DEF do_out_standby_l, h0
<1> HIDE DEF h1
<1> QED BY <1>2, <1>3, StopOutput_Counts

\* A start of the output adds its use case, or fails and leaves none.
LEMMA StartOutput_Counts ==
  ASSUME NEW h, IsWhole(h), Counted(h.adev), NoPlay(h.adev.usecase_list), NEW ready
  PROVE  LET r == start_output_stream(h, primary_output, ready)
             l == r.h.adev.usecase_list
         IN /\ Counted(r.h.adev) /\ OnePlay(l)
            /\ Matched(l, h.stream[primary_output].devices)
            /\ r.ok = TRUE \/ NoPlay(l)
<1> DEFINE s == primary_output
           devices == h.stream[s].devices
           device == get_pcm_device(s, devices)
           pcm == IF device = NO_PCM THEN NO_PCM ELSE CLOSED_PCM
           uc == NewUsecase(s, device # NO_PCM)
           h0 == [h EXCEPT !.stream[s].pcm = pcm,
                           !.adev.usecase_list = Append(@, uc)]
           h1 == enable_output_path_l(h, s)
           opened == pcm_open(h1, s, device, ready)
           stopped == stop_output_stream(opened.h, s)
<1>0. s \in Streams
  BY DEF Streams
<1>1. /\ uc \in Usecases /\ Sided(uc) /\ uc.mixer_list = (device # NO_PCM)
      /\ uc.out_snd_device = SND_DEVICE_NONE /\ uc.in_snd_device = SND_DEVICE_NONE
  BY <1>0, NewUsecaseSided
<1>2. uc.mixer_list = TRUE \/ get_output_snd_device(devices) = SND_DEVICE_NONE
  BY <1>1, NoPcmNoDevice
<1> HIDE DEF uc, pcm
<1>3. /\ SameFlags(h0, h)
      /\ h0.adev.usecase_list = Append(h.adev.usecase_list, uc)
      /\ h0.adev.snd_dev_ref_cnt = h.adev.snd_dev_ref_cnt
      /\ h0.adev.route = h.adev.route
  BY DEF SameFlags, IsWhole, IsHal, IsAdev, AdevFields, IsStreams, StreamFields
<1>4. h1 = select_devices(h0, AUDIO_USECASE(s))
  BY DEF enable_output_path_l, uc, pcm
<1> HIDE DEF h0, h1, device
<1>5. /\ IsWhole(h0) /\ Counted(h0.adev) /\ OnePlay(h0.adev.usecase_list)
      /\ Matched(h0.adev.usecase_list, devices)
      /\ h0.stream[s].devices = devices
  <2>1. IsWhole(h0) /\ IsAdev(h0.adev) /\ h0.stream[s].devices = devices
    BY <1>0, <1>3 DEF SameFlags, IsWhole, IsHal
  <2>2. Counted(h0.adev)
    BY <1>1, <1>3, <2>1, Append_Counts
  <2>3. OnePlay(h0.adev.usecase_list) /\ Matched(h0.adev.usecase_list, devices)
    BY <1>2, <1>3, Append_Plays DEF Counted
  <2> QED BY <2>1, <2>2, <2>3
<1>6. /\ IsWhole(h1) /\ Counted(h1.adev) /\ OnePlay(h1.adev.usecase_list)
      /\ Matched(h1.adev.usecase_list, devices)
  <2>1. Selected(h1, h0)
    BY <1>4, <1>5, Select_Counts DEF IsWhole
  <2>2. KeepsRoutes(h1, h0)
    BY <2>1, SelectedKeeps
  <2>3. IsWhole(h1)
    BY <1>4, <1>5, Select_Flags DEF SameFlags
  <2> QED BY <1>5, <2>2, <2>3 DEF KeepsRoutes, PlaysLike
<1>7. IsWhole(opened.h) /\ opened.h.adev = h1.adev /\ opened.ok \in BOOLEAN
  <2>1. IsWhole(opened.h) /\ opened.h.adev = h1.adev
    BY <1>6, Pcm_Flags DEF SameFlags
  <2> QED BY <2>1 DEF pcm_open
<1> HIDE DEF opened
<1>8. Counted(stopped.adev) /\ NoPlay(stopped.adev.usecase_list)
  BY <1>6, <1>7, StopOutput_Counts
<1>9. OnePlay(stopped.adev.usecase_list) /\ Matched(stopped.adev.usecase_list, devices)
  BY <1>8 DEF NoPlay, OnePlay, Matched
<1> HIDE DEF stopped
<1>10. \/ start_output_stream(h, s, ready) = [h |-> h1, ok |-> TRUE]
       \/ start_output_stream(h, s, ready) = opened /\ opened.ok = TRUE
       \/ start_output_stream(h, s, ready) = [h |-> stopped, ok |-> FALSE]
  BY <1>7 DEF start_output_stream, stopped, opened, h1, device
<1> QED BY <1>6, <1>7, <1>8, <1>9, <1>10

\* RoutesCounted with what it rests on, of a state of the HAL.  A use case of the
\* output that has no mixer in its list has no path either: the first would never
\* take the path off again.
Routing(h) ==
  /\ Counted(h.adev)
  /\ OnePlay(h.adev.usecase_list)
  /\ Matched(h.adev.usecase_list, h.stream[primary_output].devices)
  /\ h.stream[primary_output].standby => NoPlay(h.adev.usecase_list)

RoutesInv == Routing(HAL)

\* A step whose HAL state keeps the routes and does not touch the output.
LEMMA RoutesKept ==
  ASSUME NEW g, NEW h, Routing(h), KeepsRoutes(g, h),
         g.stream[primary_output].devices = h.stream[primary_output].devices,
         g.stream[primary_output].standby = h.stream[primary_output].standby
  PROVE  Routing(g)
BY DEF Routing, KeepsRoutes, PlaysLike

LEMMA BecomeRoutes ==
  ASSUME NEW g, Routing(g), Become(g)
  PROVE  RoutesInv'
BY DEF Become, RoutesInv, Routing, HAL

\* do_in_standby_l in a state with changes to an input, or without.
LEMMA InStandby_Routes ==
  ASSUME NEW h, IsWhole(h), Routing(h), NEW s \in Ins
  PROVE  Routing(do_in_standby_l(h, s))
<1>1. s # primary_output /\ primary_output \in Streams
  BY StreamsAssumption DEF Streams
<1>2. KeepsRoutes(do_in_standby_l(h, s), h)
  BY InStandby_Counts DEF Routing
<1>3. /\ do_in_standby_l(h, s).stream[primary_output].devices
         = h.stream[primary_output].devices
      /\ do_in_standby_l(h, s).stream[primary_output].standby
         = h.stream[primary_output].standby
  BY <1>1, InStandby_Flags DEF SameOthers
<1> QED BY <1>2, <1>3, RoutesKept

LEMMA Select_Routes ==
  ASSUME NEW h, IsWhole(h), Routing(h), NEW s
  PROVE  Routing(select_devices(h, AUDIO_USECASE(s)))
<1> DEFINE g == select_devices(h, AUDIO_USECASE(s))
<1>1. KeepsRoutes(g, h)
  BY Select_Counts, SelectedKeeps DEF Routing, IsWhole
<1>2. SameFlags(g, h)
  BY Select_Flags
<1> HIDE DEF g
<1>3. Routing(g)
  BY <1>1, <1>2, RoutesKept DEF SameFlags, Streams
<1> QED BY <1>3 DEF g

LEMMA OutputRoutes ==
  ASSUME LockInv, InputInv, ClosedInv, RoutesInv, NEW t \in Threads,
         WriteStart(t) \/ OutStandby(t) \/ OutSetParameters(t)
  PROVE  RoutesInv'
<1>0. call[t].on = primary_output
  <2>1. Now(call[t]) \in OutBodies
    BY DEF WriteStart, OutStandby, OutSetParameters, OutBodies, OutFunctions, Now
  <2> QED BY <2>1, MyStream DEF Placed
<1>1. IsWhole(HAL) /\ HAL.adev = adev /\ HAL.stream = stream
  BY MyStream
<1>2. Routing(HAL)
  BY DEF RoutesInv
<1>3. CASE UNCHANGED halVars
  BY <1>3 DEF halVars, RoutesInv, Routing, HAL
<1>4. ASSUME NEW h, IsWhole(h), Counted(h.adev), OnePlay(h.adev.usecase_list),
             Become(do_out_standby_l(h, primary_output))
      PROVE  RoutesInv'
  <2> DEFINE g == do_out_standby_l(h, primary_output)
  <2>1. Counted(g.adev) /\ NoPlay(g.adev.usecase_list)
    BY <1>4, OutStandby_Counts
  <2> HIDE DEF g
  <2>2. Routing(g)
    BY <2>1 DEF Routing, NoPlay, OnePlay, Matched
  <2>3. Become(g)
    BY <1>4 DEF g
  <2> QED BY <2>2, <2>3, BecomeRoutes
<1>5. CASE WriteStart(t)
  <2>1. CASE stream[call[t].on].standby
    <3>1. PICK r, ready :
            /\ r = start_output_stream(HAL, call[t].on, ready)
            /\ \/ r.ok /\ Become([r.h EXCEPT !.stream[call[t].on].standby = FALSE])
               \/ ~ r.ok /\ Become(r.h)
      BY <1>5, <2>1, Zenon DEF WriteStart
    <3>2. /\ Counted(r.h.adev) /\ OnePlay(r.h.adev.usecase_list)
          /\ Matched(r.h.adev.usecase_list, stream[primary_output].devices)
          /\ r.ok = TRUE \/ NoPlay(r.h.adev.usecase_list)
      BY <1>0, <1>1, <1>2, <2>1, <3>1, StartOutput_Counts DEF Routing
    <3>3. SameFlags(r.h, HAL)
      BY <1>0, <1>1, <3>1, Output_Flags
    <3>4. /\ IsWhole(r.h)
          /\ r.h.stream[primary_output].devices = stream[primary_output].devices
      BY <1>1, <3>3 DEF SameFlags, Streams
    <3>5. CASE r.ok = TRUE
      <4> DEFINE f == [r.h EXCEPT !.stream[primary_output].standby = FALSE]
      <4>1. /\ f.adev = r.h.adev
            /\ f.stream[primary_output].standby = FALSE
            /\ f.stream[primary_output].devices = stream[primary_output].devices
        BY <3>4 DEF IsWhole, IsHal, IsStreams, StreamFields, Streams
      <4>2. Become(f)
        BY <1>0, <3>1, <3>5
      <4> HIDE DEF f
      <4>3. Routing(f)
        BY <3>2, <4>1 DEF Routing
      <4> QED BY <4>2, <4>3, BecomeRoutes
    <3>6. CASE r.ok # TRUE
      <4>1. Routing(r.h)
        BY <3>2, <3>4, <3>6 DEF Routing
      <4> QED BY <3>1, <3>6, <4>1, BecomeRoutes
    <3> QED BY <3>5, <3>6
  <2>2. CASE ~ stream[call[t].on].standby
    BY <1>3, <1>5, <2>2 DEF WriteStart
  <2> QED BY <2>1, <2>2
<1>6. CASE OutStandby(t)
  <2>1. UNCHANGED halVars \/ Become(do_out_standby_l(HAL, primary_output))
    BY <1>0, <1>6 DEF OutStandby
  <2> QED BY <1>1, <1>2, <1>3, <1>4, <2>1 DEF Routing
<1>7. CASE OutSetParameters(t)
  <2>1. PICK val \in OutRoutings :
          LET s == call[t].on
              old == stream[s]
              h == [HAL EXCEPT !.stream[s].devices = val]
          IN Become(IF old.standby THEN h
                    ELSE IF old.devices # val THEN do_out_standby_l(h, s)
                    ELSE select_devices(h, AUDIO_USECASE(s)))
    BY <1>7 DEF OutSetParameters
  <2> DEFINE h == [HAL EXCEPT !.stream[primary_output].devices = val]
  <2>2. /\ IsWhole(h) /\ h.adev = adev
        /\ h.stream[primary_output].devices = val
        /\ h.stream[primary_output].standby = stream[primary_output].standby
    <3>1. IsWhole(h) /\ h.adev = HAL.adev
      BY <1>1, SetDevices_Others DEF SameOthers
    <3> QED BY <1>1, <3>1 DEF IsWhole, IsHal, IsStreams, StreamFields, Streams
  <2> HIDE DEF h
  <2>3. Become(IF stream[primary_output].standby THEN h
               ELSE IF stream[primary_output].devices # val
               THEN do_out_standby_l(h, primary_output)
               ELSE select_devices(h, AUDIO_USECASE(primary_output)))
    BY <1>0, <2>1 DEF h
  <2>4. CASE stream[primary_output].standby
    <3>1. Routing(h)
      BY <1>1, <1>2, <2>2, <2>4 DEF Routing, NoPlay, OnePlay, Matched
    <3> QED BY <2>3, <2>4, <3>1, BecomeRoutes
  <2>5. CASE ~ stream[primary_output].standby /\ stream[primary_output].devices # val
    BY <1>1, <1>2, <1>4, <2>2, <2>3, <2>5 DEF Routing
  <2>6. CASE ~ stream[primary_output].standby /\ stream[primary_output].devices = val
    <3>1. Routing(h)
      BY <1>1, <1>2, <2>2, <2>6 DEF Routing
    <3> QED BY <2>2, <2>3, <2>6, <3>1, Select_Routes, BecomeRoutes
  <2> QED BY <2>4, <2>5, <2>6
<1> QED BY <1>5, <1>6, <1>7

\* Changes to fields of an input that routing does not look at.
LEMMA InputChanged ==
  ASSUME NEW h, IsWhole(h), Routing(h), NEW s \in Ins,
         NEW x, NEW y, NEW z, NEW w
  PROVE  LET f == [h EXCEPT !.stream[s].source = x, !.stream[s].devices = y]
             g == [h EXCEPT !.stream[s].num_preprocessors = x,
                            !.stream[s].aux_channels = y,
                            !.stream[s].aux_channels_changed = z]
             e == [h EXCEPT !.stream[s].num_preprocessors = x,
                            !.stream[s].aux_channels_changed = z]
             d == [h EXCEPT !.stream[s].open = x]
         IN /\ IsWhole(f) /\ Routing(f)
            /\ IsWhole(g) /\ Routing(g)
            /\ IsWhole(e) /\ Routing(e)
            /\ IsWhole(d) /\ Routing(d)
<1> DEFINE f == [h EXCEPT !.stream[s].source = x, !.stream[s].devices = y]
           g == [h EXCEPT !.stream[s].num_preprocessors = x,
                          !.stream[s].aux_channels = y,
                          !.stream[s].aux_channels_changed = z]
           e == [h EXCEPT !.stream[s].num_preprocessors = x,
                          !.stream[s].aux_channels_changed = z]
           d == [h EXCEPT !.stream[s].open = x]
<1>0. s # primary_output /\ primary_output \in Streams
  BY StreamsAssumption DEF Streams
<1>1. ASSUME NEW k, IsWhole(k), k.adev = h.adev,
             k.stream[primary_output] = h.stream[primary_output]
      PROVE  Routing(k)
  BY <1>1 DEF Routing
<1>2. /\ IsWhole(f) /\ f.adev = h.adev
      /\ f.stream[primary_output] = h.stream[primary_output]
  BY <1>0 DEF IsWhole, IsHal, IsStreams, StreamFields
<1>3. /\ IsWhole(g) /\ g.adev = h.adev
      /\ g.stream[primary_output] = h.stream[primary_output]
  BY <1>0 DEF IsWhole, IsHal, IsStreams, StreamFields
<1>4. /\ IsWhole(e) /\ e.adev = h.adev
      /\ e.stream[primary_output] = h.stream[primary_output]
  BY <1>0 DEF IsWhole, IsHal, IsStreams, StreamFields
<1>5. /\ IsWhole(d) /\ d.adev = h.adev
      /\ d.stream[primary_output] = h.stream[primary_output]
  BY <1>0 DEF IsWhole, IsHal, IsStreams, StreamFields
<1> HIDE DEF d, e, f, g
<1>6. Routing(f) /\ Routing(g) /\ Routing(e) /\ Routing(d)
  BY <1>1, <1>2, <1>3, <1>4, <1>5
<1> QED BY <1>2, <1>3, <1>4, <1>5, <1>6 DEF d, e, f, g

LEMMA InputRoutes ==
  ASSUME LockInv, InputInv, ClosedInv, RoutesInv, NEW t \in Threads,
         \/ ForceInput(t) \/ ReadStart(t) \/ ReadPcm(t) \/ InStandby(t)
         \/ InSetParameters(t) \/ AddEffect(t) \/ RemoveEffect(t) \/ CloseInput(t)
  PROVE  RoutesInv'
<1> DEFINE s == call[t].on
<1>0. s \in Ins
  <2>1. CASE ForceInput(t)
    <3>1. s = call[t].in /\ call[t].in # NoStream
      BY <2>1 DEF ForceInput, InputInv, Forced, Now
    <3> QED BY <3>1, MyStream
  <2>2. CASE ~ ForceInput(t)
    <3>1. call[t].pc \in {"read_start", "read_pcm", "in_standby", "in_set_parameters",
                          "add_effect", "remove_effect", "close_input"}
      <4>1. CASE ReadStart(t)
        BY <4>1 DEF ReadStart
      <4>2. CASE ReadPcm(t) \/ InStandby(t)
        BY <4>2 DEF ReadPcm, InStandby
      <4>3. CASE InSetParameters(t)
        BY <4>3 DEF InSetParameters
      <4>4. CASE AddEffect(t)
        BY <4>4 DEF AddEffect
      <4>5. CASE RemoveEffect(t) \/ CloseInput(t)
        BY <4>5 DEF RemoveEffect, CloseInput
      <4> QED BY <2>2, <4>1, <4>2, <4>3, <4>4, <4>5
    <3>2. Now(call[t]) \in InBodies
      BY <3>1 DEF Now, InBodies, OutBodies, OutFunctions, Bodies
    <3> QED BY <3>2, MyStream DEF Placed
  <2> QED BY <2>1, <2>2
<1>1. IsWhole(HAL) /\ HAL.adev = adev /\ HAL.stream = stream
  BY MyStream
<1>2. Routing(HAL)
  BY DEF RoutesInv
<1>3. CASE UNCHANGED halVars
  BY <1>3 DEF halVars, RoutesInv, Routing, HAL
<1>4. s # primary_output /\ primary_output \in Streams /\ s \in Streams
  BY <1>0, StreamsAssumption DEF Streams
<1> HIDE DEF s
<1>5. CASE Become(do_in_standby_l(HAL, s))
  BY <1>0, <1>1, <1>2, <1>5, InStandby_Routes, BecomeRoutes
<1>6. CASE ForceInput(t) \/ InStandby(t)
  BY <1>5, <1>6 DEF ForceInput, InStandby, s
<1>7. CASE ReadStart(t)
  <2>1. CASE stream[s].standby
    <3>1. PICK r, ready, resampler :
            r = start_input_stream(HAL, s, ready, resampler) /\ Become(r.h)
      <4>1. PICK r :
              /\ r \in {start_input_stream(HAL, s, ready, resampler) :
                         ready \in May("pcm_open"), resampler \in May("resampler")}
              /\ Become(r.h)
        BY <1>7, <2>1 DEF ReadStart, s
      <4>2. PICK ready \in May("pcm_open"), resampler \in May("resampler") :
              r = start_input_stream(HAL, s, ready, resampler)
        BY <4>1
      <4> QED BY <4>1, <4>2
    <3>2. KeepsRoutes(r.h, HAL)
      BY <1>0, <1>1, <1>2, <3>1, StartInput_Counts DEF Routing
    <3>3. SameFlags(r.h, HAL)
      BY <1>1, <3>1, StartInput_Flags
    <3>4. Routing(r.h)
      BY <1>2, <1>4, <3>2, <3>3, RoutesKept DEF SameFlags
    <3> QED BY <3>1, <3>4, BecomeRoutes
  <2>2. CASE ~ stream[s].standby
    BY <1>3, <1>7, <2>2 DEF ReadStart, s
  <2> QED BY <2>1, <2>2
<1>8. CASE ReadPcm(t)
  <2>1. /\ adev' = adev
        /\ stream' = [stream EXCEPT ![s].standby = FALSE]
    BY <1>8 DEF ReadPcm, s
  <2>2. stream'[primary_output] = stream[primary_output]
    BY <1>1, <1>4, <2>1 DEF IsWhole, IsStreams
  <2> QED BY <2>1, <2>2 DEF RoutesInv, Routing, HAL
<1>9. CASE InSetParameters(t)
  <2>1. PICK val, new :
          LET h == [HAL EXCEPT !.stream[s].source = new, !.stream[s].devices = val]
          IN \/ Become(h) \/ Become(do_in_standby_l(h, s))
             \/ Become(select_devices(h, AUDIO_USECASE(s)))
    BY <1>9, Zenon DEF InSetParameters, s
  <2> DEFINE h == [HAL EXCEPT !.stream[s].source = new, !.stream[s].devices = val]
  <2>2. IsWhole(h) /\ Routing(h)
    BY <1>0, <1>1, <1>2, InputChanged
  <2>3. Routing(do_in_standby_l(h, s)) /\ Routing(select_devices(h, AUDIO_USECASE(s)))
    <3> HIDE DEF h
    <3> QED BY <1>0, <2>2, InStandby_Routes, Select_Routes
  <2> HIDE DEF h
  <2>4. \/ Become(h) \/ Become(do_in_standby_l(h, s))
        \/ Become(select_devices(h, AUDIO_USECASE(s)))
    BY <2>1 DEF h
  <2> QED BY <2>2, <2>3, <2>4, BecomeRoutes
<1>10. CASE AddEffect(t)
  <2>1. \/ UNCHANGED halVars
        \/ \E x, y :
             LET h == [HAL EXCEPT !.stream[s].num_preprocessors = x,
                                  !.stream[s].aux_channels = y,
                                  !.stream[s].aux_channels_changed = TRUE]
             IN Become(h) \/ Become(do_in_standby_l(h, s))
    <3>1. CASE ~ UNCHANGED halVars
      <4>1. PICK aux :
              LET h == [HAL EXCEPT !.stream[s].num_preprocessors = @ + 1,
                                   !.stream[s].aux_channels = aux,
                                   !.stream[s].aux_channels_changed = TRUE]
              IN Become(h) \/ Become(do_in_standby_l(h, s))
        BY <1>10, <3>1, Zenon DEF AddEffect, s
      <4> QED BY <4>1
    <3> QED BY <3>1
  <2>2. CASE ~ UNCHANGED halVars
    <3>1. PICK x, y :
             LET h == [HAL EXCEPT !.stream[s].num_preprocessors = x,
                                  !.stream[s].aux_channels = y,
                                  !.stream[s].aux_channels_changed = TRUE]
             IN Become(h) \/ Become(do_in_standby_l(h, s))
      BY <2>1, <2>2
    <3> DEFINE h == [HAL EXCEPT !.stream[s].num_preprocessors = x,
                                !.stream[s].aux_channels = y,
                                !.stream[s].aux_channels_changed = TRUE]
    <3>2. IsWhole(h) /\ Routing(h)
      BY <1>0, <1>1, <1>2, InputChanged
    <3>3. Become(h) \/ Become(do_in_standby_l(h, s))
      BY <3>1
    <3> HIDE DEF h
    <3>4. Routing(do_in_standby_l(h, s))
      BY <1>0, <3>2, InStandby_Routes
    <3> QED BY <3>2, <3>3, <3>4, BecomeRoutes
  <2> QED BY <1>3, <2>2
<1>11. CASE RemoveEffect(t)
  <2>1. CASE ~ UNCHANGED halVars
    <3>1. Become([HAL EXCEPT !.stream[s].num_preprocessors = @ - 1,
                             !.stream[s].aux_channels_changed = FALSE])
      BY <1>11, <2>1 DEF RemoveEffect, s
    <3>2. PICK x : Become([HAL EXCEPT !.stream[s].num_preprocessors = x,
                                      !.stream[s].aux_channels_changed = FALSE])
      BY <3>1
    <3> DEFINE h == [HAL EXCEPT !.stream[s].num_preprocessors = x,
                                !.stream[s].aux_channels_changed = FALSE]
    <3>3. Routing(h) /\ Become(h)
      BY <1>0, <1>1, <1>2, <3>2, InputChanged
    <3> HIDE DEF h
    <3> QED BY <3>3, BecomeRoutes
  <2> QED BY <1>3, <2>1
<1>12. CASE CloseInput(t)
  <2> DEFINE g == do_in_standby_l(HAL, s)
             h == [g EXCEPT !.stream[s].open = FALSE]
  <2>1. Become(h)
    BY <1>12 DEF CloseInput, s
  <2>2. IsWhole(g) /\ Routing(g)
    BY <1>0, <1>1, <1>2, <1>4, InStandby_Routes, InStandby_Flags DEF SameOthers
  <2> HIDE DEF g
  <2>3. Routing(h)
    BY <1>0, <2>2, InputChanged
  <2> HIDE DEF h
  <2> QED BY <2>1, <2>3, BecomeRoutes
<1> QED BY <1>6, <1>7, <1>8, <1>9, <1>10, <1>11, <1>12

LEMMA NextRoutes ==
  LockInv /\ InputInv /\ ClosedInv /\ RoutesInv /\ [Next]_vars => RoutesInv'
<1> SUFFICES ASSUME LockInv, InputInv, ClosedInv, RoutesInv, [Next]_vars
             PROVE  RoutesInv'
  OBVIOUS
<1>1. CASE adev' = adev /\ stream' = stream
  BY <1>1 DEF RoutesInv, Routing, HAL
<1>2. ASSUME NEW t \in Threads, NEW s \in Ins, OpenInput(t, s)
      PROVE  RoutesInv'
  <2>1. adev' = adev /\ stream'[primary_output] = stream[primary_output]
    <3>1. s # primary_output /\ primary_output \in Streams
      BY <1>2, StreamsAssumption DEF Streams
    <3> QED BY <1>2, <3>1 DEF OpenInput, ClosedInv, IsStreams
  <2> QED BY <2>1 DEF RoutesInv, Routing, HAL
<1>3. ASSUME NEW t \in Threads, Step(t) PROVE RoutesInv'
  <2>1. CASE \/ AcquireInputs(t) \/ AcquirePreLock(t) \/ AcquireLock(t)
             \/ WriteCheck(t) \/ WritePcm(t) \/ ReadCheck(t)
    BY <1>1, <2>1 DEF AcquireInputs, AcquirePreLock, AcquireLock, WriteCheck,
                      WritePcm, ReadCheck, halVars
  <2> QED BY <1>3, <2>1, OutputRoutes, InputRoutes DEF Step
<1>4. ASSUME NEW t \in Threads, CallHal(t) PROVE RoutesInv'
  BY <1>1, <1>4 DEF CallHal, Begin, halVars
<1>5. ASSUME NEW t \in Threads, OpenCall(t) PROVE RoutesInv'
  BY <1>2, <1>5 DEF OpenCall
<1> QED BY <1>1, <1>3, <1>4, <1>5 DEF Next, vars

LEMMA InitRoutes == Init => RoutesInv
<1> SUFFICES ASSUME Init PROVE RoutesInv
  OBVIOUS
<1>1. adev.usecase_list = <<>> /\ IsAdev(adev) /\ adev.route = {}
      /\ adev.snd_dev_ref_cnt = [d \in SndDevices |-> 0]
  BY DEF Init, IsAdev, AdevFields
<1>2. Routed(adev)
  BY <1>1 DEF Routed
<1>3. \A d \in SndDevices : UsersOf(adev.usecase_list, d) = {}
  BY <1>1 DEF UsersOf
<1>4. Cardinality({}) = 0
  BY FS_EmptySet
<1>5. Counted(adev)
  BY <1>1, <1>2, <1>3, <1>4 DEF Counted
<1> QED BY <1>1, <1>5 DEF RoutesInv, Routing, HAL, NoPlay, OnePlay, Matched

\* After every sequence of starts, failed starts, re-routings and standbys, by
\* any threads, the reference count of a sound device is the number of use cases
\* that have it, and its mixer path is on exactly while it is counted: no path
\* is left on, and none is taken from a stream that still uses it.
THEOREM RoutesAreCounted == Spec => []RoutesCounted
<1>1. Init => LockInv /\ InputInv /\ ClosedInv /\ RoutesInv
  <2>1. Init => InputInv
    BY DEF Init, InputInv, IsAdev, AdevFields, Chosen, Forced, Idle
  <2> QED BY <2>1, InitLocks, InitClosed, InitRoutes
<1>2. LockInv /\ InputInv /\ ClosedInv /\ RoutesInv /\ [Next]_vars
      => (LockInv /\ InputInv /\ ClosedInv /\ RoutesInv)'
  BY NextLocks, NextInputs, NextClosed, NextRoutes
<1>3. RoutesInv => RoutesCounted
  <2> SUFFICES ASSUME RoutesInv, NEW d \in SndDevices
               PROVE  /\ adev.snd_dev_ref_cnt[d] = Users(d)
                      /\ d \in adev.route <=> Users(d) > 0
    BY DEF RoutesCounted
  <2>1. Users(d) = Cardinality(UsersOf(adev.usecase_list, d))
    BY DEF Users, UsersOf, Uses
  <2> QED BY <2>1 DEF RoutesInv, Routing, HAL, Counted, Routed
<1> QED BY <1>1, <1>2, <1>3, PTL DEF Spec

-----------------------------------------------------------------------------
(* What standby releases *)

\* There is one stream of each use case.  With two inputs of one use case the
\* start of the second fails and stop_input_stream, which looks for the use case
\* by its id, takes off the first one's.
OneOfEach == (\A s, r \in Captures : s = r) /\ (\A s, r \in Hotwords : s = r)

LEMMA UsecaseOfOne ==
  ASSUME OneOfEach, NEW s \in Streams, NEW r \in Streams,
         AUDIO_USECASE(s) = AUDIO_USECASE(r)
  PROVE  s = r
BY StreamsAssumption DEF OneOfEach, AUDIO_USECASE, Streams, Ins

HasUse(l, s) == \E i \in DOMAIN l : l[i].stream = s

\* Use cases are those of their streams, and there are no two of the same.
Proper(l) ==
  /\ l \in Seq(Usecases)
  /\ \A i \in DOMAIN l : l[i].id = AUDIO_USECASE(l[i].stream)
  /\ \A i, j \in DOMAIN l : l[i].id = l[j].id => i = j

\* The kernel has no PCM open that no stream knows of.
Sound(h) ==
  /\ IsWhole(h)
  /\ Proper(h.adev.usecase_list)
  /\ h.alsa \subseteq PcmDevices
  /\ \A d \in h.alsa : \E s \in Streams : h.stream[s].pcm = d

Released(h, s) == ~ HasUse(h.adev.usecase_list, s) /\ h.stream[s].pcm = NO_PCM

\* g is h but for stream s.
SameElse(g, h, s) ==
  \A r \in Streams : r # s =>
    /\ g.stream[r].pcm = h.stream[r].pcm
    /\ HasUse(g.adev.usecase_list, r) <=> HasUse(h.adev.usecase_list, r)

LEMMA NoDevicePcm ==
  /\ NO_PCM \notin PcmDevices /\ CLOSED_PCM \notin PcmDevices /\ NO_PCM # CLOSED_PCM
BY Zenon DEF NO_PCM, CLOSED_PCM, PcmDevices

LEMMA UseOfStream ==
  ASSUME NEW l, Proper(l), NEW i \in DOMAIN l
  PROVE  l[i].stream \in Streams /\ l[i].id = AUDIO_USECASE(l[i].stream)
<1>1. l[i] \in Usecases
  BY DEF Proper
<1> QED BY <1>1 DEF Proper, Usecases

LEMMA UseFound ==
  ASSUME OneOfEach, NEW a, Proper(a.usecase_list), NEW s \in Streams,
         HasUse(a.usecase_list, s)
  PROVE  LET i == get_usecase_from_id(a, AUDIO_USECASE(s))
         IN i # 0 /\ i \in DOMAIN a.usecase_list /\ a.usecase_list[i].stream = s
<1> DEFINE l == a.usecase_list
           i == get_usecase_from_id(a, AUDIO_USECASE(s))
<1>1. l \in Seq(Usecases) /\ \A j \in DOMAIN l : /\ l[j].id = AUDIO_USECASE(l[j].stream)
                                                 /\ l[j].stream \in Streams
  BY UseOfStream DEF Proper
<1>2. \/ i = 0 /\ \A j \in DOMAIN l : l[j].id # AUDIO_USECASE(s)
      \/ i \in DOMAIN l /\ i # 0 /\ l[i].id = AUDIO_USECASE(s)
  BY <1>1, UsecaseFound
<1>3. \E j \in DOMAIN l : l[j].id = AUDIO_USECASE(s)
  BY <1>1 DEF HasUse
<1> HIDE DEF i
<1>4. i \in DOMAIN l /\ i # 0 /\ l[i].id = AUDIO_USECASE(s)
  BY <1>2, <1>3
<1>5. l[i].stream = s
  BY <1>1, <1>4, UsecaseOfOne
<1> QED BY <1>4, <1>5 DEF i

LEMMA Remove_Proper ==
  ASSUME NEW l, Proper(l), OneOfEach, NEW i \in DOMAIN l, NEW s \in Streams,
         l[i].stream = s
  PROVE  /\ Proper(RemoveAt(l, i)) /\ ~ HasUse(RemoveAt(l, i), s)
         /\ \A r : r # s => (HasUse(RemoveAt(l, i), r) <=> HasUse(l, r))
<1> DEFINE m == RemoveAt(l, i)
<1>0. l \in Seq(Usecases) /\ i \in 1 .. Len(l) /\ DOMAIN l = 1 .. Len(l) /\ Len(l) \in Nat
  BY DEF Proper
<1>1. /\ m \in Seq(Usecases) /\ Len(m) = Len(l) - 1
      /\ \A j \in 1 .. Len(l) - 1 : m[j] = IF j < i THEN l[j] ELSE l[j + 1]
  BY <1>0, Removed
<1> HIDE DEF m
<1> DEFINE o(j) == IF j < i THEN j ELSE j + 1
           b(k) == IF k < i THEN k ELSE k - 1
<1>2. DOMAIN m = 1 .. Len(l) - 1
  BY <1>0, <1>1
<1>3. \A j \in DOMAIN m : o(j) \in DOMAIN l /\ o(j) # i /\ m[j] = l[o(j)]
  BY <1>0, <1>1, <1>2
<1>4. \A j, k \in DOMAIN m : o(j) = o(k) => j = k
  BY <1>0, <1>2
<1>5. \A k \in DOMAIN l : k # i => b(k) \in DOMAIN m /\ m[b(k)] = l[k]
  BY <1>0, <1>1, <1>2
<1> HIDE DEF o, b
<1>6. Proper(m)
  BY <1>1, <1>3, <1>4 DEF Proper
<1>7. ~ HasUse(m, s)
  <2> SUFFICES ASSUME NEW j \in DOMAIN m, m[j].stream = s PROVE FALSE
    BY DEF HasUse
  <2>1. l[o(j)].id = l[i].id
    BY <1>3 DEF Proper
  <2> QED BY <1>3, <2>1 DEF Proper
<1>8. ASSUME NEW r, r # s PROVE HasUse(m, r) <=> HasUse(l, r)
  <2>1. HasUse(m, r) => HasUse(l, r)
    BY <1>3 DEF HasUse
  <2>2. HasUse(l, r) => HasUse(m, r)
    BY <1>5, <1>8 DEF HasUse
  <2> QED BY <2>1, <2>2
<1> QED BY <1>6, <1>7, <1>8 DEF m

LEMMA Append_Proper ==
  ASSUME NEW l, Proper(l), OneOfEach, NEW s \in Streams, ~ HasUse(l, s),
         NEW b \in BOOLEAN, s # primary_output => b = TRUE
  PROVE  /\ Proper(Append(l, NewUsecase(s, b)))
         /\ HasUse(Append(l, NewUsecase(s, b)), s)
         /\ \A r : r # s => (HasUse(Append(l, NewUsecase(s, b)), r) <=> HasUse(l, r))
<1> DEFINE uc == NewUsecase(s, b)
           m == Append(l, uc)
<1>1. uc \in Usecases /\ uc.stream = s /\ uc.id = AUDIO_USECASE(s)
  BY NewUsecaseSided DEF NewUsecase
<1> HIDE DEF uc
<1>2. l \in Seq(Usecases)
  BY DEF Proper
<1>3. /\ m \in Seq(Usecases)
      /\ DOMAIN m = 1 .. Len(l) + 1 /\ DOMAIN l = 1 .. Len(l) /\ Len(l) \in Nat
      /\ \A i \in 1 .. Len(l) : m[i] = l[i]
      /\ m[Len(l) + 1] = uc
  BY <1>1, <1>2
<1> HIDE DEF m
<1>4. \A i \in DOMAIN m : \/ i \in DOMAIN l /\ m[i] = l[i]
                          \/ i = Len(l) + 1 /\ m[i] = uc
  <2> SUFFICES ASSUME NEW i \in 1 .. Len(l) + 1
               PROVE  \/ i \in 1 .. Len(l) /\ m[i] = l[i]
                      \/ i = Len(l) + 1 /\ m[i] = uc
    BY <1>3
  <2>1. i \in 1 .. Len(l) \/ i = Len(l) + 1
    BY <1>3
  <2> QED BY <1>3, <2>1
<1>5. \A i \in DOMAIN l : i \in DOMAIN m /\ m[i] = l[i]
  BY <1>3
<1>6. Len(l) + 1 \in DOMAIN m /\ m[Len(l) + 1] = uc
  BY <1>3
<1>7. \A i \in DOMAIN l : l[i].id # uc.id
  <2> SUFFICES ASSUME NEW i \in DOMAIN l, l[i].id = uc.id PROVE FALSE
    OBVIOUS
  <2>1. l[i].stream \in Streams /\ AUDIO_USECASE(l[i].stream) = AUDIO_USECASE(s)
    BY <1>1, UseOfStream
  <2> QED BY <2>1, UsecaseOfOne DEF HasUse
<1>8. Proper(m)
  <2>1. \A i \in DOMAIN m : m[i].id = AUDIO_USECASE(m[i].stream)
    BY <1>1, <1>4 DEF Proper
  <2>2. \A i, j \in DOMAIN m : m[i].id = m[j].id => i = j
    BY <1>4, <1>7 DEF Proper
  <2> QED BY <1>3, <2>1, <2>2 DEF Proper
<1>9. HasUse(m, s)
  BY <1>1, <1>6 DEF HasUse
<1>10. \A r : r # s => (HasUse(m, r) <=> HasUse(l, r))
  BY <1>1, <1>4, <1>5 DEF HasUse
<1> QED BY <1>8, <1>9, <1>10 DEF m, uc

LEMMA SameUses_Proper ==
  ASSUME NEW l, NEW m, Proper(l), m \in Seq(Usecases), SameUses(m, l)
  PROVE  Proper(m) /\ \A r : HasUse(m, r) <=> HasUse(l, r)
<1>1. Proper(m)
  BY DEF Proper, SameUses
<1>2. \A r : HasUse(m, r) <=> HasUse(l, r)
  BY DEF HasUse, SameUses
<1> QED BY <1>1, <1>2

\* Switching devices is no change to which use cases there are.
LEMMA Switch_Uses ==
  ASSUME NEW a, IsAdev(a), NEW i \in DOMAIN a.usecase_list,
         a.usecase_list \in Seq(Usecases),
         NEW out \in OutSndDevices \cup {SND_DEVICE_NONE},
         NEW in \in InSndDevices \cup {SND_DEVICE_NONE}
  PROVE  LET m == switch_devices(a, i, out, in).usecase_list
         IN m \in Seq(Usecases) /\ SameUses(m, a.usecase_list)
<1> DEFINE l == a.usecase_list
           uc == l[i]
           off1 == disable_snd_device(a, uc, uc.out_snd_device)
           off == disable_snd_device(off1, uc, uc.in_snd_device)
           on1 == enable_snd_device(off, uc, out)
           on == enable_snd_device(on1, uc, in)
           vc == [uc EXCEPT !.out_snd_device = out, !.in_snd_device = in]
           m == [l EXCEPT ![i] = vc]
           b == [on EXCEPT !.usecase_list[i].out_snd_device = out,
                           !.usecase_list[i].in_snd_device = in]
<1>1. ASSUME NEW x, IsAdev(x), NEW d
      PROVE  /\ IsAdev(enable_snd_device(x, uc, d))
             /\ enable_snd_device(x, uc, d).usecase_list = x.usecase_list
             /\ IsAdev(disable_snd_device(x, uc, d))
             /\ disable_snd_device(x, uc, d).usecase_list = x.usecase_list
  BY <1>1 DEF enable_snd_device, disable_snd_device, IsAdev, AdevFields
<1>2. switch_devices(a, i, out, in)
      = IF out = uc.out_snd_device /\ in = uc.in_snd_device THEN a ELSE b
  BY DEF switch_devices
<1>3. uc \in Usecases
  OBVIOUS
<1>4. /\ vc \in Usecases /\ vc.id = uc.id /\ vc.stream = uc.stream
      /\ vc.mixer_list = uc.mixer_list
  BY <1>3 DEF Usecases
<1> HIDE DEF uc
<1>5. IsAdev(off) /\ off.usecase_list = l
  BY <1>1
<1> HIDE DEF off
<1>6. IsAdev(on) /\ on.usecase_list = l
  BY <1>1, <1>5
<1> HIDE DEF on
<1>7. b.usecase_list = m
  BY <1>6 DEF IsAdev, AdevFields, uc
<1> HIDE DEF b, vc
<1>8. m \in Seq(Usecases) /\ SameUses(m, l)
  BY <1>4 DEF SameUses, uc
<1>9. SameUses(l, l)
  BY DEF SameUses
<1> QED BY <1>2, <1>7, <1>8, <1>9

\* g differs from h in the devices of use cases only.
SameRuns(g, h) ==
  /\ IsHal(g) /\ g.stream = h.stream /\ g.alsa = h.alsa
  /\ g.adev.usecase_list \in Seq(Usecases)
  /\ SameUses(g.adev.usecase_list, h.adev.usecase_list)

LEMMA Select_Uses ==
  ASSUME NEW h, IsHal(h), h.adev.usecase_list \in Seq(Usecases), NEW s
  PROVE  SameRuns(select_devices(h, AUDIO_USECASE(s)), h)
<1>1. SameRuns(h, h)
  BY DEF SameRuns, SameUses
<1>2. ASSUME NEW g, SameRuns(g, h), NEW i \in DOMAIN g.adev.usecase_list,
             NEW out \in OutSndDevices \cup {SND_DEVICE_NONE},
             NEW in \in InSndDevices \cup {SND_DEVICE_NONE}
      PROVE  SameRuns([g EXCEPT !.adev = switch_devices(g.adev, i, out, in)], h)
  <2> DEFINE b == switch_devices(g.adev, i, out, in)
  <2>1. /\ b.usecase_list \in Seq(Usecases)
        /\ SameUses(b.usecase_list, g.adev.usecase_list)
    BY <1>2, Switch_Uses DEF SameRuns, IsHal
  <2>2. IsAdev(b)
    BY <1>2, Switch_ActiveInput DEF SameRuns, IsHal
  <2> HIDE DEF b
  <2> DEFINE k == [g EXCEPT !.adev = b]
  <2>3. IsHal(k) /\ k.stream = h.stream /\ k.alsa = h.alsa /\ k.adev = b
    BY <1>2, <2>2 DEF SameRuns, IsHal
  <2> HIDE DEF k
  <2>4. SameRuns(k, h)
    BY <1>2, <2>1, <2>3 DEF SameRuns, SameUses
  <2> QED BY <2>4 DEF k, b
<1>3. SameRuns(select_capture(h), h)
  <2>1. PICK mic, i :
          /\ mic \in InSndDevices \cup {SND_DEVICE_NONE}
          /\ i = get_usecase_from_id(h.adev, "capture")
          /\ select_capture(h)
             = IF i = 0 THEN h
               ELSE [h EXCEPT !.adev = switch_devices(h.adev, i, SND_DEVICE_NONE, mic)]
    BY InDevice DEF select_capture
  <2>2. i # 0 => i \in DOMAIN h.adev.usecase_list
    BY <2>1, UsecaseFound
  <2>3. SND_DEVICE_NONE \in OutSndDevices \cup {SND_DEVICE_NONE}
    OBVIOUS
  <2>4. CASE i # 0
    <3>1. SameRuns([h EXCEPT !.adev = switch_devices(h.adev, i, SND_DEVICE_NONE, mic)], h)
      BY <1>1, <1>2, <2>1, <2>2, <2>3, <2>4
    <3> QED BY <2>1, <2>4, <3>1
  <2> QED BY <1>1, <2>1, <2>4
<1>4. SameRuns(select_playback(h), h)
  <2>1. PICK h1, i, out :
          /\ h1 = h \/ h1 = select_capture(h)
          /\ i = get_usecase_from_id(h.adev, "playback")
          /\ out = get_output_snd_device(h.stream[primary_output].devices)
          /\ select_playback(h)
             = IF i = 0 THEN h
               ELSE [h1 EXCEPT !.adev = switch_devices(h1.adev, i, out, SND_DEVICE_NONE)]
    BY DEF select_playback
  <2>2. SameRuns(h1, h) /\ out \in OutSndDevices \cup {SND_DEVICE_NONE}
    BY <1>1, <1>3, <2>1, OutDevice
  <2>3. i # 0 => i \in DOMAIN h1.adev.usecase_list
    BY <2>1, <2>2, UsecaseFound DEF SameRuns, SameUses
  <2>4. SND_DEVICE_NONE \in InSndDevices \cup {SND_DEVICE_NONE}
    OBVIOUS
  <2>5. CASE i # 0
    <3>1. SameRuns([h1 EXCEPT !.adev = switch_devices(h1.adev, i, out, SND_DEVICE_NONE)], h)
      BY <1>2, <2>2, <2>3, <2>4, <2>5
    <3> QED BY <2>1, <2>5, <3>1
  <2> QED BY <1>1, <2>1, <2>5
<1> QED BY <1>1, <1>3, <1>4 DEF select_devices, AUDIO_USECASE

LEMMA SameRuns_Sound ==
  ASSUME NEW g, NEW h, SameRuns(g, h), Sound(h)
  PROVE  /\ Sound(g)
         /\ \A r : HasUse(g.adev.usecase_list, r) <=> HasUse(h.adev.usecase_list, r)
<1>1. Proper(g.adev.usecase_list)
      /\ \A r : HasUse(g.adev.usecase_list, r) <=> HasUse(h.adev.usecase_list, r)
  BY SameUses_Proper DEF SameRuns, Sound
<1> QED BY <1>1 DEF SameRuns, Sound, IsWhole

Marked(h, s, a, x) == [h EXCEPT !.adev = a, !.stream[s].pcm = x]

\* A stream without an open PCM gets another mark.
LEMMA Mark_Sound ==
  ASSUME NEW h, Sound(h), NEW s \in Streams, h.stream[s].pcm \notin PcmDevices,
         NEW a, IsAdev(a), Proper(a.usecase_list), NEW x
  PROVE  LET g == Marked(h, s, a, x)
         IN /\ Sound(g) /\ g.adev = a /\ g.stream[s].pcm = x /\ g.alsa = h.alsa
            /\ \A r \in Streams : r # s => g.stream[r].pcm = h.stream[r].pcm
<1> DEFINE g == Marked(h, s, a, x)
<1>1. /\ IsWhole(g) /\ g.adev = a /\ g.stream[s].pcm = x /\ g.alsa = h.alsa
      /\ \A r \in Streams : r # s => g.stream[r].pcm = h.stream[r].pcm
  BY DEF Marked, Sound, IsWhole, IsHal, IsStreams, StreamFields
<1> HIDE DEF g
<1>2. ASSUME NEW d \in g.alsa PROVE \E r \in Streams : g.stream[r].pcm = d
  <2>1. PICK r \in Streams : h.stream[r].pcm = d
    BY <1>1, <1>2 DEF Sound
  <2>2. r # s
    BY <1>1, <1>2, <2>1 DEF Sound
  <2> QED BY <1>1, <2>1, <2>2
<1>3. Sound(g)
  BY <1>1, <1>2 DEF Sound
<1> QED BY <1>1, <1>3 DEF g

\* The use case of a stream leaves the list.
LEMMA Stop_Sound ==
  ASSUME OneOfEach, NEW h, Sound(h), NEW s \in Streams,
         h.stream[s].pcm \notin PcmDevices, HasUse(h.adev.usecase_list, s),
         NEW c, IsAdev(c),
         c.usecase_list = RemoveAt(h.adev.usecase_list,
                                   get_usecase_from_id(h.adev, AUDIO_USECASE(s)))
  PROVE  LET g == Marked(h, s, c, NO_PCM)
         IN Sound(g) /\ Released(g, s) /\ SameElse(g, h, s)
<1> DEFINE l == h.adev.usecase_list
           i == get_usecase_from_id(h.adev, AUDIO_USECASE(s))
           g == Marked(h, s, c, NO_PCM)
<1>1. i \in DOMAIN l /\ l[i].stream = s
  BY UseFound DEF Sound
<1>2. /\ Proper(c.usecase_list) /\ ~ HasUse(c.usecase_list, s)
      /\ \A r : r # s => (HasUse(c.usecase_list, r) <=> HasUse(l, r))
  BY <1>1, Remove_Proper DEF Sound
<1>3. /\ Sound(g) /\ g.adev = c /\ g.stream[s].pcm = NO_PCM
      /\ \A r \in Streams : r # s => g.stream[r].pcm = h.stream[r].pcm
  BY <1>2, Mark_Sound
<1> HIDE DEF g
<1>4. Released(g, s) /\ SameElse(g, h, s)
  BY <1>2, <1>3 DEF Released, SameElse
<1> QED BY <1>3, <1>4 DEF g

LEMMA StopOutput_Sound ==
  ASSUME OneOfEach, NEW h, Sound(h), NEW s \in Streams,
         h.stream[s].pcm \notin PcmDevices, HasUse(h.adev.usecase_list, s)
  PROVE  LET g == stop_output_stream(h, s)
         IN Sound(g) /\ Released(g, s) /\ SameElse(g, h, s)
<1> DEFINE i == get_usecase_from_id(h.adev, AUDIO_USECASE(s))
           uc == h.adev.usecase_list[i]
           a == disable_snd_device(h.adev, uc, uc.out_snd_device)
           c == [a EXCEPT !.usecase_list = RemoveAt(@, i)]
<1>1. i # 0
  BY UseFound DEF Sound
<1>2. IsAdev(a) /\ a.usecase_list = h.adev.usecase_list
  BY DEF disable_snd_device, Sound, IsWhole, IsHal, IsAdev, AdevFields
<1>3. stop_output_stream(h, s) = Marked(h, s, c, NO_PCM)
  BY <1>1 DEF stop_output_stream, Marked
<1> HIDE DEF a
<1>4. IsAdev(c) /\ c.usecase_list = RemoveAt(h.adev.usecase_list, i)
  BY <1>2 DEF IsAdev, AdevFields
<1> HIDE DEF c
<1> QED BY <1>3, <1>4, Stop_Sound

LEMMA StopInput_Sound ==
  ASSUME OneOfEach, NEW h, Sound(h), NEW s \in Streams,
         h.stream[s].pcm \notin PcmDevices, HasUse(h.adev.usecase_list, s)
  PROVE  LET g == stop_input_stream(h, s)
         IN Sound(g) /\ Released(g, s) /\ SameElse(g, h, s)
<1> DEFINE i == get_usecase_from_id(h.adev, AUDIO_USECASE(s))
           uc == h.adev.usecase_list[i]
           a == [h.adev EXCEPT !.active_input = NoStream]
           b == disable_snd_device(a, uc, uc.in_snd_device)
           c == [b EXCEPT !.usecase_list = RemoveAt(@, i)]
<1>1. i # 0
  BY UseFound DEF Sound
<1>2. IsAdev(a) /\ a.usecase_list = h.adev.usecase_list
  BY DEF Sound, IsWhole, IsHal, IsAdev, AdevFields
<1>3. stop_input_stream(h, s) = Marked(h, s, c, NO_PCM)
  BY <1>1 DEF stop_input_stream, Marked
<1> HIDE DEF a
<1>4. IsAdev(b) /\ b.usecase_list = h.adev.usecase_list
  BY <1>2 DEF disable_snd_device, IsAdev, AdevFields
<1> HIDE DEF b
<1>5. IsAdev(c) /\ c.usecase_list = RemoveAt(h.adev.usecase_list, i)
  BY <1>4 DEF IsAdev, AdevFields
<1> HIDE DEF c
<1> QED BY <1>3, <1>5, Stop_Sound

\* What a stream's own call may do: it is started and has its use case, or
\* everything it had is released.
Runs(h, s) == HasUse(h.adev.usecase_list, s)

LEMMA Close_Sound ==
  ASSUME NEW h, Sound(h), NEW s \in Streams
  PROVE  LET g == close_pcm_devices(h, s)
         IN /\ Sound(g) /\ g.stream[s].pcm \notin PcmDevices
            /\ g.adev = h.adev
            /\ \A r \in Streams : r # s => g.stream[r].pcm = h.stream[r].pcm
<1> DEFINE e == h.stream[s].pcm
           k == [h EXCEPT !.alsa = h.alsa \ {e}, !.stream[s].pcm = CLOSED_PCM]
           g == close_pcm_devices(h, s)
<1>1. g = IF e \in PcmDevices THEN k ELSE h
  BY DEF close_pcm_devices
<1>2. /\ IsWhole(k) /\ k.adev = h.adev /\ k.stream[s].pcm = CLOSED_PCM
      /\ k.alsa = h.alsa \ {e}
      /\ \A r \in Streams : r # s => k.stream[r].pcm = h.stream[r].pcm
  BY DEF Sound, IsWhole, IsHal, IsStreams, StreamFields
<1> HIDE DEF k
<1>3. ASSUME NEW d \in k.alsa PROVE \E r \in Streams : k.stream[r].pcm = d
  <2>1. PICK r \in Streams : h.stream[r].pcm = d
    BY <1>2, <1>3 DEF Sound
  <2> QED BY <1>2, <1>3, <2>1
<1>4. Sound(k)
  BY <1>2, <1>3 DEF Sound
<1> HIDE DEF g
<1>5. CASE e \in PcmDevices
  BY <1>1, <1>2, <1>4, <1>5, NoDevicePcm DEF g
<1>6. CASE e \notin PcmDevices
  BY <1>1, <1>6 DEF g
<1> QED BY <1>5, <1>6

LEMMA Open_Sound ==
  ASSUME NEW h, Sound(h), NEW s \in Streams, h.stream[s].pcm \notin PcmDevices,
         NEW device \in PcmDevices, NEW ready
  PROVE  LET r == pcm_open(h, s, device, ready)
         IN /\ Sound(r.h) /\ r.h.adev = h.adev
            /\ \A q \in Streams : q # s => r.h.stream[q].pcm = h.stream[q].pcm
            /\ r.ok \in BOOLEAN
            /\ r.ok = FALSE => r.h.stream[s].pcm \notin PcmDevices
<1> DEFINE k == [h EXCEPT !.alsa = h.alsa \cup {device}, !.stream[s].pcm = device]
           f == Marked(h, s, h.adev, CLOSED_PCM)
<1>1. \/ pcm_open(h, s, device, ready) = [h |-> k, ok |-> TRUE]
      \/ pcm_open(h, s, device, ready) = [h |-> f, ok |-> FALSE]
  <2>1. f = [h EXCEPT !.stream[s].pcm = CLOSED_PCM]
    BY DEF Marked, Sound, IsWhole, IsHal
  <2> QED BY <2>1 DEF pcm_open
<1>2. /\ IsWhole(k) /\ k.adev = h.adev /\ k.stream[s].pcm = device
      /\ k.alsa = h.alsa \cup {device}
      /\ \A r \in Streams : r # s => k.stream[r].pcm = h.stream[r].pcm
  BY DEF Sound, IsWhole, IsHal, IsStreams, StreamFields
<1> HIDE DEF k
<1>3. ASSUME NEW d \in k.alsa PROVE \E r \in Streams : k.stream[r].pcm = d
  <2>1. CASE d = device
    BY <1>2, <2>1
  <2>2. CASE d # device
    <3>1. PICK r \in Streams : h.stream[r].pcm = d
      BY <1>2, <1>3, <2>2 DEF Sound
    <3>2. d \in PcmDevices
      BY <1>2, <1>3, <2>2 DEF Sound
    <3> QED BY <1>2, <3>1, <3>2
  <2> QED BY <2>1, <2>2
<1>4. Sound(k)
  BY <1>2, <1>3 DEF Sound
<1>5. IsAdev(h.adev) /\ Proper(h.adev.usecase_list)
  BY DEF Sound, IsWhole, IsHal
<1>6. /\ Sound(f) /\ f.adev = h.adev /\ f.stream[s].pcm = CLOSED_PCM
      /\ \A r \in Streams : r # s => f.stream[r].pcm = h.stream[r].pcm
  BY <1>5, Mark_Sound
<1> HIDE DEF f
<1> DEFINE r == pcm_open(h, s, device, ready)
<1> HIDE DEF r
<1>7. (r.h = k /\ r.ok = TRUE) \/ (r.h = f /\ r.ok = FALSE)
  BY <1>1 DEF r
<1>8. CASE r.h = k /\ r.ok = TRUE
  BY <1>2, <1>4, <1>8 DEF r
<1>9. CASE r.h = f /\ r.ok = FALSE
  BY <1>6, <1>9, NoDevicePcm DEF r
<1> QED BY <1>7, <1>8, <1>9

LEMMA OutStandby_Sound ==
  ASSUME OneOfEach, NEW h, Sound(h), NEW s \in Streams, Runs(h, s)
  PROVE  LET g == do_out_standby_l(h, s)
         IN Sound(g) /\ Released(g, s) /\ SameElse(g, h, s)
<1> DEFINE h0 == [h EXCEPT !.stream[s].standby = TRUE]
           h1 == close_pcm_devices(h0, s)
           g == stop_output_stream(h1, s)
<1>1. /\ IsWhole(h0) /\ h0.adev = h.adev /\ h0.alsa = h.alsa
      /\ \A r \in Streams : h0.stream[r].pcm = h.stream[r].pcm
  BY DEF Sound, IsWhole, IsHal, IsStreams, StreamFields
<1>2. do_out_standby_l(h, s) = g
  BY DEF do_out_standby_l
<1> HIDE DEF h0
<1>3. Sound(h0)
  BY <1>1 DEF Sound
<1>4. /\ Sound(h1) /\ h1.stream[s].pcm \notin PcmDevices /\ h1.adev = h.adev
      /\ \A r \in Streams : r # s => h1.stream[r].pcm = h.stream[r].pcm
  BY <1>1, <1>3, Close_Sound
<1> HIDE DEF h1
<1>5. Sound(g) /\ Released(g, s) /\ SameElse(g, h1, s)
  BY <1>4, StopOutput_Sound DEF Runs
<1> HIDE DEF g
<1>6. SameElse(g, h, s)
  BY <1>4, <1>5 DEF SameElse
<1> QED BY <1>2, <1>5, <1>6

LEMMA InStandby_Sound ==
  ASSUME OneOfEach, NEW h, Sound(h), NEW s \in Streams, Runs(h, s),
         ~ h.stream[s].standby
  PROVE  LET g == do_in_standby_l(h, s)
         IN /\ Sound(g) /\ Released(g, s) /\ SameElse(g, h, s)
            /\ g.stream[s].standby = TRUE
<1> DEFINE h0 == close_pcm_devices(h, s)
           h1 == stop_input_stream(h0, s)
           g == [h1 EXCEPT !.stream[s].standby = TRUE]
<1>1. do_in_standby_l(h, s) = g
  BY DEF do_in_standby_l
<1>2. /\ Sound(h0) /\ h0.stream[s].pcm \notin PcmDevices /\ h0.adev = h.adev
      /\ \A r \in Streams : r # s => h0.stream[r].pcm = h.stream[r].pcm
  BY Close_Sound
<1> HIDE DEF h0
<1>3. Sound(h1) /\ Released(h1, s) /\ SameElse(h1, h0, s)
  BY <1>2, StopInput_Sound DEF Runs
<1> HIDE DEF h1
<1>4. /\ IsWhole(g) /\ g.adev = h1.adev /\ g.alsa = h1.alsa
      /\ \A r \in Streams : g.stream[r].pcm = h1.stream[r].pcm
      /\ g.stream[s].standby = TRUE
  BY <1>3 DEF Sound, IsWhole, IsHal, IsStreams, StreamFields
<1> HIDE DEF g
<1>5. Sound(g)
  BY <1>3, <1>4 DEF Sound
<1>6. Released(g, s) /\ SameElse(g, h, s)
  BY <1>2, <1>3, <1>4 DEF Released, SameElse
<1> QED BY <1>1, <1>4, <1>5, <1>6

LEMMA SomePcm ==
  ASSUME NEW s, NEW devices, get_pcm_device(s, devices) # NO_PCM
  PROVE  get_pcm_device(s, devices) \in PcmDevices
BY Zenon DEF get_pcm_device, PcmDevices

\* The first half of a start: the use case is in the list and has its devices.
Begun(g, h, s, x) == Sound(g) /\ Runs(g, s) /\ SameElse(g, h, s) /\ g.stream[s].pcm = x

LEMMA Enable_Sound ==
  ASSUME OneOfEach, NEW h, Sound(h), NEW s \in Streams, Released(h, s),
         NEW a, IsAdev(a), NEW b \in BOOLEAN, s # primary_output => b = TRUE,
         a.usecase_list = Append(h.adev.usecase_list, NewUsecase(s, b)), NEW x
  PROVE  Begun(select_devices(Marked(h, s, a, x), AUDIO_USECASE(s)), h, s, x)
<1> DEFINE h0 == Marked(h, s, a, x)
           h1 == select_devices(h0, AUDIO_USECASE(s))
<1>1. /\ Proper(a.usecase_list) /\ HasUse(a.usecase_list, s)
      /\ \A r : r # s => (HasUse(a.usecase_list, r) <=> HasUse(h.adev.usecase_list, r))
  <2> DEFINE l == h.adev.usecase_list
  <2>1. Proper(l) /\ ~ HasUse(l, s)
    BY DEF Sound, Released
  <2> HIDE DEF l
  <2>2. /\ Proper(Append(l, NewUsecase(s, b)))
        /\ HasUse(Append(l, NewUsecase(s, b)), s)
        /\ \A r : r # s => (HasUse(Append(l, NewUsecase(s, b)), r) <=> HasUse(l, r))
    BY <2>1, Append_Proper
  <2> QED BY <2>2 DEF l
<1>2. h.stream[s].pcm \notin PcmDevices
  BY NoDevicePcm DEF Released
<1>3. /\ Sound(h0) /\ h0.adev = a /\ h0.stream[s].pcm = x
      /\ \A r \in Streams : r # s => h0.stream[r].pcm = h.stream[r].pcm
  <2>1. IsAdev(a) /\ Proper(a.usecase_list) /\ Sound(h) /\ s \in Streams
    BY <1>1
  <2> QED BY ONLY <1>2, <2>1, Mark_Sound
<1> HIDE DEF h0
<1>4. SameRuns(h1, h0)
  BY <1>3, Select_Uses DEF Sound, Proper, IsWhole
<1> HIDE DEF h1
<1>5. /\ Sound(h1)
      /\ \A r : HasUse(h1.adev.usecase_list, r) <=> HasUse(a.usecase_list, r)
  BY <1>3, <1>4, SameRuns_Sound
<1>6. h1.stream = h0.stream
  BY <1>4 DEF SameRuns
<1>7. Begun(h1, h, s, x)
  BY <1>1, <1>3, <1>5, <1>6 DEF Begun, Runs, SameElse
<1> QED BY <1>7 DEF h0, h1

LEMMA StartOutput_Sound ==
  ASSUME OneOfEach, NEW h, Sound(h), NEW s \in Streams, s = primary_output,
         Released(h, s), NEW ready
  PROVE  LET r == start_output_stream(h, s, ready)
         IN /\ Sound(r.h) /\ SameElse(r.h, h, s)
            /\ \/ r.ok = TRUE /\ Runs(r.h, s)
               \/ r.ok = FALSE /\ Released(r.h, s)
<1> DEFINE device == get_pcm_device(s, h.stream[s].devices)
           pcm == IF device = NO_PCM THEN NO_PCM ELSE CLOSED_PCM
           b == device # NO_PCM
           a == [h.adev EXCEPT !.usecase_list = Append(@, NewUsecase(s, b))]
           h1 == enable_output_path_l(h, s)
           opened == pcm_open(h1, s, device, ready)
           stopped == stop_output_stream(opened.h, s)
<1>1. IsAdev(a) /\ a.usecase_list = Append(h.adev.usecase_list, NewUsecase(s, b))
  BY DEF Sound, IsWhole, IsHal, IsAdev, AdevFields
<1>2. h1 = select_devices(Marked(h, s, a, pcm), AUDIO_USECASE(s))
  <2>1. Marked(h, s, a, pcm)
        = [h EXCEPT !.stream[s].pcm = pcm,
                    !.adev.usecase_list = Append(@, NewUsecase(s, b))]
    BY DEF Marked, Sound, IsWhole, IsHal
  <2> QED BY <2>1 DEF enable_output_path_l
<1>3. \/ start_output_stream(h, s, ready) = [h |-> h1, ok |-> TRUE]
      \/ /\ device # NO_PCM /\ opened.ok
         /\ start_output_stream(h, s, ready) = opened
      \/ /\ device # NO_PCM /\ ~ opened.ok
         /\ start_output_stream(h, s, ready) = [h |-> stopped, ok |-> FALSE]
  BY DEF start_output_stream
<1>4. device # NO_PCM => device \in PcmDevices /\ pcm = CLOSED_PCM
  BY SomePcm
<1>5. b \in BOOLEAN
  OBVIOUS
<1> HIDE DEF a, h1, b, pcm, device
<1>6. Sound(h1) /\ Runs(h1, s) /\ SameElse(h1, h, s) /\ h1.stream[s].pcm = pcm
  <2> DEFINE k == select_devices(Marked(h, s, a, pcm), AUDIO_USECASE(s))
  <2>1. Begun(k, h, s, pcm)
    <3>1. s # primary_output => b = TRUE
      OBVIOUS
    <3>2. OneOfEach /\ Sound(h) /\ s \in Streams /\ Released(h, s)
      OBVIOUS
    <3> QED BY ONLY <1>1, <1>5, <3>1, <3>2, Enable_Sound
  <2> QED BY <1>2, <2>1 DEF Begun
<1>7. CASE device # NO_PCM
  <2>1. /\ Sound(opened.h) /\ opened.h.adev = h1.adev
        /\ \A q \in Streams : q # s => opened.h.stream[q].pcm = h1.stream[q].pcm
        /\ opened.ok \in BOOLEAN
        /\ opened.ok = FALSE => opened.h.stream[s].pcm \notin PcmDevices
    BY <1>4, <1>6, <1>7, NoDevicePcm, Open_Sound
  <2> HIDE DEF opened
  <2>2. Runs(opened.h, s) /\ SameElse(opened.h, h, s)
    BY <1>6, <2>1 DEF Runs, SameElse
  <2>3. CASE opened.ok = FALSE
    <3>1. Sound(stopped) /\ Released(stopped, s) /\ SameElse(stopped, opened.h, s)
      BY <2>1, <2>2, <2>3, StopOutput_Sound DEF Runs
    <3> HIDE DEF stopped
    <3>2. SameElse(stopped, h, s)
      BY <2>2, <3>1 DEF SameElse
    <3> QED BY <1>3, <1>6, <2>3, <3>1, <3>2
  <2>4. CASE opened.ok = TRUE
    BY <1>3, <1>6, <2>1, <2>2, <2>4
  <2> QED BY <2>1, <2>3, <2>4
<1>8. CASE device = NO_PCM
  BY <1>3, <1>6, <1>8
<1> QED BY <1>7, <1>8

LEMMA StartInput_Sound ==
  ASSUME OneOfEach, NEW h, Sound(h), NEW s \in Streams, s \in Ins,
         Released(h, s), NEW ready
  PROVE  LET r == start_input_stream(h, s, ready, TRUE)
         IN /\ Sound(r.h) /\ SameElse(r.h, h, s)
            /\ \/ r.ok = TRUE /\ Runs(r.h, s)
               \/ r.ok = FALSE /\ Released(r.h, s)
<1> DEFINE device == get_pcm_device(s, h.stream[s].devices)
           st == h.stream[s]
           a == [h.adev EXCEPT !.active_input = s,
                               !.usecase_list = Append(@, NewUsecase(s, TRUE))]
           h1 == select_devices(Marked(h, s, a, CLOSED_PCM), AUDIO_USECASE(s))
           n == IF st.aux_channels_changed THEN st.aux_channels ELSE ProfileChannels(s)
           h2 == [h1 EXCEPT !.stream[s].channels = n]
           opened == pcm_open(h2, s, device, ready)
           stopped == stop_input_stream(opened.h, s)
           none == [h EXCEPT !.adev.active_input = NoStream]
           res == start_input_stream(h, s, ready, TRUE)
<1>1. IsAdev(a) /\ a.usecase_list = Append(h.adev.usecase_list, NewUsecase(s, TRUE))
  BY DEF Sound, IsWhole, IsHal, IsAdev, AdevFields
<1>2. \/ res = [h |-> none, ok |-> FALSE]
      \/ device # NO_PCM /\ opened.ok /\ res = [h |-> opened.h, ok |-> TRUE]
      \/ device # NO_PCM /\ ~ opened.ok /\ res = [h |-> stopped, ok |-> FALSE]
  <2>1. Marked(h, s, a, CLOSED_PCM)
        = [h EXCEPT !.adev.active_input = s,
                    !.adev.usecase_list = Append(@, NewUsecase(s, TRUE)),
                    !.stream[s].pcm = CLOSED_PCM]
    BY DEF Marked, Sound, IsWhole, IsHal
  <2> QED BY <2>1 DEF start_input_stream
<1>3. device # NO_PCM => device \in PcmDevices
  BY SomePcm
<1> HIDE DEF a, device, n, res
<1>4. Begun(h1, h, s, CLOSED_PCM)
  <2>1. TRUE \in BOOLEAN
    OBVIOUS
  <2>2. OneOfEach /\ Sound(h) /\ s \in Streams /\ Released(h, s)
    OBVIOUS
  <2> QED BY ONLY <1>1, <2>1, <2>2, Enable_Sound
<1> HIDE DEF h1
<1>5. /\ IsWhole(h2) /\ h2.adev = h1.adev /\ h2.alsa = h1.alsa
      /\ \A r \in Streams : h2.stream[r].pcm = h1.stream[r].pcm
  BY <1>4 DEF Begun, Sound, IsWhole, IsHal, IsStreams, StreamFields
<1> HIDE DEF h2
<1>6. Begun(h2, h, s, CLOSED_PCM)
  BY <1>4, <1>5 DEF Begun, Sound, Runs, SameElse
<1>7. CASE device # NO_PCM /\ res # [h |-> none, ok |-> FALSE]
  <2>1. /\ Sound(opened.h) /\ opened.h.adev = h2.adev
        /\ \A q \in Streams : q # s => opened.h.stream[q].pcm = h2.stream[q].pcm
        /\ opened.ok \in BOOLEAN
        /\ opened.ok = FALSE => opened.h.stream[s].pcm \notin PcmDevices
    <3>1. Sound(h2) /\ h2.stream[s].pcm \notin PcmDevices /\ device \in PcmDevices
      BY <1>3, <1>6, <1>7, NoDevicePcm DEF Begun
    <3> QED BY <3>1, Open_Sound
  <2> HIDE DEF opened
  <2>2. Runs(opened.h, s) /\ SameElse(opened.h, h, s)
    BY <1>6, <2>1 DEF Begun, Runs, SameElse
  <2>3. CASE opened.ok = FALSE
    <3>1. Sound(stopped) /\ Released(stopped, s) /\ SameElse(stopped, opened.h, s)
      BY <2>1, <2>2, <2>3, StopInput_Sound DEF Runs
    <3> HIDE DEF stopped
    <3>2. SameElse(stopped, h, s)
      BY <2>2, <3>1 DEF SameElse
    <3>3. res.h = stopped /\ res.ok = FALSE
      BY <1>2, <1>7, <2>3
    <3> QED BY <3>1, <3>2, <3>3 DEF res
  <2>4. CASE opened.ok = TRUE
    <3>1. res.h = opened.h /\ res.ok = TRUE
      BY <1>2, <1>7, <2>4
    <3> QED BY <2>1, <2>2, <3>1 DEF res
  <2> QED BY <2>1, <2>3, <2>4
<1>8. CASE res = [h |-> none, ok |-> FALSE]
  <2>1. /\ IsWhole(none) /\ none.stream = h.stream /\ none.alsa = h.alsa
        /\ none.adev.usecase_list = h.adev.usecase_list
    BY DEF Sound, IsWhole, IsHal, IsAdev, AdevFields
  <2> HIDE DEF none
  <2>2. Sound(none) /\ Released(none, s) /\ SameElse(none, h, s)
    BY <2>1 DEF Sound, Released, SameElse
  <2>3. res.h = none /\ res.ok = FALSE
    BY <1>8
  <2> QED BY <2>2, <2>3 DEF res
<1> QED BY <1>2, <1>7, <1>8

\* StandbyReleases with what it rests on: a stream that is started has its use
\* case, one that is not has released everything, a closed one is in standby.
StandbyInv ==
  /\ Sound(HAL)
  /\ \A s \in Streams : /\ Started(s) => Runs(HAL, s)
                        /\ ~ Started(s) => Released(HAL, s)
                        /\ ~ stream[s].open => stream[s].standby
  /\ \A t \in Threads : call[t].then # "read_pcm"

\* A step of thread t on the stream s it has locked; its call goes on in
\* in_read's last part only on that stream.
OwnStep(t, s) ==
  /\ Sound(HAL)' /\ SameElse(HAL', HAL, s)
  /\ \A r \in Streams : r # s => /\ stream'[r].standby = stream[r].standby
                                 /\ stream'[r].open = stream[r].open
  /\ \A u \in Threads \ {t} : call'[u] = call[u]
  /\ call'[t].pc = "read_pcm" => call'[t].on = s
  /\ IF ~ stream'[s].standby \/ call'[t].pc = "read_pcm"
     THEN Runs(HAL', s) ELSE Released(HAL', s)
  /\ ~ stream'[s].open => stream'[s].standby
  /\ call'[t].then # "read_pcm"

LEMMA OwnStepPreserves ==
  ASSUME LockInv, StandbyInv, NEW t \in Threads, NEW s \in Streams,
         call[t].pc \in Bodies, call[t].on = s, OwnStep(t, s)
  PROVE  StandbyInv'
<1>1. \A u \in Threads \ {t} : ~ (call[u].pc = "read_pcm" /\ call[u].on = s)
  <2> SUFFICES ASSUME NEW u \in Threads \ {t}, call[u].pc = "read_pcm", call[u].on = s
               PROVE  FALSE
    OBVIOUS
  <2>1. lock[s] = t
    BY DEF LockInv, Locks
  <2>2. lock[s] = u
    BY DEF LockInv, Locks, Bodies
  <2> QED BY <2>1, <2>2
<1>2. ASSUME NEW r \in Streams, r # s
      PROVE  /\ Started(r)' <=> Started(r)
             /\ Runs(HAL', r) <=> Runs(HAL, r)
             /\ Released(HAL', r) <=> Released(HAL, r)
  <2>1. (\E u \in Threads : call'[u].pc = "read_pcm" /\ call'[u].on = r)
        <=> (\E u \in Threads : call[u].pc = "read_pcm" /\ call[u].on = r)
    BY <1>2 DEF OwnStep
  <2>2. Started(r)' <=> Started(r)
    BY <1>2, <2>1 DEF OwnStep, Started
  <2>3. /\ Runs(HAL', r) <=> Runs(HAL, r)
        /\ Released(HAL', r) <=> Released(HAL, r)
    BY <1>2 DEF OwnStep, SameElse, Runs, Released
  <2> QED BY <2>2, <2>3
<1>3. Started(s)' <=> (~ stream'[s].standby \/ call'[t].pc = "read_pcm")
  BY <1>1 DEF OwnStep, Started
<1>4. ASSUME NEW r \in Streams
      PROVE  /\ Started(r)' => Runs(HAL', r)
             /\ ~ Started(r)' => Released(HAL', r)
             /\ ~ stream'[r].open => stream'[r].standby
  <2>1. CASE r = s
    BY <1>3, <2>1 DEF OwnStep
  <2>2. CASE r # s
    BY <1>2, <2>2 DEF OwnStep, StandbyInv
  <2> QED BY <2>1, <2>2
<1>5. \A u \in Threads : call'[u].then # "read_pcm"
  BY DEF OwnStep, StandbyInv
<1> QED BY <1>4, <1>5 DEF StandbyInv, OwnStep, Runs, Released, HAL

\* The thread that has stream s locked, outside of in_read's last part, finds it
\* running or with everything released.
LEMMA OwnNow ==
  ASSUME LockInv, StandbyInv, NEW t \in Threads, NEW s \in Streams,
         call[t].pc \in Bodies, call[t].pc # "read_pcm", call[t].on = s
  PROVE  IF stream[s].standby THEN Released(HAL, s) ELSE Runs(HAL, s)
<1>1. \A u \in Threads : ~ (call[u].pc = "read_pcm" /\ call[u].on = s)
  <2> SUFFICES ASSUME NEW u \in Threads, call[u].pc = "read_pcm", call[u].on = s
               PROVE  FALSE
    OBVIOUS
  <2>1. lock[s] = t
    BY DEF LockInv, Locks
  <2>2. lock[s] = u
    BY DEF LockInv, Locks, Bodies
  <2> QED BY <2>1, <2>2
<1>2. Started(s) <=> ~ stream[s].standby
  BY <1>1 DEF Started
<1> QED BY <1>2 DEF StandbyInv

\* g is k but for stream s, which is running or has released everything.
Settled(g, k, s) ==
  /\ Sound(g) /\ SameElse(g, k, s)
  /\ \A r \in Streams : r # s => /\ g.stream[r].standby = k.stream[r].standby
                                 /\ g.stream[r].open = k.stream[r].open
  /\ IF g.stream[s].standby THEN Released(g, s) ELSE Runs(g, s)
  /\ ~ g.stream[s].open => g.stream[s].standby

LEMMA Settle_Same ==
  ASSUME NEW g, NEW h, NEW k, NEW s \in Streams, Settled(h, k, s), IsWhole(g),
         g.adev.usecase_list = h.adev.usecase_list, g.alsa = h.alsa,
         \A r \in Streams : g.stream[r].pcm = h.stream[r].pcm,
         \A r \in Streams : g.stream[r].standby = h.stream[r].standby,
         \A r \in Streams : r # s => g.stream[r].open = h.stream[r].open,
         g.stream[s].open = h.stream[s].open \/ g.stream[s].standby
  PROVE  Settled(g, k, s)
<1>1. Sound(g)
  BY DEF Settled, Sound
<1>2. SameElse(g, k, s)
  BY DEF Settled, SameElse
<1>3. IF g.stream[s].standby THEN Released(g, s) ELSE Runs(g, s)
  BY DEF Settled, Released, Runs
<1> QED BY <1>1, <1>2, <1>3 DEF Settled

LEMMA Settle_InStandby ==
  ASSUME OneOfEach, NEW h, NEW k, NEW s \in Streams, Settled(h, k, s)
  PROVE  /\ Settled(do_in_standby_l(h, s), k, s)
         /\ do_in_standby_l(h, s).stream[s].standby
<1> DEFINE g == do_in_standby_l(h, s)
<1>1. CASE h.stream[s].standby
  <2>1. g = h
    BY <1>1 DEF do_in_standby_l
  <2> QED BY <1>1, <2>1
<1>2. CASE ~ h.stream[s].standby
  <2>1. Sound(h) /\ IsWhole(h) /\ Runs(h, s)
    BY <1>2 DEF Settled, Sound
  <2>2. Sound(g) /\ Released(g, s) /\ SameElse(g, h, s) /\ g.stream[s].standby = TRUE
    BY <1>2, <2>1, InStandby_Sound
  <2>3. SameOthers(g, h, s)
    BY <2>1, InStandby_Flags
  <2> HIDE DEF g
  <2>4. SameElse(g, k, s)
    BY <2>2 DEF Settled, SameElse
  <2>5. Settled(g, k, s)
    BY <2>2, <2>3, <2>4 DEF Settled, SameOthers
  <2> QED BY <2>2, <2>5 DEF g
<1> QED BY <1>1, <1>2

LEMMA Settle_OutStandby ==
  ASSUME OneOfEach, NEW h, NEW k, NEW s \in Streams, Settled(h, k, s),
         ~ h.stream[s].standby
  PROVE  Settled(do_out_standby_l(h, s), k, s)
<1> DEFINE g == do_out_standby_l(h, s)
           h0 == [h EXCEPT !.stream[s].standby = TRUE]
           h1 == close_pcm_devices(h0, s)
<1>1. Sound(h) /\ IsWhole(h) /\ Runs(h, s)
  BY DEF Settled, Sound
<1>2. Sound(g) /\ Released(g, s) /\ SameElse(g, h, s)
  BY <1>1, OutStandby_Sound
<1>3. SameOthers(g, h, s)
  BY <1>1, Output_Flags
<1>4. g.stream[s].standby
  <2>1. IsWhole(h0) /\ h0.stream[s].standby = TRUE
    BY <1>1 DEF IsWhole, IsHal, IsStreams, StreamFields
  <2>2. g = stop_output_stream(h1, s)
    BY DEF do_out_standby_l
  <2> HIDE DEF h0, g
  <2>3. IsWhole(h1) /\ h1.stream[s].standby = TRUE
    BY <2>1, Pcm_Flags DEF SameFlags
  <2> HIDE DEF h1
  <2> QED BY <2>2, <2>3, StopOutput_Flags DEF SameFlags
<1> HIDE DEF g
<1>5. SameElse(g, k, s)
  BY <1>2 DEF Settled, SameElse
<1>6. Settled(g, k, s)
  BY <1>2, <1>3, <1>4, <1>5 DEF Settled, SameOthers
<1> QED BY <1>6 DEF g

LEMMA Settle_Select ==
  ASSUME NEW h, NEW k, NEW s \in Streams, Settled(h, k, s)
  PROVE  Settled(select_devices(h, AUDIO_USECASE(s)), k, s)
<1> DEFINE g == select_devices(h, AUDIO_USECASE(s))
<1>1. Sound(h) /\ IsHal(h) /\ h.adev.usecase_list \in Seq(Usecases)
  BY DEF Settled, Sound, IsWhole, Proper
<1>2. SameRuns(g, h)
  BY <1>1, Select_Uses
<1> HIDE DEF g
<1>3. /\ Sound(g) /\ g.stream = h.stream
      /\ \A r : HasUse(g.adev.usecase_list, r) <=> HasUse(h.adev.usecase_list, r)
  BY <1>1, <1>2, SameRuns_Sound DEF SameRuns
<1>4. SameElse(g, k, s)
  BY <1>3 DEF Settled, SameElse
<1>5. IF g.stream[s].standby THEN Released(g, s) ELSE Runs(g, s)
  BY <1>3 DEF Settled, Released, Runs
<1>6. Settled(g, k, s)
  BY <1>3, <1>4, <1>5 DEF Settled
<1> QED BY <1>6 DEF g

LEMMA SettledNow ==
  ASSUME LockInv, InputInv, ClosedInv, StandbyInv, NEW t \in Threads, NEW s \in Streams,
         call[t].pc \in Bodies, call[t].pc # "read_pcm", call[t].on = s
  PROVE  Settled(HAL, HAL, s)
<1>1. IF stream[s].standby THEN Released(HAL, s) ELSE Runs(HAL, s)
  BY OwnNow
<1>2. HAL.stream = stream
  BY DEF HAL
<1> QED BY <1>1, <1>2 DEF Settled, StandbyInv, SameElse

\* The step of a call that ends with the stream settled.
LEMMA SettledStep ==
  ASSUME LockInv, StandbyInv, NEW t \in Threads, NEW s \in Streams,
         call[t].pc \in Bodies, call[t].on = s,
         NEW g, Settled(g, HAL, s), Become(g),
         \A u \in Threads \ {t} : call'[u] = call[u],
         call'[t].pc # "read_pcm", call'[t].then # "read_pcm"
  PROVE  StandbyInv'
<1>1. HAL'.adev = g.adev /\ HAL'.stream = g.stream /\ HAL'.alsa = g.alsa
      /\ DOMAIN HAL' = {"adev", "stream", "alsa"} /\ HAL.stream = stream
      /\ HAL'.stream = stream'
  BY DEF Become, HAL
<1>2. Sound(HAL')
  BY <1>1 DEF Settled, Sound, IsWhole, IsHal
<1>3. SameElse(HAL', HAL, s)
  BY <1>1 DEF Settled, SameElse
<1>4. IF stream'[s].standby THEN Released(HAL', s) ELSE Runs(HAL', s)
  BY <1>1 DEF Settled, Released, Runs
<1>5. Sound(HAL)'
  BY <1>2
<1>6. OwnStep(t, s)
  BY <1>1, <1>3, <1>4, <1>5 DEF OwnStep, Settled
<1> QED BY <1>6, OwnStepPreserves

\* A step that does not touch the HAL, and is not one of in_read's last part.
LEMMA HalKept ==
  ASSUME StandbyInv, NEW t \in Threads, UNCHANGED halVars,
         \A u \in Threads \ {t} : call'[u] = call[u],
         call[t].pc # "read_pcm", call'[t].pc # "read_pcm", call'[t].then # "read_pcm"
  PROVE  StandbyInv'
<1>1. HAL' = HAL /\ stream' = stream
  BY DEF HAL, halVars
<1>2. \A s \in Streams : Started(s)' <=> Started(s)
  BY <1>1 DEF Started
<1>3. \A u \in Threads : call'[u].then # "read_pcm"
  BY DEF StandbyInv
<1> QED BY <1>1, <1>2, <1>3 DEF StandbyInv

LEMMA OutputStandby ==
  ASSUME OneOfEach, ResamplerWorks, LockInv, InputInv, ClosedInv, StandbyInv,
         NEW t \in Threads,
         WriteStart(t) \/ OutStandby(t) \/ OutSetParameters(t)
  PROVE  StandbyInv'
<1> DEFINE s == call[t].on
<1>0. /\ s = primary_output /\ s \in Streams
      /\ call[t].pc \in Bodies /\ call[t].pc # "read_pcm"
      /\ call[t].then # "read_pcm"
  <2>1. call[t].pc \in {"write_start", "out_standby", "out_set_parameters"}
    <3>1. CASE WriteStart(t)
      BY <3>1 DEF WriteStart
    <3>2. CASE OutStandby(t) \/ OutSetParameters(t)
      BY <3>2 DEF OutStandby, OutSetParameters
    <3> QED BY <3>1, <3>2
  <2>2. Now(call[t]) \in OutBodies
    BY <2>1 DEF OutBodies, OutFunctions, Now
  <2> QED BY <2>1, <2>2, MyStream DEF Placed, Streams, Bodies, StandbyInv
<1>1. IsWhole(HAL) /\ HAL.adev = adev /\ HAL.stream = stream /\ stream[s].open
  BY <1>0, StreamsAssumption, MyStream
<1>2. Settled(HAL, HAL, s)
  BY <1>0, SettledNow
<1>3. DOMAIN call = Threads /\ DOMAIN call[t] = {"pc", "s", "on", "then", "in"}
  BY Mine
<1> HIDE DEF s

\* A step that leads to a settled stream and out of the body.
<1>4. ASSUME NEW g, Settled(g, HAL, s), Become(g),
             \A u \in Threads \ {t} : call'[u] = call[u],
             call'[t].pc # "read_pcm", call'[t].then # "read_pcm"
      PROVE  StandbyInv'
  BY <1>0, <1>4, SettledStep DEF s
<1>5. CASE WriteStart(t)
  <2>1. /\ \A u \in Threads \ {t} : call'[u] = call[u]
        /\ call'[t].pc # "read_pcm" /\ call'[t].then # "read_pcm"
    <3>1. \/ call' = [call EXCEPT ![t].pc = "write_pcm"]
          \/ \E in : call' = [call EXCEPT ![t].pc = "write_pcm", ![t].in = in]
          \/ LockStream(t, call[t].on, "out_standby")
      BY <1>5 DEF WriteStart
    <3> QED BY <1>0, <1>3, <3>1 DEF LockStream
  <2>2. CASE stream[s].standby
    <3>1. PICK r, ready :
            /\ r = start_output_stream(HAL, s, ready)
            /\ \/ r.ok /\ Become([r.h EXCEPT !.stream[s].standby = FALSE])
               \/ ~ r.ok /\ Become(r.h)
      BY <1>5, <2>2, Zenon DEF WriteStart, s
    <3>2. Sound(HAL) /\ Released(HAL, s)
      BY <1>1, <1>2, <2>2 DEF Settled
    <3>3. /\ Sound(r.h) /\ SameElse(r.h, HAL, s)
          /\ \/ r.ok = TRUE /\ Runs(r.h, s)
             \/ r.ok = FALSE /\ Released(r.h, s)
      BY <1>0, <3>1, <3>2, StartOutput_Sound
    <3>4. SameFlags(r.h, HAL)
      BY <1>1, <3>1, Output_Flags
    <3>5. CASE r.ok = TRUE
      <4> DEFINE f == [r.h EXCEPT !.stream[s].standby = FALSE]
      <4>1. /\ IsWhole(f) /\ f.adev = r.h.adev /\ f.alsa = r.h.alsa
            /\ f.stream[s].standby = FALSE
            /\ \A q \in Streams : /\ f.stream[q].pcm = r.h.stream[q].pcm
                                  /\ f.stream[q].open = r.h.stream[q].open
                                  /\ q # s => f.stream[q].standby = r.h.stream[q].standby
        BY <1>0, <3>4 DEF SameFlags, IsWhole, IsHal, IsStreams, StreamFields
      <4>2. Become(f)
        BY <3>1, <3>5
      <4> HIDE DEF f
      <4>3. Sound(f) /\ SameElse(f, HAL, s) /\ Runs(f, s)
        BY <3>3, <3>5, <4>1 DEF Sound, SameElse, Runs
      <4>4. f.stream[s].open
        BY <1>0, <1>1, <3>4, <4>1 DEF SameFlags
      <4>5. Settled(f, HAL, s)
        BY <3>4, <4>1, <4>3, <4>4 DEF Settled, SameFlags
      <4> QED BY <1>4, <2>1, <4>2, <4>5
    <3>6. CASE r.ok = FALSE
      <4>1. Settled(r.h, HAL, s)
        <5>1. r.h.stream[s].standby /\ Released(r.h, s)
          BY <1>0, <1>1, <2>2, <3>3, <3>4, <3>6 DEF SameFlags
        <5> QED BY <3>3, <3>4, <5>1 DEF Settled, SameFlags
      <4>2. Become(r.h)
        BY <3>1, <3>6
      <4> QED BY <1>4, <2>1, <4>1, <4>2
    <3> QED BY <3>3, <3>5, <3>6
  <2>3. CASE ~ stream[s].standby
    <3>1. UNCHANGED halVars
      BY <1>5, <2>3 DEF WriteStart, s
    <3> QED BY <1>0, <2>1, <3>1, HalKept
  <2> QED BY <2>2, <2>3
<1>6. CASE OutStandby(t)
  <2>1. /\ \A u \in Threads \ {t} : call'[u] = call[u]
        /\ call'[t].pc # "read_pcm" /\ call'[t].then # "read_pcm"
    <3>1. ForceInputStandby(t, call[t].in)
      BY <1>6 DEF OutStandby
    <3> QED BY <1>0, <1>3, <3>1 DEF ForceInputStandby, Return, Idle
  <2>2. CASE stream[s].standby
    <3>1. UNCHANGED halVars
      BY <1>6, <2>2 DEF OutStandby, s
    <3> QED BY <1>0, <2>1, <3>1, HalKept
  <2>3. CASE ~ stream[s].standby
    <3>1. Become(do_out_standby_l(HAL, s))
      BY <1>6, <2>3 DEF OutStandby, s
    <3>2. Settled(do_out_standby_l(HAL, s), HAL, s)
      BY <1>0, <1>1, <1>2, <2>3, Settle_OutStandby
    <3> QED BY <1>4, <2>1, <3>1, <3>2
  <2> QED BY <2>2, <2>3
<1>7. CASE OutSetParameters(t)
  <2>1. /\ \A u \in Threads \ {t} : call'[u] = call[u]
        /\ call'[t].pc # "read_pcm" /\ call'[t].then # "read_pcm"
    <3>1. \E in : ForceInputStandby(t, in)
      BY <1>7 DEF OutSetParameters
    <3> QED BY <1>0, <1>3, <3>1 DEF ForceInputStandby, Return, Idle
  <2>2. PICK val \in OutRoutings :
          LET old == stream[s]
              h == [HAL EXCEPT !.stream[s].devices = val]
          IN Become(IF old.standby THEN h
                    ELSE IF old.devices # val THEN do_out_standby_l(h, s)
                    ELSE select_devices(h, AUDIO_USECASE(s)))
    BY <1>7 DEF OutSetParameters, s
  <2> DEFINE h == [HAL EXCEPT !.stream[s].devices = val]
  <2>3. /\ IsWhole(h) /\ h.adev = HAL.adev /\ h.alsa = HAL.alsa
        /\ \A q \in Streams : /\ h.stream[q].pcm = HAL.stream[q].pcm
                              /\ h.stream[q].open = HAL.stream[q].open
                              /\ h.stream[q].standby = HAL.stream[q].standby
    BY <1>0, <1>1 DEF IsWhole, IsHal, IsStreams, StreamFields
  <2> HIDE DEF h
  <2>4. Settled(h, HAL, s)
    <3> DEFINE k == HAL
    <3>1. Settled(k, k, s)
      BY <1>2
    <3> HIDE DEF k
    <3> QED BY <1>0, <2>3, <3>1, Settle_Same DEF k
  <2>5. \/ Become(h)
        \/ ~ h.stream[s].standby /\ Become(do_out_standby_l(h, s))
        \/ Become(select_devices(h, AUDIO_USECASE(s)))
    BY <1>0, <1>1, <2>2, <2>3 DEF h
  <2>6. Settled(select_devices(h, AUDIO_USECASE(s)), HAL, s)
    BY <1>0, <2>4, Settle_Select
  <2>7. ~ h.stream[s].standby => Settled(do_out_standby_l(h, s), HAL, s)
    BY <1>0, <2>4, Settle_OutStandby
  <2> QED BY <1>4, <2>1, <2>4, <2>5, <2>6, <2>7
<1> QED BY <1>5, <1>6, <1>7

\* Changes to fields of an input that neither starts nor stops it; closing one
\* that is in standby.
LEMMA Settle_Fields ==
  ASSUME NEW h, NEW k, NEW s \in Streams, Settled(h, k, s), NEW x, NEW y, NEW z
  PROVE  /\ Settled([h EXCEPT !.stream[s].source = x, !.stream[s].devices = y], k, s)
         /\ Settled([h EXCEPT !.stream[s].num_preprocessors = x,
                              !.stream[s].aux_channels = y,
                              !.stream[s].aux_channels_changed = z], k, s)
         /\ Settled([h EXCEPT !.stream[s].num_preprocessors = x,
                              !.stream[s].aux_channels_changed = z], k, s)
         /\ h.stream[s].standby => Settled([h EXCEPT !.stream[s].open = x], k, s)
<1> DEFINE f == [h EXCEPT !.stream[s].source = x, !.stream[s].devices = y]
           g == [h EXCEPT !.stream[s].num_preprocessors = x,
                          !.stream[s].aux_channels = y,
                          !.stream[s].aux_channels_changed = z]
           e == [h EXCEPT !.stream[s].num_preprocessors = x,
                          !.stream[s].aux_channels_changed = z]
           d == [h EXCEPT !.stream[s].open = x]
           Same(j) == /\ IsWhole(j) /\ j.adev = h.adev /\ j.alsa = h.alsa
                      /\ \A r \in Streams : /\ j.stream[r].pcm = h.stream[r].pcm
                                            /\ j.stream[r].standby = h.stream[r].standby
                                            /\ r # s => j.stream[r].open = h.stream[r].open
<1>0. IsWhole(h)
  BY DEF Settled, Sound
<1>1. Same(f) /\ f.stream[s].open = h.stream[s].open
  BY <1>0 DEF IsWhole, IsHal, IsStreams, StreamFields
<1>2. Same(g) /\ g.stream[s].open = h.stream[s].open
  BY <1>0 DEF IsWhole, IsHal, IsStreams, StreamFields
<1>3. Same(e) /\ e.stream[s].open = h.stream[s].open
  BY <1>0 DEF IsWhole, IsHal, IsStreams, StreamFields
<1>4. Same(d)
  BY <1>0 DEF IsWhole, IsHal, IsStreams, StreamFields
<1>5. ASSUME NEW j, Same(j), j.stream[s].open = h.stream[s].open \/ j.stream[s].standby
      PROVE  Settled(j, k, s)
  BY <1>5, Settle_Same
<1> HIDE DEF d, e, f, g
<1>6. h.stream[s].standby => d.stream[s].standby
  BY <1>4
<1> HIDE DEF Same
<1>7. /\ Settled(f, k, s) /\ Settled(g, k, s) /\ Settled(e, k, s)
      /\ h.stream[s].standby => Settled(d, k, s)
  BY <1>1, <1>2, <1>3, <1>4, <1>5, <1>6
<1> QED BY <1>7 DEF d, e, f, g

LEMMA InputStandby ==
  ASSUME OneOfEach, ResamplerWorks, LockInv, InputInv, ClosedInv, StandbyInv,
         NEW t \in Threads,
         \/ ForceInput(t) \/ InStandby(t) \/ InSetParameters(t)
         \/ AddEffect(t) \/ RemoveEffect(t) \/ CloseInput(t)
  PROVE  StandbyInv'
<1> DEFINE s == call[t].on
<1>0. /\ s \in Streams /\ call[t].pc \in Bodies /\ call[t].pc # "read_pcm"
      /\ Return(t)
  <2>1. call[t].pc \in {"force_input", "in_standby", "in_set_parameters",
                        "add_effect", "remove_effect", "close_input"} /\ Return(t)
    <3>1. CASE ForceInput(t) \/ InStandby(t)
      BY <3>1 DEF ForceInput, InStandby
    <3>2. CASE InSetParameters(t)
      BY <3>2 DEF InSetParameters
    <3>3. CASE AddEffect(t)
      BY <3>3 DEF AddEffect
    <3>4. CASE RemoveEffect(t) \/ CloseInput(t)
      BY <3>4 DEF RemoveEffect, CloseInput
    <3> QED BY <3>1, <3>2, <3>3, <3>4
  <2>2. s # NoStream
    <3>1. CASE call[t].pc = "force_input"
      BY <3>1 DEF InputInv, Forced
    <3>2. CASE call[t].pc # "force_input"
      <4>1. Now(call[t]) \in InBodies
        BY <2>1, <3>2 DEF Now, InBodies, OutBodies, OutFunctions, Bodies
      <4> QED BY <4>1, MyStream, StreamsAssumption DEF Placed, Streams
    <3> QED BY <3>1, <3>2
  <2> QED BY <2>1, <2>2, MyStream DEF Bodies
<1>1. Settled(HAL, HAL, s)
  BY <1>0, SettledNow
<1>2. /\ \A u \in Threads \ {t} : call'[u] = call[u]
      /\ call'[t].pc # "read_pcm" /\ call'[t].then # "read_pcm"
  BY <1>0, Mine DEF Return, Idle
<1> HIDE DEF s
<1>3. ASSUME NEW g, Settled(g, HAL, s), Become(g) PROVE StandbyInv'
  BY <1>0, <1>2, <1>3, SettledStep DEF s
<1>4. CASE UNCHANGED halVars
  BY <1>0, <1>2, <1>4, HalKept
<1>5. CASE ForceInput(t) \/ InStandby(t)
  <2>1. Become(do_in_standby_l(HAL, s))
    BY <1>5 DEF ForceInput, InStandby, s
  <2> QED BY <1>0, <1>1, <1>3, <2>1, Settle_InStandby
<1>6. CASE InSetParameters(t)
  <2>1. PICK val, new :
          LET h == [HAL EXCEPT !.stream[s].source = new, !.stream[s].devices = val]
          IN \/ Become(h) \/ Become(do_in_standby_l(h, s))
             \/ Become(select_devices(h, AUDIO_USECASE(s)))
    BY <1>6, Zenon DEF InSetParameters, s
  <2> DEFINE h == [HAL EXCEPT !.stream[s].source = new, !.stream[s].devices = val]
  <2>2. Settled(h, HAL, s)
    <3> DEFINE k == HAL
    <3>1. Settled(k, k, s)
      BY <1>1
    <3> HIDE DEF k
    <3>2. Settled([k EXCEPT !.stream[s].source = new, !.stream[s].devices = val], k, s)
      BY <1>0, <3>1, Settle_Fields
    <3> QED BY <3>2 DEF k
  <2>3. \/ Become(h) \/ Become(do_in_standby_l(h, s))
        \/ Become(select_devices(h, AUDIO_USECASE(s)))
    BY <2>1
  <2> HIDE DEF h
  <2>4. /\ Settled(do_in_standby_l(h, s), HAL, s)
        /\ Settled(select_devices(h, AUDIO_USECASE(s)), HAL, s)
    BY <1>0, <2>2, Settle_InStandby, Settle_Select
  <2> QED BY <1>3, <2>2, <2>3, <2>4
<1>7. CASE AddEffect(t)
  <2>1. CASE ~ UNCHANGED halVars
    <3>1. PICK aux :
            LET h == [HAL EXCEPT !.stream[s].num_preprocessors = @ + 1,
                                 !.stream[s].aux_channels = aux,
                                 !.stream[s].aux_channels_changed = TRUE]
            IN Become(h) \/ Become(do_in_standby_l(h, s))
      BY <1>7, <2>1, Zenon DEF AddEffect, s
    <3>2. PICK x, y :
             LET h == [HAL EXCEPT !.stream[s].num_preprocessors = x,
                                  !.stream[s].aux_channels = y,
                                  !.stream[s].aux_channels_changed = TRUE]
             IN Become(h) \/ Become(do_in_standby_l(h, s))
      BY <3>1
    <3> DEFINE h == [HAL EXCEPT !.stream[s].num_preprocessors = x,
                                !.stream[s].aux_channels = y,
                                !.stream[s].aux_channels_changed = TRUE]
    <3>3. Settled(h, HAL, s)
      <4> DEFINE k == HAL
      <4>1. Settled(k, k, s)
        BY <1>1
      <4> HIDE DEF k
      <4>2. Settled([k EXCEPT !.stream[s].num_preprocessors = x,
                              !.stream[s].aux_channels = y,
                              !.stream[s].aux_channels_changed = TRUE], k, s)
        BY <1>0, <4>1, Settle_Fields
      <4> QED BY <4>2 DEF k
    <3>4. Become(h) \/ Become(do_in_standby_l(h, s))
      BY <3>2
    <3> HIDE DEF h
    <3>5. Settled(do_in_standby_l(h, s), HAL, s)
      BY <1>0, <3>3, Settle_InStandby
    <3> QED BY <1>3, <3>3, <3>4, <3>5
  <2> QED BY <1>4, <2>1
<1>8. CASE RemoveEffect(t)
  <2>1. CASE ~ UNCHANGED halVars
    <3>1. Become([HAL EXCEPT !.stream[s].num_preprocessors = @ - 1,
                             !.stream[s].aux_channels_changed = FALSE])
      BY <1>8, <2>1 DEF RemoveEffect, s
    <3>2. PICK x : Become([HAL EXCEPT !.stream[s].num_preprocessors = x,
                                      !.stream[s].aux_channels_changed = FALSE])
      BY <3>1
    <3> DEFINE h == [HAL EXCEPT !.stream[s].num_preprocessors = x,
                                !.stream[s].aux_channels_changed = FALSE]
    <3>3. Settled(h, HAL, s)
      <4> DEFINE k == HAL
      <4>1. Settled(k, k, s)
        BY <1>1
      <4> HIDE DEF k
      <4>2. Settled([k EXCEPT !.stream[s].num_preprocessors = x,
                              !.stream[s].aux_channels_changed = FALSE], k, s)
        BY <1>0, <4>1, Settle_Fields
      <4> QED BY <4>2 DEF k
    <3>4. Become(h)
      BY <3>2
    <3> HIDE DEF h
    <3> QED BY <1>3, <3>3, <3>4
  <2> QED BY <1>4, <2>1
<1>9. CASE CloseInput(t)
  <2> DEFINE g == do_in_standby_l(HAL, s)
             h == [g EXCEPT !.stream[s].open = FALSE]
  <2>1. Become(h)
    BY <1>9 DEF CloseInput, s
  <2>2. Settled(g, HAL, s) /\ g.stream[s].standby
    BY <1>0, <1>1, Settle_InStandby
  <2> HIDE DEF g
  <2>3. Settled(h, HAL, s)
    <3> DEFINE k == HAL
    <3>1. Settled(g, k, s)
      BY <2>2
    <3> HIDE DEF k
    <3>2. Settled(h, k, s)
      BY <1>0, <2>2, <3>1, Settle_Fields
    <3> HIDE DEF h
    <3> QED BY <3>2 DEF k
  <2> HIDE DEF h
  <2> QED BY <1>3, <2>1, <2>3
<1> QED BY <1>5, <1>6, <1>7, <1>8, <1>9

LEMMA ReadStandby ==
  ASSUME OneOfEach, ResamplerWorks, LockInv, InputInv, ClosedInv, StandbyInv,
         NEW t \in Threads, ReadCheck(t) \/ ReadStart(t) \/ ReadPcm(t)
  PROVE  StandbyInv'
<1> DEFINE s == call[t].on
<1>0. /\ s \in Streams /\ s \in Ins /\ call[t].pc \in Bodies
      /\ call[t].then # "read_pcm"
  <2>1. call[t].pc \in {"read_check", "read_start", "read_pcm"}
    <3>1. CASE ReadStart(t)
      BY <3>1 DEF ReadStart
    <3>2. CASE ReadCheck(t) \/ ReadPcm(t)
      BY <3>2 DEF ReadCheck, ReadPcm
    <3> QED BY <3>1, <3>2
  <2>2. Now(call[t]) \in InBodies
    BY <2>1 DEF Now, InBodies, OutBodies, OutFunctions, Bodies
  <2> QED BY <2>1, <2>2, MyStream DEF Placed, Streams, Bodies, StandbyInv
<1>1. IsWhole(HAL) /\ HAL.adev = adev /\ HAL.stream = stream /\ stream[s].open
  BY <1>0, StreamsAssumption, MyStream
<1>2. DOMAIN call = Threads /\ DOMAIN call[t] = {"pc", "s", "on", "then", "in"}
  BY Mine
<1>3. CASE ReadPcm(t)
  <2>1. /\ adev' = adev /\ alsa' = alsa
        /\ stream' = [stream EXCEPT ![s].standby = FALSE]
        /\ Return(t) \/ LockInputs(t, s, "in_standby")
    BY <1>3 DEF ReadPcm
  <2>2. /\ \A u \in Threads \ {t} : call'[u] = call[u]
        /\ call'[t].pc # "read_pcm" /\ call'[t].then # "read_pcm"
    BY <1>2, <2>1 DEF Return, Idle, LockInputs
  <2>3. Runs(HAL, s)
    <3>1. call[t].pc = "read_pcm"
      BY <1>3 DEF ReadPcm
    <3>2. Started(s)
      BY <3>1 DEF Started
    <3> QED BY <1>0, <3>2 DEF StandbyInv
  <2> DEFINE f == [adev |-> adev', stream |-> stream', alsa |-> alsa']
  <2>3a. Become(f)
    BY DEF Become
  <2>4. /\ IsWhole(f) /\ f.adev = HAL.adev /\ f.alsa = HAL.alsa
        /\ f.stream[s].standby = FALSE
        /\ \A q \in Streams : /\ f.stream[q].pcm = HAL.stream[q].pcm
                              /\ f.stream[q].open = HAL.stream[q].open
                              /\ q # s => f.stream[q].standby = HAL.stream[q].standby
    <3>1. IsStreams(stream) /\ IsAdev(adev)
      BY <1>1 DEF IsWhole, IsHal
    <3>2. /\ IsStreams(stream')
          /\ stream'[s].standby = FALSE
          /\ \A q \in Streams : /\ stream'[q].pcm = stream[q].pcm
                                /\ stream'[q].open = stream[q].open
                                /\ q # s => stream'[q].standby = stream[q].standby
      BY <1>0, <2>1, <3>1 DEF IsStreams, StreamFields
    <3> QED BY <2>1, <3>1, <3>2 DEF IsWhole, IsHal, HAL
  <2> HIDE DEF f
  <2>5. Sound(HAL)
    BY DEF StandbyInv
  <2>6. Sound(f) /\ SameElse(f, HAL, s) /\ Runs(f, s)
    BY <2>3, <2>4, <2>5 DEF Sound, SameElse, Runs
  <2>7. Settled(f, HAL, s)
    BY <1>0, <1>1, <2>4, <2>6 DEF Settled
  <2> QED BY <1>0, <2>2, <2>3a, <2>7, SettledStep
<1>4. CASE call[t].pc # "read_pcm"
  <2>1. Settled(HAL, HAL, s)
    BY <1>0, <1>4, SettledNow
  <2> HIDE DEF s
  <2>2. ASSUME NEW g, Become(g), Sound(g), SameElse(g, HAL, s), SameFlags(g, HAL),
               call' = [call EXCEPT ![t].pc = "read_pcm"], Runs(g, s)
        PROVE  StandbyInv'
    <3>1. HAL'.adev = g.adev /\ HAL'.stream = g.stream /\ HAL'.alsa = g.alsa
          /\ DOMAIN HAL' = {"adev", "stream", "alsa"} /\ HAL'.stream = stream'
      BY <2>2 DEF Become, HAL
    <3>2. Sound(HAL') /\ SameElse(HAL', HAL, s) /\ Runs(HAL', s)
      BY <2>2, <3>1 DEF Sound, IsWhole, IsHal, SameElse, Runs
    <3>3. Sound(HAL)'
      BY <3>2
    <3>4. call'[t].pc = "read_pcm" /\ call'[t].on = s /\ call'[t].then # "read_pcm"
          /\ \A u \in Threads \ {t} : call'[u] = call[u]
      BY <1>0, <1>2, <2>2 DEF s
    <3>5. \A r \in Streams : /\ stream'[r].standby = stream[r].standby
                             /\ stream'[r].open = stream[r].open
      BY <1>1, <2>2, <3>1 DEF SameFlags
    <3>6. OwnStep(t, s)
      BY <1>0, <1>1, <3>2, <3>3, <3>4, <3>5 DEF OwnStep, s
    <3> QED BY <1>0, <3>6, OwnStepPreserves DEF s
  <2>3. ASSUME UNCHANGED halVars, ~ stream[s].standby,
               call' = [call EXCEPT ![t].pc = "read_pcm"]
        PROVE  StandbyInv'
    <3>1. Become(HAL) /\ SameFlags(HAL, HAL) /\ SameElse(HAL, HAL, s)
      BY <1>1, <2>3 DEF halVars, Become, HAL, SameFlags, SameElse
    <3>2. Sound(HAL) /\ Runs(HAL, s)
      BY <1>1, <2>1, <2>3 DEF Settled
    <3> QED BY <2>2, <2>3, <3>1, <3>2
  <2>4. CASE ReadCheck(t)
    <3>1. UNCHANGED halVars
      BY <2>4 DEF ReadCheck, halVars
    <3>2. CASE stream[s].standby
      <4>1. LockInputs(t, s, "read_start")
        BY <2>4, <3>2 DEF ReadCheck, s
      <4>2. /\ \A u \in Threads \ {t} : call'[u] = call[u]
            /\ call'[t].pc # "read_pcm" /\ call'[t].then # "read_pcm"
        BY <1>2, <4>1 DEF LockInputs
      <4> QED BY <1>4, <3>1, <4>2, HalKept
    <3>3. CASE ~ stream[s].standby
      <4>1. call' = [call EXCEPT ![t].pc = "read_pcm"]
        BY <2>4, <3>3 DEF ReadCheck, s
      <4> QED BY <2>3, <3>1, <3>3, <4>1
    <3> QED BY <3>2, <3>3
  <2>5. CASE ReadStart(t)
    <3>1. CASE stream[s].standby
      <4>1. PICK r :
              /\ r \in {start_input_stream(HAL, s, ready, resampler) :
                         ready \in May("pcm_open"), resampler \in May("resampler")}
              /\ Become(r.h)
              /\ \/ r.ok /\ call' = [call EXCEPT ![t].pc = "read_pcm"]
                 \/ ~ r.ok /\ LockInputs(t, s, "in_standby")
        BY <2>5, <3>1 DEF ReadStart, s
      <4>2. PICK ready \in May("pcm_open"), resampler \in May("resampler") :
              r = start_input_stream(HAL, s, ready, resampler)
        BY <4>1
      <4>3. resampler = TRUE
        BY <4>2 DEF May, ResamplerWorks
      <4>4. Sound(HAL) /\ Released(HAL, s)
        BY <1>1, <2>1, <3>1 DEF Settled
      <4>5. /\ Sound(r.h) /\ SameElse(r.h, HAL, s)
            /\ \/ r.ok = TRUE /\ Runs(r.h, s)
               \/ r.ok = FALSE /\ Released(r.h, s)
        BY <1>0, <4>2, <4>3, <4>4, StartInput_Sound DEF s
      <4>6. SameFlags(r.h, HAL)
        BY <1>1, <4>2, StartInput_Flags
      <4>7. CASE r.ok = TRUE
        BY <2>2, <4>1, <4>5, <4>6, <4>7
      <4>8. CASE r.ok = FALSE
        <5>1. LockInputs(t, s, "in_standby")
          BY <4>1, <4>8
        <5>2. /\ \A u \in Threads \ {t} : call'[u] = call[u]
              /\ call'[t].pc # "read_pcm" /\ call'[t].then # "read_pcm"
          BY <1>2, <5>1 DEF LockInputs
        <5>3. r.h.stream[s].standby /\ Released(r.h, s)
          BY <1>0, <1>1, <3>1, <4>5, <4>6, <4>8 DEF SameFlags, s
        <5>4. Settled(r.h, HAL, s)
          BY <4>5, <4>6, <5>3 DEF Settled, SameFlags
        <5> QED BY <1>0, <4>1, <5>2, <5>4, SettledStep DEF s
      <4> QED BY <4>5, <4>7, <4>8
    <3>2. CASE ~ stream[s].standby
      <4>1. UNCHANGED halVars /\ call' = [call EXCEPT ![t].pc = "read_pcm"]
        BY <2>5, <3>2 DEF ReadStart, s
      <4> QED BY <2>3, <3>2, <4>1
    <3> QED BY <3>1, <3>2
  <2>6. ~ ReadPcm(t)
    BY <1>4 DEF ReadPcm
  <2> QED BY <2>4, <2>5, <2>6
<1>5. call[t].pc = "read_pcm" => ReadPcm(t)
  BY DEF ReadCheck, ReadStart
<1> QED BY <1>3, <1>4, <1>5

LEMMA OpenStandby ==
  ASSUME ResamplerWorks, LockInv, InputInv, ClosedInv, StandbyInv, NEW t \in Threads,
         NEW s \in Ins, OpenInput(t, s)
  PROVE  StandbyInv'
<1>0. s \in Streams /\ s # NoStream
  BY StreamsAssumption DEF Streams
<1>1. /\ ~ stream[s].open /\ adev' = adev /\ alsa' = alsa /\ call' = call
      /\ \E devices, source : stream' = [stream EXCEPT ![s] = NewStream(s, devices, source)]
  BY DEF OpenInput
<1>2. IsStreams(stream) /\ IsWhole(HAL)
  BY MyStream DEF ClosedInv
<1>3. /\ IsStreams(stream') /\ stream'[s].standby = TRUE /\ stream'[s].pcm = NO_PCM
      /\ \A r \in Streams : r # s => stream'[r] = stream[r]
  BY <1>0, <1>1, <1>2 DEF IsStreams, StreamFields, NewStream
<1>4. \A u \in Threads : call[u].on # s
  BY <1>0, <1>1 DEF ClosedInv
<1>5. ~ Started(s) /\ Released(HAL, s)
  BY <1>0, <1>1, <1>4 DEF StandbyInv, Started
<1>6. HAL'.adev = HAL.adev /\ HAL'.stream = stream' /\ HAL'.alsa = HAL.alsa
      /\ HAL.stream = stream /\ HAL.adev = adev /\ DOMAIN HAL' = {"adev", "stream", "alsa"}
  BY <1>1 DEF HAL
<1>7. Sound(HAL')
  <2>1. IsWhole(HAL')
    BY <1>2, <1>3, <1>6 DEF IsWhole, IsHal
  <2>2. \A d \in HAL'.alsa : \E r \in Streams : HAL'.stream[r].pcm = d
    <3> SUFFICES ASSUME NEW d \in HAL.alsa
                 PROVE  \E r \in Streams : HAL'.stream[r].pcm = d
      BY <1>6
    <3>1. PICK r \in Streams : stream[r].pcm = d
      BY <1>6 DEF StandbyInv, Sound
    <3>2. d \in PcmDevices
      BY DEF StandbyInv, Sound
    <3>3. r # s
      BY <1>5, <1>6, <3>1, <3>2, NoDevicePcm DEF Released
    <3> QED BY <1>3, <1>6, <3>1, <3>3
  <2> QED BY <1>6, <2>1, <2>2 DEF StandbyInv, Sound
<1>8. ASSUME NEW r \in Streams
      PROVE  /\ Started(r)' => Runs(HAL', r)
             /\ ~ Started(r)' => Released(HAL', r)
             /\ ~ stream'[r].open => stream'[r].standby
  <2>1. CASE r = s
    <3>1. ~ Started(s)'
      BY <1>1, <1>3, <1>4 DEF Started
    <3>2. Released(HAL', s)
      BY <1>3, <1>5, <1>6 DEF Released
    <3> QED BY <1>3, <2>1, <3>1, <3>2
  <2>2. CASE r # s
    <3>1. Started(r)' <=> Started(r)
      BY <1>1, <1>3, <2>2 DEF Started
    <3>2. (Runs(HAL', r) <=> Runs(HAL, r)) /\ (Released(HAL', r) <=> Released(HAL, r))
      BY <1>3, <1>6, <2>2 DEF Runs, Released
    <3> QED BY <1>3, <2>2, <3>1, <3>2 DEF StandbyInv
  <2> QED BY <2>1, <2>2
<1>9. Sound(HAL)'
  BY <1>7
<1> QED BY <1>1, <1>8, <1>9 DEF StandbyInv, Runs, Released, HAL

LEMMA NextStandby ==
  ASSUME OneOfEach, ResamplerWorks, LockInv, InputInv, ClosedInv, StandbyInv,
         [Next]_vars
  PROVE  StandbyInv'
<1>1. ASSUME NEW t \in Threads, Step(t) PROVE StandbyInv'
  <2>0. DOMAIN call = Threads /\ DOMAIN call[t] = {"pc", "s", "on", "then", "in"}
        /\ call[t].then # "read_pcm"
    BY Mine DEF StandbyInv
  <2>1. CASE \/ AcquireInputs(t) \/ AcquirePreLock(t) \/ AcquireLock(t)
             \/ WriteCheck(t) \/ WritePcm(t)
    <3>1. UNCHANGED halVars /\ call[t].pc # "read_pcm"
      BY <2>1 DEF AcquireInputs, AcquirePreLock, AcquireLock, WriteCheck, WritePcm, halVars
    <3>2. /\ \A u \in Threads \ {t} : call'[u] = call[u]
          /\ call'[t].pc # "read_pcm" /\ call'[t].then # "read_pcm"
      BY <2>0, <2>1 DEF AcquireInputs, AcquirePreLock, AcquireLock, WriteCheck, WritePcm,
                        LockInputs, LockStream, ForceInputStandby, Return, Idle
    <3> QED BY <3>1, <3>2, HalKept
  <2> QED BY <1>1, <2>1, OutputStandby, InputStandby, ReadStandby DEF Step
<1>2. ASSUME NEW t \in Threads, CallHal(t) PROVE StandbyInv'
  <2>1. PICK s \in Streams, f \in EntryPoints \ {"open_input"} : Begin(t, s, f)
    BY <1>2 DEF CallHal
  <2>2. /\ UNCHANGED halVars /\ call[t].pc # "read_pcm"
        /\ \A u \in Threads \ {t} : call'[u] = call[u]
        /\ call'[t].pc # "read_pcm" /\ call'[t].then # "read_pcm"
    BY <2>1, Mine DEF Begin, EntryPoints, halVars
  <2> QED BY <2>2, HalKept
<1>3. ASSUME NEW t \in Threads, OpenCall(t) PROVE StandbyInv'
  BY <1>3, OpenStandby DEF OpenCall
<1>4. CASE UNCHANGED vars
  BY <1>4 DEF vars, StandbyInv, Started, Released, Runs, HAL
<1> QED BY <1>1, <1>2, <1>3, <1>4 DEF Next

LEMMA InitStandby == Init => StandbyInv
<1> SUFFICES ASSUME Init PROVE StandbyInv
  OBVIOUS
<1>1. adev.usecase_list = <<>> /\ IsAdev(adev) /\ alsa = {}
  BY DEF Init, IsAdev, AdevFields
<1>2. /\ DOMAIN stream = Streams
      /\ \A s \in Streams : /\ DOMAIN stream[s] = StreamFields
                            /\ stream[s].standby = TRUE /\ stream[s].pcm = NO_PCM
  BY DEF Init, NewStream, StreamFields
<1>3. \A t \in Threads : call[t].pc = "idle" /\ call[t].then = "none"
  BY DEF Init, Idle
<1>4. HAL.adev = adev /\ HAL.stream = stream /\ HAL.alsa = alsa
      /\ DOMAIN HAL = {"adev", "stream", "alsa"}
  BY DEF HAL
<1>5. Proper(adev.usecase_list) /\ \A s : ~ HasUse(adev.usecase_list, s)
  BY <1>1 DEF Proper, HasUse
<1>6. Sound(HAL)
  BY <1>1, <1>2, <1>4, <1>5 DEF Sound, IsWhole, IsHal, IsStreams
<1>7. \A s \in Streams : ~ Started(s) /\ Released(HAL, s)
  BY <1>2, <1>3, <1>4, <1>5 DEF Started, Released
<1> QED BY <1>2, <1>3, <1>6, <1>7 DEF StandbyInv

\* A stream nobody is working on is in standby exactly when it has no use case,
\* then it has no PCM either, and the kernel has no PCM open that no stream knows
\* of: with one stream of each use case, and while create_resampler does not fail.
THEOREM StandbyHasReleased ==
  OneOfEach /\ ResamplerWorks => (Spec => []StandbyReleases)
<1> SUFFICES ASSUME OneOfEach, ResamplerWorks PROVE Spec => []StandbyReleases
  OBVIOUS
<1>1. Init => LockInv /\ InputInv /\ ClosedInv /\ StandbyInv
  <2>1. Init => InputInv
    BY DEF Init, InputInv, IsAdev, AdevFields, Chosen, Forced, Idle
  <2> QED BY <2>1, InitLocks, InitClosed, InitStandby
<1>2. LockInv /\ InputInv /\ ClosedInv /\ StandbyInv /\ [Next]_vars
      => (LockInv /\ InputInv /\ ClosedInv /\ StandbyInv)'
  BY NextLocks, NextInputs, NextClosed, NextStandby
<1>3. LockInv /\ StandbyInv => StandbyReleases
  <2> SUFFICES ASSUME LockInv, StandbyInv PROVE StandbyReleases
    OBVIOUS
  <2>1. ASSUME NEW s \in Streams, lock[s] = NoThread
        PROVE  Started(s) <=> ~ stream[s].standby
    <3>1. \A t \in Threads : ~ (call[t].pc = "read_pcm" /\ call[t].on = s)
      BY <2>1, AudioHwAssumption DEF LockInv, Locks, Bodies
    <3> QED BY <3>1 DEF Started
  <2>2. \A s \in Streams : /\ Started(s) => HasUse(adev.usecase_list, s)
                           /\ ~ Started(s) => /\ ~ HasUse(adev.usecase_list, s)
                                              /\ stream[s].pcm = NO_PCM
    BY DEF StandbyInv, Runs, Released, HAL
  <2>3. \A d \in alsa : \E s \in Streams : stream[s].pcm = d
    BY DEF StandbyInv, Sound, HAL
  <2> QED BY <2>1, <2>2, <2>3 DEF StandbyReleases, HasUse
<1> QED BY <1>1, <1>2, <1>3, PTL DEF Spec

-----------------------------------------------------------------------------
(* The microphone that goes with the output *)

\* There is one input, and it is not a hotword stream.
OneCapture == OneOfEach /\ Hotwords = {}

LEMMA OnlyInput ==
  ASSUME OneCapture
  PROVE  /\ \A s, r \in Ins : s = r
         /\ \A s \in Streams : AUDIO_USECASE(s) = "capture" <=> s \in Ins
         /\ \A s \in Streams : s \in Ins <=> s # primary_output
         /\ primary_output \in Streams /\ Ins \subseteq Streams
BY StreamsAssumption DEF OneCapture, OneOfEach, Ins, Streams, AUDIO_USECASE

\* The microphone of a voice communication input s beside the output.
MicFor(h, s) ==
  IF "speaker" \in h.stream[primary_output].devices THEN "speaker-mic"
  ELSE default_mic(h.stream[s].devices)

FollowsBy(h, uc) ==
  uc.id = "capture" /\ h.stream[uc.stream].source = "voice_communication"
  => uc.in_snd_device = MicFor(h, uc.stream)

Follows(h) ==
  ~ h.stream[primary_output].standby =>
    \A i \in DOMAIN h.adev.usecase_list : FollowsBy(h, h.adev.usecase_list[i])

\* An input that has its use case is the active one.
ActiveRuns(h) == \A s \in Ins : Runs(h, s) => h.adev.active_input = s

Good(g) == ActiveRuns(g) /\ Follows(g)

LEMMA NoneRuns ==
  ASSUME OneCapture, NEW g, Sound(g), NEW s \in Ins, ~ Runs(g, s)
  PROVE  Good(g)
<1>1. \A r \in Ins : ~ Runs(g, r)
  BY OnlyInput
<1>2. ASSUME NEW i \in DOMAIN g.adev.usecase_list
      PROVE  g.adev.usecase_list[i].id # "capture"
  <2>1. /\ g.adev.usecase_list[i].stream \in Streams
        /\ g.adev.usecase_list[i].id = AUDIO_USECASE(g.adev.usecase_list[i].stream)
    BY UseOfStream DEF Sound
  <2>2. g.adev.usecase_list[i].stream \notin Ins
    BY <1>1 DEF Runs, HasUse
  <2> QED BY <2>1, <2>2, OnlyInput
<1> QED BY <1>1, <1>2 DEF Good, ActiveRuns, Follows, FollowsBy

\* switch_devices gives use case i its microphone and leaves the others alone.
LEMMA Switch_Mic ==
  ASSUME NEW a, IsAdev(a), NEW i \in DOMAIN a.usecase_list,
         a.usecase_list \in Seq(Usecases), NEW out, NEW in
  PROVE  LET m == switch_devices(a, i, out, in).usecase_list
             l == a.usecase_list
         IN /\ m[i].in_snd_device = in /\ m[i].id = l[i].id /\ m[i].stream = l[i].stream
            /\ DOMAIN m = DOMAIN l
            /\ \A j \in DOMAIN l : j # i => m[j] = l[j]
<1> DEFINE l == a.usecase_list
           uc == l[i]
           off1 == disable_snd_device(a, uc, uc.out_snd_device)
           off == disable_snd_device(off1, uc, uc.in_snd_device)
           on1 == enable_snd_device(off, uc, out)
           on == enable_snd_device(on1, uc, in)
           vc == [uc EXCEPT !.out_snd_device = out, !.in_snd_device = in]
           m == [l EXCEPT ![i] = vc]
           b == [on EXCEPT !.usecase_list[i].out_snd_device = out,
                           !.usecase_list[i].in_snd_device = in]
<1>1. ASSUME NEW x, IsAdev(x), NEW d
      PROVE  /\ IsAdev(enable_snd_device(x, uc, d))
             /\ enable_snd_device(x, uc, d).usecase_list = x.usecase_list
             /\ IsAdev(disable_snd_device(x, uc, d))
             /\ disable_snd_device(x, uc, d).usecase_list = x.usecase_list
  BY <1>1 DEF enable_snd_device, disable_snd_device, IsAdev, AdevFields
<1>2. switch_devices(a, i, out, in)
      = IF out = uc.out_snd_device /\ in = uc.in_snd_device THEN a ELSE b
  BY DEF switch_devices
<1>3. uc \in Usecases
  OBVIOUS
<1>4. vc.id = uc.id /\ vc.stream = uc.stream /\ vc.in_snd_device = in
  BY <1>3 DEF Usecases
<1> HIDE DEF uc
<1>5. IsAdev(off) /\ off.usecase_list = l
  BY <1>1
<1> HIDE DEF off
<1>6. IsAdev(on) /\ on.usecase_list = l
  BY <1>1, <1>5
<1> HIDE DEF on
<1>7. b.usecase_list = m
  BY <1>6 DEF IsAdev, AdevFields, uc
<1> HIDE DEF b, vc
<1>8. /\ m[i] = vc /\ DOMAIN m = DOMAIN l
      /\ \A j \in DOMAIN l : j # i => m[j] = l[j]
  OBVIOUS
<1> HIDE DEF m
<1> QED BY <1>2, <1>4, <1>7, <1>8 DEF uc

\* The input of get_usecase_from_type, when there is but one.
LEMMA InputFound ==
  ASSUME OneCapture, NEW a, a.usecase_list \in Seq(Usecases),
         NEW i \in DOMAIN a.usecase_list, a.usecase_list[i].stream \in Ins
  PROVE  active_input(a) = a.usecase_list[i].stream
<1> DEFINE I == {k \in 1 .. Len(a.usecase_list) : a.usecase_list[k].stream \in Ins}
           f == SelectInSeq(a.usecase_list, LAMBDA uc : uc.stream \in Ins)
<1>1. f = IF I # {} THEN Min(I) ELSE 0
  BY DEF SelectInSeq
<1>2. I \in SUBSET Nat /\ i \in I
  OBVIOUS
<1>3. active_input(a) = IF f = 0 THEN NoStream ELSE a.usecase_list[f].stream
  BY DEF active_input
<1> HIDE DEF f
<1>4. f \in I
  <2> HIDE DEF I
  <2>1. Min(I) \in I
    BY <1>2, LeastIn
  <2> QED BY <1>1, <1>2, <2>1
<1>5. f # 0 /\ a.usecase_list[f].stream \in Ins
  BY <1>4
<1> QED BY <1>3, <1>5, OnlyInput

\* The device get_input_snd_device chooses for a voice communication input.
LEMMA VoiceMic ==
  ASSUME NEW h, active_input(h.adev) # NoStream,
         h.stream[active_input(h.adev)].source = "voice_communication", NEW out
  PROVE  get_input_snd_device(h, out)
         = IF "speaker" \in out THEN "speaker-mic"
           ELSE default_mic(h.stream[active_input(h.adev)].devices)
<1>1. default_mic({"back_mic"}) = "speaker-mic"
  BY DEF default_mic
<1> QED BY <1>1 DEF get_input_snd_device

LEMMA Capture_Follows ==
  ASSUME OneCapture, NEW h, Sound(h)
  PROVE  Follows(select_capture(h))
<1> DEFINE l == h.adev.usecase_list
           i == get_usecase_from_id(h.adev, "capture")
           s == l[i].stream
           in == active_input(h.adev)
           out == h.stream[primary_output]
           mic == IF h.stream[in].source = "voice_communication" /\ ~ out.standby
                  THEN get_input_snd_device(h, out.devices)
                  ELSE get_input_snd_device(h, {})
           b == switch_devices(h.adev, i, SND_DEVICE_NONE, mic)
           g == [h EXCEPT !.adev = b]
<1>1. select_capture(h) = IF i = 0 THEN h ELSE g
  BY DEF select_capture
<1>2. /\ Proper(l) /\ l \in Seq(Usecases) /\ IsAdev(h.adev)
      /\ DOMAIN h = {"adev", "stream", "alsa"}
  BY DEF Sound, Proper, IsWhole, IsHal
<1>3. \/ i = 0 /\ \A j \in DOMAIN l : l[j].id # "capture"
      \/ i \in DOMAIN l /\ i # 0 /\ l[i].id = "capture"
  BY <1>2, UsecaseFound
<1>4. CASE i = 0
  BY <1>1, <1>3, <1>4 DEF Follows, FollowsBy
<1>5. CASE i # 0
  <2>1. i \in DOMAIN l /\ l[i].id = "capture" /\ s \in Ins
    BY <1>2, <1>3, <1>5, UseOfStream, OnlyInput
  <2>2. in = s /\ s # NoStream
    BY <1>2, <2>1, InputFound, OnlyInput, StreamsAssumption
  <2> HIDE DEF in
  <2>3. h.stream[s].source = "voice_communication" /\ ~ out.standby => mic = MicFor(h, s)
    BY <2>2, VoiceMic DEF MicFor, in
  <2> HIDE DEF mic
  <2>4. /\ b.usecase_list[i].in_snd_device = mic
        /\ b.usecase_list[i].id = l[i].id /\ b.usecase_list[i].stream = s
        /\ DOMAIN b.usecase_list = DOMAIN l
        /\ \A j \in DOMAIN l : j # i => b.usecase_list[j] = l[j]
    BY <1>2, <2>1, Switch_Mic
  <2> HIDE DEF b
  <2>5. g.adev = b /\ g.stream = h.stream
    BY <1>2
  <2> HIDE DEF g
  <2>6. \A j \in DOMAIN l : j # i => l[j].id # "capture"
    BY <1>2, <2>1 DEF Proper
  <2> HIDE DEF i, s
  <2>7. Follows(g)
    <3> SUFFICES ASSUME ~ out.standby, NEW j \in DOMAIN l
                 PROVE  FollowsBy(g, b.usecase_list[j])
      BY <2>4, <2>5 DEF Follows
    <3>1. CASE j = i
      BY <2>3, <2>4, <2>5, <3>1 DEF FollowsBy, MicFor
    <3>2. CASE j # i
      BY <2>4, <2>6, <3>2 DEF FollowsBy
    <3> QED BY <3>1, <3>2
  <2> QED BY <1>1, <1>5, <2>7
<1> QED BY <1>4, <1>5

\* A use case of the output gets its devices.
LEMMA Playback_Follows ==
  ASSUME OneCapture, NEW h, Sound(h), Follows(h)
  PROVE  Follows(select_playback(h))
<1>1. PICK h1, i, out :
        /\ h1 = h \/ h1 = select_capture(h)
        /\ i = get_usecase_from_id(h.adev, "playback")
        /\ select_playback(h)
           = IF i = 0 THEN h
             ELSE [h1 EXCEPT !.adev = switch_devices(h1.adev, i, out, SND_DEVICE_NONE)]
  BY DEF select_playback
<1>2. CASE i # 0
  <2> DEFINE b == switch_devices(h1.adev, i, out, SND_DEVICE_NONE)
             l == h1.adev.usecase_list
             g == [h1 EXCEPT !.adev = b]
  <2>1. /\ IsHal(h1) /\ l \in Seq(Usecases) /\ SameUses(l, h.adev.usecase_list)
    <3>1. SameRuns(h, h)
      BY DEF Sound, IsWhole, SameRuns, SameUses, Proper
    <3>2. CASE h1 # h
      <4>1. \E s \in Ins : TRUE
        <5>1. h1 = select_capture(h) /\ select_capture(h) # h
          BY <1>1, <3>2
        <5>2. get_usecase_from_id(h.adev, "capture") # 0
          BY <5>1 DEF select_capture
        <5>3. PICK j \in DOMAIN h.adev.usecase_list : h.adev.usecase_list[j].id = "capture"
          BY <5>2, UsecaseFound DEF Sound, Proper
        <5> QED BY <5>3, UseOfStream, OnlyInput DEF Sound
      <4>2. PICK s \in Ins : AUDIO_USECASE(s) = "capture"
        BY <4>1, OnlyInput
      <4>3. h1 = select_devices(h, AUDIO_USECASE(s))
        BY <1>1, <3>2, <4>2 DEF select_devices
      <4>4. SameRuns(h1, h)
        BY <4>3, Select_Uses DEF Sound, IsWhole, Proper
      <4> QED BY <4>4 DEF SameRuns
    <3> QED BY <3>1, <3>2 DEF SameRuns
  <2>2. i \in DOMAIN l /\ l[i].id = "playback"
    BY <1>1, <1>2, <2>1, UsecaseFound DEF SameUses, Sound, Proper
  <2>3. Follows(h1)
    BY <1>1, Capture_Follows
  <2>4. /\ b.usecase_list[i].id = "playback"
        /\ DOMAIN b.usecase_list = DOMAIN l
        /\ \A j \in DOMAIN l : j # i => b.usecase_list[j] = l[j]
    BY <2>1, <2>2, Switch_Mic DEF IsHal
  <2> HIDE DEF b
  <2>5. g.adev = b /\ g.stream = h1.stream
    BY <2>1 DEF IsHal
  <2> HIDE DEF g
  <2>6. Follows(g)
    BY <2>3, <2>4, <2>5 DEF Follows, FollowsBy, MicFor
  <2> QED BY <1>1, <1>2, <2>6 DEF g, b
<1> QED BY <1>1, <1>2
LEMMA Follows_Same ==
  ASSUME NEW g, NEW h, Sound(h), Good(h), SameFlags(g, h), g.adev = h.adev
  PROVE  Good(g)
<1>1. \A i \in DOMAIN h.adev.usecase_list : h.adev.usecase_list[i].stream \in Streams
  BY UseOfStream DEF Sound
<1>2. primary_output \in Streams
  BY DEF Streams
<1>3. Follows(g)
  BY <1>1, <1>2 DEF Good, Follows, FollowsBy, MicFor, SameFlags
<1> QED BY <1>3 DEF Good, ActiveRuns, Runs

LEMMA Select_Active ==
  ASSUME NEW h, Sound(h), ActiveRuns(h), NEW s
  PROVE  ActiveRuns(select_devices(h, AUDIO_USECASE(s)))
<1> DEFINE g == select_devices(h, AUDIO_USECASE(s))
<1>1. SameRuns(g, h) /\ SameInput(g, h)
  BY Select_Uses, Select_ActiveInput DEF Sound, IsWhole, Proper
<1>2. \A r : HasUse(g.adev.usecase_list, r) <=> HasUse(h.adev.usecase_list, r)
  BY <1>1, SameRuns_Sound
<1> QED BY <1>1, <1>2 DEF ActiveRuns, Runs, SameInput

LEMMA Select_Good ==
  ASSUME OneCapture, NEW h, Sound(h), ActiveRuns(h), NEW s \in Streams,
         s \in Ins \/ Follows(h)
  PROVE  Good(select_devices(h, AUDIO_USECASE(s)))
<1> DEFINE g == select_devices(h, AUDIO_USECASE(s))
<1>1. ActiveRuns(g)
  BY Select_Active
<1>2. CASE s \in Ins
  <2>1. AUDIO_USECASE(s) = "capture"
    BY <1>2, OnlyInput
  <2>2. g = select_capture(h)
    BY <2>1 DEF select_devices
  <2> QED BY <1>1, <2>2, Capture_Follows DEF Good
<1>3. CASE s \notin Ins
  <2>1. s = primary_output
    BY <1>3, OnlyInput
  <2>2. AUDIO_USECASE(s) = "playback"
    BY <2>1, StreamsAssumption DEF AUDIO_USECASE, Ins
  <2>3. g = select_playback(h)
    BY <2>2 DEF select_devices
  <2> QED BY <1>1, <1>3, <2>3, Playback_Follows DEF Good
<1> QED BY <1>2, <1>3

\* A start of the input that succeeds gives it the right microphone.
LEMMA StartInput_Good ==
  ASSUME OneCapture, NEW h, Sound(h), NEW s \in Ins, Released(h, s), NEW ready
  PROVE  Good(start_input_stream(h, s, ready, TRUE).h)
<1> DEFINE device == get_pcm_device(s, h.stream[s].devices)
           st == h.stream[s]
           a == [h.adev EXCEPT !.active_input = s,
                               !.usecase_list = Append(@, NewUsecase(s, TRUE))]
           h0 == Marked(h, s, a, CLOSED_PCM)
           h1 == select_devices(h0, AUDIO_USECASE(s))
           n == IF st.aux_channels_changed THEN st.aux_channels ELSE ProfileChannels(s)
           h2 == [h1 EXCEPT !.stream[s].channels = n]
           opened == pcm_open(h2, s, device, ready)
           res == start_input_stream(h, s, ready, TRUE)
<1>0. s \in Streams /\ s # primary_output /\ OneOfEach
  BY OnlyInput DEF OneCapture
<1>1. /\ IsAdev(a) /\ a.active_input = s
      /\ a.usecase_list = Append(h.adev.usecase_list, NewUsecase(s, TRUE))
  BY DEF Sound, IsWhole, IsHal, IsAdev, AdevFields
<1>2. /\ Sound(res.h)
      /\ res.ok = TRUE \/ (res.ok = FALSE /\ Released(res.h, s))
  BY <1>0, StartInput_Sound
<1>3. res.ok = TRUE => res.h = opened.h
  <2>1. h0 = [h EXCEPT !.adev.active_input = s,
                       !.adev.usecase_list = Append(@, NewUsecase(s, TRUE)),
                       !.stream[s].pcm = CLOSED_PCM]
    BY DEF Marked, Sound, IsWhole, IsHal
  <2> QED BY <2>1 DEF start_input_stream
<1> HIDE DEF a, device, n, res
<1>4. Proper(a.usecase_list)
  <2>1. /\ Proper(h.adev.usecase_list) /\ ~ HasUse(h.adev.usecase_list, s)
        /\ TRUE \in BOOLEAN
    BY DEF Sound, Released
  <2>2. Proper(Append(h.adev.usecase_list, NewUsecase(s, TRUE)))
    BY ONLY <1>0, <2>1, Append_Proper
  <2> QED BY <1>1, <2>2
<1>5. h.stream[s].pcm \notin PcmDevices
  BY NoDevicePcm DEF Released
<1>6. Sound(h0) /\ h0.adev = a
  <2>1. IsAdev(a) /\ Proper(a.usecase_list) /\ Sound(h) /\ s \in Streams
    BY <1>0, <1>1, <1>4
  <2> QED BY ONLY <1>5, <2>1, Mark_Sound
<1> HIDE DEF h0
<1>7. ActiveRuns(h0)
  BY <1>1, <1>6, OnlyInput DEF ActiveRuns
<1>8. Good(h1) /\ Sound(h1)
  <2>1. SameRuns(h1, h0)
    BY <1>6, Select_Uses DEF Sound, IsWhole, Proper
  <2> QED BY <1>0, <1>6, <1>7, <2>1, Select_Good, SameRuns_Sound
<1> HIDE DEF h1
<1>9. SameFlags(h2, h1) /\ h2.adev = h1.adev
  <2>1. IsWhole(h1)
    BY <1>8 DEF Sound
  <2>2. SameFlags(h2, h1)
    BY <2>1, SetPcm_Flags
  <2> QED BY <2>1, <2>2 DEF IsWhole, IsHal
<1> HIDE DEF h2
<1>10. SameFlags(opened.h, h1) /\ opened.h.adev = h1.adev
  <2>1. IsWhole(h2)
    BY <1>9 DEF SameFlags
  <2>2. SameFlags(opened.h, h2) /\ opened.h.adev = h2.adev
    BY <2>1, Pcm_Flags
  <2> HIDE DEF opened
  <2> QED BY <1>9, <2>2, Flags_Trans
<1> HIDE DEF opened
<1>11. Good(opened.h)
  BY <1>8, <1>10, Follows_Same
<1>12. CASE res.ok = TRUE
  BY <1>3, <1>11, <1>12 DEF res
<1>13. CASE res.ok = FALSE
  <2>1. ~ Runs(res.h, s)
    BY <1>2, <1>13 DEF Released, Runs
  <2>2. Good(res.h)
    BY <1>2, <2>1, NoneRuns
  <2> QED BY <2>2 DEF res
<1> QED BY <1>2, <1>12, <1>13

\* Somebody is about to put the active input in standby.
Pending == \E t \in Threads : call[t].in # NoStream

\* MicFollowsOutput with what it rests on: the microphone is the right one, or
\* who made it wrong has chosen the input to reset and holds lock_inputs.
MicInv == ActiveRuns(HAL) /\ (Follows(HAL) \/ Pending)

LEMMA MicGood ==
  ASSUME NEW g, Good(g), Become(g)
  PROVE  MicInv'
<1>1. HAL'.adev = g.adev /\ HAL'.stream = g.stream
  BY DEF Become, HAL
<1>2. Good(HAL')
  BY <1>1 DEF Good, ActiveRuns, Runs, Follows, FollowsBy, MicFor
<1> QED BY <1>2 DEF Good, MicInv, ActiveRuns, Runs, Follows, FollowsBy, MicFor, HAL

\* A step that keeps what the microphone depends on, and what is pending.
LEMMA MicKept ==
  ASSUME StandbyInv, MicInv, adev' = adev,
         \A s \in Streams : /\ stream'[s].source = stream[s].source
                            /\ stream'[s].devices = stream[s].devices,
         stream'[primary_output].standby = stream[primary_output].standby,
         Pending => Pending'
  PROVE  MicInv'
<1>1. /\ HAL'.adev = adev /\ HAL.adev = adev /\ HAL'.stream = stream'
      /\ HAL.stream = stream
  BY DEF HAL
<1>2. \A i \in DOMAIN adev.usecase_list : adev.usecase_list[i].stream \in Streams
  BY <1>1, UseOfStream DEF Sound, StandbyInv
<1>3. primary_output \in Streams
  BY DEF Streams
<1>4. Follows(HAL) => Follows(HAL')
  BY <1>1, <1>2, <1>3 DEF Follows, FollowsBy, MicFor
<1>5. ActiveRuns(HAL')
  BY <1>1 DEF MicInv, ActiveRuns, Runs
<1>6. ActiveRuns(HAL') /\ (Follows(HAL') \/ Pending')
  BY <1>4, <1>5 DEF MicInv
<1> QED BY <1>6 DEF MicInv, ActiveRuns, Runs, Follows, FollowsBy, MicFor, HAL

\* What a step does to the inputs that are to be reset.
LEMMA PendingKept ==
  ASSUME LockInv, NEW t \in Threads, \A u \in Threads \ {t} : call'[u] = call[u],
         call[t].in # NoStream => call'[t].in # NoStream
  PROVE  Pending => Pending'
BY DEF Pending

LEMMA NothingChosen ==
  ASSUME LockInv, NEW t \in Threads, ~ Resets(call[t].pc), call[t].pc \notin {"pre", "lock"}
  PROVE  call[t].in = NoStream
BY Mine

LEMMA InputMics ==
  ASSUME OneCapture, ResamplerWorks, LockInv, InputInv, ClosedInv, StandbyInv, MicInv,
         NEW t \in Threads,
         \/ ForceInput(t) \/ InStandby(t) \/ InSetParameters(t)
         \/ AddEffect(t) \/ RemoveEffect(t) \/ CloseInput(t)
  PROVE  MicInv'
<1> DEFINE s == call[t].on
<1>0. /\ s \in Ins /\ s \in Streams /\ call[t].pc \in Bodies /\ call[t].pc # "read_pcm"
      /\ s # primary_output /\ primary_output \in Streams /\ OneOfEach
      /\ Return(t) /\ (~ ForceInput(t) => call[t].in = NoStream)
  <2>1. /\ Return(t)
        /\ call[t].pc \in {"force_input", "in_standby", "in_set_parameters",
                           "add_effect", "remove_effect", "close_input"}
        /\ ~ ForceInput(t) => call[t].pc # "force_input"
    <3>1. CASE ForceInput(t) \/ InStandby(t)
      BY <3>1 DEF ForceInput, InStandby
    <3>2. CASE InSetParameters(t)
      BY <3>2 DEF InSetParameters
    <3>3. CASE AddEffect(t)
      BY <3>3 DEF AddEffect
    <3>4. CASE RemoveEffect(t) \/ CloseInput(t)
      BY <3>4 DEF RemoveEffect, CloseInput
    <3> QED BY <3>1, <3>2, <3>3, <3>4
  <2>2. s \in Ins
    <3>1. CASE call[t].pc = "force_input"
      <4>1. s = call[t].in /\ call[t].in # NoStream
        BY <3>1 DEF InputInv, Forced
      <4> QED BY <4>1, MyStream
    <3>2. CASE call[t].pc # "force_input"
      <4>1. Now(call[t]) \in InBodies
        BY <2>1, <3>2 DEF Now, InBodies, OutBodies, OutFunctions, Bodies
      <4> QED BY <4>1, MyStream DEF Placed
    <3> QED BY <3>1, <3>2
  <2>3. ~ ForceInput(t) => call[t].in = NoStream
    BY <2>1, NothingChosen DEF Resets, MayReset
  <2> QED BY <2>1, <2>2, <2>3, OnlyInput DEF Bodies, OneCapture
<1>1. Settled(HAL, HAL, s)
  BY <1>0, SettledNow
<1>2. IsWhole(HAL) /\ HAL.adev = adev /\ HAL.stream = stream
  BY MyStream
<1>3. ~ ForceInput(t) => (Pending => Pending')
  <2>1. \A u \in Threads \ {t} : call'[u] = call[u]
    BY <1>0, Mine DEF Return
  <2> QED BY <1>0, <2>1, PendingKept
<1> HIDE DEF s

\* The stream is settled and in standby.
<1>4. ASSUME NEW g, Settled(g, HAL, s), g.stream[s].standby, Become(g) PROVE MicInv'
  <2>1. Sound(g) /\ ~ Runs(g, s)
    BY <1>4 DEF Settled, Released, Runs
  <2> QED BY <1>0, <1>4, <2>1, NoneRuns, MicGood
<1>5. ASSUME NEW h, Settled(h, HAL, s), Become(do_in_standby_l(h, s)) PROVE MicInv'
  BY <1>0, <1>4, <1>5, Settle_InStandby

\* The fields that the microphone depends on are kept.
<1>6. ASSUME ~ ForceInput(t), NEW h, Become(h), h.adev = HAL.adev,
             \A r \in Streams : /\ h.stream[r].source = HAL.stream[r].source
                                /\ h.stream[r].devices = HAL.stream[r].devices
                                /\ h.stream[r].standby = HAL.stream[r].standby
      PROVE  MicInv'
  <2>1. /\ adev' = adev
        /\ \A r \in Streams : /\ stream'[r].source = stream[r].source
                              /\ stream'[r].devices = stream[r].devices
                              /\ stream'[r].standby = stream[r].standby
    BY <1>2, <1>6 DEF Become
  <2> QED BY <1>0, <1>3, <1>6, <2>1, MicKept
<1>7. CASE ForceInput(t) \/ InStandby(t)
  <2>1. Become(do_in_standby_l(HAL, s))
    BY <1>7 DEF ForceInput, InStandby, s
  <2> QED BY <1>1, <1>5, <2>1
<1>8. ASSUME ~ ForceInput(t), UNCHANGED halVars PROVE MicInv'
  <2>1. Become(HAL)
    BY <1>8 DEF halVars, Become, HAL
  <2> QED BY <1>6, <1>8, <2>1
<1>9. ~ (InSetParameters(t) \/ AddEffect(t) \/ RemoveEffect(t)) \/ ~ ForceInput(t)
  <2>1. InSetParameters(t) => call[t].pc = "in_set_parameters"
    BY DEF InSetParameters
  <2>2. AddEffect(t) => call[t].pc = "add_effect"
    BY DEF AddEffect
  <2>3. RemoveEffect(t) => call[t].pc = "remove_effect"
    BY DEF RemoveEffect
  <2> QED BY <2>1, <2>2, <2>3 DEF ForceInput
<1>10. CASE InSetParameters(t)
  <2>1. PICK val, new :
          LET old == stream[s]
              h == [HAL EXCEPT !.stream[s].source = new, !.stream[s].devices = val]
          IN /\ old.standby \/ new = old.source
             /\ Become(IF old.standby \/ old.devices = val THEN h
                       ELSE IF old.pcm # NO_PCM /\ profile_devices(s) \cap val = {}
                       THEN do_in_standby_l(h, s)
                       ELSE select_devices(h, AUDIO_USECASE(s)))
    BY <1>10, Zenon DEF InSetParameters, s
  <2> DEFINE h == [HAL EXCEPT !.stream[s].source = new, !.stream[s].devices = val]
  <2>2. Settled(h, HAL, s)
    <3> DEFINE k == HAL
    <3>1. Settled(k, k, s)
      BY <1>1
    <3> HIDE DEF k
    <3>2. Settled([k EXCEPT !.stream[s].source = new, !.stream[s].devices = val], k, s)
      BY <1>0, <3>1, Settle_Fields
    <3> QED BY <3>2 DEF k
  <2>3. /\ h.adev = HAL.adev
        /\ h.stream[s].source = new /\ h.stream[s].devices = val
        /\ h.stream[s].standby = stream[s].standby
        /\ \A r \in Streams : r # s => h.stream[r] = stream[r]
    BY <1>0, <1>2 DEF IsWhole, IsHal, IsStreams, StreamFields
  <2>4. \/ stream[s].standby /\ Become(h)
        \/ new = stream[s].source /\ val = stream[s].devices /\ Become(h)
        \/ Become(do_in_standby_l(h, s))
        \/ Become(select_devices(h, AUDIO_USECASE(s)))
    BY <2>1
  <2> HIDE DEF h
  <2>5. CASE stream[s].standby /\ Become(h)
    BY <1>4, <2>2, <2>3, <2>5
  <2>6. CASE new = stream[s].source /\ val = stream[s].devices /\ Become(h)
    <3>1. \A r \in Streams : /\ h.stream[r].source = HAL.stream[r].source
                             /\ h.stream[r].devices = HAL.stream[r].devices
                             /\ h.stream[r].standby = HAL.stream[r].standby
      BY <1>2, <2>3, <2>6
    <3> QED BY <1>6, <1>9, <1>10, <2>3, <2>6, <3>1
  <2>7. CASE Become(select_devices(h, AUDIO_USECASE(s)))
    <3>1. ActiveRuns(h)
      BY <2>3 DEF MicInv, ActiveRuns, Runs
    <3>2. Good(select_devices(h, AUDIO_USECASE(s)))
      BY <1>0, <2>2, <3>1, Select_Good DEF Settled
    <3> QED BY <2>7, <3>2, MicGood
  <2> QED BY <1>5, <2>2, <2>4, <2>5, <2>6, <2>7
<1>11. CASE AddEffect(t)
  <2>1. CASE ~ UNCHANGED halVars
    <3>1. PICK aux :
            LET h == [HAL EXCEPT !.stream[s].num_preprocessors = @ + 1,
                                 !.stream[s].aux_channels = aux,
                                 !.stream[s].aux_channels_changed = TRUE]
            IN Become(h) \/ Become(do_in_standby_l(h, s))
      BY <1>11, <2>1, Zenon DEF AddEffect, s
    <3>2. PICK x, y :
             LET h == [HAL EXCEPT !.stream[s].num_preprocessors = x,
                                  !.stream[s].aux_channels = y,
                                  !.stream[s].aux_channels_changed = TRUE]
             IN Become(h) \/ Become(do_in_standby_l(h, s))
      BY <3>1
    <3> DEFINE h == [HAL EXCEPT !.stream[s].num_preprocessors = x,
                                !.stream[s].aux_channels = y,
                                !.stream[s].aux_channels_changed = TRUE]
    <3>3. Settled(h, HAL, s)
      <4> DEFINE k == HAL
      <4>1. Settled(k, k, s)
        BY <1>1
      <4> HIDE DEF k
      <4>2. Settled([k EXCEPT !.stream[s].num_preprocessors = x,
                              !.stream[s].aux_channels = y,
                              !.stream[s].aux_channels_changed = TRUE], k, s)
        BY <1>0, <4>1, Settle_Fields
      <4> QED BY <4>2 DEF k
    <3>4. Become(h) \/ Become(do_in_standby_l(h, s))
      BY <3>2
    <3>5. /\ h.adev = HAL.adev
          /\ \A r \in Streams : /\ h.stream[r].source = HAL.stream[r].source
                                /\ h.stream[r].devices = HAL.stream[r].devices
                                /\ h.stream[r].standby = HAL.stream[r].standby
      BY <1>0, <1>2 DEF IsWhole, IsHal, IsStreams, StreamFields
    <3> HIDE DEF h
    <3> QED BY <1>5, <1>6, <1>9, <1>11, <3>3, <3>4, <3>5
  <2> QED BY <1>8, <1>9, <1>11, <2>1
<1>12. CASE RemoveEffect(t)
  <2>1. CASE ~ UNCHANGED halVars
    <3>1. Become([HAL EXCEPT !.stream[s].num_preprocessors = @ - 1,
                             !.stream[s].aux_channels_changed = FALSE])
      BY <1>12, <2>1 DEF RemoveEffect, s
    <3>2. PICK x : Become([HAL EXCEPT !.stream[s].num_preprocessors = x,
                                      !.stream[s].aux_channels_changed = FALSE])
      BY <3>1
    <3> DEFINE h == [HAL EXCEPT !.stream[s].num_preprocessors = x,
                                !.stream[s].aux_channels_changed = FALSE]
    <3>3. /\ h.adev = HAL.adev
          /\ \A r \in Streams : /\ h.stream[r].source = HAL.stream[r].source
                                /\ h.stream[r].devices = HAL.stream[r].devices
                                /\ h.stream[r].standby = HAL.stream[r].standby
      BY <1>0, <1>2 DEF IsWhole, IsHal, IsStreams, StreamFields
    <3>4. Become(h)
      BY <3>2
    <3> HIDE DEF h
    <3> QED BY <1>6, <1>9, <1>12, <3>3, <3>4
  <2> QED BY <1>8, <1>9, <1>12, <2>1
<1>13. CASE CloseInput(t)
  <2> DEFINE g == do_in_standby_l(HAL, s)
             h == [g EXCEPT !.stream[s].open = FALSE]
  <2>1. Become(h)
    BY <1>13 DEF CloseInput, s
  <2>2. Settled(g, HAL, s) /\ g.stream[s].standby
    BY <1>0, <1>1, Settle_InStandby
  <2> HIDE DEF g
  <2>3. Settled(h, HAL, s)
    <3> DEFINE k == HAL
    <3>1. Settled(g, k, s)
      BY <2>2
    <3> HIDE DEF k
    <3>2. Settled(h, k, s)
      BY <1>0, <2>2, <3>1, Settle_Fields
    <3> HIDE DEF h
    <3> QED BY <3>2 DEF k
  <2>4. h.stream[s].standby
    BY <1>0, <2>2 DEF Settled, Sound, IsWhole, IsHal, IsStreams, StreamFields
  <2> HIDE DEF h
  <2> QED BY <1>4, <2>1, <2>3, <2>4
<1> QED BY <1>7, <1>10, <1>11, <1>12, <1>13

LEMMA ReadMics ==
  ASSUME OneCapture, ResamplerWorks, LockInv, InputInv, ClosedInv, StandbyInv, MicInv,
         NEW t \in Threads, ReadCheck(t) \/ ReadStart(t) \/ ReadPcm(t)
  PROVE  MicInv'
<1> DEFINE s == call[t].on
<1>0. /\ s \in Ins /\ s \in Streams /\ s # primary_output /\ call[t].pc \in Bodies
      /\ OneOfEach /\ primary_output \in Streams
  <2>1. call[t].pc \in {"read_check", "read_start", "read_pcm"}
    <3>1. CASE ReadStart(t)
      BY <3>1 DEF ReadStart
    <3>2. CASE ReadCheck(t) \/ ReadPcm(t)
      BY <3>2 DEF ReadCheck, ReadPcm
    <3> QED BY <3>1, <3>2
  <2>2. Now(call[t]) \in InBodies
    BY <2>1 DEF Now, InBodies, OutBodies, OutFunctions, Bodies
  <2> QED BY <2>1, <2>2, MyStream, OnlyInput DEF Placed, Bodies, OneCapture
<1>1. IsWhole(HAL) /\ HAL.adev = adev /\ HAL.stream = stream
  BY MyStream
<1>2. DOMAIN call = Threads /\ DOMAIN call[t] = {"pc", "s", "on", "then", "in"}
  BY Mine
<1>3. call[t].in = NoStream
  <2>1. call[t].pc \in {"read_check", "read_start", "read_pcm"}
    <3>1. CASE ReadStart(t)
      BY <3>1 DEF ReadStart
    <3>2. CASE ReadCheck(t) \/ ReadPcm(t)
      BY <3>2 DEF ReadCheck, ReadPcm
    <3> QED BY <3>1, <3>2
  <2> QED BY <2>1, NothingChosen DEF Resets, MayReset
<1>4. Pending => Pending'
  <2>1. \A u \in Threads \ {t} : call'[u] = call[u]
    <3>1. CASE ReadStart(t)
      <4>1. \/ call' = [call EXCEPT ![t].pc = "read_pcm"]
            \/ LockInputs(t, s, "in_standby")
        BY <3>1 DEF ReadStart
      <4> QED BY <1>2, <4>1 DEF LockInputs
    <3>2. CASE ReadCheck(t)
      BY <1>2, <3>2 DEF ReadCheck, LockInputs
    <3>3. CASE ReadPcm(t)
      BY <1>2, <3>3 DEF ReadPcm, LockInputs, Return
    <3> QED BY <3>1, <3>2, <3>3
  <2> QED BY <1>3, <2>1, PendingKept
<1>5. CASE UNCHANGED halVars
  BY <1>4, <1>5, MicKept DEF halVars
<1>6. CASE ReadCheck(t)
  BY <1>5, <1>6 DEF ReadCheck, halVars
<1>7. CASE ReadPcm(t)
  <2>1. adev' = adev /\ stream' = [stream EXCEPT ![s].standby = FALSE]
    BY <1>7 DEF ReadPcm
  <2>2. /\ \A r \in Streams : /\ stream'[r].source = stream[r].source
                              /\ stream'[r].devices = stream[r].devices
        /\ stream'[primary_output].standby = stream[primary_output].standby
    BY <1>0, <1>1, <2>1 DEF IsWhole, IsStreams, StreamFields
  <2> QED BY <1>4, <2>1, <2>2, MicKept
<1>8. CASE ReadStart(t)
  <2> HIDE DEF s
  <2>1. CASE stream[s].standby
    <3>1. PICK r :
            /\ r \in {start_input_stream(HAL, s, ready, resampler) :
                       ready \in May("pcm_open"), resampler \in May("resampler")}
            /\ Become(r.h)
      BY <1>8, <2>1 DEF ReadStart, s
    <3>2. PICK ready \in May("pcm_open"), resampler \in May("resampler") :
            r = start_input_stream(HAL, s, ready, resampler)
      BY <3>1
    <3>3. resampler = TRUE
      BY <3>2 DEF May, ResamplerWorks
    <3>4. Sound(HAL) /\ Released(HAL, s)
      <4>1. call[t].pc # "read_pcm"
        BY <1>8 DEF ReadStart
      <4>2. Settled(HAL, HAL, s)
        BY <1>0, <4>1, SettledNow DEF s
      <4> QED BY <1>1, <2>1, <4>2 DEF Settled
    <3>5. Good(r.h)
      BY <1>0, <3>2, <3>3, <3>4, StartInput_Good
    <3> QED BY <3>1, <3>5, MicGood
  <2>2. CASE ~ stream[s].standby
    BY <1>5, <1>8, <2>2 DEF ReadStart, s
  <2> QED BY <2>1, <2>2
<1> QED BY <1>6, <1>7, <1>8

\* The output's calls leave the inputs' use cases and the active input alone.
LEMMA OutActive ==
  ASSUME OneCapture, NEW g, NEW h, ActiveRuns(h), SameElse(g, h, primary_output),
         g.adev.active_input = h.adev.active_input
  PROVE  ActiveRuns(g)
BY OnlyInput DEF ActiveRuns, Runs, SameElse

LEMMA OutStandby_Good ==
  ASSUME OneCapture, NEW h, NEW k, Settled(h, k, primary_output), ActiveRuns(h),
         ~ h.stream[primary_output].standby
  PROVE  Good(do_out_standby_l(h, primary_output))
<1> DEFINE s == primary_output
           h0 == [h EXCEPT !.stream[s].standby = TRUE]
           h1 == close_pcm_devices(h0, s)
           g == stop_output_stream(h1, s)
<1>0. s \in Streams /\ OneOfEach /\ Sound(h) /\ Runs(h, s) /\ IsWhole(h)
  BY OnlyInput DEF OneCapture, Settled, Sound
<1>1. do_out_standby_l(h, s) = g
  BY DEF do_out_standby_l
<1>2. IsWhole(h0) /\ h0.stream[s].standby = TRUE
  BY <1>0 DEF IsWhole, IsHal, IsStreams, StreamFields
<1> HIDE DEF h0
<1>3. IsWhole(h1) /\ h1.stream[s].standby = TRUE
  BY <1>0, <1>2, Pcm_Flags DEF SameFlags
<1> HIDE DEF h1
<1>4. g.stream[s].standby = TRUE
  BY <1>0, <1>3, StopOutput_Flags DEF SameFlags
<1> HIDE DEF g
<1>5. SameElse(g, h, s)
  BY <1>0, <1>1, OutStandby_Sound
<1>6. g.adev.active_input = h.adev.active_input
  BY <1>0, <1>1, Output_ActiveInput DEF SameInput, IsWhole
<1>7. ActiveRuns(g)
  BY <1>5, <1>6, OutActive
<1> QED BY <1>1, <1>4, <1>7 DEF Good, Follows

\* The output runs: either no voice communication input does, or the active
\* input is to be reset.
LEMMA StartOutput_Mic ==
  ASSUME OneCapture, NEW g, Sound(g), ActiveRuns(g),
         g.adev.active_input # NoStream =>
           g.stream[g.adev.active_input].source # "voice_communication"
  PROVE  Good(g)
<1>1. ASSUME NEW i \in DOMAIN g.adev.usecase_list, g.adev.usecase_list[i].id = "capture"
      PROVE  g.stream[g.adev.usecase_list[i].stream].source # "voice_communication"
  <2> DEFINE r == g.adev.usecase_list[i].stream
  <2>1. r \in Streams /\ AUDIO_USECASE(r) = "capture"
    BY <1>1, UseOfStream DEF Sound
  <2>2. r \in Ins /\ Runs(g, r) /\ r # NoStream
    BY <2>1, OnlyInput, StreamsAssumption DEF Runs, HasUse
  <2> QED BY <2>2 DEF ActiveRuns
<1> QED BY <1>1 DEF Good, Follows, FollowsBy

LEMMA OutputMics ==
  ASSUME OneCapture, ResamplerWorks, LockInv, InputInv, ClosedInv, StandbyInv, MicInv,
         NEW t \in Threads,
         WriteStart(t) \/ OutStandby(t) \/ OutSetParameters(t)
  PROVE  MicInv'
<1> DEFINE s == primary_output
<1>0. /\ call[t].on = s /\ s \in Streams /\ call[t].pc \in Bodies
      /\ call[t].pc # "read_pcm" /\ OneOfEach
      /\ ~ OutStandby(t) => call[t].in = NoStream
  <2>1. /\ call[t].pc \in {"write_start", "out_standby", "out_set_parameters"}
        /\ ~ OutStandby(t) => call[t].pc # "out_standby"
    <3>1. CASE WriteStart(t)
      BY <3>1 DEF WriteStart
    <3>2. CASE OutStandby(t) \/ OutSetParameters(t)
      BY <3>2 DEF OutStandby, OutSetParameters
    <3> QED BY <3>1, <3>2
  <2>2. Now(call[t]) \in OutBodies
    BY <2>1 DEF OutBodies, OutFunctions, Now
  <2>3. ~ OutStandby(t) => call[t].in = NoStream
    BY <2>1, NothingChosen DEF Resets, MayReset
  <2> QED BY <2>1, <2>2, <2>3, MyStream DEF Placed, Streams, Bodies, OneCapture
<1>1. IsWhole(HAL) /\ HAL.adev = adev /\ HAL.stream = stream /\ Sound(HAL)
      /\ ActiveRuns(HAL)
  BY MyStream DEF StandbyInv, MicInv
<1>2. Settled(HAL, HAL, s)
  BY <1>0, SettledNow
<1>3. DOMAIN call = Threads /\ DOMAIN call[t] = {"pc", "s", "on", "then", "in"}
  BY Mine
<1>4. CASE WriteStart(t)
  <2>1. CASE stream[s].standby
    <3>1. PICK r, ready :
            /\ r = start_output_stream(HAL, s, ready)
            /\ \/ /\ r.ok /\ Become([r.h EXCEPT !.stream[s].standby = FALSE])
                  /\ call' = [call EXCEPT ![t].pc = "write_pcm",
                                          ![t].in = InputToReset(r.h.adev)]
               \/ ~ r.ok /\ Become(r.h)
      BY <1>0, <1>4, <2>1, Zenon DEF WriteStart
    <3>2. Released(HAL, s)
      BY <1>1, <1>2, <2>1 DEF Settled
    <3>3. /\ Sound(r.h) /\ SameElse(r.h, HAL, s) /\ r.ok \in BOOLEAN
      BY <1>0, <1>1, <3>1, <3>2, StartOutput_Sound
    <3>4. SameFlags(r.h, HAL) /\ r.h.adev.active_input = adev.active_input
      BY <1>1, <3>1, Output_Flags, Output_ActiveInput DEF SameInput, IsWhole
    <3>5. ActiveRuns(r.h)
      BY <1>1, <3>3, <3>4, OutActive
    <3>6. CASE r.ok = TRUE
      <4> DEFINE f == [r.h EXCEPT !.stream[s].standby = FALSE]
      <4>1. /\ IsWhole(f) /\ f.adev = r.h.adev /\ f.alsa = r.h.alsa
            /\ \A q \in Streams : /\ f.stream[q].pcm = r.h.stream[q].pcm
                                  /\ f.stream[q].source = r.h.stream[q].source
        BY <1>0, <3>4 DEF SameFlags, IsWhole, IsHal, IsStreams, StreamFields
      <4>2. /\ Become(f)
            /\ call' = [call EXCEPT ![t].pc = "write_pcm",
                                    ![t].in = InputToReset(r.h.adev)]
        BY <3>1, <3>6
      <4> HIDE DEF f
      <4>3. Sound(f) /\ ActiveRuns(f)
        BY <3>3, <3>5, <4>1 DEF Sound, ActiveRuns, Runs
      <4>4. CASE InputToReset(r.h.adev) = NoStream
        <5>1. f.adev.active_input # NoStream =>
                f.stream[f.adev.active_input].source # "voice_communication"
          <6>1. adev.active_input # NoStream => adev.active_input \in Streams
            BY MyStream, OnlyInput
          <6> QED BY <1>1, <3>4, <4>1, <4>4, <6>1 DEF InputToReset, SameFlags
        <5>2. Good(f)
          BY <4>3, <5>1, StartOutput_Mic
        <5> QED BY <4>2, <5>2, MicGood
      <4>5. CASE InputToReset(r.h.adev) # NoStream
        <5>1. Pending'
          BY <1>3, <4>2, <4>5 DEF Pending
        <5>2. ActiveRuns(HAL')
          BY <4>2, <4>3 DEF Become, HAL, ActiveRuns, Runs
        <5> QED BY <5>1, <5>2 DEF MicInv, ActiveRuns, Runs, HAL
      <4> QED BY <4>4, <4>5
    <3>7. CASE r.ok = FALSE
      <4>1. r.h.stream[s].standby
        BY <1>0, <1>1, <2>1, <3>4 DEF SameFlags
      <4>2. Good(r.h)
        BY <3>5, <4>1 DEF Good, Follows
      <4> QED BY <3>1, <3>7, <4>2, MicGood
    <3> QED BY <3>3, <3>6, <3>7
  <2>2. CASE ~ stream[s].standby
    <3>1. UNCHANGED halVars /\ call' = [call EXCEPT ![t].pc = "write_pcm"]
      BY <1>0, <1>4, <2>2 DEF WriteStart
    <3>2. Pending => Pending'
      BY <1>3, <3>1, PendingKept
    <3> QED BY <3>1, <3>2, MicKept DEF halVars
  <2> QED BY <2>1, <2>2
<1>5. CASE OutStandby(t)
  <2>1. CASE stream[s].standby
    <3>1. UNCHANGED halVars /\ ForceInputStandby(t, call[t].in)
      BY <1>0, <1>5, <2>1 DEF OutStandby
    <3>2. /\ \A u \in Threads \ {t} : call'[u] = call[u]
          /\ call[t].in # NoStream => call'[t].in # NoStream
      BY <1>3, <3>1 DEF ForceInputStandby, Return
    <3> QED BY <3>1, <3>2, PendingKept, MicKept DEF halVars
  <2>2. CASE ~ stream[s].standby
    <3>1. Become(do_out_standby_l(HAL, s))
      BY <1>0, <1>5, <2>2 DEF OutStandby
    <3>2. Good(do_out_standby_l(HAL, s))
      BY <1>1, <1>2, <2>2, OutStandby_Good
    <3> QED BY <3>1, <3>2, MicGood
  <2> QED BY <2>1, <2>2
<1>6. CASE OutSetParameters(t)
  <2>1. Pending => Pending'
    <3>1. ~ OutStandby(t)
      BY <1>6 DEF OutSetParameters, OutStandby
    <3>2. \E in : ForceInputStandby(t, in)
      BY <1>6 DEF OutSetParameters
    <3>3. \A u \in Threads \ {t} : call'[u] = call[u]
      BY <1>3, <3>2 DEF ForceInputStandby, Return
    <3> QED BY <1>0, <3>1, <3>3, PendingKept
  <2>2. PICK val \in OutRoutings :
          LET old == stream[s]
              h == [HAL EXCEPT !.stream[s].devices = val]
          IN Become(IF old.standby THEN h
                    ELSE IF old.devices # val THEN do_out_standby_l(h, s)
                    ELSE select_devices(h, AUDIO_USECASE(s)))
    BY <1>0, <1>6 DEF OutSetParameters
  <2> DEFINE h == [HAL EXCEPT !.stream[s].devices = val]
  <2>3. /\ IsWhole(h) /\ h.adev = HAL.adev /\ h.alsa = HAL.alsa
        /\ h.stream[s].devices = val
        /\ \A q \in Streams : /\ h.stream[q].pcm = HAL.stream[q].pcm
                              /\ h.stream[q].open = HAL.stream[q].open
                              /\ h.stream[q].standby = HAL.stream[q].standby
                              /\ h.stream[q].source = HAL.stream[q].source
                              /\ q # s => h.stream[q].devices = HAL.stream[q].devices
    BY <1>0, <1>1 DEF IsWhole, IsHal, IsStreams, StreamFields
  <2>4. Become(IF stream[s].standby THEN h
               ELSE IF stream[s].devices # val THEN do_out_standby_l(h, s)
               ELSE select_devices(h, AUDIO_USECASE(s)))
    BY <2>2
  <2> HIDE DEF h
  <2>5. Settled(h, HAL, s)
    <3> DEFINE k == HAL
    <3>1. Settled(k, k, s)
      BY <1>2
    <3> HIDE DEF k
    <3> QED BY <1>0, <2>3, <3>1, Settle_Same DEF k
  <2>6. ActiveRuns(h) /\ Sound(h)
    BY <1>1, <2>3, <2>5 DEF ActiveRuns, Runs, Settled
  <2>7. CASE stream[s].standby
    <3>1. Good(h) /\ Become(h)
      BY <1>0, <1>1, <2>3, <2>4, <2>6, <2>7 DEF Good, Follows
    <3> QED BY <3>1, MicGood
  <2>8. CASE ~ stream[s].standby /\ stream[s].devices # val
    <3>1. Become(do_out_standby_l(h, s)) /\ ~ h.stream[s].standby
      BY <1>0, <1>1, <2>3, <2>4, <2>8
    <3>2. Good(do_out_standby_l(h, s))
      BY <2>5, <2>6, <3>1, OutStandby_Good
    <3> QED BY <3>1, <3>2, MicGood
  <2>9. CASE ~ stream[s].standby /\ stream[s].devices = val
    <3> DEFINE g == select_devices(h, AUDIO_USECASE(s))
    <3>1. Become(g)
      BY <2>4, <2>9
    <3>2. CASE Follows(HAL)
      <4>1. SameFlags(h, HAL)
        BY <1>1, <2>3, <2>9 DEF SameFlags
      <4>2. Good(h)
        BY <1>1, <2>3, <3>2, <4>1, Follows_Same DEF Good
      <4>3. Good(g)
        BY <1>0, <2>6, <4>2, Select_Good DEF Good
      <4> QED BY <3>1, <4>3, MicGood
    <3>3. CASE ~ Follows(HAL)
      <4>1. ActiveRuns(g)
        BY <2>6, Select_Active
      <4> HIDE DEF g
      <4>2. ActiveRuns(HAL')
        BY <3>1, <4>1 DEF Become, HAL, ActiveRuns, Runs
      <4>3. Pending'
        BY <2>1, <3>3 DEF MicInv
      <4> QED BY <4>2, <4>3 DEF MicInv, ActiveRuns, Runs, HAL
    <3> QED BY <3>2, <3>3
  <2> QED BY <2>7, <2>8, <2>9
<1> QED BY <1>4, <1>5, <1>6

LEMMA OpenMics ==
  ASSUME OneCapture, ResamplerWorks, LockInv, InputInv, ClosedInv, StandbyInv, MicInv,
         NEW t \in Threads, NEW s \in Ins, OpenInput(t, s)
  PROVE  MicInv'
<1>1. /\ ~ stream[s].open /\ adev' = adev
      /\ stream' = [stream EXCEPT ![s] = stream'[s]]
  <2>1. PICK n : stream' = [stream EXCEPT ![s] = n]
    BY DEF OpenInput
  <2>2. s \in DOMAIN stream
    BY OnlyInput DEF ClosedInv, IsStreams
  <2> QED BY <2>1, <2>2 DEF OpenInput
<1>2. s \in Streams /\ s # NoStream
  BY OnlyInput, StreamsAssumption
<1>3. ~ Started(s)
  <2>1. \A u \in Threads : call[u].on # s
    BY <1>1, <1>2 DEF ClosedInv
  <2> QED BY <1>1, <1>2, <2>1 DEF StandbyInv, Started
<1>4. ~ Runs(HAL, s) /\ Sound(HAL)
  BY <1>2, <1>3 DEF StandbyInv, Released, Runs
<1>5. Sound(HAL)'
  BY OpenStandby DEF StandbyInv
<1>6. ~ Runs(HAL', s) /\ Sound(HAL')
  BY <1>1, <1>4, <1>5 DEF HAL, Runs
<1>7. Good(HAL')
  BY <1>6, NoneRuns
<1>8. Become(HAL')
  BY DEF Become, HAL
<1> QED BY <1>7, <1>8, MicGood

LEMMA NextMics ==
  ASSUME OneCapture, ResamplerWorks, LockInv, InputInv, ClosedInv, StandbyInv, MicInv,
         [Next]_vars
  PROVE  MicInv'
<1>1. ASSUME NEW t \in Threads, Step(t) PROVE MicInv'
  <2>0. DOMAIN call = Threads /\ DOMAIN call[t] = {"pc", "s", "on", "then", "in"}
    BY Mine
  <2>1. CASE \/ AcquireInputs(t) \/ AcquirePreLock(t) \/ AcquireLock(t)
             \/ WriteCheck(t) \/ WritePcm(t)
    <3>1. UNCHANGED halVars
      BY <2>1 DEF AcquireInputs, AcquirePreLock, AcquireLock, WriteCheck, WritePcm, halVars
    <3>2. /\ \A u \in Threads \ {t} : call'[u] = call[u]
          /\ call[t].in # NoStream => call'[t].in # NoStream
      BY <2>0, <2>1 DEF AcquireInputs, AcquirePreLock, AcquireLock, WriteCheck, WritePcm,
                        LockInputs, LockStream, ForceInputStandby, Return, Idle
    <3> QED BY <3>1, <3>2, PendingKept, MicKept DEF halVars
  <2> QED BY <1>1, <2>1, OutputMics, InputMics, ReadMics DEF Step
<1>2. ASSUME NEW t \in Threads, CallHal(t) PROVE MicInv'
  <2>1. PICK s \in Streams, f \in EntryPoints \ {"open_input"} : Begin(t, s, f)
    BY <1>2 DEF CallHal
  <2>2. /\ UNCHANGED halVars /\ call[t].pc = "idle"
        /\ \A u \in Threads \ {t} : call'[u] = call[u]
    BY <2>1, Mine DEF Begin, halVars
  <2>3. call[t].in = NoStream
    BY <2>2, NothingChosen DEF Resets, MayReset
  <2> QED BY <2>2, <2>3, PendingKept, MicKept DEF halVars
<1>3. ASSUME NEW t \in Threads, OpenCall(t) PROVE MicInv'
  BY <1>3, OpenMics DEF OpenCall
<1>4. CASE UNCHANGED vars
  BY <1>4, MicKept DEF vars, Pending
<1> QED BY <1>1, <1>2, <1>3, <1>4 DEF Next

LEMMA InitMics == Init => MicInv
<1> SUFFICES ASSUME Init PROVE MicInv
  OBVIOUS
<1>1. HAL.adev.usecase_list = <<>> /\ HAL.stream[primary_output].standby = TRUE
  BY DEF Init, HAL, NewStream, Streams
<1> QED BY <1>1 DEF MicInv, ActiveRuns, Runs, HasUse, Follows

\* When no call is in the middle of starting or re-routing a stream, a voice
\* communication input that runs beside the output has the microphone that goes
\* with the output's device, whatever order the starts, re-routings and standbys
\* of both took: for any threads and routings, with one input, and while
\* create_resampler does not fail.
THEOREM MicHasFollowed ==
  OneCapture /\ ResamplerWorks => (Spec => []MicFollowsOutput)
<1> SUFFICES ASSUME OneCapture, ResamplerWorks PROVE Spec => []MicFollowsOutput
  OBVIOUS
<1>0. OneOfEach
  BY DEF OneCapture
<1>1. Init => LockInv /\ InputInv /\ ClosedInv /\ StandbyInv /\ MicInv
  <2>1. Init => InputInv
    BY DEF Init, InputInv, IsAdev, AdevFields, Chosen, Forced, Idle
  <2> QED BY <2>1, InitLocks, InitClosed, InitStandby, InitMics
<1>2. LockInv /\ InputInv /\ ClosedInv /\ StandbyInv /\ MicInv /\ [Next]_vars
      => (LockInv /\ InputInv /\ ClosedInv /\ StandbyInv /\ MicInv)'
  BY <1>0, NextLocks, NextInputs, NextClosed, NextStandby, NextMics
<1>3. LockInv /\ StandbyInv /\ MicInv => MicFollowsOutput
  <2> SUFFICES ASSUME LockInv, StandbyInv, MicInv PROVE MicFollowsOutput
    OBVIOUS
  <2> DEFINE i == get_usecase_from_id(adev, "capture")
             uc == adev.usecase_list[i]
  <2> SUFFICES ASSUME lock_inputs = NoThread, i # 0,
                      ~ stream[primary_output].standby,
                      stream[uc.stream].source = "voice_communication"
               PROVE  uc.in_snd_device =
                        IF "speaker" \in stream[primary_output].devices THEN "speaker-mic"
                        ELSE default_mic(stream[uc.stream].devices)
    BY DEF MicFollowsOutput
  <2>1. HAL.adev = adev /\ HAL.stream = stream
    BY DEF HAL
  <2>2. adev.usecase_list \in Seq(Usecases)
    BY <2>1 DEF StandbyInv, Sound, Proper
  <2>3. i \in DOMAIN adev.usecase_list /\ uc.id = "capture"
    BY <2>2, UsecaseFound
  <2>4. ~ Pending
    <3> SUFFICES ASSUME NEW t \in Threads, call[t].in # NoStream PROVE FALSE
      BY DEF Pending
    <3>1. Section(call[t])
      BY Mine DEF Section, Needs, Resets, UnderInputs, MayReset, Bodies
    <3>2. lock_inputs = t
      BY <3>1, Mine
    <3> QED BY <3>2, AudioHwAssumption
  <2>5. FollowsBy(HAL, uc)
    BY <2>1, <2>3, <2>4 DEF MicInv, Follows
  <2> QED BY <2>1, <2>3, <2>5 DEF FollowsBy, MicFor
<1> QED BY <1>1, <1>2, <1>3, PTL DEF Spec
=============================================================================
