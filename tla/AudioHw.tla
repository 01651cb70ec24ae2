------------------------------- MODULE AudioHw -------------------------------
(***************************************************************************)
(* The streams of the audio HAL and the threads that call them             *)
(* (audio/hal/audio_hw.c).  AudioFlinger's playback and record threads     *)
(* write and read; other threads change routes, add effects, put streams   *)
(* in standby, open and close inputs.                                      *)
(*                                                                         *)
(* The mutexes are lock_inputs, and pre_lock and lock of every stream.     *)
(* adev->lock is not a variable: nothing is waited for while it is held,   *)
(* so a section under it is part of one action.  A call is a sequence of   *)
(* lock acquisitions and of bodies that run with the lock of one stream.   *)
(***************************************************************************)
EXTENDS AudioRouting

CONSTANTS
  Threads,
  NoThread,
  Calls,            \* <<thread, function, stream>>: who calls what
  OutRoutings,      \* device sets the policy routes the output to
  InRoutings,       \* device sets it routes inputs to
  InSources,        \* sources it gives capture streams
  MAX_PREPROCESSORS,
  Env               \* what may fail: "pcm_open", "pcm_io", "resampler", "effect"

\* The functions the framework calls, by the body that follows their first
\* locks; out_write and in_read have more bodies.
EntryPoints == {"out_standby", "out_set_parameters", "write_check",
                "in_standby", "in_set_parameters", "read_check",
                "add_effect", "remove_effect", "close_input", "open_input"}

\* The functions of struct audio_stream_out; the others are given an input.
OutFunctions == {"out_standby", "out_set_parameters", "write_check"}

ASSUME AudioHwAssumption ==
  /\ NoThread \notin Threads
  /\ Calls \subseteq Threads \X EntryPoints \X Streams
  /\ \A c \in Calls : c[2] \in OutFunctions <=> c[3] = primary_output
  /\ OutRoutings \subseteq SUBSET OutDevices \ {{}}
  /\ InRoutings \subseteq SUBSET InDevices \ {{}}
  /\ InSources \subseteq Sources
  /\ MAX_PREPROCESSORS \in Nat

VARIABLES
  adev, stream, alsa,        \* the record h of AudioRouting
  lock_inputs,               \* thread that holds it, or NoThread
  pre_lock, lock,            \* the same for every stream
  call                       \* what each thread is doing

halVars == <<adev, stream, alsa>>
lockVars == <<lock_inputs, pre_lock, lock>>
vars == <<adev, stream, alsa, lock_inputs, pre_lock, lock, call>>

HAL == [adev |-> adev, stream |-> stream, alsa |-> alsa]
Become(h) == adev' = h.adev /\ stream' = h.stream /\ alsa' = h.alsa

\* Bodies: the parts of the HAL's functions between two acquisitions.
Bodies == {"out_standby", "out_set_parameters",
           "write_check", "write_start", "write_pcm",
           "in_standby", "in_set_parameters",
           "read_check", "read_start", "read_pcm",
           "add_effect", "remove_effect", "close_input", "force_input"}

\* pc: where the thread is.  At "inputs", "pre" and "lock" it waits for
\* lock_inputs, pre_lock[on] and lock[on], with the body `then' to follow; in
\* a body it holds lock[on].  s is the stream of the call, in the input that
\* out_write or out_set_parameters will put in standby.
CallStates == [pc : {"idle", "inputs", "pre", "lock"} \cup Bodies,
               s : Streams \cup {NoStream}, on : Streams \cup {NoStream},
               then : Bodies \cup {"none"}, in : Ins \cup {NoStream}]

Idle == [pc |-> "idle", s |-> NoStream, on |-> NoStream, then |-> "none",
         in |-> NoStream]

TypeOK ==
  /\ adev \in AdevStates
  /\ stream \in [Streams -> StreamStates]
  /\ \A s \in Ins : stream[s].num_preprocessors <= MAX_PREPROCESSORS
  /\ alsa \subseteq PcmDevices
  /\ lock_inputs \in Threads \cup {NoThread}
  /\ pre_lock \in [Streams -> Threads \cup {NoThread}]
  /\ lock \in [Streams -> Threads \cup {NoThread}]
  /\ call \in [Threads -> CallStates]

\* A stream as calloc and adev_open_*_stream leave it.
NewStream(s, devices, source) ==
  [open |-> TRUE, standby |-> TRUE, devices |-> devices, source |-> source,
   pcm |-> NO_PCM, channels |-> ProfileChannels(s), num_preprocessors |-> 0,
   aux_channels |-> 0, aux_channels_changed |-> FALSE]

\* After adev_open and the opening of the primary output; no input is open.
Init ==
  /\ adev = [active_input |-> NoStream, usecase_list |-> <<>>,
             snd_dev_ref_cnt |-> [d \in SndDevices |-> 0], route |-> {}]
  /\ stream = [s \in Streams |->
                 IF s = primary_output THEN NewStream(s, {"speaker"}, "mic")
                 ELSE [NewStream(s, {"builtin_mic"}, "mic") EXCEPT !.open = FALSE]]
  /\ alsa = {}
  /\ lock_inputs = NoThread
  /\ pre_lock = [s \in Streams |-> NoThread]
  /\ lock = [s \in Streams |-> NoThread]
  /\ call = [t \in Threads |-> Idle]

-----------------------------------------------------------------------------
(* Locks *)

\* lock_input_stream or lock_output_stream on s comes next, then the body.
LockStream(t, s, then) ==
  call' = [call EXCEPT ![t].pc = "pre", ![t].on = s, ![t].then = then]

\* lock_inputs is taken before that.
LockInputs(t, s, then) ==
  call' = [call EXCEPT ![t].pc = "inputs", ![t].on = s, ![t].then = then]

AcquireInputs(t) ==
  /\ call[t].pc = "inputs" /\ lock_inputs = NoThread
  /\ lock_inputs' = t
  /\ call' = [call EXCEPT ![t].pc = "pre"]
  /\ UNCHANGED <<halVars, pre_lock, lock>>

MutantNoPreLock(t) ==
  /\ call[t].pc = "pre"
  /\ call' = [call EXCEPT ![t].pc = "lock"]
  /\ UNCHANGED <<halVars, lock_inputs, pre_lock, lock>>

AcquirePreLock(t) ==
  LET s == call[t].on IN
  /\ call[t].pc = "pre" /\ pre_lock[s] = NoThread
  /\ pre_lock' = [pre_lock EXCEPT ![s] = t]
  /\ call' = [call EXCEPT ![t].pc = "lock"]
  /\ UNCHANGED <<halVars, lock_inputs, lock>>

AcquireLock(t) ==
  LET s == call[t].on IN
  /\ call[t].pc = "lock" /\ lock[s] = NoThread
  /\ lock' = [lock EXCEPT ![s] = t]
  /\ pre_lock' = [pre_lock EXCEPT ![s] = NoThread]
  /\ call' = [call EXCEPT ![t].pc = call[t].then]
  /\ UNCHANGED <<halVars, lock_inputs>>

Unlock(s) == lock' = [lock EXCEPT ![s] = NoThread]
UnlockInputs == lock_inputs' = NoThread
Return(t) == call' = [call EXCEPT ![t] = Idle]

\* The end of out_write and out_set_parameters: put the input `in' in standby,
\* still under lock_inputs, if there is one.
ForceInputStandby(t, in) ==
  IF in = NoStream THEN Return(t)
  ELSE call' = [call EXCEPT ![t].pc = "pre", ![t].on = in,
                            ![t].then = "force_input", ![t].in = in]

May(kind) == IF kind \in Env THEN {TRUE, FALSE} ELSE {TRUE}

\* in != NULL in out_write and out_set_parameters: an input whose microphone
\* may depend on the output.
InputToReset(a) ==
  IF a.active_input # NoStream
     /\ stream[a.active_input].source \in {"voice_communication", "mic"}
  THEN a.active_input ELSE NoStream

-----------------------------------------------------------------------------
(* The output stream *)

\* out_write, first look at standby.
WriteCheck(t) ==
  LET s == call[t].on IN
  /\ call[t].pc = "write_check"
  /\ IF stream[s].standby
     THEN Unlock(s) /\ LockInputs(t, s, "write_start")
     ELSE /\ call' = [call EXCEPT ![t].pc = "write_pcm"]
          /\ UNCHANGED lock
  /\ UNCHANGED <<halVars, lock_inputs, pre_lock>>

MutantWriteLeavesInput(t) ==
  LET s == call[t].on IN
  /\ call[t].pc = "write_start" /\ stream[s].standby
  /\ \E r \in {start_output_stream(HAL, s, ready) : ready \in May("pcm_open")} :
       /\ r.ok
       /\ Become([r.h EXCEPT !.stream[s].standby = FALSE])
       /\ UnlockInputs
       /\ call' = [call EXCEPT ![t].pc = "write_pcm"]
       /\ UNCHANGED <<pre_lock, lock>>

\* Second look with lock_inputs held, and start_output_stream.  lock_inputs
\* stays locked if an input is to be reset.
WriteStart(t) ==
  LET s == call[t].on IN
  /\ call[t].pc = "write_start"
  /\ \/ /\ ~ stream[s].standby                              \* false_alarm
        /\ UnlockInputs
        /\ call' = [call EXCEPT ![t].pc = "write_pcm"]
        /\ UNCHANGED <<halVars, lock>>
     \/ /\ stream[s].standby
        /\ \E r \in {start_output_stream(HAL, s, ready) : ready \in May("pcm_open")} :
             LET in == InputToReset(r.h.adev)
             IN \/ /\ r.ok
                   /\ Become([r.h EXCEPT !.stream[s].standby = FALSE])
                   /\ IF in = NoStream THEN UnlockInputs
                      ELSE UNCHANGED lock_inputs
                   /\ call' = [call EXCEPT ![t].pc = "write_pcm", ![t].in = in]
                   /\ UNCHANGED lock
                \/ /\ ~ r.ok
                   /\ Become(r.h)
                   /\ UnlockInputs /\ Unlock(s)
                   /\ LockStream(t, s, "out_standby")
  /\ UNCHANGED pre_lock

\* The rest of out_write: resampling, DSP, remapping and pcm_write, which is
\* skipped when there is no PCM.  After an error the stream goes to standby.
WritePcm(t) ==
  LET s == call[t].on IN
  /\ call[t].pc = "write_pcm"
  /\ Unlock(s)
  /\ \E written \in May("pcm_io") :
       IF written \/ stream[s].pcm \notin PcmDevices
       THEN ForceInputStandby(t, call[t].in)
       ELSE LockStream(t, s, "out_standby")
  /\ UNCHANGED <<halVars, lock_inputs, pre_lock>>

\* out_standby, called by the framework or at the end of a failed out_write.
OutStandby(t) ==
  LET s == call[t].on IN
  /\ call[t].pc = "out_standby"
  /\ IF stream[s].standby THEN UNCHANGED halVars
     ELSE Become(do_out_standby_l(HAL, s))
  /\ Unlock(s)
  /\ ForceInputStandby(t, call[t].in)
  /\ UNCHANGED <<lock_inputs, pre_lock>>

MutantRoutingUnlocksInputs(t) ==
  LET s == call[t].on IN
  /\ call[t].pc = "out_set_parameters"
  /\ \E val \in OutRoutings :
       LET old == stream[s]
           in == IF old.devices # val /\ ~ old.standby
                 THEN InputToReset(adev) ELSE NoStream
           h == [HAL EXCEPT !.stream[s].devices = val]
       IN /\ Become(IF old.standby THEN h ELSE do_out_standby_l(h, s))
          /\ ForceInputStandby(t, in)
  /\ Unlock(s) /\ UnlockInputs
  /\ UNCHANGED pre_lock

\* out_set_parameters with a routing.
OutSetParameters(t) ==
  LET s == call[t].on IN
  /\ call[t].pc = "out_set_parameters"
  /\ \E val \in OutRoutings :
       LET old == stream[s]
           in == IF old.devices # val /\ ~ old.standby
                 THEN InputToReset(adev) ELSE NoStream
           h == [HAL EXCEPT !.stream[s].devices = val]
       IN /\ Become(IF old.standby THEN h
                    ELSE IF old.devices # val THEN do_out_standby_l(h, s)
                    ELSE select_devices(h, AUDIO_USECASE(s)))
          /\ IF in = NoStream THEN UnlockInputs ELSE UNCHANGED lock_inputs
          /\ ForceInputStandby(t, in)
  /\ Unlock(s)
  /\ UNCHANGED pre_lock

\* The input is put in standby for out_write or out_set_parameters.
ForceInput(t) ==
  /\ call[t].pc = "force_input"
  /\ Become(do_in_standby_l(HAL, call[t].on))
  /\ Unlock(call[t].on) /\ UnlockInputs
  /\ Return(t)
  /\ UNCHANGED pre_lock

-----------------------------------------------------------------------------
(* Input streams *)

MutantReadKeepsLock(t) ==
  LET s == call[t].on IN
  /\ call[t].pc = "read_check"
  /\ IF stream[s].standby THEN LockInputs(t, s, "read_start")
     ELSE call' = [call EXCEPT ![t].pc = "read_pcm"]
  /\ UNCHANGED <<halVars, lock_inputs, pre_lock, lock>>

\* in_read, first look at standby.
ReadCheck(t) ==
  LET s == call[t].on IN
  /\ call[t].pc = "read_check"
  /\ IF stream[s].standby
     THEN Unlock(s) /\ LockInputs(t, s, "read_start")
     ELSE /\ call' = [call EXCEPT ![t].pc = "read_pcm"]
          /\ UNCHANGED lock
  /\ UNCHANGED <<halVars, lock_inputs, pre_lock>>

\* Second look, and start_input_stream.  standby is cleared later, when
\* lock_inputs has been given up.
ReadStart(t) ==
  LET s == call[t].on IN
  /\ call[t].pc = "read_start"
  /\ UnlockInputs
  /\ \/ /\ ~ stream[s].standby                              \* false_alarm
        /\ call' = [call EXCEPT ![t].pc = "read_pcm"]
        /\ UNCHANGED <<halVars, lock>>
     \/ /\ stream[s].standby
        /\ \E r \in {start_input_stream(HAL, s, ready, resampler) :
                       ready \in May("pcm_open"), resampler \in May("resampler")} :
             /\ Become(r.h)
             /\ IF r.ok
                THEN /\ call' = [call EXCEPT ![t].pc = "read_pcm"]
                     /\ UNCHANGED lock
                ELSE Unlock(s) /\ LockInputs(t, s, "in_standby")
  /\ UNCHANGED pre_lock

\* The rest of in_read: reading, resampling, effects and remapping succeed or
\* fail; after a failure the stream goes to standby.
ReadPcm(t) ==
  LET s == call[t].on IN
  /\ call[t].pc = "read_pcm"
  /\ stream' = [stream EXCEPT ![s].standby = FALSE]
  /\ Unlock(s)
  /\ \E read \in May("pcm_io") :
       IF read /\ stream[s].pcm \in PcmDevices THEN Return(t)
       ELSE LockInputs(t, s, "in_standby")
  /\ UNCHANGED <<adev, alsa, lock_inputs, pre_lock>>

\* in_standby.
InStandby(t) ==
  /\ call[t].pc = "in_standby"
  /\ Become(do_in_standby_l(HAL, call[t].on))
  /\ Unlock(call[t].on) /\ UnlockInputs
  /\ Return(t)
  /\ UNCHANGED pre_lock

\* in_set_parameters with a source and a routing.  The framework gives a
\* stream a new source only while it is in standby.
InSetParameters(t) ==
  LET s == call[t].on IN
  /\ call[t].pc = "in_set_parameters"
  /\ \E val \in InRoutings, source \in InSources :
       LET old == stream[s]
           new == IF old.standby /\ s \in Captures THEN source ELSE old.source
           h == [HAL EXCEPT !.stream[s].source = new, !.stream[s].devices = val]
       IN Become(IF old.standby \/ old.devices = val THEN h
                 ELSE IF old.pcm # NO_PCM /\ profile_devices(s) \cap val = {}
                 THEN do_in_standby_l(h, s)
                 ELSE select_devices(h, AUDIO_USECASE(s)))
  /\ Unlock(s) /\ UnlockInputs
  /\ Return(t)
  /\ UNCHANGED pre_lock

\* The auxiliary channels in_update_aux_channels settles on when an effect has
\* been added: four for the built-in microphones, unless an effect refuses.
aux_channels(st, configured) ==
  IF configured /\ "builtin_mic" \in st.devices THEN 4 ELSE 0

\* add_remove_audio_effect(enable = true); a change of auxiliary channels puts
\* the stream in standby.
AddEffect(t) ==
  LET s == call[t].on
      st == stream[s]
  IN
  /\ call[t].pc = "add_effect"
  /\ IF st.num_preprocessors >= MAX_PREPROCESSORS THEN UNCHANGED halVars
     ELSE \E configured \in May("effect") :
            LET aux == aux_channels(st, configured)
                h == [HAL EXCEPT !.stream[s].num_preprocessors = @ + 1,
                                 !.stream[s].aux_channels = aux,
                                 !.stream[s].aux_channels_changed = TRUE]
            IN Become(IF aux # st.aux_channels THEN do_in_standby_l(h, s) ELSE h)
  /\ Unlock(s) /\ UnlockInputs
  /\ Return(t)
  /\ UNCHANGED pre_lock

\* add_remove_audio_effect(enable = false) of an attached effect.
RemoveEffect(t) ==
  LET s == call[t].on IN
  /\ call[t].pc = "remove_effect"
  /\ IF stream[s].num_preprocessors = 0 THEN UNCHANGED halVars
     ELSE Become([HAL EXCEPT !.stream[s].num_preprocessors = @ - 1,
                             !.stream[s].aux_channels_changed = FALSE])
  /\ Unlock(s) /\ UnlockInputs
  /\ Return(t)
  /\ UNCHANGED pre_lock

MutantCloseInUse(t) ==
  LET s == call[t].on IN
  \/ /\ call[t].pc = "inputs" /\ call[t].then = "close_input"
     /\ LockStream(t, s, "close_input")
     /\ UNCHANGED <<halVars, lockVars>>
  \/ /\ call[t].pc = "close_input"
     /\ Become([do_in_standby_l(HAL, s) EXCEPT !.stream[s].open = FALSE])
     /\ Unlock(s)
     /\ lock_inputs' = IF lock_inputs = t THEN NoThread ELSE lock_inputs
     /\ Return(t)
     /\ UNCHANGED pre_lock

\* adev_close_input_stream.
CloseInput(t) ==
  LET s == call[t].on IN
  /\ call[t].pc = "close_input"
  /\ Become([do_in_standby_l(HAL, s) EXCEPT !.stream[s].open = FALSE])
  /\ Unlock(s) /\ UnlockInputs
  /\ Return(t)
  /\ UNCHANGED pre_lock

\* adev_open_input_stream, which takes no lock.
OpenInput(t, s) ==
  /\ call[t].pc = "idle" /\ ~ stream[s].open
  /\ \E devices \in InRoutings,
        source \in IF s \in Hotwords THEN {"hotword"} ELSE InSources :
       /\ get_pcm_device(s, devices) # NO_PCM
       /\ stream' = [stream EXCEPT ![s] = NewStream(s, devices, source)]
  /\ UNCHANGED <<adev, alsa, lockVars, call>>

-----------------------------------------------------------------------------
(* The framework's calls.  It closes a stream when no other call is using  *)
(* it, and makes none after that.                                          *)

Begin(t, s, f) ==
  /\ call[t].pc = "idle" /\ stream[s].open
  /\ \A u \in Threads : call[u].s = s =>
       f # "close_input" /\ call[u].then # "close_input"
  /\ call' = [call EXCEPT ![t] =
       [pc |-> IF f \in {"out_standby", "write_check", "read_check"}
               THEN "pre" ELSE "inputs",
        s |-> s, on |-> s, then |-> f, in |-> NoStream]]
  /\ UNCHANGED <<halVars, lockVars>>

CallHal(t) ==
  \E s \in Streams, f \in EntryPoints \ {"open_input"} :
    <<t, f, s>> \in Calls /\ Begin(t, s, f)

OpenCall(t) == \E s \in Ins : <<t, "open_input", s>> \in Calls /\ OpenInput(t, s)

\* A call goes on.
Step(t) ==
  \/ AcquireInputs(t) \/ AcquirePreLock(t) \/ AcquireLock(t)
  \/ WriteCheck(t) \/ WriteStart(t) \/ WritePcm(t)
  \/ OutStandby(t) \/ OutSetParameters(t) \/ ForceInput(t)
  \/ ReadCheck(t) \/ ReadStart(t) \/ ReadPcm(t)
  \/ InStandby(t) \/ InSetParameters(t)
  \/ AddEffect(t) \/ RemoveEffect(t) \/ CloseInput(t)

Next == \E t \in Threads : CallHal(t) \/ OpenCall(t) \/ Step(t)

\* When Step(t) is enabled: the thread is inside the HAL and not blocked.
Runnable(t) ==
  CASE call[t].pc = "idle" -> FALSE
    [] call[t].pc = "inputs" -> lock_inputs = NoThread
    [] call[t].pc = "pre" -> pre_lock[call[t].on] = NoThread
    [] call[t].pc = "lock" -> lock[call[t].on] = NoThread
    [] OTHER -> TRUE

\* Weak fairness of Step(t), with its enabling condition spelled out: a thread
\* that stays runnable goes on, and a PCM read or write ends.  The framework
\* need not call.
Fairness == \A t \in Threads : <>[]Runnable(t) => []<><<Step(t)>>_vars

Spec == Init /\ [][Next]_vars /\ Fairness

-----------------------------------------------------------------------------
(* Properties *)

\* Held(t): the mutexes of thread t; Wanted(t): the one it waits for.
Held(t) ==
  (IF lock_inputs = t THEN {<<"inputs", NoStream>>} ELSE {})
  \cup {<<"lock", s>> : s \in {r \in Streams : lock[r] = t}}
  \cup {<<"pre_lock", s>> : s \in {r \in Streams : pre_lock[r] = t}}

Wanted(t) ==
  CASE call[t].pc = "inputs" -> {<<"inputs", NoStream>>}
    [] call[t].pc = "pre" -> {<<"pre_lock", call[t].on>>}
    [] call[t].pc = "lock" -> {<<"lock", call[t].on>>}
    [] OTHER -> {}

\* "always take the lock_inputs, stream_in, stream_out, and then audio_device";
\* a stream's pre_lock is taken before its lock.
Rank(m) ==
  CASE m[1] = "inputs" -> 0
    [] m[1] = "pre_lock" -> IF m[2] \in Ins THEN 1 ELSE 3
    [] m[1] = "lock" -> IF m[2] \in Ins THEN 2 ELSE 4

\* The documented order of the mutexes (audio_hw.h, "when multiple mutexes have
\* to be acquired"): a thread waits for a mutex only while all those it holds
\* come before it, so threads never wait for each other in a circle.
LockOrder ==
  \A t \in Threads : \A w \in Wanted(t), m \in Held(t) : Rank(m) < Rank(w)

\* LOG_ALWAYS_FATAL_IF(in != adev->active_input) in out_write and
\* out_set_parameters does not fire: the input they chose earlier is still the
\* active one when they have its lock, though adev->lock was released.
InputStillActive ==
  \A t \in Threads : call[t].pc = "force_input" => call[t].on = adev.active_input

\* "lock_inputs must be held in order to either close the input stream, or
\* prevent closure": no thread waits for a mutex of, or works on, an input
\* that has been closed, and the active input is open.
NoClosedStream ==
  /\ \A t \in Threads : call[t].on # NoStream => stream[call[t].on].open
  /\ adev.active_input # NoStream => stream[adev.active_input].open

\* Number of use cases that use sound device d.
Users(d) ==
  Cardinality({i \in DOMAIN adev.usecase_list :
                 d \in {adev.usecase_list[i].out_snd_device,
                        adev.usecase_list[i].in_snd_device}})

\* Reference counts and mixer follow the use cases, whatever sequence of starts,
\* failed starts, re-routings and stops came before: a sound device is counted
\* once per use case that has it, and its mixer path is on exactly while counted.
RoutesCounted ==
  \A d \in SndDevices : /\ adev.snd_dev_ref_cnt[d] = Users(d)
                        /\ d \in adev.route <=> Users(d) > 0

\* A stream is in standby just when it has no use case and no PCM, and the
\* kernel has no PCM open that no stream knows of: failed starts and forced
\* standbys release everything.  (in_read clears standby after the start, with
\* the stream's lock held.)
StandbyReleases ==
  /\ \A s \in Streams : lock[s] = NoThread =>
       /\ stream[s].standby <=>
            \A i \in DOMAIN adev.usecase_list : adev.usecase_list[i].stream # s
       /\ stream[s].standby => stream[s].pcm = NO_PCM
  /\ \A d \in alsa : \E s \in Streams : stream[s].pcm = d

\* "A change in output device may change the microphone selection" (out_write):
\* when nobody is in the middle of a call that starts or re-routes a stream, a
\* voice communication input that runs beside the output has the microphone
\* that goes with the output's device.
MicFollowsOutput ==
  LET i == get_usecase_from_id(adev, "capture")
      uc == adev.usecase_list[i]
      quiet == lock_inputs = NoThread /\ \A s \in Streams : lock[s] = NoThread
  IN quiet /\ i # 0 /\ ~ stream[primary_output].standby
     /\ stream[uc.stream].source = "voice_communication"
     => uc.in_snd_device =
          IF "speaker" \in stream[primary_output].devices THEN "speaker-mic"
          ELSE default_mic(stream[uc.stream].devices)

\* "The HW is limited to support only the default pcm_profile settings.  As such
\* a change in aux_channels will not have an effect" (start_input_stream): a
\* running input is read with the channels of its profile.
ChannelsOfProfile ==
  \A s \in Ins : stream[s].pcm \in PcmDevices =>
                   stream[s].channels = ProfileChannels(s)

\* pre_lock is there "to avoid DOS by playback thread": a thread that is next in
\* line for a stream's lock gets it, however fast another one writes or reads.
LockGranted ==
  \A t \in Threads : call[t].pc = "lock" ~> call[t].pc # "lock"

=============================================================================
