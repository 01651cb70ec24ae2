---------------------------- MODULE SoundTrigger ----------------------------
(***************************************************************************)
(* The sound trigger HAL (audio/soundtrigger/sound_trigger_hw.c): the      *)
(* framework's calls, the callback threads they start, and the audio HAL   *)
(* that reads the hotword audio through the exported streaming functions.  *)
(* What runs under stdev->lock without waiting is one step; the places     *)
(* where the lock is dropped, joined on or not taken are steps of their    *)
(* own.                                                                    *)
(***************************************************************************)
EXTENDS Naturals, FiniteSets

CONSTANTS
  Recognitions,    \* bound on start_recognition: callback threads 1..Recognitions
  TriggerEnv       \* "open", "pcm", "alloc" fail; "overlap": a stream that is not
                   \* closed before the next recognition starts

ASSUME TriggerAssumption == Recognitions \in Nat

NoThread == 0
Threads == 1..Recognitions

VARIABLES
  stdev,           \* the device: see STInit
  thread,          \* where each callback thread is
  message,         \* threads with a byte in their termination socket
  client,          \* the framework's call: "idle", "join_stop", "join_unload", ...
  reader,          \* the audio HAL: "closed", "open", "reading", "closing"
  stopped,         \* recognitions whose stop or unload has returned 0
  pcm_opens        \* PCM handles that are open

stvars == <<stdev, thread, message, client, reader, stopped, pcm_opens>>

STMay(kind) == kind \in TriggerEnv

STInit ==
  /\ stdev = [opened |-> FALSE, model_handle |-> 0, recognition_callback |-> NoThread,
              config |-> "none", pcm |-> "null", is_streaming |-> FALSE,
              power |-> FALSE, sock |-> NoThread, callback_thread |-> NoThread]
  /\ thread = [t \in Threads |-> "none"]
  /\ message = {} /\ client = "idle" /\ reader = "closed" /\ stopped = {}
  /\ pcm_opens = 0

\* The lock is free unless the reader sleeps with it.
LockFree == reader # "reading"

stdev_dsp_set_power(d, val) == [d EXCEPT !.is_streaming = FALSE, !.power = val]

\* pcm_close; a handle that failed to open is tinyalsa's bad_pcm, whose close
\* does nothing.
Closes(d) == IF d.pcm = "open" THEN 1 ELSE 0
pcm_close(d) == [d EXCEPT !.pcm = "null"]

-----------------------------------------------------------------------------
(* The device and its sound model *)

Idle == client = "idle" /\ LockFree
Locked == UNCHANGED <<thread, message, client, reader, stopped>>

stdev_open ==
  /\ Idle /\ ~ stdev.opened
  /\ stdev' = [stdev_dsp_set_power(stdev, FALSE) EXCEPT !.opened = TRUE, !.sock = NoThread]
  /\ Locked /\ UNCHANGED pcm_opens

\* The framework closes the device when it has no model.
stdev_close ==
  /\ Idle /\ stdev.opened /\ stdev.model_handle = 0
  /\ stdev' = [stdev_dsp_set_power(stdev, FALSE) EXCEPT !.opened = FALSE,
                 !.sock = NoThread, !.model_handle = 0]
  /\ Locked /\ UNCHANGED pcm_opens

stdev_load_sound_model ==
  /\ Idle /\ stdev.opened /\ stdev.model_handle = 0
  /\ stdev' = [stdev EXCEPT !.model_handle = 1]
  /\ Locked /\ UNCHANGED pcm_opens

-----------------------------------------------------------------------------
(* Recognition *)

NextThread == Cardinality({t \in Threads : thread[t] # "none"}) + 1

stdev_start_recognition ==
  LET t == NextThread IN
  /\ Idle /\ stdev.model_handle = 1 /\ stdev.recognition_callback = NoThread
  /\ t \in Threads
  /\ STMay("overlap") \/ reader = "closed"
  /\ \E config \in {"none", "capture", "no_capture"} :
       stdev' = [stdev_dsp_set_power(pcm_close(stdev), FALSE) EXCEPT
                   !.config = config, !.recognition_callback = t, !.callback_thread = t]
  /\ pcm_opens' = pcm_opens - Closes(stdev)
  /\ thread' = [thread EXCEPT ![t] = "created"]
  /\ UNCHANGED <<message, client, reader, stopped>>

\* Mutant: nothing is written to the socket.
MutantNoMessage(next) ==
  /\ stdev' = [stdev EXCEPT !.config = "none", !.recognition_callback = NoThread,
                 !.model_handle = IF next = "join_unload" THEN 0 ELSE @]
  /\ client' = next
  /\ UNCHANGED <<message, thread, reader, stopped, pcm_opens>>

\* Both ways to end a recognition: take the callback away, write to the
\* socket, drop the lock and join the thread.
Terminate(next) ==
  /\ stdev' = [stdev EXCEPT !.config = "none", !.recognition_callback = NoThread,
                 !.model_handle = IF next = "join_unload" THEN 0 ELSE @]
  /\ message' = IF stdev.sock = NoThread THEN message ELSE message \cup {stdev.sock}
  /\ client' = next
  /\ UNCHANGED <<thread, reader, stopped, pcm_opens>>

\* Without a recognition the call fails, and turns the DSP off all the same.
stdev_stop_recognition ==
  /\ Idle /\ stdev.model_handle = 1
  /\ IF stdev.recognition_callback # NoThread THEN Terminate("join_stop")
     ELSE /\ stdev' = stdev_dsp_set_power(stdev, FALSE)
          /\ Locked /\ UNCHANGED pcm_opens

stdev_unload_sound_model ==
  /\ Idle /\ stdev.model_handle = 1
  /\ IF stdev.recognition_callback # NoThread THEN Terminate("join_unload")
     ELSE /\ stdev' = [stdev_dsp_set_power(stdev, FALSE) EXCEPT
                         !.model_handle = 0, !.config = "none"]
          /\ Locked /\ UNCHANGED pcm_opens

\* Mutant: the thread is not joined.
MutantNoJoin ==
  /\ client \in {"join_stop", "join_unload"}
  /\ client' = "finish"
  /\ UNCHANGED <<stdev, thread, message, reader, stopped, pcm_opens>>

\* pthread_join returns.  stop_recognition then looks at pcm without the lock.
Join ==
  /\ client \in {"join_stop", "join_unload"}
  /\ thread[stdev.callback_thread] = "done"
  /\ client' = IF client = "join_unload" THEN "finish"
               ELSE IF stdev.pcm = "null" THEN "finish" ELSE "close_pcm"
  /\ UNCHANGED <<stdev, thread, message, reader, stopped, pcm_opens>>

StopClosesPcm ==
  /\ client = "close_pcm"
  /\ stdev' = pcm_close(stdev)
  /\ pcm_opens' = pcm_opens - Closes(stdev)
  /\ client' = "finish"
  /\ UNCHANGED <<thread, message, reader, stopped>>

FinishStop ==
  /\ client = "finish" /\ LockFree
  /\ stdev' = stdev_dsp_set_power(stdev, FALSE)
  /\ stopped' = stopped \cup {stdev.callback_thread}
  /\ client' = "idle"
  /\ UNCHANGED <<thread, message, reader, pcm_opens>>

-----------------------------------------------------------------------------
(* The callback thread *)

\* The end of callback_thread_loop; the lock is held.
ExitWith(d, t) ==
  /\ stdev' = LET e == [d EXCEPT !.recognition_callback = NoThread, !.sock = NoThread]
              IN IF d.config = "no_capture" THEN stdev_dsp_set_power(e, FALSE) ELSE e
  /\ thread' = [thread EXCEPT ![t] = "done"]
  /\ UNCHANGED <<message, client, reader, stopped>>

\* Up to the loop: the callback may be gone already, and the sockets or the
\* PCM may not come up.
ThreadStart(t) ==
  LET on == [stdev_dsp_set_power(stdev, TRUE) EXCEPT !.sock = t] IN
  /\ thread[t] = "created" /\ LockFree
  /\ \/ /\ stdev.recognition_callback = NoThread \/ STMay("open")
        /\ ExitWith(stdev, t) /\ UNCHANGED pcm_opens
     \/ /\ stdev.recognition_callback # NoThread
        /\ STMay("pcm")
        /\ \/ ExitWith([on EXCEPT !.pcm = "bad"], t) /\ UNCHANGED pcm_opens
           \/ ExitWith([on EXCEPT !.pcm = "open"], t) /\ pcm_opens' = pcm_opens + 1
     \/ /\ stdev.recognition_callback # NoThread
        /\ stdev' = [on EXCEPT !.pcm = "open"]
        /\ pcm_opens' = pcm_opens + 1
        /\ thread' = [thread EXCEPT ![t] = "poll"]
        /\ UNCHANGED <<message, client, reader, stopped>>

\* poll returns with audio.  A callback that was taken away meanwhile ends
\* the thread; else the event is sent with the lock dropped.
Detect(t) ==
  /\ thread[t] = "poll" /\ LockFree
  /\ stdev.recognition_callback # NoThread
  /\ \/ /\ stdev' = [stdev EXCEPT !.is_streaming = TRUE]
        /\ thread' = [thread EXCEPT ![t] = "callback"]
        /\ UNCHANGED <<message, client, reader, stopped, pcm_opens>>
     \/ /\ STMay("alloc")
        /\ ExitWith(pcm_close(stdev), t)
        /\ pcm_opens' = pcm_opens - Closes(stdev)

\* The callback has returned; the PCM is left open for streaming.
CallbackReturns(t) ==
  /\ thread[t] = "callback" /\ LockFree
  /\ ExitWith(stdev, t) /\ UNCHANGED pcm_opens

\* poll returns with the termination message, or with audio after the callback
\* was taken away.
Terminated(t) ==
  /\ thread[t] = "poll" /\ LockFree
  /\ t \in message
  /\ ExitWith(pcm_close(stdev), t)
  /\ pcm_opens' = pcm_opens - Closes(stdev)

-----------------------------------------------------------------------------
(* The audio HAL's hotword stream *)

sound_trigger_open_for_streaming ==
  /\ reader = "closed"
  /\ stdev.opened /\ stdev.is_streaming /\ stdev.pcm # "null"
  /\ reader' = "open"
  /\ UNCHANGED <<stdev, thread, message, client, stopped, pcm_opens>>

\* Reads, and sleeps up to ten times, with the lock held.
sound_trigger_read_samples ==
  /\ \/ /\ reader = "open" /\ stdev.opened /\ stdev.is_streaming /\ stdev.pcm # "null"
        /\ reader' = "reading"
     \/ reader = "reading" /\ reader' = "open"
  /\ UNCHANGED <<stdev, thread, message, client, stopped, pcm_opens>>

\* Without the lock: look at pcm, then close it.
CloseBegin ==
  /\ reader = "open"
  /\ STMay("overlap") \/ client = "idle"
  /\ reader' = IF stdev.pcm = "null" THEN "closed" ELSE "closing"
  /\ UNCHANGED <<stdev, thread, message, client, stopped, pcm_opens>>

sound_trigger_close_for_streaming ==
  /\ reader = "closing"
  /\ stdev' = pcm_close(stdev)
  /\ pcm_opens' = pcm_opens - Closes(stdev)
  /\ reader' = "closed"
  /\ UNCHANGED <<thread, message, client, stopped>>

-----------------------------------------------------------------------------
ThreadStep(t) == ThreadStart(t) \/ Detect(t) \/ CallbackReturns(t) \/ Terminated(t)
ClientStep == Join \/ StopClosesPcm \/ FinishStop

STNext ==
  \/ stdev_open \/ stdev_close \/ stdev_load_sound_model
  \/ stdev_start_recognition \/ stdev_stop_recognition \/ stdev_unload_sound_model
  \/ ClientStep
  \/ \E t \in Threads : ThreadStep(t)
  \/ sound_trigger_open_for_streaming \/ sound_trigger_read_samples
  \/ CloseBegin \/ sound_trigger_close_for_streaming

\* Threads that can run do; nothing says that anybody speaks, so Detect is not
\* fair.  A thread that waits for the mutex gets it although the reader takes it
\* again and again, and the reader gives it back after ten retries.
STProgress ==
  ClientStep \/ \E t \in Threads : ThreadStart(t) \/ CallbackReturns(t) \/ Terminated(t)
STFairness ==
  /\ SF_stvars(STProgress)
  /\ WF_stvars(reader = "reading" /\ sound_trigger_read_samples)

STSpec == STInit /\ [][STNext]_stvars /\ STFairness

-----------------------------------------------------------------------------
(* Properties *)

\* After stop_recognition or unload_sound_model has returned, the callback of
\* that recognition is not running and will not be called.
NoLateCallback == \A t \in stopped : thread[t] = "done"

\* No PCM handle is lost: whatever is open is in stdev->pcm, where the next
\* start closes it, and while a thread listens the microphone is on.
PcmOwned ==
  /\ pcm_opens = Closes(stdev)
  /\ \A t \in Threads : thread[t] = "poll" /\ stdev.recognition_callback = t =>
       stdev.power /\ stdev.pcm = "open"

\* What the sound trigger service may rely on once a stop has returned.
StopReleases == NoLateCallback /\ PcmOwned

\* stop_recognition and unload_sound_model return: the thread they wait for
\* gets the message, or finds its callback gone.
StopReturns == client # "idle" ~> client = "idle"
=============================================================================
