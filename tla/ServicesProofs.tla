--------------------------- MODULE ServicesProofs ---------------------------
(***************************************************************************)
(* Proofs about the smaller HALs: the sound trigger, the Bluetooth HCI,    *)
(* the sensor hub and the frames of an audio capture.  They share no       *)
(* state; each has its own specification and its own invariant.            *)
(***************************************************************************)
EXTENDS SoundTrigger, BluetoothHci, SensorHub, AudioCapture, FiniteSetTheorems,
        SequenceTheorems, TLAPS

-----------------------------------------------------------------------------
(* The sound trigger HAL                                                   *)

ThreadStates == {"none", "created", "poll", "callback", "done"}
Joining == {"join_stop", "join_unload"}

Device ==
  [opened : BOOLEAN, model_handle : {0, 1}, recognition_callback : Threads \cup {NoThread},
   config : {"none", "capture", "no_capture"}, pcm : {"null", "open", "bad"},
   is_streaming : BOOLEAN, power : BOOLEAN, sock : Threads \cup {NoThread},
   callback_thread : Threads \cup {NoThread}]

STTypes ==
  /\ stdev \in Device
  /\ thread \in [Threads -> ThreadStates]
  /\ client \in {"idle", "close_pcm", "finish"} \cup Joining
  /\ reader \in {"closed", "open", "reading", "closing"}
  /\ stopped \subseteq Threads
  /\ pcm_opens \in Nat

\* The threads are started in order.
StartedInOrder ==
  \E n \in 0..Recognitions : \A t \in Threads : thread[t] # "none" <=> t <= n

Live(t) == thread[t] \in {"created", "poll", "callback"}

\* There is one thread at most, and it is the one that a stop joins: either
\* its callback is still set, or the call that took it away waits for it.
OneLiveThread ==
  \A t \in Threads : Live(t) =>
    /\ stdev.callback_thread = t
    /\ stdev.recognition_callback = t \/ client \in Joining

ModelLoaded == stdev.model_handle = 1 => stdev.opened

\* A callback is set only between the calls that end a recognition.
CallbackSet ==
  stdev.recognition_callback # NoThread =>
    /\ stdev.callback_thread = stdev.recognition_callback
    /\ client = "idle" /\ stdev.model_handle = 1

\* What a call that ends a recognition knows of the thread it joins.
JoinKnows ==
  /\ client # "idle" => stdev.callback_thread \in Threads
  /\ client \in {"close_pcm", "finish"} => thread[stdev.callback_thread] = "done"

\* Until a thread has detected, nobody streams, and the PCM of a thread that
\* has not run yet is closed.
ListensAlone ==
  \A t \in Threads :
    /\ thread[t] \in {"created", "poll"} => ~ stdev.is_streaming /\ reader = "closed"
    /\ thread[t] = "created" => stdev.pcm = "null"

STInv ==
  /\ STTypes /\ StartedInOrder /\ OneLiveThread /\ ModelLoaded /\ CallbackSet
  /\ JoinKnows /\ ListensAlone /\ StopReleases

LEMMA STInitial == STInit => STInv
<1> SUFFICES ASSUME STInit PROVE STInv OBVIOUS
<1> USE DEF STInit, NoThread
<1>1. STTypes BY DEF STTypes, Device, ThreadStates
<1>2. StartedInOrder
  <2>1. 0 \in 0..Recognitions /\ \A t \in Threads : ~ (t <= 0)
    BY TriggerAssumption DEF Threads
  <2> QED BY <2>1 DEF StartedInOrder
<1>3. StopReleases BY DEF StopReleases, NoLateCallback, PcmOwned, Closes
<1> QED BY <1>1, <1>2, <1>3 DEF STInv, OneLiveThread, Live, ModelLoaded, CallbackSet,
       JoinKnows, ListensAlone

\* The number of threads that have been started names the next one.
LEMMA NextIsNew ==
  ASSUME STTypes, StartedInOrder, NextThread \in Threads
  PROVE  /\ thread[NextThread] = "none"
         /\ \A t \in Threads : thread[t] # "none" <=> t <= NextThread - 1
<1>1. PICK n \in 0..Recognitions : \A t \in Threads : thread[t] # "none" <=> t <= n
  BY DEF StartedInOrder
<1>2. {t \in Threads : thread[t] # "none"} = 1..n
  BY <1>1, TriggerAssumption DEF Threads
<1>3. Cardinality(1..n) = n
  BY FS_Interval, TriggerAssumption
<1>4. NextThread = n + 1
  BY <1>2, <1>3, Zenon DEF NextThread
<1> QED BY <1>1, <1>4, TriggerAssumption DEF Threads


\* A call that starts and ends nothing: the threads, the PCM and, while there
\* is a recognition, the power stay.
Quiet ==
  /\ stdev' \in Device
  /\ UNCHANGED <<thread, client, reader, stopped, pcm_opens>>
  /\ stdev'.pcm = stdev.pcm
  /\ stdev'.recognition_callback = stdev.recognition_callback
  /\ stdev'.callback_thread = stdev.callback_thread
  /\ stdev'.is_streaming => stdev.is_streaming
  /\ stdev'.model_handle = 1 => stdev'.opened
  /\ stdev.recognition_callback # NoThread =>
       stdev'.model_handle = 1 /\ stdev'.power = stdev.power

LEMMA QuietCalls ==
  ASSUME STInv,
         \/ stdev_open \/ stdev_close \/ stdev_load_sound_model
         \/ /\ stdev_stop_recognition \/ stdev_unload_sound_model
            /\ stdev.recognition_callback = NoThread
  PROVE  Quiet
<1> USE DEF Quiet, Locked, Idle, NoThread
<1>1. stdev \in Device /\ ModelLoaded /\ CallbackSet BY DEF STInv, STTypes
<1>2. CASE stdev_open
  BY <1>1, <1>2 DEF stdev_open, stdev_dsp_set_power, Device, ModelLoaded, CallbackSet
<1>3. CASE stdev_close
  <2>1. stdev.recognition_callback = NoThread BY <1>1, <1>3 DEF stdev_close, CallbackSet
  <2>2. stdev' = [stdev EXCEPT !.is_streaming = FALSE, !.power = FALSE, !.opened = FALSE,
                    !.sock = NoThread, !.model_handle = 0]
    BY <1>1, <1>3 DEF stdev_close, stdev_dsp_set_power, Device
  <2>f. /\ stdev' \in Device /\ stdev'.model_handle = 0 /\ stdev'.pcm = stdev.pcm
        /\ stdev'.recognition_callback = stdev.recognition_callback
        /\ stdev'.callback_thread = stdev.callback_thread /\ ~ stdev'.is_streaming
    BY <1>1, <2>2 DEF Device
  <2>u. UNCHANGED <<thread, client, reader, stopped, pcm_opens>> BY <1>3 DEF stdev_close
  <2> QED BY <2>1, <2>f, <2>u
<1>4. CASE stdev_load_sound_model
  BY <1>1, <1>4 DEF stdev_load_sound_model, Device, ModelLoaded, CallbackSet
<1>5. CASE stdev_stop_recognition /\ stdev.recognition_callback = NoThread
  BY <1>1, <1>5 DEF stdev_stop_recognition, stdev_dsp_set_power, Device, ModelLoaded
<1>6. CASE stdev_unload_sound_model /\ stdev.recognition_callback = NoThread
  <2>1. stdev' = [stdev EXCEPT !.is_streaming = FALSE, !.power = FALSE, !.model_handle = 0,
                    !.config = "none"]
    BY <1>1, <1>6 DEF stdev_unload_sound_model, stdev_dsp_set_power, Device
  <2>f. /\ stdev' \in Device /\ stdev'.model_handle = 0 /\ stdev'.pcm = stdev.pcm
        /\ stdev'.recognition_callback = stdev.recognition_callback
        /\ stdev'.callback_thread = stdev.callback_thread /\ ~ stdev'.is_streaming
    BY <1>1, <2>1 DEF Device
  <2>u. UNCHANGED <<thread, client, reader, stopped, pcm_opens>> BY <1>6 DEF stdev_unload_sound_model
  <2> QED BY <1>6, <2>f, <2>u
<1> QED BY <1>2, <1>3, <1>4, <1>5, <1>6

LEMMA QuietKeeps == STInv /\ Quiet => STInv'
<1> SUFFICES ASSUME STInv, Quiet PROVE STInv' OBVIOUS
<1> USE DEF Quiet, NoThread
<1>0. /\ STTypes /\ StartedInOrder /\ OneLiveThread /\ ModelLoaded /\ CallbackSet
      /\ JoinKnows /\ ListensAlone /\ NoLateCallback /\ PcmOwned
  BY DEF STInv, StopReleases
<1>nz. \A t \in Threads : t # 0 BY TriggerAssumption DEF Threads
<1>1. STTypes' BY <1>0 DEF STTypes
<1>2. StartedInOrder' BY <1>0 DEF StartedInOrder
<1>3. OneLiveThread' BY <1>0 DEF OneLiveThread, Live
<1>4. (ModelLoaded /\ CallbackSet /\ JoinKnows)' BY <1>0 DEF ModelLoaded, CallbackSet, JoinKnows
<1>5. ListensAlone' BY <1>0 DEF ListensAlone
<1>6. NoLateCallback' BY <1>0 DEF NoLateCallback
<1>7. PcmOwned' BY <1>0, <1>nz DEF PcmOwned, Closes
<1> QED BY <1>1, <1>2, <1>3, <1>4, <1>5, <1>6, <1>7 DEF STInv, StopReleases

\* What a step of the callback thread t does to the device and to itself.
LEMMA ThreadMoves ==
  ASSUME STInv, NEW t \in Threads, ThreadStep(t)
  PROVE  /\ UNCHANGED <<message, client, reader, stopped>>
         /\ stdev' \in Device /\ pcm_opens' = Closes(stdev')
         /\ stdev'.callback_thread = stdev.callback_thread
         /\ stdev'.model_handle = stdev.model_handle /\ stdev'.opened = stdev.opened
         /\ \/ /\ thread' = [thread EXCEPT ![t] = "done"]
               /\ thread[t] \in {"created", "poll", "callback"}
               /\ stdev'.recognition_callback = NoThread
            \/ /\ thread' = [thread EXCEPT ![t] = "poll"] /\ thread[t] = "created"
               /\ stdev'.recognition_callback = stdev.recognition_callback
               /\ stdev'.pcm = "open" /\ stdev'.power /\ ~ stdev'.is_streaming
            \/ /\ thread' = [thread EXCEPT ![t] = "callback"] /\ thread[t] = "poll"
               /\ stdev'.recognition_callback = stdev.recognition_callback
<1> USE DEF NoThread
<1>0. stdev \in Device /\ ListensAlone /\ pcm_opens = Closes(stdev)
  BY DEF STInv, STTypes, StopReleases, PcmOwned
<1> DEFINE on == [stdev_dsp_set_power(stdev, TRUE) EXCEPT !.sock = t]
           Exits(d) == LET e == [d EXCEPT !.recognition_callback = NoThread, !.sock = NoThread]
                       IN IF d.config = "no_capture" THEN stdev_dsp_set_power(e, FALSE) ELSE e
           Same(d) == d.callback_thread = stdev.callback_thread
                      /\ d.model_handle = stdev.model_handle /\ d.opened = stdev.opened
<1>on. on \in Device /\ Same(on) /\ on.recognition_callback = stdev.recognition_callback
       /\ on.power /\ ~ on.is_streaming /\ on.pcm = stdev.pcm
  BY <1>0 DEF stdev_dsp_set_power, Device
<1>close. pcm_close(stdev) \in Device /\ Same(pcm_close(stdev)) /\ pcm_close(stdev).pcm = "null"
  BY <1>0 DEF pcm_close, Device
<1>ex. ASSUME NEW d \in Device
       PROVE  /\ Exits(d) \in Device /\ (Same(d) => Same(Exits(d))) /\ Exits(d).pcm = d.pcm
              /\ Exits(d).recognition_callback = NoThread
  BY DEF stdev_dsp_set_power, Device
<1>with. ASSUME NEW d, ExitWith(d, t)
         PROVE  /\ stdev' = Exits(d) /\ thread' = [thread EXCEPT ![t] = "done"]
                /\ UNCHANGED <<message, client, reader, stopped>>
  BY <1>with DEF ExitWith
<1>set. ASSUME NEW p \in {"bad", "open"}
        PROVE  /\ [on EXCEPT !.pcm = p] \in Device /\ Same([on EXCEPT !.pcm = p])
               /\ [on EXCEPT !.pcm = p].recognition_callback = stdev.recognition_callback
               /\ [on EXCEPT !.pcm = p].power /\ ~ [on EXCEPT !.pcm = p].is_streaming
               /\ [on EXCEPT !.pcm = p].pcm = p
  BY <1>on DEF Device
<1>1. CASE ThreadStart(t)
  <2>0. thread[t] = "created" /\ stdev.pcm = "null" /\ pcm_opens = 0
    BY <1>0, <1>1 DEF ThreadStart, ListensAlone, Closes
  <2> HIDE DEF on, Exits
  <2>1. CASE ExitWith(stdev, t) /\ UNCHANGED pcm_opens
    BY <2>0, <2>1, <1>0, <1>with, <1>ex DEF Closes
  <2>2. CASE ExitWith([on EXCEPT !.pcm = "bad"], t) /\ UNCHANGED pcm_opens
    <3>1. stdev' = Exits([on EXCEPT !.pcm = "bad"]) BY <2>2, <1>with
    <3> QED BY <2>0, <2>2, <3>1, <1>set, <1>with, <1>ex DEF Closes
  <2>3. CASE ExitWith([on EXCEPT !.pcm = "open"], t) /\ pcm_opens' = pcm_opens + 1
    <3>1. stdev' = Exits([on EXCEPT !.pcm = "open"]) BY <2>3, <1>with
    <3>2. /\ stdev' \in Device /\ Same(stdev') /\ stdev'.pcm = "open"
          /\ stdev'.recognition_callback = NoThread
      BY <3>1, <1>set, <1>ex
    <3> QED BY <2>0, <2>3, <3>2, <1>with DEF Closes
  <2>4. CASE /\ stdev' = [on EXCEPT !.pcm = "open"]
             /\ pcm_opens' = pcm_opens + 1
             /\ thread' = [thread EXCEPT ![t] = "poll"]
             /\ UNCHANGED <<message, client, reader, stopped>>
    BY <2>0, <2>4, <1>set DEF Closes
  <2>5. \/ ExitWith(stdev, t) /\ UNCHANGED pcm_opens
        \/ ExitWith([on EXCEPT !.pcm = "bad"], t) /\ UNCHANGED pcm_opens
        \/ ExitWith([on EXCEPT !.pcm = "open"], t) /\ pcm_opens' = pcm_opens + 1
        \/ /\ stdev' = [on EXCEPT !.pcm = "open"]
           /\ pcm_opens' = pcm_opens + 1
           /\ thread' = [thread EXCEPT ![t] = "poll"]
           /\ UNCHANGED <<message, client, reader, stopped>>
    BY <1>1, Zenon DEF ThreadStart, on
  <2> QED BY <2>1, <2>2, <2>3, <2>4, <2>5
<1>2. CASE ExitWith(pcm_close(stdev), t) /\ pcm_opens' = pcm_opens - Closes(stdev)
           /\ thread[t] = "poll"
  <2>1. stdev' = Exits(pcm_close(stdev)) BY <1>2, <1>with
  <2> HIDE DEF Exits
  <2> QED BY <1>0, <1>2, <2>1, <1>close, <1>with, <1>ex DEF Closes
<1>3. CASE Detect(t)
  <2>1. CASE /\ stdev' = [stdev EXCEPT !.is_streaming = TRUE]
             /\ thread' = [thread EXCEPT ![t] = "callback"]
             /\ UNCHANGED <<message, client, reader, stopped, pcm_opens>>
    BY <1>0, <1>3, <2>1 DEF Detect, Device, Closes
  <2> QED BY <2>1, <1>2, <1>3 DEF Detect
<1>4. CASE CallbackReturns(t)
  <2> HIDE DEF Exits
  <2> QED BY <1>0, <1>4, <1>with, <1>ex DEF CallbackReturns, Closes
<1>5. CASE Terminated(t) BY <1>2, <1>5 DEF Terminated
<1> QED BY <1>1, <1>3, <1>4, <1>5 DEF ThreadStep

LEMMA STStep ==
  ASSUME "overlap" \notin TriggerEnv, STInv, [STNext]_stvars
  PROVE  STInv'
<1> USE DEF STMay, NoThread
<1>0. /\ STTypes /\ StartedInOrder /\ OneLiveThread /\ ModelLoaded /\ CallbackSet
      /\ JoinKnows /\ ListensAlone /\ NoLateCallback /\ PcmOwned
  BY DEF STInv, StopReleases
<1>nz. \A t \in Threads : t # 0 BY TriggerAssumption DEF Threads
<1>nat. Recognitions \in Nat BY TriggerAssumption
<1>1. CASE \/ stdev_open \/ stdev_close \/ stdev_load_sound_model
           \/ /\ stdev_stop_recognition \/ stdev_unload_sound_model
              /\ stdev.recognition_callback = NoThread
  BY <1>1, QuietCalls, QuietKeeps
<1>2. CASE stdev_start_recognition
  <2> DEFINE n == NextThread
  <2>0. n \in Threads /\ thread[n] = "none"
        /\ \A t \in Threads : thread[t] # "none" <=> t <= n - 1
    BY <1>0, <1>2, NextIsNew DEF stdev_start_recognition
  <2>a. /\ Idle /\ stdev.model_handle = 1 /\ stdev.recognition_callback = NoThread
        /\ reader = "closed"
        /\ \E config \in {"none", "capture", "no_capture"} :
             stdev' = [stdev_dsp_set_power(pcm_close(stdev), FALSE) EXCEPT
                         !.config = config, !.recognition_callback = n, !.callback_thread = n]
        /\ pcm_opens' = pcm_opens - Closes(stdev)
        /\ thread' = [thread EXCEPT ![n] = "created"]
        /\ UNCHANGED <<message, client, reader, stopped>>
    BY <1>2 DEF stdev_start_recognition
  <2> HIDE DEF n
  <2>b. /\ stdev' \in Device
        /\ stdev'.opened = stdev.opened /\ stdev'.model_handle = 1
        /\ stdev'.recognition_callback = n /\ stdev'.callback_thread = n
        /\ stdev'.pcm = "null" /\ ~ stdev'.is_streaming
    BY <2>a, <2>0, <1>0 DEF STTypes, Device, stdev_dsp_set_power, pcm_close
  <2>c. pcm_opens' = 0 BY <2>a, <1>0 DEF PcmOwned, Closes
  <2>d. \A t \in Threads : ~ Live(t)
    BY <2>a, <1>0, <1>nz DEF OneLiveThread, Idle, Joining
  <2>1. STTypes' BY <1>0, <2>0, <2>a, <2>b, <2>c DEF STTypes, ThreadStates
  <2>2. StartedInOrder'
    <3>1. n \in 0..Recognitions /\ \A t \in Threads : thread'[t] # "none" <=> t <= n
      BY <2>0, <2>a, <1>0, <1>nat DEF STTypes, Threads
    <3> QED BY <3>1 DEF StartedInOrder
  <2>3. OneLiveThread' BY <1>0, <2>a, <2>b, <2>d DEF STTypes, OneLiveThread, Live
  <2>4. (ModelLoaded /\ CallbackSet /\ JoinKnows)'
    BY <1>0, <2>0, <2>a, <2>b DEF ModelLoaded, CallbackSet, JoinKnows, Idle
  <2>5. ListensAlone' BY <1>0, <2>a, <2>b, <2>d DEF STTypes, ListensAlone, Live
  <2>6. NoLateCallback' BY <1>0, <2>0, <2>a DEF STTypes, NoLateCallback
  <2>7. PcmOwned' BY <1>0, <2>a, <2>b, <2>c, <2>d DEF STTypes, PcmOwned, Closes, Live
  <2> QED BY <2>1, <2>2, <2>3, <2>4, <2>5, <2>6, <2>7 DEF STInv, StopReleases
<1>3. ASSUME NEW next \in Joining, Idle, stdev.recognition_callback # NoThread, Terminate(next)
      PROVE  STInv'
  <2>a. /\ stdev' \in Device /\ stdev'.recognition_callback = NoThread
        /\ stdev'.callback_thread = stdev.callback_thread
        /\ stdev'.pcm = stdev.pcm /\ stdev'.is_streaming = stdev.is_streaming
        /\ stdev'.opened = stdev.opened /\ stdev'.model_handle \in {0, stdev.model_handle}
        /\ client' \in Joining
        /\ UNCHANGED <<thread, reader, stopped, pcm_opens>>
    BY <1>0, <1>3 DEF Terminate, STTypes, Device
  <2>1. STTypes' BY <1>0, <2>a DEF STTypes
  <2>2. StartedInOrder' BY <1>0, <2>a DEF StartedInOrder
  <2>3. OneLiveThread' BY <1>0, <2>a DEF OneLiveThread, Live
  <2>4. (ModelLoaded /\ CallbackSet /\ JoinKnows)'
    BY <1>0, <1>3, <2>a DEF STTypes, Device, ModelLoaded, CallbackSet, JoinKnows, Joining
  <2>5. ListensAlone' BY <1>0, <2>a DEF ListensAlone
  <2>6. NoLateCallback' BY <1>0, <2>a DEF NoLateCallback
  <2>7. PcmOwned' BY <1>0, <1>nz, <2>a DEF PcmOwned, Closes
  <2> QED BY <2>1, <2>2, <2>3, <2>4, <2>5, <2>6, <2>7 DEF STInv, StopReleases
<1>4. CASE ClientStep
  <2>a. /\ stdev' \in Device /\ stdev.recognition_callback = NoThread
        /\ stdev'.recognition_callback = NoThread
        /\ stdev'.callback_thread = stdev.callback_thread
        /\ thread[stdev.callback_thread] = "done" /\ stdev.callback_thread \in Threads
        /\ stdev'.is_streaming => stdev.is_streaming
        /\ stdev'.opened = stdev.opened /\ stdev'.model_handle = stdev.model_handle
        /\ pcm_opens' = Closes(stdev')
        /\ client # "idle" /\ client' \in {"close_pcm", "finish", "idle"}
        /\ stopped' \in {stopped, stopped \cup {stdev.callback_thread}}
        /\ UNCHANGED <<thread, reader>>
    <3>1. CASE Join
      BY <1>0, <3>1 DEF Join, STTypes, Device, JoinKnows, CallbackSet, PcmOwned, Joining
    <3>2. CASE StopClosesPcm
      BY <1>0, <3>2 DEF StopClosesPcm, pcm_close, STTypes, Device, JoinKnows, CallbackSet,
         PcmOwned, Closes
    <3>3. CASE FinishStop
      BY <1>0, <3>3 DEF FinishStop, stdev_dsp_set_power, STTypes, Device, JoinKnows, CallbackSet,
         PcmOwned, Closes
    <3> QED BY <1>4, <3>1, <3>2, <3>3 DEF ClientStep
  <2>b. stdev'.pcm = stdev.pcm \/ stdev'.pcm = "null"
    BY <1>0, <1>4 DEF ClientStep, Join, StopClosesPcm, FinishStop, pcm_close,
       stdev_dsp_set_power, STTypes, Device
  <2>c. \A t \in Threads : ~ Live(t)
    BY <1>0, <1>nz, <2>a DEF OneLiveThread, Live
  <2>1. STTypes'
    BY <1>0, <2>a DEF STTypes, Closes
  <2>2. StartedInOrder' BY <1>0, <2>a DEF StartedInOrder
  <2>3. OneLiveThread' BY <2>a, <2>c DEF OneLiveThread, Live
  <2>4. (ModelLoaded /\ CallbackSet /\ JoinKnows)'
    BY <1>0, <2>a DEF ModelLoaded, CallbackSet, JoinKnows, Joining
  <2>5. ListensAlone' BY <2>a, <2>c DEF ListensAlone, Live
  <2>6. NoLateCallback' BY <1>0, <2>a DEF NoLateCallback
  <2>7. PcmOwned' BY <2>a, <2>c DEF PcmOwned, Live
  <2> QED BY <2>1, <2>2, <2>3, <2>4, <2>5, <2>6, <2>7 DEF STInv, StopReleases
<1>5. ASSUME NEW t \in Threads, ThreadStep(t) PROVE STInv'
  <2>a. /\ UNCHANGED <<message, client, reader, stopped>>
        /\ stdev' \in Device /\ pcm_opens' = Closes(stdev')
        /\ stdev'.callback_thread = stdev.callback_thread
        /\ stdev'.model_handle = stdev.model_handle /\ stdev'.opened = stdev.opened
        /\ \/ /\ thread' = [thread EXCEPT ![t] = "done"]
              /\ thread[t] \in {"created", "poll", "callback"}
              /\ stdev'.recognition_callback = NoThread
           \/ /\ thread' = [thread EXCEPT ![t] = "poll"] /\ thread[t] = "created"
              /\ stdev'.recognition_callback = stdev.recognition_callback
              /\ stdev'.pcm = "open" /\ stdev'.power /\ ~ stdev'.is_streaming
           \/ /\ thread' = [thread EXCEPT ![t] = "callback"] /\ thread[t] = "poll"
              /\ stdev'.recognition_callback = stdev.recognition_callback
    BY <1>5, ThreadMoves
  <2>0. /\ Live(t)
        /\ \A s \in Threads \ {t} : ~ Live(s)
        /\ stdev.callback_thread = t
        /\ client = "idle" \/ client \in Joining
    BY <1>0, <1>nz, <2>a DEF Live, OneLiveThread, CallbackSet
  <2>1. STTypes'
    <3>1. Closes(stdev') \in Nat BY DEF Closes
    <3> QED BY <1>0, <2>a, <3>1 DEF STTypes, ThreadStates
  <2>2. StartedInOrder' BY <1>0, <2>a DEF STTypes, StartedInOrder
  <2>3. OneLiveThread' BY <1>0, <2>0, <2>a DEF STTypes, OneLiveThread, Live
  <2>4. (ModelLoaded /\ CallbackSet)' BY <1>0, <2>a DEF ModelLoaded, CallbackSet
  <2>5. JoinKnows' BY <1>0, <2>0, <2>a DEF STTypes, JoinKnows, Joining
  <2>6. ListensAlone' BY <1>0, <2>0, <2>a DEF STTypes, ListensAlone, Live
  <2>7. NoLateCallback' BY <1>0, <2>0, <2>a DEF STTypes, NoLateCallback, Live
  <2>8. PcmOwned'
    <3>1. ASSUME NEW s \in Threads, thread'[s] = "poll"
          PROVE  stdev'.power /\ stdev'.pcm = "open"
      BY <3>1, <1>0, <2>0, <2>a DEF STTypes, Live
    <3> QED BY <3>1, <2>a DEF PcmOwned
  <2> QED BY <2>1, <2>2, <2>3, <2>4, <2>5, <2>6, <2>7, <2>8 DEF STInv, StopReleases
<1>6. CASE \/ sound_trigger_open_for_streaming \/ sound_trigger_read_samples
           \/ CloseBegin \/ sound_trigger_close_for_streaming
  <2> USE <1>6 DEF sound_trigger_open_for_streaming, sound_trigger_read_samples,
        CloseBegin, sound_trigger_close_for_streaming, pcm_close
  <2>0. UNCHANGED <<thread, client, stopped>> OBVIOUS
  <2>1. STTypes' BY <1>0 DEF STTypes, Device, PcmOwned, Closes
  <2>2. StartedInOrder' BY <2>0, <1>0 DEF StartedInOrder
  <2>3. (OneLiveThread /\ ModelLoaded /\ CallbackSet /\ JoinKnows)'
    BY <1>0 DEF STTypes, Device, OneLiveThread, Live, ModelLoaded, CallbackSet, JoinKnows
  <2>4. ListensAlone' BY <1>0 DEF STTypes, Device, ListensAlone
  <2>5. NoLateCallback' BY <2>0, <1>0 DEF NoLateCallback
  <2>6. PcmOwned' BY <1>0 DEF STTypes, Device, PcmOwned, Closes, ListensAlone
  <2> QED BY <2>1, <2>2, <2>3, <2>4, <2>5, <2>6 DEF STInv, StopReleases
<1>7. CASE UNCHANGED stvars
  BY <1>7, <1>0 DEF stvars, STInv, STTypes, StartedInOrder, OneLiveThread, Live, ModelLoaded,
     CallbackSet, JoinKnows, ListensAlone, StopReleases, NoLateCallback, PcmOwned, Closes
<1> QED
  BY <1>1, <1>2, <1>3, <1>4, <1>5, <1>6, <1>7
  DEF STNext, stdev_stop_recognition, stdev_unload_sound_model, Joining

(***************************************************************************)
(* stop_recognition and unload_sound_model return only when the callback   *)
(* thread they stop is over, and no PCM handle is ever lost (StopReleases  *)
(* of sound_trigger_hw.c), for any number of recognitions and whatever     *)
(* fails, as long as the audio HAL closes a hotword stream before the next *)
(* recognition starts.                                                     *)
(***************************************************************************)
THEOREM StopReleased ==
  ASSUME "overlap" \notin TriggerEnv
  PROVE  STSpec => []StopReleases
<1>1. STInv /\ [STNext]_stvars => STInv' BY STStep
<1>2. STInv => StopReleases BY DEF STInv
<1> QED BY STInitial, <1>1, <1>2, PTL DEF STSpec
-----------------------------------------------------------------------------
(* The Bluetooth HCI                                                       *)

BtTypes ==
  /\ iface \in {"none", "open", "broken", "closing"}
  /\ complete_cb \in BOOLEAN /\ completions \in {0, 1}
  /\ internal_command \in [cb : {"none", "config", "lpm"}, opcode : 0..SleepMode]
  /\ configured \in 0..FwCommands
  /\ uart \in Seq(1..HostCommand)
  /\ lpm \in BOOLEAN /\ lpm_timeout_ms \in BOOLEAN
  /\ lpm_wake_deasserted \in BOOLEAN /\ recent_activity_flag \in BOOLEAN
  /\ lpm_wake \in BOOLEAN /\ timer \in BOOLEAN
  /\ stack \in {"rest", "check", "write"}
  /\ watcher \in {"rest", "enable", "deassert", "disarm"}

\* The watcher runs only between open and close, the stack sends only to a
\* controller that is configured, and the end of the configuration has been
\* reported once its last callback is gone.
BtPhases ==
  /\ iface \in {"none", "broken"} => watcher = "rest"
  /\ stack # "rest" => iface = "open" /\ completions = 1
  /\ iface \in {"open", "closing"} /\ complete_cb => completions = 0
  /\ iface = "open" /\ internal_command.cb = "config" => complete_cb

BtBase == BtTypes /\ BtPhases

LEMMA BtBaseInitial == BtInit => BtBase
<1> SUFFICES ASSUME BtInit PROVE BtBase OBVIOUS
<1>1. /\ NoCommand \in [cb : {"none", "config", "lpm"}, opcode : 0..SleepMode]
      /\ 0 \in 0..FwCommands /\ <<>> \in Seq(1..HostCommand)
  BY BtAssumption DEF NoCommand, SleepMode, HostCommand
<1>2. BtTypes BY <1>1 DEF BtInit, BtTypes
<1>3. BtPhases BY DEF BtInit, BtPhases, NoCommand
<1> QED BY <1>2, <1>3 DEF BtBase

\* A command of the library, as it is left on the UART and in the device.
LEMMA Transmitted ==
  ASSUME BtTypes, NEW cb \in {"config", "lpm"}, NEW op \in 1..SleepMode,
         NEW read \in Seq(1..HostCommand), transmit_cb(cb, op, read)
  PROVE  /\ internal_command' \in [cb : {"none", "config", "lpm"}, opcode : 0..SleepMode]
         /\ internal_command'.cb = cb /\ internal_command'.opcode = op
         /\ uart' = Append(read, op) /\ uart' \in Seq(1..HostCommand)
         /\ recent_activity_flag' = TRUE /\ lpm_wake_deasserted' = FALSE
         /\ lpm_wake' \in BOOLEAN /\ timer' \in BOOLEAN
         /\ lpm_wake' = (lpm_wake \/ lpm_wake_deasserted)
<1> USE BtAssumption DEF SleepMode, HostCommand
<1>1. Append(read, op) \in Seq(1..HostCommand) OBVIOUS
<1>2. internal_command' = [cb |-> cb, opcode |-> op] /\ uart' = Append(read, op)
  BY DEF transmit_cb
<1>3. lpm_wake' \in BOOLEAN /\ timer' \in BOOLEAN BY DEF transmit_cb, AssertWake, BtTypes
<1> QED BY <1>1, <1>2, <1>3 DEF transmit_cb, AssertWake

\* What an answer of the controller does: the stack gets it, the library sends
\* its next command, ends the configuration or ends its command.
LEMMA EventCases ==
  ASSUME BtBase, HandleIncomingEvent
  PROVE  /\ Watching /\ uart # <<>>
         /\ UNCHANGED <<iface, lpm, lpm_timeout_ms, stack>>
         /\ \/ /\ ~ (internal_command.cb # "none" /\ internal_command_event_match(Head(uart)))
               /\ to_stack' = to_stack \cup {Head(uart)} /\ uart' = Tail(uart)
               /\ UNCHANGED <<configured, internal_command, watcher, complete_cb, completions, power>>
            \/ /\ internal_command_event_match(Head(uart))
               /\ internal_command.cb = "config" /\ configured + 1 < FwCommands
               /\ configured' = configured + 1
               /\ transmit_cb("config", configured + 2, Tail(uart))
               /\ UNCHANGED <<watcher, complete_cb, completions, to_stack>>
            \/ /\ internal_command_event_match(Head(uart))
               /\ internal_command.cb = "config" /\ configured' = FwCommands
               /\ internal_command' = [internal_command EXCEPT !.cb = "none"]
               /\ uart' = Tail(uart)
               /\ completions' = IF complete_cb THEN completions + 1 ELSE completions
               /\ complete_cb' = FALSE /\ watcher' = "enable"
               /\ UNCHANGED <<power, to_stack>>
            \/ /\ internal_command_event_match(Head(uart))
               /\ internal_command.cb = "lpm"
               /\ internal_command' = [internal_command EXCEPT !.cb = "none"]
               /\ uart' = Tail(uart)
               /\ UNCHANGED <<configured, watcher, complete_cb, completions, power, to_stack>>
  BY Zenon DEF HandleIncomingEvent, LibraryCallback

LEMMA BtBaseStep == BtBase /\ [BtNext]_btvars => BtBase'
<1> SUFFICES ASSUME BtBase, [BtNext]_btvars PROVE BtBase' OBVIOUS
<1> USE BtAssumption DEF power
<1>0. BtTypes /\ BtPhases BY DEF BtBase
<1>1. CASE InitializeFails BY <1>0, <1>1 DEF InitializeFails, BtBase, BtTypes, BtPhases
<1>2. CASE initialize
  <2>1. <<1>> \in Seq(1..HostCommand) BY DEF HostCommand
  <2>2. [cb |-> "config", opcode |-> 1] \in [cb : {"none", "config", "lpm"}, opcode : 0..SleepMode]
    BY DEF SleepMode
  <2>0. 0 \in 0..FwCommands OBVIOUS
  <2>3. BtTypes'
    <3>1. uart' \in Seq(1..HostCommand) BY <1>2, <2>1 DEF initialize
    <3>2. internal_command' \in [cb : {"none", "config", "lpm"}, opcode : 0..SleepMode]
      BY <1>2, <2>2 DEF initialize
    <3> QED BY <1>0, <1>2, <2>0, <3>1, <3>2 DEF initialize, BtTypes
  <2>4. BtPhases' BY <1>0, <1>2 DEF initialize, BtPhases
  <2> QED BY <2>3, <2>4 DEF BtBase
<1>3. CASE StackSends
  <2>1. uart' \in {uart, Append(uart, HostCommand)}
    BY <1>3 DEF StackSends, Send
  <2>2. uart' \in Seq(1..HostCommand)
    <3>1. HostCommand \in 1..HostCommand BY DEF HostCommand
    <3>2. Append(uart, HostCommand) \in Seq(1..HostCommand)
      <4> HIDE DEF HostCommand
      <4> QED BY <1>0, <3>1 DEF BtTypes
    <3> QED BY <1>0, <2>1, <3>2 DEF BtTypes
  <2>3. /\ UNCHANGED <<iface, complete_cb, completions, internal_command, configured, lpm,
                       lpm_timeout_ms, watcher>>
        /\ stack' # "rest" => iface = "open" /\ completions = 1
        /\ stack' \in {"rest", "check", "write"}
    <3>1. CASE stack = "rest" /\ Ready /\ stack' = "check"
      BY <1>0, <1>3, <3>1 DEF StackSends, Ready, BtTypes
    <3>2. CASE stack # "rest" /\ stack' \in {"write", "rest"}
      BY <1>0, <1>3, <3>2 DEF StackSends, BtPhases
    <3> QED BY <1>3, <3>1, <3>2 DEF StackSends, Send
  <2>4. /\ lpm_wake_deasserted' \in BOOLEAN /\ recent_activity_flag' \in BOOLEAN
        /\ lpm_wake' \in BOOLEAN /\ timer' \in BOOLEAN
    BY <1>0, <1>3 DEF StackSends, Send, BtTypes
  <2> QED BY <1>0, <2>2, <2>3, <2>4 DEF BtBase, BtTypes, BtPhases
<1>4. CASE close
  <2>1. CASE "close" \in BtEnv /\ iface = "open"
    <3>1. transmit_cb("lpm", SleepMode, uart) BY <1>4, <2>1 DEF close
    <3>2. SleepMode \in 1..SleepMode BY DEF SleepMode
    <3> QED BY <1>0, <1>4, <2>1, <3>1, <3>2, Transmitted DEF close, BtBase, BtTypes, BtPhases
  <2>2. CASE ~ ("close" \in BtEnv /\ iface = "open")
    BY <1>0, <1>4, <2>2 DEF close, BtBase, BtTypes, BtPhases
  <2> QED BY <2>1, <2>2
<1>5. CASE StopWatching
  <2>1. <<>> \in Seq(1..HostCommand) OBVIOUS
  <2> QED BY <1>0, <1>5, <2>1 DEF StopWatching, BtBase, BtTypes, BtPhases
<1>6. CASE HandleIncomingEvent
  <2>0. Tail(uart) \in Seq(1..HostCommand)
    BY <1>0, <1>6 DEF HandleIncomingEvent, BtTypes
  <2>1. CASE internal_command.cb = "config" /\ configured + 1 < FwCommands
             /\ configured' = configured + 1
             /\ transmit_cb("config", configured + 2, Tail(uart))
             /\ UNCHANGED <<watcher, complete_cb, completions>>
    <3>1. configured + 2 \in 1..SleepMode /\ configured + 1 \in 0..FwCommands
      BY <1>0, <2>1 DEF BtTypes, SleepMode
    <3> HIDE DEF power
    <3>2. UNCHANGED <<iface, lpm, lpm_timeout_ms, stack>> BY <1>6, EventCases
    <3>3. BtTypes' BY <1>0, <2>0, <2>1, <3>1, <3>2, Transmitted DEF BtTypes
    <3>4. BtPhases' BY <1>0, <2>0, <2>1, <3>1, <3>2, Transmitted DEF BtPhases
    <3> QED BY <3>3, <3>4 DEF BtBase
  <2>2. CASE /\ uart' = Tail(uart)
             /\ internal_command' \in {internal_command, [internal_command EXCEPT !.cb = "none"]}
             /\ UNCHANGED <<configured, watcher, complete_cb, completions, power>>
    <3>1. UNCHANGED <<iface, lpm, lpm_timeout_ms, stack>> BY <1>6, EventCases
    <3>2. /\ internal_command' \in [cb : {"none", "config", "lpm"}, opcode : 0..SleepMode]
          /\ internal_command'.cb \in {internal_command.cb, "none"}
      BY <1>0, <2>2 DEF BtTypes
    <3>3. BtTypes' BY <1>0, <2>0, <2>2, <3>1, <3>2 DEF BtTypes
    <3>4. BtPhases' BY <1>0, <2>2, <3>1, <3>2 DEF BtPhases
    <3> QED BY <3>3, <3>4 DEF BtBase
  <2>3. CASE /\ configured' = FwCommands
             /\ internal_command' = [internal_command EXCEPT !.cb = "none"]
             /\ uart' = Tail(uart)
             /\ completions' = IF complete_cb THEN completions + 1 ELSE completions
             /\ complete_cb' = FALSE /\ watcher' = "enable"
             /\ UNCHANGED power
    <3>1. iface \in {"open", "closing"} /\ UNCHANGED <<iface, lpm, lpm_timeout_ms, stack>>
      BY <1>6, EventCases DEF Watching
    <3>2. completions' \in {0, 1} /\ (completions = 1 => completions' = 1)
      BY <1>0, <2>3, <3>1 DEF BtTypes, BtPhases
    <3>a. /\ internal_command' \in [cb : {"none", "config", "lpm"}, opcode : 0..SleepMode]
          /\ configured' \in 0..FwCommands
      BY <1>0, <2>3 DEF BtTypes
    <3>3. BtTypes' BY <1>0, <2>0, <2>3, <3>1, <3>2, <3>a DEF BtTypes
    <3>4. BtPhases' BY <1>0, <2>3, <3>1, <3>2 DEF BtTypes, BtPhases
    <3> QED BY <3>3, <3>4 DEF BtBase
  <2> HIDE DEF power
  <2> QED BY <1>6, <2>1, <2>2, <2>3, EventCases
<1>7. CASE EnableLowPower
  <2>1. Append(uart, SleepMode) \in Seq(1..HostCommand)
    BY <1>0 DEF BtTypes, SleepMode, HostCommand
  <2>2. [cb |-> "lpm", opcode |-> SleepMode] \in
          [cb : {"none", "config", "lpm"}, opcode : 0..SleepMode]
    BY DEF SleepMode
  <2>3. BtTypes' BY <1>0, <1>7, <2>1, <2>2 DEF EnableLowPower, BtTypes
  <2>4. BtPhases'
    <3>1. /\ UNCHANGED <<iface, stack, completions, complete_cb>> /\ watcher' = "rest"
          /\ internal_command' = internal_command \/ internal_command'.cb = "lpm"
      <4>1. CASE "lpm" \in BtEnv BY <1>7, <4>1 DEF EnableLowPower
      <4>2. CASE "lpm" \notin BtEnv BY <1>7, <4>2 DEF EnableLowPower
      <4> QED BY <4>1, <4>2
    <3> QED BY <1>0, <3>1 DEF BtPhases
  <2> QED BY <2>3, <2>4 DEF BtBase
<1>8. CASE OnTimeout
  <2>1. /\ UNCHANGED <<iface, complete_cb, completions, internal_command, configured, uart,
                       lpm, lpm_timeout_ms, stack>>
        /\ watcher' \in {"rest", "deassert", "disarm"}
        /\ watcher' # "rest" => watcher # "rest" \/ Watching
    BY <1>8 DEF OnTimeout
  <2>2. /\ lpm_wake_deasserted' \in BOOLEAN /\ recent_activity_flag' \in BOOLEAN
        /\ lpm_wake' \in BOOLEAN /\ timer' \in BOOLEAN
    BY <1>0, <1>8 DEF OnTimeout, BtTypes
  <2>3. BtTypes' BY <1>0, <2>1, <2>2 DEF BtTypes
  <2>4. BtPhases' BY <1>0, <2>1 DEF BtPhases, Watching
  <2> QED BY <2>3, <2>4 DEF BtBase
<1>9. CASE UNCHANGED btvars BY <1>0, <1>9 DEF btvars, BtBase, BtTypes, BtPhases
<1> QED BY <1>1, <1>2, <1>3, <1>4, <1>5, <1>6, <1>7, <1>8, <1>9 DEF BtNext
\* Of the answers on the UART at most one is not for the stack, and it is the
\* one whose callback is registered.
OneAnswer ==
  /\ \A i \in 1..Len(uart) : uart[i] # HostCommand =>
       internal_command.cb # "none" /\ uart[i] = internal_command.opcode
  /\ \A i, j \in 1..Len(uart) : uart[i] # HostCommand /\ uart[j] # HostCommand => i = j

\* No callback is registered when the library is about to switch the mode.
SwitchFree == watcher = "enable" => internal_command.cb = "none"

EventInv ==
  /\ BtBase /\ OneAnswer /\ SwitchFree
  /\ to_stack \subseteq {HostCommand}

LEMMA EventInitial == BtInit => EventInv
<1> SUFFICES ASSUME BtInit PROVE EventInv OBVIOUS
<1>1. OneAnswer BY DEF BtInit, OneAnswer
<1> QED BY BtBaseInitial, <1>1 DEF EventInv, BtInit, SwitchFree, NoCommand

\* The only answer that is not for the stack has been read: the next command
\* of the library may be sent.
LEMMA AnswerRead ==
  ASSUME BtTypes, OneAnswer, uart # <<>>, internal_command_event_match(Head(uart))
  PROVE  /\ Tail(uart) \in Seq(1..HostCommand)
         /\ \A i \in 1..Len(Tail(uart)) : Tail(uart)[i] = HostCommand
<1>1. uart \in Seq(1..HostCommand) /\ Len(uart) \in Nat \ {0} /\ uart[1] = Head(uart)
  BY DEF BtTypes
<1>2. uart[1] # HostCommand
  BY <1>1, BtAssumption DEF BtTypes, internal_command_event_match, SleepMode, HostCommand
<1>3. \A i \in 1..Len(uart) : i # 1 => uart[i] = HostCommand
  BY <1>1, <1>2 DEF OneAnswer
<1>4. Len(Tail(uart)) = Len(uart) - 1 /\ Tail(uart) \in Seq(1..HostCommand)
      /\ \A i \in 1..Len(Tail(uart)) : Tail(uart)[i] = uart[i + 1]
  BY <1>1
<1> QED BY <1>1, <1>3, <1>4

\* A command behind answers that are all for the stack.
LEMMA OneMore ==
  ASSUME NEW s \in Seq(1..HostCommand), \A i \in 1..Len(s) : s[i] = HostCommand,
         NEW op \in 1..SleepMode, uart' = Append(s, op),
         internal_command'.cb # "none", internal_command'.opcode = op
  PROVE  OneAnswer'
<1>0. op \in 1..HostCommand BY BtAssumption DEF SleepMode, HostCommand
<1>1. /\ Len(uart') = Len(s) + 1 /\ uart'[Len(s) + 1] = op
      /\ \A i \in 1..Len(s) : uart'[i] = s[i]
  <2> HIDE DEF HostCommand
  <2> QED BY <1>0
<1>2. \A i \in 1..Len(uart') : i # Len(s) + 1 => uart'[i] = HostCommand
  BY <1>1
<1> QED BY <1>1, <1>2 DEF OneAnswer

LEMMA EventStep ==
  ASSUME "close" \notin BtEnv, EventInv, [BtNext]_btvars
  PROVE  EventInv'
<1>b. BtBase' BY BtBaseStep DEF EventInv
<1>0. BtBase /\ BtTypes /\ BtPhases /\ OneAnswer /\ SwitchFree /\ to_stack \subseteq {HostCommand}
  BY DEF EventInv, BtBase
<1>u. ASSUME UNCHANGED <<uart, internal_command>> PROVE OneAnswer' BY <1>0, <1>u DEF OneAnswer
<1>1. CASE \/ InitializeFails \/ close \/ OnTimeout \/ UNCHANGED btvars
  <2>1. UNCHANGED <<uart, internal_command>> /\ to_stack' \in {to_stack, {}}
        /\ (watcher' = "enable" => watcher = "enable")
    BY <1>1 DEF InitializeFails, close, OnTimeout, btvars
  <2> QED BY <1>b, <1>0, <1>u, <2>1 DEF EventInv, SwitchFree
<1>2. CASE initialize
  <2>1. /\ uart' = <<1>> /\ internal_command'.cb = "config" /\ internal_command'.opcode = 1
        /\ to_stack' = {} /\ watcher' = watcher /\ watcher = "rest"
    BY <1>0, <1>2 DEF initialize, BtPhases
  <2>2. OneAnswer' BY <2>1 DEF OneAnswer
  <2> QED BY <1>b, <2>1, <2>2 DEF EventInv, SwitchFree
<1>3. CASE StackSends
  <2>1. /\ uart' \in {uart, Append(uart, HostCommand)}
        /\ UNCHANGED <<internal_command, to_stack, watcher>>
    BY <1>3 DEF StackSends, Send
  <2>2. CASE uart' = Append(uart, HostCommand)
    <3>0. HostCommand \in 1..HostCommand BY BtAssumption DEF HostCommand
    <3>1. /\ Len(uart') = Len(uart) + 1 /\ uart'[Len(uart) + 1] = HostCommand
          /\ \A i \in 1..Len(uart) : uart'[i] = uart[i]
      <4> HIDE DEF HostCommand
      <4> QED BY <1>0, <2>2, <3>0 DEF BtTypes
    <3>2. \A i \in 1..Len(uart') : i \in 1..Len(uart) \/ i = Len(uart) + 1
      BY <1>0, <3>1 DEF BtTypes
    <3>3. \A i \in 1..Len(uart') : uart'[i] # HostCommand =>
            i \in 1..Len(uart) /\ uart'[i] = uart[i]
      BY <3>1, <3>2
    <3>4. OneAnswer' BY <1>0, <2>1, <3>3 DEF OneAnswer
    <3> QED BY <1>b, <1>0, <2>1, <3>4 DEF EventInv, SwitchFree
  <2> QED BY <1>b, <1>0, <1>u, <2>1, <2>2 DEF EventInv, SwitchFree
<1>5. CASE StopWatching
  <2>1. uart' = <<>> /\ watcher' = "rest" /\ to_stack' = to_stack
    BY <1>5 DEF StopWatching
  <2>2. OneAnswer' BY <2>1 DEF OneAnswer
  <2> QED BY <1>b, <1>0, <2>1, <2>2 DEF EventInv, SwitchFree
<1>6. CASE HandleIncomingEvent
  <2>0. uart # <<>> /\ watcher = "rest" BY <1>0, <1>6, EventCases DEF Watching
  <2>1. CASE /\ ~ (internal_command.cb # "none" /\ internal_command_event_match(Head(uart)))
             /\ to_stack' = to_stack \cup {Head(uart)} /\ uart' = Tail(uart)
             /\ UNCHANGED <<configured, internal_command, watcher, complete_cb, completions, power>>
    <3>1. uart \in Seq(1..HostCommand) /\ Len(uart) \in Nat \ {0} /\ uart[1] = Head(uart)
      BY <1>0, <2>0 DEF BtTypes
    <3>2. Head(uart) = HostCommand
      BY <1>0, <2>1, <3>1 DEF OneAnswer, internal_command_event_match
    <3>3. Len(uart') = Len(uart) - 1 /\ \A i \in 1..Len(uart') : uart'[i] = uart[i + 1]
      BY <2>1, <3>1
    <3>4. \A i \in 1..Len(uart') : i + 1 \in 1..Len(uart) BY <3>1, <3>3
    <3>5. \A i, j \in 1..Len(uart') : i + 1 = j + 1 => i = j BY <3>1, <3>3
    <3>6. OneAnswer' BY <1>0, <2>1, <3>3, <3>4, <3>5 DEF OneAnswer
    <3> QED BY <1>b, <1>0, <2>1, <3>2, <3>6 DEF EventInv, SwitchFree
  <2>2. CASE /\ internal_command_event_match(Head(uart))
             /\ internal_command.cb = "config" /\ configured + 1 < FwCommands
             /\ configured' = configured + 1
             /\ transmit_cb("config", configured + 2, Tail(uart))
             /\ UNCHANGED <<watcher, complete_cb, completions, to_stack>>
    <3>1. configured + 2 \in 1..SleepMode
      BY <1>0, <2>2, BtAssumption DEF BtTypes, SleepMode
    <3>2. OneAnswer'
      BY <1>0, <2>0, <2>2, <3>1, AnswerRead, OneMore, Transmitted
    <3> QED BY <1>b, <1>0, <2>0, <2>2, <3>2 DEF EventInv, SwitchFree
  <2>3. CASE /\ internal_command_event_match(Head(uart))
             /\ internal_command' = [internal_command EXCEPT !.cb = "none"]
             /\ uart' = Tail(uart) /\ to_stack' = to_stack
    <3>1. OneAnswer' BY <1>0, <2>0, <2>3, AnswerRead DEF OneAnswer
    <3>2. internal_command'.cb = "none" BY <1>0, <2>3 DEF BtTypes
    <3> QED BY <1>b, <1>0, <2>3, <3>1, <3>2 DEF EventInv, SwitchFree
  <2> QED BY <1>0, <1>6, <2>1, <2>2, <2>3, EventCases
<1>7. CASE EnableLowPower
  <2>0. watcher = "enable" /\ watcher' = "rest" /\ to_stack' = to_stack
        /\ internal_command.cb = "none"
    BY <1>0, <1>7 DEF EnableLowPower, SwitchFree
  <2>1. \A i \in 1..Len(uart) : uart[i] = HostCommand BY <1>0, <2>0 DEF OneAnswer
  <2>2. CASE "lpm" \in BtEnv
    <3>1. internal_command' = [cb |-> "lpm", opcode |-> SleepMode] /\ uart' = Append(uart, SleepMode)
      BY <1>7, <2>2 DEF EnableLowPower
    <3>2. SleepMode \in 1..SleepMode BY BtAssumption DEF SleepMode
    <3>3. uart \in Seq(1..HostCommand) BY <1>0 DEF BtTypes
    <3>4. OneAnswer' BY <2>1, <3>1, <3>2, <3>3, OneMore
    <3> QED BY <1>b, <1>0, <2>0, <3>4 DEF EventInv, SwitchFree
  <2>3. CASE "lpm" \notin BtEnv
    <3>1. UNCHANGED <<internal_command, uart>> BY <1>7, <2>3 DEF EnableLowPower
    <3> QED BY <1>b, <1>0, <1>u, <2>0, <3>1 DEF EventInv, SwitchFree
  <2> QED BY <2>2, <2>3
<1> QED BY <1>1, <1>2, <1>3, <1>5, <1>6, <1>7 DEF BtNext

(***************************************************************************)
(* No answer to a command of the vendor library reaches the stack, however *)
(* long the chain of commands that its callbacks send, and initialization  *)
(* is reported once (EventsApart of vendor_interface.cc), for any number   *)
(* of configuration commands, opens, failures and packets.  The library    *)
(* sends no command from close: such a command replaces the callback of    *)
(* one that is not answered yet.                                           *)
(***************************************************************************)
THEOREM EventsKeptApart ==
  ASSUME "close" \notin BtEnv
  PROVE  BtSpec => []EventsApart
<1>1. EventInv /\ [BtNext]_btvars => EventInv' BY EventStep
<1>2. EventInv => EventsApart BY DEF EventInv, BtBase, BtTypes, EventsApart
<1> QED BY EventInitial, <1>1, <1>2, PTL DEF BtSpec

\* The stack's thread in Send and the watcher in a timeout exclude each other;
\* the flag says what the wake signal is, and while the controller may sleep
\* the timer runs exactly when wake is asserted, but for the moment in which
\* the timeout takes it back.
WakeInv ==
  /\ BtBase
  /\ stack = "rest" \/ watcher = "rest"
  /\ lpm => lpm_timeout_ms
  /\ iface = "open" => lpm_wake = ~lpm_wake_deasserted
  /\ iface = "open" /\ lpm /\ watcher \in {"rest", "deassert"} => timer = lpm_wake
  /\ iface = "open" /\ watcher = "disarm" => ~ lpm_wake
  /\ stack = "write" => lpm_wake

LEMMA WakeStep ==
  ASSUME "overlap" \notin BtEnv, "lpm" \in BtEnv, WakeInv, [BtNext]_btvars
  PROVE  WakeInv'
<1>b. BtBase' BY BtBaseStep DEF WakeInv
<1>0. BtBase /\ BtTypes /\ BtPhases BY DEF WakeInv, BtBase
<1> USE DEF power
<1>1. CASE InitializeFails
  BY <1>b, <1>0, <1>1 DEF InitializeFails, WakeInv, BtTypes, BtPhases
<1>2. CASE initialize
  BY <1>b, <1>0, <1>2 DEF initialize, WakeInv, BtTypes, BtPhases
<1>3. CASE StackSends
  <2>1. CASE stack = "rest" BY <1>b, <1>0, <1>3, <2>1 DEF StackSends, Send, WakeInv, BtTypes
  <2>2. CASE stack = "check"
    BY <1>b, <1>0, <1>3, <2>2 DEF StackSends, Send, WakeInv, BtTypes, BtPhases
  <2>3. CASE stack = "write"
    BY <1>b, <1>0, <1>3, <2>3 DEF StackSends, Send, WakeInv, BtTypes, BtPhases
  <2> QED BY <1>0, <2>1, <2>2, <2>3 DEF BtTypes
<1>4. CASE close
  BY <1>b, <1>0, <1>4 DEF close, WakeInv, BtTypes, BtPhases
<1>5. CASE StopWatching
  BY <1>b, <1>0, <1>5 DEF StopWatching, WakeInv, BtTypes, BtPhases
<1>6. CASE HandleIncomingEvent
  <2>0. /\ iface \in {"open", "closing"} /\ watcher = "rest"
        /\ UNCHANGED <<iface, lpm, lpm_timeout_ms, stack>>
    BY <1>0, <1>6, EventCases DEF Watching
  <2>1. CASE UNCHANGED <<watcher, power>>
    BY <1>b, <2>0, <2>1 DEF WakeInv
  <2>2. CASE internal_command.cb = "config" /\ UNCHANGED <<power>> /\ watcher' = "enable"
    <3>1. stack = "rest" BY <1>0, <2>0, <2>2 DEF BtPhases, BtTypes
    <3> QED BY <1>b, <2>0, <2>2, <3>1 DEF WakeInv
  <2>3. CASE internal_command.cb = "config" /\ configured + 1 < FwCommands
             /\ transmit_cb("config", configured + 2, Tail(uart)) /\ watcher' = watcher
    <3>1. stack = "rest" BY <1>0, <2>0, <2>3 DEF BtPhases, BtTypes
    <3>2. AssertWake BY <2>3 DEF transmit_cb
    <3> QED BY <1>b, <1>0, <2>0, <2>3, <3>1, <3>2 DEF WakeInv, AssertWake, BtTypes
  <2> HIDE DEF power
  <2> QED BY <1>0, <1>6, <2>1, <2>2, <2>3, EventCases
<1>7. CASE EnableLowPower
  BY <1>b, <1>0, <1>7 DEF EnableLowPower, WakeInv, BtTypes
<1>8. CASE OnTimeout
  <2>0. UNCHANGED <<iface, lpm, lpm_timeout_ms, stack>> BY <1>8 DEF OnTimeout
  <2>1. CASE Watching /\ timer /\ stack = "rest" /\ watcher' \in {"rest", "deassert"}
             /\ UNCHANGED <<lpm_wake_deasserted, lpm_wake, timer>>
    BY <1>b, <1>0, <2>0, <2>1 DEF Watching, WakeInv
  <2>2. CASE /\ watcher = "deassert" /\ lpm_wake_deasserted' = TRUE /\ lpm_wake' = FALSE
             /\ watcher' = "disarm" /\ UNCHANGED <<recent_activity_flag, timer>>
    BY <1>b, <1>0, <2>0, <2>2 DEF WakeInv
  <2>3. CASE /\ watcher = "disarm" /\ timer' = FALSE /\ watcher' = "rest"
             /\ UNCHANGED <<lpm_wake_deasserted, lpm_wake>>
    BY <1>b, <1>0, <2>0, <2>3 DEF WakeInv, BtTypes
  <2> QED BY <1>8, <2>1, <2>2, <2>3 DEF OnTimeout
<1>9. CASE UNCHANGED btvars
  BY <1>b, <1>9 DEF btvars, WakeInv
<1> QED BY <1>1, <1>2, <1>3, <1>4, <1>5, <1>6, <1>7, <1>8, <1>9 DEF BtNext

(***************************************************************************)
(* The wake signal, its flag and the timer agree whenever both threads     *)
(* rest, and no packet leaves with wake deasserted (AwakeTimed of          *)
(* vendor_interface.cc), for any number of commands, opens, failures and   *)
(* packets, when no Send falls into a timeout and the library switches the *)
(* low power mode on with a command of its own.                            *)
(***************************************************************************)
THEOREM WakeIsTimed ==
  ASSUME "overlap" \notin BtEnv, "lpm" \in BtEnv
  PROVE  BtSpec => []AwakeTimed
<1>1. BtInit => WakeInv
  <2> SUFFICES ASSUME BtInit PROVE WakeInv OBVIOUS
  <2> QED BY BtBaseInitial DEF BtInit, WakeInv
<1>2. WakeInv /\ [BtNext]_btvars => WakeInv' BY WakeStep
<1>3. WakeInv => AwakeTimed BY DEF WakeInv, AwakeTimed
<1> QED BY <1>1, <1>2, <1>3, PTL DEF BtSpec
-----------------------------------------------------------------------------
(* The sensor hub                                                          *)

\* Only sensors are flushed.
HubEvents ==
  {e \in [what : {"data", "flush"}, sensor : 0..Sigmo] : e.what = "flush" => e.sensor # Sigmo}

Polls ==
  [pc : {"loop", "events", "one_shot", "wait"}, at : Nat, count : Nat, nbEvents : Nat,
   n : {0}, revents : BOOLEAN, events : Seq(HubEvents), got : Nat, written : SUBSET Nat]

HubTypes ==
  /\ DOMAIN sensor_info \subseteq 0..(CROS_EC_MAX_PHYSICAL_SENSOR - 1)
  /\ gesture_info \in [found : BOOLEAN, enabled : BOOLEAN]
  /\ ring \in Seq(HubEvents)
  /\ poll \in [pc : {"none"}, revents : BOOLEAN] \cup Polls
  /\ unreported \in Int

\* What is read fits in the room that is left, and is counted until the call
\* of poll goes on.
ReadFits ==
  poll.pc # "none" =>
    /\ poll.at + poll.count = EventBufferSize
    /\ poll.got + Len(poll.events) <= poll.count
    /\ poll.written = 0..(poll.at + poll.got - 1)
    /\ poll.pc \in {"loop", "wait"} => poll.got = 0

\* A gesture that is enabled was armed and not reported since, except in the
\* moment between its report and its reset.
ArmedOnce ==
  /\ unreported >= 0
  /\ gesture_info.enabled /\ poll.pc # "one_shot" => unreported >= 1

HubInv == HubTypes /\ ReadFits /\ ArmedOnce

LEMMA HubInitial == SensorInit => HubInv
<1> SUFFICES ASSUME SensorInit PROVE HubInv OBVIOUS
<1>1. DOMAIN sensor_info = {} BY DEF SensorInit
<1>2. poll = [pc |-> "none", revents |-> FALSE] BY DEF SensorInit, NotPolling
<1>3. <<>> \in Seq(HubEvents) OBVIOUS
<1> QED BY <1>1, <1>2, <1>3 DEF SensorInit, HubInv, HubTypes, ReadFits, ArmedOnce

LEMMA HubStep ==
  ASSUME "read" \notin HubEnv, HubInv, [SensorNext]_hubvars
  PROVE  HubInv'
<1> USE DEF HubMay
<1>0. HubTypes /\ ReadFits /\ ArmedOnce BY DEF HubInv
<1>size. EventBufferSize \in Nat BY HubAssumption
<1>1. CASE cros_ec_open_sensors
  <2>1. PICK found \in SUBSET IioDevices :
          /\ sensor_info' = cros_ec_get_sensors_names(found)
          /\ gesture_info' = cros_ec_get_gesture_names(found)
    BY <1>1 DEF cros_ec_open_sensors
  <2>2. DOMAIN sensor_info' \subseteq 0..(CROS_EC_MAX_PHYSICAL_SENSOR - 1)
    BY <2>1, HubAssumption DEF cros_ec_get_sensors_names
  <2>3. gesture_info' \in [found : BOOLEAN, enabled : BOOLEAN] /\ ~ gesture_info'.enabled
    BY <2>1 DEF cros_ec_get_gesture_names
  <2>4. UNCHANGED <<ring, poll, unreported>> BY <1>1 DEF cros_ec_open_sensors
  <2> QED BY <1>0, <2>2, <2>3, <2>4 DEF HubInv, HubTypes, ReadFits, ArmedOnce
<1>2. CASE wrapper_close
  <2>1. DOMAIN sensor_info' = {} BY <1>2 DEF wrapper_close
  <2>2. gesture_info' \in [found : BOOLEAN, enabled : BOOLEAN] /\ ~ gesture_info'.enabled
    BY <1>0, <1>2 DEF wrapper_close, HubTypes
  <2>3. ring' \in Seq(HubEvents) /\ UNCHANGED <<poll, unreported>> BY <1>2 DEF wrapper_close
  <2> QED BY <1>0, <2>1, <2>2, <2>3 DEF HubInv, HubTypes, ReadFits, ArmedOnce
<1>3. CASE ActivateSensor \/ Batch
  <2>1. DOMAIN sensor_info' = DOMAIN sensor_info
    BY <1>3 DEF ActivateSensor, Batch, Activated
  <2>2. UNCHANGED <<gesture_info, ring, poll, unreported>> BY <1>3 DEF ActivateSensor, Batch
  <2> QED BY <1>0, <2>1, <2>2 DEF HubInv, HubTypes, ReadFits, ArmedOnce
<1>4. CASE ActivateGesture
  <2>1. UNCHANGED <<sensor_info, ring, poll>> BY <1>4 DEF ActivateGesture
  <2>2. PICK enabled \in BOOLEAN :
          \/ /\ gesture_info' = [gesture_info EXCEPT !.enabled = enabled]
             /\ unreported' = IF enabled THEN unreported + 1 ELSE unreported
          \/ UNCHANGED <<gesture_info, unreported>>
    BY <1>4 DEF ActivateGesture
  <2>3. (HubTypes /\ ArmedOnce)' BY <1>0, <2>1, <2>2 DEF HubTypes, ArmedOnce
  <2> QED BY <1>0, <2>1, <2>3 DEF HubInv, ReadFits
<1>5. CASE Flush \/ EcEvent
  <2>1. UNCHANGED <<sensor_info, gesture_info, poll, unreported>> BY <1>5 DEF Flush, EcEvent
  <2>2. \E e \in HubEvents : ring' = Append(ring, e)
    <3>1. CASE Flush
      <4>1. PICK h \in DOMAIN sensor_info : ring' = Append(ring, [what |-> "flush", sensor |-> h])
        BY <3>1 DEF Flush
      <4>a. h \in 0..Sigmo /\ h # Sigmo
        <5>1. h \in 0..(CROS_EC_MAX_PHYSICAL_SENSOR - 1) BY <1>0, <4>1 DEF HubTypes
        <5> QED BY <5>1 DEF Sigmo, CROS_EC_MAX_PHYSICAL_SENSOR
      <4>2. [what |-> "flush", sensor |-> h] \in HubEvents BY <4>a DEF HubEvents
      <4> QED BY <4>1, <4>2
    <3>2. CASE EcEvent
      <4>1. PICK h \in DOMAIN sensor_info \cup {Sigmo, CROS_EC_MAX_PHYSICAL_SENSOR - 1} :
              ring' = Append(ring, [what |-> "data", sensor |-> h])
        BY <3>2 DEF EcEvent
      <4>a. h \in 0..Sigmo BY <1>0, <4>1 DEF HubTypes, Sigmo, CROS_EC_MAX_PHYSICAL_SENSOR
      <4>2. [what |-> "data", sensor |-> h] \in HubEvents BY <4>a DEF HubEvents
      <4> QED BY <4>1, <4>2
    <3> QED BY <1>5, <3>1, <3>2
  <2>3. ring' \in Seq(HubEvents)
    <3> HIDE DEF HubEvents
    <3> QED BY <1>0, <2>2 DEF HubTypes
  <2> QED BY <1>0, <2>1, <2>3 DEF HubInv, HubTypes, ReadFits, ArmedOnce
<1>6. CASE PollCall
  <2>1. UNCHANGED <<sensor_info, gesture_info, ring, unreported>> BY <1>6 DEF PollCall
  <2>2. poll.pc = "none" /\ poll.revents \in BOOLEAN
    BY <1>0, <1>6 DEF PollCall, HubTypes, Polls
  <2>3. poll' = [pc |-> "loop", at |-> 0, count |-> EventBufferSize, nbEvents |-> 0, n |-> 0,
                 revents |-> poll.revents, events |-> <<>>, got |-> 0, written |-> {}]
    BY <1>6 DEF PollCall, Polling
  <2>4. <<>> \in Seq(HubEvents) OBVIOUS
  <2>5. poll' \in Polls BY <1>size, <2>2, <2>3, <2>4 DEF Polls
  <2>6. ReadFits' BY <1>size, <2>3 DEF ReadFits
  <2>7. HubTypes' BY <1>0, <2>1, <2>5 DEF HubTypes
  <2>8. ArmedOnce' BY <1>0, <2>1, <2>2, <2>3 DEF ArmedOnce
  <2> QED BY <2>6, <2>7, <2>8 DEF HubInv
<1>7. CASE ReadRing
  <2> DEFINE k == IF poll.count < Len(ring) THEN poll.count ELSE Len(ring)
  <2>1. UNCHANGED <<sensor_info, gesture_info, unreported>> BY <1>7 DEF ReadRing
  <2>2. poll \in Polls /\ poll.pc = "loop"
    BY <1>0, <1>7 DEF ReadRing, HubTypes, Polls
  <2>3. /\ poll' = [poll EXCEPT !.pc = "events", !.events = SubSeq(ring, 1, k), !.got = 0]
        /\ ring' = SubSeq(ring, k + 1, Len(ring))
    BY <1>7 DEF ReadRing
  <2>4. k \in 0..Len(ring) /\ k <= poll.count /\ Len(ring) \in Nat
    BY <1>0, <2>2 DEF HubTypes, Polls
  <2> HIDE DEF k
  <2>5. SubSeq(ring, 1, k) \in Seq(HubEvents) /\ Len(SubSeq(ring, 1, k)) = k
        /\ SubSeq(ring, k + 1, Len(ring)) \in Seq(HubEvents)
    <3> HIDE DEF HubEvents
    <3> QED BY <1>0, <2>4, SubSeqProperties DEF HubTypes
  <2>6. poll' \in Polls /\ poll'.pc = "events" /\ poll'.got = 0 /\ Len(poll'.events) = k
        /\ poll'.at = poll.at /\ poll'.count = poll.count /\ poll'.written = poll.written
    BY <2>2, <2>3, <2>5 DEF Polls
  <2>7. HubTypes' BY <1>0, <2>1, <2>3, <2>5, <2>6 DEF HubTypes
  <2>8. ReadFits' BY <1>0, <2>2, <2>4, <2>6 DEF ReadFits, Polls
  <2>9. ArmedOnce' BY <1>0, <2>1, <2>2, <2>6 DEF ArmedOnce
  <2> QED BY <2>7, <2>8, <2>9 DEF HubInv
<1>8. CASE ProcessEvent
  <2> DEFINE e == Head(poll.events)
             slot == poll.at + poll.got
  <2>1. UNCHANGED <<sensor_info, gesture_info, ring>> BY <1>8 DEF ProcessEvent
  <2>2. poll \in Polls /\ poll.pc = "events" /\ poll.events # <<>>
    BY <1>0, <1>8 DEF ProcessEvent, HubTypes, Polls
  <2>3. e \in HubEvents /\ Tail(poll.events) \in Seq(HubEvents)
        /\ Len(Tail(poll.events)) = Len(poll.events) - 1 /\ Len(poll.events) \in Nat \ {0}
    <3>1. poll.events \in Seq(HubEvents) BY <2>2 DEF Polls
    <3> HIDE DEF HubEvents
    <3> QED BY <2>2, <3>1
  <2>4. CASE Reported(e)
    <3>1. /\ poll' = [poll EXCEPT !.events = Tail(@), !.got = @ + 1, !.written = @ \cup {slot},
                        !.pc = IF e.sensor = Sigmo THEN "one_shot" ELSE "events"]
          /\ unreported' = IF e.sensor = Sigmo THEN unreported - 1 ELSE unreported
      BY <1>8, <2>4 DEF ProcessEvent
    <3> HIDE DEF e
    <3>a. slot \in Nat /\ poll.got + 1 \in Nat BY <2>2 DEF Polls
    <3>b. (IF e.sensor = Sigmo THEN "one_shot" ELSE "events") \in {"one_shot", "events"}
      OBVIOUS
    <3> HIDE DEF slot
    <3>2. /\ poll' \in Polls /\ poll'.got = poll.got + 1 /\ poll'.events = Tail(poll.events)
          /\ poll'.written = poll.written \cup {slot}
          /\ poll'.at = poll.at /\ poll'.count = poll.count
          /\ poll'.pc = IF e.sensor = Sigmo THEN "one_shot" ELSE "events"
      BY <2>2, <2>3, <3>1, <3>a, <3>b DEF Polls
    <3>3. HubTypes' BY <1>0, <2>1, <3>1, <3>2 DEF HubTypes
    <3>4. ReadFits'
      <4>1. 0..(poll.at + poll.got) = 0..(poll.at + poll.got - 1) \cup {slot}
        BY <2>2 DEF Polls, slot
      <4>2. poll'.written = 0..(poll'.at + poll'.got - 1)
        <5>1. poll'.at + poll'.got - 1 = poll.at + poll.got BY <2>2, <3>2 DEF Polls
        <5>2. poll.written = 0..(poll.at + poll.got - 1) BY <1>0, <2>2 DEF ReadFits
        <5> QED BY <3>2, <4>1, <5>1, <5>2
      <4>3. poll'.got + Len(poll'.events) <= poll'.count
        BY <1>0, <2>2, <2>3, <3>2 DEF ReadFits, Polls
      <4>4. poll'.at + poll'.count = EventBufferSize /\ poll'.pc \notin {"loop", "wait", "none"}
        BY <1>0, <2>2, <3>2 DEF ReadFits
      <4> QED BY <4>2, <4>3, <4>4 DEF ReadFits
    <3>5. e.sensor = Sigmo => gesture_info.enabled
      <4>1. Sigmo \notin DOMAIN sensor_info
        <5>1. DOMAIN sensor_info \subseteq 0..(CROS_EC_MAX_PHYSICAL_SENSOR - 1) BY <1>0 DEF HubTypes
        <5>2. Sigmo \notin 0..(CROS_EC_MAX_PHYSICAL_SENSOR - 1)
          BY DEF Sigmo, CROS_EC_MAX_PHYSICAL_SENSOR
        <5> QED BY <5>1, <5>2
      <4> QED BY <2>3, <2>4, <4>1 DEF Reported, HubEvents
    <3>6. ArmedOnce' BY <1>0, <2>1, <2>2, <3>1, <3>2, <3>5 DEF ArmedOnce, HubTypes
    <3> QED BY <3>3, <3>4, <3>6 DEF HubInv
  <2>5. CASE ~ Reported(e)
    <3>1. poll' = [poll EXCEPT !.events = Tail(@)] /\ unreported' = unreported
      BY <1>8, <2>5 DEF ProcessEvent
    <3>2. /\ poll' \in Polls /\ poll'.got = poll.got /\ poll'.events = Tail(poll.events)
          /\ poll'.written = poll.written /\ poll'.pc = "events"
          /\ poll'.at = poll.at /\ poll'.count = poll.count
      BY <2>2, <2>3, <3>1 DEF Polls
    <3>3. HubTypes' BY <1>0, <2>1, <3>1, <3>2 DEF HubTypes
    <3>4. ReadFits' BY <1>0, <2>2, <2>3, <3>2 DEF ReadFits, Polls
    <3>5. ArmedOnce' BY <1>0, <2>1, <2>2, <3>1, <3>2 DEF ArmedOnce
    <3> QED BY <3>3, <3>4, <3>5 DEF HubInv
  <2> QED BY <2>4, <2>5
<1>9. CASE DisableOneShot
  <2>1. UNCHANGED <<sensor_info, ring, unreported>> /\ poll' = [poll EXCEPT !.pc = "events"]
        /\ gesture_info' = [gesture_info EXCEPT !.enabled = FALSE]
    BY <1>9 DEF DisableOneShot
  <2>2. poll \in Polls /\ poll.pc = "one_shot" BY <1>0, <1>9 DEF DisableOneShot, HubTypes, Polls
  <2>3. /\ poll' \in Polls /\ poll'.got = poll.got /\ poll'.events = poll.events
        /\ poll'.written = poll.written /\ poll'.pc = "events"
        /\ poll'.at = poll.at /\ poll'.count = poll.count
    BY <2>1, <2>2 DEF Polls
  <2>4. HubTypes' BY <1>0, <2>1, <2>3 DEF HubTypes
  <2>5. ReadFits' BY <1>0, <2>2, <2>3 DEF ReadFits
  <2>6. ArmedOnce' BY <1>0, <2>1 DEF ArmedOnce, HubTypes
  <2> QED BY <2>4, <2>5, <2>6 DEF HubInv
<1>10. CASE AfterRead
  <2>1. UNCHANGED <<sensor_info, gesture_info, ring, unreported>> BY <1>10 DEF AfterRead
  <2>2. poll \in Polls /\ poll.pc = "events" /\ poll.events = <<>>
    BY <1>0, <1>10 DEF AfterRead, HubTypes, Polls
  <2>3. poll.got <= poll.count /\ poll.got \in Nat /\ poll.count \in Nat /\ poll.at \in Nat
        /\ poll.nbEvents \in Nat
    BY <1>0, <2>2 DEF ReadFits, Polls
  <2>a. /\ poll.count - poll.got \in Nat /\ poll.nbEvents + poll.got \in Nat
        /\ poll.at + poll.got \in Nat /\ (poll.got >= poll.count) \in BOOLEAN
    BY <2>3
  <2>b. poll' = [poll EXCEPT !.pc = "wait", !.revents = poll.got >= poll.count, !.got = 0,
                   !.count = poll.count - poll.got, !.nbEvents = poll.nbEvents + poll.got,
                   !.at = poll.at + poll.got]
    BY <1>10, <2>2 DEF AfterRead, Polls
  <2>4. /\ poll' \in Polls /\ poll'.got = 0 /\ poll'.events = poll.events
        /\ poll'.written = poll.written /\ poll'.pc = "wait"
        /\ poll'.at = poll.at + poll.got /\ poll'.count = poll.count - poll.got
    BY <2>2, <2>a, <2>b DEF Polls
  <2>5. HubTypes' BY <1>0, <2>1, <2>4 DEF HubTypes
  <2>6. ReadFits' BY <1>0, <1>size, <2>2, <2>3, <2>4 DEF ReadFits
  <2>7. ArmedOnce' BY <1>0, <2>1, <2>2, <2>4 DEF ArmedOnce
  <2> QED BY <2>5, <2>6, <2>7 DEF HubInv
<1>11. CASE PollWait
  <2>1. UNCHANGED <<sensor_info, gesture_info, ring, unreported>> BY <1>11 DEF PollWait
  <2>2. poll \in Polls /\ poll.pc \in {"wait", "loop"}
    BY <1>0, <1>11 DEF PollWait, HubTypes, Polls
  <2>3. \/ poll' = [poll EXCEPT !.pc = "loop", !.revents = ring # <<>>]
        \/ \E r \in BOOLEAN : poll' = [pc |-> "none", revents |-> r]
    <3>1. poll.revents \in BOOLEAN BY <2>2 DEF Polls
    <3> QED BY <1>11, <3>1 DEF PollWait, NotPolling
  <2>4. CASE poll' = [poll EXCEPT !.pc = "loop", !.revents = ring # <<>>]
    <3>1. /\ poll' \in Polls /\ poll'.got = poll.got /\ poll'.events = poll.events
          /\ poll'.written = poll.written /\ poll'.pc = "loop"
          /\ poll'.at = poll.at /\ poll'.count = poll.count
      BY <2>2, <2>4 DEF Polls
    <3>2. HubTypes' BY <1>0, <2>1, <3>1 DEF HubTypes
    <3>3. ReadFits' BY <1>0, <2>2, <3>1 DEF ReadFits
    <3>4. ArmedOnce' BY <1>0, <2>1, <2>2, <3>1 DEF ArmedOnce
    <3> QED BY <3>2, <3>3, <3>4 DEF HubInv
  <2>5. CASE \E r \in BOOLEAN : poll' = [pc |-> "none", revents |-> r]
    <3>1. poll' \in [pc : {"none"}, revents : BOOLEAN] /\ poll'.pc = "none" BY <2>5
    <3>2. HubTypes' BY <1>0, <2>1, <3>1 DEF HubTypes
    <3>3. ReadFits' /\ ArmedOnce' BY <1>0, <2>1, <2>2, <3>1 DEF ReadFits, ArmedOnce
    <3> QED BY <3>2, <3>3 DEF HubInv
  <2> QED BY <2>3, <2>4, <2>5
<1>12. CASE UNCHANGED hubvars
  BY <1>0, <1>12 DEF hubvars, HubInv, HubTypes, ReadFits, ArmedOnce
<1> QED
  BY <1>1, <1>2, <1>3, <1>4, <1>5, <1>6, <1>7, <1>8, <1>9, <1>10, <1>11, <1>12
  DEF SensorNext, PollStep

(***************************************************************************)
(* pollEvents fills the caller's buffer from its beginning and never past  *)
(* its end, and reports a one-shot gesture at most once for every time it  *)
(* was armed (PollDelivers of cros_ec_sensors.cpp), for any buffer, ring   *)
(* and devices, any calls of other threads between its steps and failing   *)
(* writes, as long as no read of the ring fails.                           *)
(***************************************************************************)
THEOREM PollKeepsPromise ==
  ASSUME "read" \notin HubEnv
  PROVE  SensorSpec => []PollDelivers
<1>1. HubInv /\ [SensorNext]_hubvars => HubInv' BY HubStep
<1>2. HubInv => PollDelivers
  <2> SUFFICES ASSUME HubInv, poll.pc # "none" PROVE BufferRespected
    BY DEF HubInv, ArmedOnce, PollDelivers, OneShotOnce, BufferRespected
  <2>1. poll \in Polls /\ ReadFits BY DEF HubInv, HubTypes
  <2>2. /\ poll.at \in Nat /\ poll.got \in Nat /\ poll.count \in Nat /\ EventBufferSize \in Nat
        /\ Len(poll.events) \in Nat
    BY <2>1, HubAssumption DEF Polls
  <2>3. poll.at + poll.got <= EventBufferSize BY <2>1, <2>2 DEF ReadFits
  <2> QED BY <2>1, <2>2, <2>3 DEF ReadFits, BufferRespected
<1> QED BY HubInitial, <1>1, <1>2, PTL DEF SensorSpec
-----------------------------------------------------------------------------
(* The frames of a capture                                                 *)

\* s holds frames after lo and up to hi, in the order they were captured;
\* exact says that it holds all of them.
Between(s, lo, hi, exact) ==
  /\ s \in Seq(Nat) /\ lo <= hi
  /\ \A i \in 1..Len(s) : lo < s[i] /\ s[i] <= hi
  /\ \A i, j \in 1..Len(s) : i < j => s[i] < s[j]
  /\ exact => Len(s) = hi - lo /\ \A i \in 1..Len(s) : s[i] = lo + i

CapTypes ==
  /\ frame \in Nat /\ heard \in Nat
  /\ standby \in BOOLEAN /\ effects \in BOOLEAN /\ broken \in BOOLEAN
  /\ read_buf \in Seq(Nat) /\ read_buf_frames \in 0..period_size
  /\ read_buf_frames > 0 => Len(read_buf) = period_size
  /\ proc_buf_in \in Seq(Nat) /\ held \in Seq(Nat)
  /\ capture \in [at : {"idle", "reload", "read", "process", "return", "failed"},
                  frames_num : Nat, out : Seq(Nat), want : Nat, rd : Seq(Nat)]

\* The frames of the period that are not read yet, and those read_frames has.
Unread == NextBuffer(read_buf, read_buf_frames, read_buf_frames)
BeingRead == IF capture.at = "read" THEN capture.rd ELSE <<>>

\* Every frame on its way is in one of five places, and the places are in
\* order: what the client gets next, what the effects hold, what waits for
\* them, what is being read, what is left of the period.
Pipeline(a, b, c, d) ==
  /\ Between(capture.out, heard, a, ~broken)
  /\ Between(held, a, b, ~broken)
  /\ Between(proc_buf_in, b, c, ~broken)
  /\ Between(BeingRead, c, d, ~broken)
  /\ Between(Unread, d, frame, ~broken)
InPipeline == \E a, b, c, d \in Nat : Pipeline(a, b, c, d)

\* Without effects nothing waits for them; a stream that was never stopped and
\* is in standby has not started; a read that failed broke the stream.
CapPhases ==
  /\ ~ effects => held = <<>> /\ (~ standby => proc_buf_in = <<>>)
  /\ standby /\ ~ broken => held = <<>> /\ proc_buf_in = <<>> /\ read_buf_frames = 0
  /\ capture.at # "idle" => ~ standby
  /\ capture.at = "failed" => broken
  /\ capture.at = "idle" => capture.out = <<>>
  /\ ~ effects /\ capture.at # "return" => capture.out = <<>>
  /\ ~ effects => capture.at \notin {"reload", "process"}
  /\ ~ effects /\ capture.at = "read" => capture.want = capture.frames_num

\* A call returns as many frames as were asked for.
CapLength ==
  /\ Len(capture.out) <= capture.frames_num
  /\ capture.at = "return" => Len(capture.out) = capture.frames_num

CapInv == CapTypes /\ InPipeline /\ CapPhases /\ CapLength

LEMMA BetweenJoin ==
  ASSUME NEW s, NEW t, NEW lo \in Nat, NEW mid \in Nat, NEW hi \in Nat, NEW exact \in BOOLEAN,
         Between(s, lo, mid, exact), Between(t, mid, hi, exact)
  PROVE  Between(s \o t, lo, hi, exact)
<1>0. s \in Seq(Nat) /\ t \in Seq(Nat) /\ Len(s) \in Nat /\ Len(t) \in Nat
  BY DEF Between
<1>1. /\ s \o t \in Seq(Nat) /\ Len(s \o t) = Len(s) + Len(t)
      /\ \A i \in 1..(Len(s) + Len(t)) :
           (s \o t)[i] = IF i <= Len(s) THEN s[i] ELSE t[i - Len(s)]
  BY <1>0, ConcatProperties
<1> DEFINE u == s \o t
<1>e. \A i \in 1..Len(s) : s[i] \in Nat BY <1>0
<1>f. \A i \in 1..Len(t) : t[i] \in Nat BY <1>0
<1>2. \A i \in 1..Len(u) : \/ i \in 1..Len(s) /\ u[i] = s[i]
                           \/ i - Len(s) \in 1..Len(t) /\ u[i] = t[i - Len(s)] /\ i > Len(s)
  BY <1>0, <1>1
<1> HIDE DEF u
<1>3. \A i \in 1..Len(u) : lo < u[i] /\ u[i] <= hi
  <2>1. \A i \in 1..Len(s) : lo < s[i] /\ s[i] <= hi BY <1>e DEF Between
  <2>2. \A i \in 1..Len(t) : lo < t[i] /\ t[i] <= hi BY <1>f DEF Between
  <2> QED BY <1>2, <2>1, <2>2
<1>4. ASSUME NEW i \in 1..Len(u), NEW j \in 1..Len(u), i < j
      PROVE  u[i] < u[j]
  <2>1. CASE j \in 1..Len(s) /\ u[j] = s[j]
    <3>1. i \in 1..Len(s) /\ u[i] = s[i] BY <1>0, <1>2, <1>4, <2>1
    <3> QED BY <1>4, <2>1, <3>1 DEF Between
  <2>2. CASE j - Len(s) \in 1..Len(t) /\ u[j] = t[j - Len(s)] /\ i \in 1..Len(s) /\ u[i] = s[i]
    <3>1. s[i] <= mid /\ mid < t[j - Len(s)] BY <2>2 DEF Between
    <3> QED BY <1>e, <1>f, <2>2, <3>1
  <2>3. CASE /\ j - Len(s) \in 1..Len(t) /\ u[j] = t[j - Len(s)]
             /\ i - Len(s) \in 1..Len(t) /\ u[i] = t[i - Len(s)]
    <3>1. i - Len(s) < j - Len(s) BY <1>0, <1>1, <1>4 DEF u
    <3> QED BY <2>3, <3>1 DEF Between
  <2> QED BY <1>2, <2>1, <2>2, <2>3
<1>5. ASSUME exact PROVE Len(u) = hi - lo /\ \A i \in 1..Len(u) : u[i] = lo + i
  <2>1. Len(s) = mid - lo /\ Len(t) = hi - mid BY <1>5 DEF Between
  <2>2. Len(u) = hi - lo BY <1>1, <2>1 DEF u
  <2>3. ASSUME NEW i \in 1..Len(u) PROVE u[i] = lo + i
    <3>1. CASE i \in 1..Len(s) /\ u[i] = s[i] BY <1>5, <3>1 DEF Between
    <3>2. CASE i - Len(s) \in 1..Len(t) /\ u[i] = t[i - Len(s)]
      <4>1. t[i - Len(s)] = mid + (i - Len(s)) BY <1>5, <3>2 DEF Between
      <4>2. i \in Int BY <2>3
      <4> QED BY <2>1, <3>2, <4>1, <4>2
    <3> QED BY <1>2, <3>1, <3>2
  <2> QED BY <2>2, <2>3
<1>6. lo <= hi BY DEF Between
<1> QED BY <1>1, <1>3, <1>4, <1>5, <1>6 DEF Between, u

LEMMA BetweenSplit ==
  ASSUME NEW s, NEW lo \in Nat, NEW hi \in Nat, NEW exact \in BOOLEAN,
         Between(s, lo, hi, exact), NEW k \in 0..Len(s)
  PROVE  \E mid \in Nat : /\ Between(SubSeq(s, 1, k), lo, mid, exact)
                          /\ Between(SubSeq(s, k + 1, Len(s)), mid, hi, exact)
<1>0. s \in Seq(Nat) /\ Len(s) \in Nat /\ k \in Nat /\ \A i \in 1..Len(s) : s[i] \in Nat
  BY DEF Between
<1> DEFINE p == SubSeq(s, 1, k)
           q == SubSeq(s, k + 1, Len(s))
           mid == IF k = 0 THEN lo ELSE s[k]
<1>1. p \in Seq(Nat) /\ Len(p) = k /\ \A i \in 1..k : p[i] = s[i]
  <2>1. \A i \in 1..k : s[i] \in Nat BY <1>0
  <2>2. \A i \in 1..(k - 1 + 1) : p[i] = s[1 + i - 1]
    BY <1>0, <2>1, SubSeqProperties
  <2>3. p \in Seq(Nat) /\ Len(p) = IF 1 <= k THEN k - 1 + 1 ELSE 0
    BY <1>0, <2>1, SubSeqProperties
  <2> HIDE DEF p
  <2> QED BY <1>0, <2>2, <2>3
<1>2. q \in Seq(Nat) /\ Len(q) = Len(s) - k /\ \A i \in 1..Len(q) : q[i] = s[k + i]
  <2>1. \A i \in (k + 1)..Len(s) : s[i] \in Nat BY <1>0
  <2>2. \A i \in 1..(Len(s) - (k + 1) + 1) : q[i] = s[k + 1 + i - 1]
    BY <1>0, <2>1, SubSeqProperties
  <2>3. q \in Seq(Nat) /\ Len(q) = IF k + 1 <= Len(s) THEN Len(s) - (k + 1) + 1 ELSE 0
    BY <1>0, <2>1, SubSeqProperties
  <2> HIDE DEF q
  <2>4. Len(q) = Len(s) - k BY <1>0, <2>3
  <2>5. ASSUME NEW i \in 1..Len(q) PROVE q[i] = s[k + i]
    <3>1. k + 1 + i - 1 = k + i /\ i \in 1..(Len(s) - (k + 1) + 1) BY <1>0, <2>4
    <3> QED BY <2>2, <3>1
  <2> QED BY <2>3, <2>4, <2>5
<1> HIDE DEF p, q
<1>3. mid \in Nat /\ lo <= mid /\ mid <= hi BY <1>0 DEF Between
<1>4. Between(p, lo, mid, exact)
  <2>1. \A i \in 1..Len(p) : lo < p[i] /\ p[i] <= mid
    <3>1. \A i \in 1..Len(p) : p[i] = s[i] /\ i \in 1..Len(s) /\ lo < s[i] BY <1>0, <1>1 DEF Between
    <3>2. ASSUME NEW i \in 1..Len(p), i < k PROVE s[i] < s[k]
      <4>1. i \in 1..Len(s) /\ k \in 1..Len(s) BY <1>0, <1>1, <3>2
      <4> QED BY <3>2, <4>1 DEF Between
    <3>3. \A i \in 1..Len(p) : k # 0 /\ (i = k \/ i < k) BY <1>0, <1>1
    <3> QED BY <1>0, <3>1, <3>2, <3>3
  <2>2. \A i, j \in 1..Len(p) : i < j => p[i] < p[j]
    <3>1. \A i \in 1..Len(p) : p[i] = s[i] /\ i \in 1..Len(s) BY <1>0, <1>1
    <3> QED BY <3>1 DEF Between
  <2>3. exact => Len(p) = mid - lo /\ \A i \in 1..Len(p) : p[i] = lo + i
    BY <1>0, <1>1 DEF Between
  <2> QED BY <1>1, <1>3, <2>1, <2>2, <2>3 DEF Between
<1>5. Between(q, mid, hi, exact)
  <2>0. \A i \in 1..Len(q) : k + i \in 1..Len(s) /\ k + i > k BY <1>0, <1>2
  <2>1. \A i \in 1..Len(q) : mid < q[i] /\ q[i] <= hi
    <3>1. \A i \in 1..Len(q) : s[k + i] <= hi /\ lo < s[k + i] BY <2>0 DEF Between
    <3>2. k # 0 => \A i \in 1..Len(q) : s[k] < s[k + i] BY <1>0, <2>0 DEF Between
    <3> QED BY <1>2, <3>1, <3>2
  <2>2. \A i, j \in 1..Len(q) : i < j => q[i] < q[j]
    <3>1. \A i, j \in 1..Len(q) : i < j => k + i < k + j BY <1>0
    <3> QED BY <1>2, <2>0, <3>1 DEF Between
  <2>3. exact => Len(q) = hi - mid /\ \A i \in 1..Len(q) : q[i] = mid + i
    <3> SUFFICES ASSUME exact PROVE Len(q) = hi - mid /\ \A i \in 1..Len(q) : q[i] = mid + i
      OBVIOUS
    <3>1. Len(s) = hi - lo /\ mid = lo + k BY <1>0 DEF Between
    <3>2. \A i \in 1..Len(q) : q[i] = lo + (k + i) BY <1>2, <2>0 DEF Between
    <3> HIDE DEF mid
    <3> QED BY <1>0, <1>2, <3>1, <3>2
  <2> QED BY <1>2, <1>3, <2>1, <2>2, <2>3 DEF Between
<1> QED BY <1>3, <1>4, <1>5 DEF p, q

\* An empty place ends where it begins; frames may be missing once the stream
\* was stopped.
LEMMA BetweenEmpty ==
  ASSUME NEW lo \in Nat, NEW hi \in Nat, NEW exact \in BOOLEAN
  PROVE  /\ Between(<<>>, lo, lo, exact)
         /\ Between(<<>>, lo, hi, exact) => lo <= hi /\ (exact => lo = hi)
         /\ lo <= hi => Between(<<>>, lo, hi, FALSE)
<1>1. <<>> \in Seq(Nat) /\ Len(<<>>) = 0 BY EmptySeq
<1> QED BY <1>1 DEF Between

LEMMA BetweenWider ==
  ASSUME NEW s, NEW low \in Nat, NEW lo \in Nat, NEW hi \in Nat, NEW high \in Nat,
         NEW exact \in BOOLEAN, Between(s, lo, hi, exact), low <= lo, hi <= high
  PROVE  Between(s, low, high, FALSE)
<1>1. s \in Seq(Nat) /\ \A i \in 1..Len(s) : s[i] \in Nat BY DEF Between
<1> QED BY <1>1 DEF Between
LEMMA CapInitial == CapInit => CapInv
<1> SUFFICES ASSUME CapInit PROVE CapInv OBVIOUS
<1>0. <<>> \in Seq(Nat) /\ Len(<<>>) = 0 BY EmptySeq
<1>1. /\ frame = 0 /\ heard = 0 /\ read_buf = <<>> /\ read_buf_frames = 0
      /\ proc_buf_in = <<>> /\ held = <<>> /\ capture.out = <<>> /\ capture.at = "idle"
      /\ capture.frames_num = 0
  BY DEF CapInit, NoRead
<1>2. CapTypes
  <2>1. capture \in [at : {"idle", "reload", "read", "process", "return", "failed"},
                     frames_num : Nat, out : Seq(Nat), want : Nat, rd : Seq(Nat)]
    BY <1>0 DEF CapInit, NoRead
  <2>2. 0 \in 0..period_size BY CaptureAssumption
  <2>3. standby \in BOOLEAN /\ effects \in BOOLEAN /\ broken \in BOOLEAN BY DEF CapInit
  <2>4. ~ (read_buf_frames > 0) /\ frame \in Nat /\ heard \in Nat BY <1>1
  <2> QED BY <1>0, <1>1, <2>1, <2>2, <2>3, <2>4 DEF CapTypes
<1>3. Unread = <<>>
  BY <1>1, CaptureAssumption, SubSeqEmpty DEF Unread, NextBuffer
<1>4. Pipeline(0, 0, 0, 0)
  <2>1. (~broken) \in BOOLEAN /\ BeingRead = <<>> BY <1>1 DEF BeingRead
  <2>2. Between(<<>>, 0, 0, ~broken) BY <2>1, BetweenEmpty
  <2> QED BY <1>1, <1>3, <2>1, <2>2 DEF Pipeline
<1>5. CapPhases BY <1>1 DEF CapPhases, CapInit
<1>6. CapLength BY <1>0, <1>1 DEF CapLength
<1> QED BY <1>2, <1>4, <1>5, <1>6 DEF CapInv, InPipeline

\* A sequence cut out of a sequence.
LEMMA CutOut ==
  ASSUME NEW s \in Seq(Nat), NEW o \in Nat, NEW c \in Nat, o + c <= Len(s)
  PROVE  /\ SubSeq(s, o + 1, o + c) \in Seq(Nat) /\ Len(SubSeq(s, o + 1, o + c)) = c
         /\ \A i \in 1..c : SubSeq(s, o + 1, o + c)[i] = s[o + i]
<1> DEFINE m == o + 1
           n == o + c
<1>1. \A i \in m..n : s[i] \in Nat OBVIOUS
<1>2. m \in Int /\ n \in Int OBVIOUS
<1>4. n - m + 1 = c /\ (m <= n \/ c = 0) /\ (m <= n => c # 0) OBVIOUS
<1>5. \A i \in 1..c : m + i - 1 = o + i OBVIOUS
<1> HIDE DEF m, n
<1>3. /\ SubSeq(s, m, n) \in Seq(Nat)
      /\ Len(SubSeq(s, m, n)) = IF m <= n THEN n - m + 1 ELSE 0
      /\ \A i \in 1..(n - m + 1) : SubSeq(s, m, n)[i] = s[m + i - 1]
  BY <1>1, <1>2, SubSeqProperties
<1>6. Len(SubSeq(s, m, n)) = c BY <1>3, <1>4
<1>7. \A i \in 1..c : SubSeq(s, m, n)[i] = s[o + i] BY <1>3, <1>4, <1>5
<1> QED BY <1>3, <1>6, <1>7 DEF m, n

\* Taking count frames off a period with left frames leaves the rest of it.
LEMMA TakeFromPeriod ==
  ASSUME NEW buf \in Seq(Nat), Len(buf) = period_size, NEW left \in 0..period_size,
         NEW count \in 0..left
  PROVE  LET u == NextBuffer(buf, left, left)
         IN  /\ Len(u) = left /\ u \in Seq(Nat)
             /\ NextBuffer(buf, left, count) = SubSeq(u, 1, count)
             /\ NextBuffer(buf, left - count, left - count) = SubSeq(u, count + 1, left)
<1> DEFINE u == NextBuffer(buf, left, left)
           p == NextBuffer(buf, left, count)
           q == NextBuffer(buf, left - count, left - count)
           o == period_size - left
           e == o + count
           r == left - count
<1>0. /\ period_size \in Nat /\ left \in Nat /\ count \in Nat
      /\ o \in Nat /\ e \in Nat /\ r \in Nat /\ 0 \in Nat
      /\ o + left <= Len(buf) /\ o + count <= Len(buf) /\ e + r <= Len(buf)
  BY CaptureAssumption
<1>a. count + r = left /\ 0 + 1 = 1 /\ 0 + count = count /\ \A i \in 1..r : e + i = o + (count + i)
  BY <1>0
<1>1. u = SubSeq(buf, o + 1, o + left) /\ p = SubSeq(buf, o + 1, o + count)
      /\ q = SubSeq(buf, e + 1, e + r)
  <2>1. period_size - (left - count) + 1 = e + 1
        /\ period_size - (left - count) + (left - count) = e + r
    BY <1>0
  <2> QED BY <2>1 DEF NextBuffer
<1> HIDE DEF o, e, r, u, p, q
<1>2. u \in Seq(Nat) /\ Len(u) = left /\ \A i \in 1..left : u[i] = buf[o + i]
  BY <1>0, <1>1, CutOut, Zenon
<1>3. p \in Seq(Nat) /\ Len(p) = count /\ \A i \in 1..count : p[i] = buf[o + i]
  BY <1>0, <1>1, CutOut, Zenon
<1>4. q \in Seq(Nat) /\ Len(q) = r /\ \A i \in 1..r : q[i] = buf[e + i]
  BY <1>0, <1>1, CutOut, Zenon
<1>b. 0 + count <= Len(u) /\ count + r <= Len(u) BY <1>0, <1>a, <1>2
<1>5. p = SubSeq(u, 1, count)
  <2>1. /\ SubSeq(u, 0 + 1, 0 + count) \in Seq(Nat) /\ Len(SubSeq(u, 0 + 1, 0 + count)) = count
        /\ \A i \in 1..count : SubSeq(u, 0 + 1, 0 + count)[i] = u[0 + i]
    BY <1>0, <1>2, <1>b, CutOut, Zenon
  <2>2. SubSeq(u, 0 + 1, 0 + count) = SubSeq(u, 1, count) BY <1>a
  <2>3. \A i \in 1..Len(p) : p[i] = SubSeq(u, 1, count)[i]
    <3>1. \A i \in 1..count : 0 + i = i /\ i \in 1..left BY <1>0
    <3> QED BY <1>2, <1>3, <2>1, <2>2, <3>1
  <2> QED BY <1>3, <2>1, <2>2, <2>3, SeqEqual
<1>6. q = SubSeq(u, count + 1, left)
  <2>1. /\ SubSeq(u, count + 1, count + r) \in Seq(Nat) /\ Len(SubSeq(u, count + 1, count + r)) = r
        /\ \A i \in 1..r : SubSeq(u, count + 1, count + r)[i] = u[count + i]
    BY <1>0, <1>2, <1>b, CutOut, Zenon
  <2>2. SubSeq(u, count + 1, count + r) = SubSeq(u, count + 1, left) BY <1>a
  <2>3. ASSUME NEW i \in 1..Len(q) PROVE q[i] = SubSeq(u, count + 1, left)[i]
    <3>1. i \in 1..r /\ count + i \in 1..left BY <1>0, <1>a, <1>4
    <3>2. q[i] = buf[o + (count + i)] BY <1>a, <1>4, <3>1
    <3>3. u[count + i] = buf[o + (count + i)] BY <1>2, <3>1
    <3> QED BY <2>1, <2>2, <3>1, <3>2, <3>3
  <2> QED BY <1>4, <2>1, <2>2, <2>3, SeqEqual
<1> QED BY <1>2, <1>5, <1>6 DEF u, p, q, r

\* A new period holds the next frames.
LEMMA NewPeriod ==
  ASSUME CapTypes
  PROVE  LET buf == [i \in 1..period_size |-> frame + i]
         IN  /\ buf \in Seq(Nat) /\ Len(buf) = period_size
             /\ NextBuffer(buf, period_size, period_size) = buf
             /\ Between(buf, frame, frame + period_size, TRUE)
<1> DEFINE buf == [i \in 1..period_size |-> frame + i]
<1>0. period_size \in Nat /\ frame \in Nat BY CaptureAssumption DEF CapTypes
<1>1. buf \in Seq(Nat) /\ Len(buf) = period_size /\ \A i \in 1..period_size : buf[i] = frame + i
  BY <1>0
<1> HIDE DEF buf
<1>2. NextBuffer(buf, period_size, period_size) = buf
  <2>1. NextBuffer(buf, period_size, period_size) = SubSeq(buf, 1, Len(buf))
    BY <1>0, <1>1 DEF NextBuffer
  <2> QED BY <1>1, <2>1, SubSeqFull
<1>3. Between(buf, frame, frame + period_size, TRUE) BY <1>0, <1>1 DEF Between
<1> QED BY <1>1, <1>2, <1>3 DEF buf
\* The last frame of a read.
LEMMA LastOf ==
  ASSUME NEW s, NEW lo \in Nat, NEW hi \in Nat, NEW exact \in BOOLEAN,
         Between(s, lo, hi, exact), s # <<>>
  PROVE  s[Len(s)] \in Nat /\ s[Len(s)] <= hi /\ (exact => s[Len(s)] = hi)
<1>1. s \in Seq(Nat) /\ Len(s) \in Nat \ {0} BY EmptySeq DEF Between
<1>2. Len(s) \in 1..Len(s) /\ s[Len(s)] \in Nat BY <1>1
<1> QED BY <1>1, <1>2 DEF Between

\* The steps of in_read: each moves frames from one place to the next.
LEMMA CapStep ==
  ASSUME "detach" \notin CaptureEnv, CapInv, [CapNext]_capvars
  PROVE  CapInv'
<1>0. CapTypes /\ CapPhases /\ CapLength BY DEF CapInv
<1>p. PICK a \in Nat, b \in Nat, c \in Nat, d \in Nat : Pipeline(a, b, c, d)
  BY DEF CapInv, InPipeline
<1>x. /\ (~broken) \in BOOLEAN /\ heard \in Nat /\ frame \in Nat /\ period_size \in Nat
      /\ <<>> \in Seq(Nat) /\ Len(<<>>) = 0
  BY <1>0, CaptureAssumption, EmptySeq DEF CapTypes
<1>b. /\ Between(capture.out, heard, a, ~broken) /\ Between(held, a, b, ~broken)
      /\ Between(proc_buf_in, b, c, ~broken) /\ Between(BeingRead, c, d, ~broken)
      /\ Between(Unread, d, frame, ~broken)
  BY <1>p DEF Pipeline
<1>le. heard <= a /\ a <= b /\ b <= c /\ c <= d /\ d <= frame BY <1>b DEF Between
<1>1. ASSUME NEW n \in ReadSizes, BeginRead(n) PROVE CapInv'
  <2>0. /\ n \in Nat /\ capture.at = "idle" /\ capture.out = <<>>
        /\ UNCHANGED <<frame, read_buf, effects, held, heard, broken>> /\ standby' = FALSE
        /\ capture' = [at |-> IF effects THEN "reload" ELSE "read", frames_num |-> n,
                       out |-> <<>>, want |-> n, rd |-> <<>>]
    BY <1>0, <1>1, CaptureAssumption DEF BeginRead, NoRead, CapPhases
  <2>1. capture'.out = <<>> /\ BeingRead' = <<>> /\ capture'.frames_num = n
        /\ capture'.at = (IF effects THEN "reload" ELSE "read") /\ capture'.want = n
    BY <2>0 DEF BeingRead
  <2>c. capture' \in [at : {"idle", "reload", "read", "process", "return", "failed"},
                      frames_num : Nat, out : Seq(Nat), want : Nat, rd : Seq(Nat)]
    BY <1>x, <2>0
  <2>2. BeingRead = <<>> BY <2>0 DEF BeingRead
  <2>3. CASE standby
    <3>1. proc_buf_in' = <<>> /\ read_buf_frames' = 0 BY <1>1, <2>3 DEF BeginRead
    <3>a. read_buf_frames' \in 0..period_size /\ ~ (read_buf_frames' > 0) BY <1>x, <3>1
    <3>2. CapTypes' BY <1>0, <1>x, <2>0, <2>c, <3>1, <3>a DEF CapTypes
    <3>3. Unread' = <<>>
      <4>1. period_size - 0 + 1 \in Int /\ period_size - 0 + 0 \in Int
            /\ period_size - 0 + 0 < period_size - 0 + 1
        BY <1>x
      <4> QED BY <3>1, <4>1, SubSeqEmpty DEF Unread, NextBuffer
    <3>4. CASE broken
      <4>1. Pipeline(a, b, b, b)'
        <5>1. Between(<<>>, heard, a, ~broken) /\ Between(<<>>, b, b, ~broken)
              /\ Between(<<>>, b, frame, ~broken)
          <6>1. Between(<<>>, heard, a, FALSE) /\ Between(<<>>, b, b, FALSE)
                /\ Between(<<>>, b, frame, FALSE)
            <7>1. FALSE \in BOOLEAN /\ b <= frame BY <1>x, <1>le
            <7> QED BY <1>x, <1>le, <7>1, BetweenEmpty
          <6>2. (~broken) = FALSE BY <1>0, <3>4 DEF CapTypes
          <6> QED BY <6>1, <6>2
        <5> QED BY <1>b, <2>0, <2>1, <3>1, <3>3, <5>1 DEF Pipeline
      <4>2. InPipeline' BY <4>1 DEF InPipeline
      <4>3. CapPhases' BY <1>0, <2>0, <2>1, <3>1, <3>4 DEF CapPhases
      <4>4. CapLength' BY <1>x, <2>0, <2>1 DEF CapLength
      <4> QED BY <3>2, <4>2, <4>3, <4>4 DEF CapInv
    <3>5. CASE ~ broken
      <4>0. proc_buf_in = <<>> /\ read_buf_frames = 0 BY <1>0, <2>3, <3>5 DEF CapPhases
      <4>1. Pipeline(a, b, c, d)'
        <5>1. Unread = Unread' BY <2>0, <3>1, <4>0 DEF Unread
        <5> QED BY <1>b, <2>0, <2>1, <2>2, <3>1, <4>0, <5>1 DEF Pipeline
      <4>2. InPipeline' BY <4>1 DEF InPipeline
      <4>3. CapPhases' BY <1>0, <2>0, <2>1, <3>1, <3>5, <4>0 DEF CapPhases
      <4>4. CapLength' BY <1>x, <2>0, <2>1 DEF CapLength
      <4> QED BY <3>2, <4>2, <4>3, <4>4 DEF CapInv
    <3> QED BY <3>4, <3>5
  <2>4. CASE ~ standby
    <3>1. UNCHANGED <<proc_buf_in, read_buf_frames>> BY <1>1, <2>4 DEF BeginRead
    <3>2. CapTypes' BY <1>0, <2>0, <2>c, <3>1 DEF CapTypes
    <3>3. Pipeline(a, b, c, d)'
      <4>1. Unread = Unread' BY <2>0, <3>1 DEF Unread
      <4> QED BY <1>b, <2>0, <2>1, <2>2, <3>1, <4>1 DEF Pipeline
    <3>4. InPipeline' BY <3>3 DEF InPipeline
    <3>5. CapPhases' BY <1>0, <2>0, <2>1, <2>4, <3>1 DEF CapPhases
    <3>6. CapLength' BY <1>x, <2>0, <2>1 DEF CapLength
    <3> QED BY <3>2, <3>4, <3>5, <3>6 DEF CapInv
  <2> QED BY <2>3, <2>4
<1>2. CASE Reload
  <2>0. /\ capture.at = "reload"
        /\ UNCHANGED <<frame, standby, read_buf, read_buf_frames, proc_buf_in, effects, held,
                       heard, broken>>
    BY <1>2 DEF Reload
  <2>1. /\ capture' \in [at : {"idle", "reload", "read", "process", "return", "failed"},
                         frames_num : Nat, out : Seq(Nat), want : Nat, rd : Seq(Nat)]
        /\ capture'.out = capture.out /\ capture'.frames_num = capture.frames_num
        /\ capture'.at \in {"read", "process"} /\ (capture'.at = "read" => capture'.rd = <<>>)
    <3>1. CASE Len(proc_buf_in) < capture.frames_num
      <4>1. capture.frames_num - Len(proc_buf_in) \in Nat BY <1>0, <3>1 DEF CapTypes
      <4>2. capture' = [capture EXCEPT !.at = "read", !.rd = <<>>,
                          !.want = capture.frames_num - Len(proc_buf_in)]
        BY <1>2, <3>1 DEF Reload
      <4> QED BY <1>0, <1>x, <4>1, <4>2 DEF CapTypes
    <3>2. CASE ~ (Len(proc_buf_in) < capture.frames_num)
      <4>1. capture' = [capture EXCEPT !.at = "process"] BY <1>2, <3>2 DEF Reload
      <4> QED BY <1>0, <4>1 DEF CapTypes
    <3> QED BY <3>1, <3>2
  <2>2. effects BY <1>0, <2>0 DEF CapPhases, CapTypes
  <2>3. BeingRead = <<>> /\ BeingRead' = <<>> /\ Unread' = Unread
    BY <2>0, <2>1 DEF BeingRead, Unread
  <2>4. CapTypes' BY <1>0, <2>0, <2>1 DEF CapTypes
  <2>5. Pipeline(a, b, c, d)' BY <1>b, <2>0, <2>1, <2>3 DEF Pipeline
  <2>6. CapPhases' BY <1>0, <2>0, <2>1, <2>2 DEF CapPhases
  <2>7. CapLength' BY <1>0, <2>0, <2>1 DEF CapLength
  <2>8. InPipeline' BY <2>5 DEF InPipeline
  <2> QED BY <2>4, <2>6, <2>7, <2>8 DEF CapInv
<1>3. CASE ReadFrames
  <2> DEFINE Cap == [at : {"idle", "reload", "read", "process", "return", "failed"},
                     frames_num : Nat, out : Seq(Nat), want : Nat, rd : Seq(Nat)]
  <2>0. /\ capture.at = "read" /\ Len(capture.rd) < capture.want /\ capture \in Cap
        /\ UNCHANGED <<standby, proc_buf_in, effects, held, heard>>
    BY <1>0, <1>3 DEF ReadFrames, CapTypes
  <2>1. CASE /\ capture' = [capture EXCEPT !.at = "failed"] /\ broken' = TRUE
             /\ UNCHANGED <<frame, read_buf, read_buf_frames>>
    <3>1. capture' \in Cap /\ capture'.at = "failed" /\ capture'.out = capture.out
          /\ capture'.frames_num = capture.frames_num
      BY <2>0, <2>1
    <3>2. CapTypes' BY <1>0, <2>0, <2>1, <3>1 DEF CapTypes
    <3>3. Pipeline(a, b, c, c)'
      <4>1. BeingRead' = <<>> /\ Unread' = Unread BY <2>1, <3>1 DEF BeingRead, Unread
      <4>2. /\ Between(capture.out, heard, a, FALSE) /\ Between(held, a, b, FALSE)
            /\ Between(proc_buf_in, b, c, FALSE) /\ Between(Unread, d, frame, FALSE)
        BY <1>b DEF Between
      <4>3. Between(Unread, c, frame, FALSE)
        <5>1. FALSE \in BOOLEAN /\ frame <= frame BY <1>x
        <5> QED BY <1>x, <1>le, <4>2, <5>1, BetweenWider
      <4>4. Between(<<>>, c, c, FALSE) BY BetweenEmpty
      <4>5. (~broken') = FALSE BY <2>1
      <4> QED BY <2>0, <2>1, <3>1, <4>1, <4>2, <4>3, <4>4, <4>5 DEF Pipeline
    <3>4. CapPhases' BY <1>0, <2>0, <2>1, <3>1 DEF CapPhases
    <3>5. CapLength' BY <1>0, <3>1 DEF CapLength
    <3> QED BY <3>2, <3>3, <3>4, <3>5 DEF CapInv, InPipeline
  <2>2. CASE \E fresh \in {read_buf_frames = 0} :
             \E buf \in {IF fresh THEN [i \in 1..period_size |-> frame + i] ELSE read_buf} :
             \E left \in {IF fresh THEN period_size ELSE read_buf_frames} :
             \E asked \in IF "resampler" \in CaptureEnv THEN 1..(capture.want - Len(capture.rd))
                          ELSE {capture.want - Len(capture.rd)} :
               /\ fresh => frame + period_size <= MaxFrame
               /\ frame' = IF fresh THEN frame + period_size ELSE frame
               /\ read_buf' = buf
               /\ capture' = [capture EXCEPT !.rd = @ \o NextBuffer(buf, left, Smaller(asked, left))]
               /\ read_buf_frames' = left - Smaller(asked, left)
               /\ UNCHANGED broken
    <3> DEFINE fresh == read_buf_frames = 0
               buf == IF fresh THEN [i \in 1..period_size |-> frame + i] ELSE read_buf
               left == IF fresh THEN period_size ELSE read_buf_frames
               u == NextBuffer(buf, left, left)
    <3>1. PICK asked \in IF "resampler" \in CaptureEnv THEN 1..(capture.want - Len(capture.rd))
                         ELSE {capture.want - Len(capture.rd)} :
            /\ frame' = IF fresh THEN frame + period_size ELSE frame
            /\ read_buf' = buf
            /\ capture' = [capture EXCEPT !.rd = @ \o NextBuffer(buf, left, Smaller(asked, left))]
            /\ read_buf_frames' = left - Smaller(asked, left)
            /\ UNCHANGED broken
      BY <2>2
    <3> DEFINE k == Smaller(asked, left)
    <3>2. asked \in Nat BY <1>0, <2>0 DEF CapTypes
    <3>3. buf \in Seq(Nat) /\ Len(buf) = period_size /\ left \in 0..period_size
      <4>1. CASE fresh BY <1>0, <1>x, <4>1, NewPeriod
      <4>2. CASE ~ fresh BY <1>0, <1>x, <4>2 DEF CapTypes
      <4> QED BY <4>1, <4>2
    <3>4. k \in 0..left
      <4>1. \A x, y \in Nat : Smaller(x, y) \in 0..y BY DEF Smaller
      <4>2. left \in Nat BY <1>x, <3>3
      <4> QED BY <3>2, <4>1, <4>2
    <3>5. Between(u, d, frame', ~broken)
      <4>1. CASE fresh
        <5>1. u = buf /\ Between(buf, frame, frame + period_size, TRUE)
          BY <1>0, <4>1, NewPeriod
        <5>2. Unread = <<>>
          <6>1. period_size - 0 + 1 \in Int /\ period_size - 0 + 0 \in Int
                /\ period_size - 0 + 0 < period_size - 0 + 1
            BY <1>x
          <6> QED BY <4>1, <6>1, SubSeqEmpty DEF Unread, NextBuffer
        <5>3. ~broken => d = frame BY <1>b, <1>x, <5>2, BetweenEmpty
        <5>4. frame' = frame + period_size /\ frame' \in Nat BY <1>x, <3>1, <4>1
        <5>5. CASE broken
          <6>1. Between(u, d, frame', FALSE)
            <7>1. TRUE \in BOOLEAN /\ frame + period_size <= frame' BY <1>x, <5>4
            <7> HIDE DEF u, buf
            <7> QED BY <1>x, <1>le, <5>1, <5>4, <7>1, BetweenWider
          <6> QED BY <5>5, <6>1 DEF Between
        <5>6. CASE ~ broken BY <5>1, <5>3, <5>4, <5>6 DEF Between
        <5> QED BY <5>5, <5>6
      <4>2. CASE ~ fresh
        <5>1. u = Unread /\ frame' = frame BY <3>1, <4>2 DEF Unread
        <5> QED BY <1>b, <5>1
      <4> QED BY <4>1, <4>2
    <3>6. frame' \in Nat BY <1>x, <3>1
    <3> HIDE DEF fresh, buf, left, k, u
    <3>7. /\ Len(u) = left /\ u \in Seq(Nat)
          /\ NextBuffer(buf, left, k) = SubSeq(u, 1, k)
          /\ NextBuffer(buf, left - k, left - k) = SubSeq(u, k + 1, left)
      BY <3>3, <3>4, TakeFromPeriod DEF u
    <3>8. Unread' = SubSeq(u, k + 1, left) BY <3>1, <3>7 DEF Unread, k
    <3>9. PICK mid \in Nat : /\ Between(SubSeq(u, 1, k), d, mid, ~broken)
                             /\ Between(SubSeq(u, k + 1, left), mid, frame', ~broken)
      BY <1>x, <3>4, <3>5, <3>6, <3>7, BetweenSplit
    <3>10. capture' = [capture EXCEPT !.rd = capture.rd \o SubSeq(u, 1, k)]
      BY <2>0, <3>1, <3>7 DEF k
    <3>11. Between(capture.rd \o SubSeq(u, 1, k), c, mid, ~broken)
      <4>1. Between(capture.rd, c, d, ~broken) BY <1>b, <2>0 DEF BeingRead
      <4> QED BY <1>x, <3>9, <4>1, BetweenJoin
    <3>12. /\ capture' \in Cap /\ capture'.at = "read" /\ capture'.out = capture.out
           /\ capture'.rd = capture.rd \o SubSeq(u, 1, k)
           /\ capture'.frames_num = capture.frames_num /\ capture'.want = capture.want
      <4>1. capture.rd \o SubSeq(u, 1, k) \in Seq(Nat) BY <3>11 DEF Between
      <4> QED BY <2>0, <3>10, <4>1
    <3>13. Pipeline(a, b, c, mid)'
      <4>1. BeingRead' = capture.rd \o SubSeq(u, 1, k) BY <3>12 DEF BeingRead
      <4>2. broken' = broken BY <3>1
      <4> QED BY <1>b, <2>0, <3>8, <3>9, <3>11, <3>12, <4>1, <4>2 DEF Pipeline
    <3>14. CapTypes'
      <4>1. read_buf' \in Seq(Nat) /\ Len(read_buf') = period_size BY <3>1, <3>3 DEF buf
      <4>2. read_buf_frames' \in 0..period_size
        BY <1>x, <3>1, <3>3, <3>4 DEF k, left
      <4> QED BY <1>0, <2>0, <3>1, <3>6, <3>12, <4>1, <4>2 DEF CapTypes
    <3>15. CapPhases' BY <1>0, <2>0, <3>1, <3>12 DEF CapPhases
    <3>16. CapLength' BY <1>0, <3>12, <2>0 DEF CapLength
    <3> QED BY <3>13, <3>14, <3>15, <3>16 DEF CapInv, InPipeline
  <2> QED BY <1>3, <2>1, <2>2 DEF ReadFrames
<1>4. CASE ReadDone
  <2> DEFINE Cap == [at : {"idle", "reload", "read", "process", "return", "failed"},
                     frames_num : Nat, out : Seq(Nat), want : Nat, rd : Seq(Nat)]
  <2>0. /\ capture.at = "read" /\ Len(capture.rd) = capture.want /\ capture \in Cap
        /\ UNCHANGED <<frame, standby, read_buf, read_buf_frames, effects, held, heard, broken>>
        /\ ~ standby
    BY <1>0, <1>4 DEF ReadDone, CapTypes, CapPhases
  <2>1. Unread' = Unread /\ BeingRead = capture.rd BY <2>0 DEF Unread, BeingRead
  <2>2. CASE effects
    <3>1. proc_buf_in' = proc_buf_in \o capture.rd
          /\ capture' = [capture EXCEPT !.at = "process", !.rd = <<>>]
      BY <1>4, <2>2 DEF ReadDone
    <3>2. /\ capture' \in Cap /\ capture'.at = "process" /\ capture'.out = capture.out
          /\ capture'.frames_num = capture.frames_num
      BY <1>x, <2>0, <3>1
    <3>3. Between(proc_buf_in', b, d, ~broken)
      BY <1>b, <1>x, <2>1, <3>1, BetweenJoin
    <3>4. proc_buf_in' \in Seq(Nat) BY <3>3 DEF Between
    <3>5. CapTypes' BY <1>0, <2>0, <3>2, <3>4 DEF CapTypes
    <3>6. Pipeline(a, b, d, d)'
      <4>1. BeingRead' = <<>> BY <3>2 DEF BeingRead
      <4>2. Between(<<>>, d, d, ~broken) BY <1>x, BetweenEmpty
      <4> QED BY <1>b, <2>0, <2>1, <3>2, <3>3, <4>1, <4>2 DEF Pipeline
    <3>7. CapPhases' BY <1>0, <2>0, <2>2, <3>2 DEF CapPhases
    <3>8. CapLength' BY <1>0, <3>2 DEF CapLength
    <3> QED BY <3>5, <3>6, <3>7, <3>8 DEF CapInv, InPipeline
  <2>3. CASE ~ effects
    <3>1. proc_buf_in' = proc_buf_in
          /\ capture' = [capture EXCEPT !.at = "return", !.out = capture.rd]
      BY <1>4, <2>3 DEF ReadDone
    <3>2. /\ capture' \in Cap /\ capture'.at = "return" /\ capture'.out = capture.rd
          /\ capture'.frames_num = capture.frames_num
      BY <2>0, <3>1
    <3>3. /\ capture.out = <<>> /\ held = <<>> /\ proc_buf_in = <<>>
          /\ capture.want = capture.frames_num
      BY <1>0, <2>0, <2>3 DEF CapPhases
    <3>4. CapTypes' BY <1>0, <2>0, <3>1, <3>2 DEF CapTypes
    <3>5. heard <= c /\ (~broken => heard = c)
      <4>1. /\ Between(<<>>, heard, a, ~broken) /\ Between(<<>>, a, b, ~broken)
            /\ Between(<<>>, b, c, ~broken)
        BY <1>b, <3>3
      <4>2. ~broken => heard = a /\ a = b /\ b = c BY <1>x, <4>1, BetweenEmpty
      <4> QED BY <1>x, <1>le, <4>2
    <3>6. Between(capture.rd, heard, d, ~broken)
      <4>1. CASE broken
        <5>1. d <= d /\ Between(capture.rd, c, d, ~broken) BY <1>b, <2>1
        <5>2. Between(capture.rd, heard, d, FALSE) BY <1>x, <3>5, <5>1, BetweenWider
        <5> QED BY <4>1, <5>2 DEF Between
      <4>2. CASE ~ broken BY <1>b, <2>1, <3>5, <4>2
      <4> QED BY <4>1, <4>2
    <3>7. Pipeline(d, d, d, d)'
      <4>1. BeingRead' = <<>> BY <3>2 DEF BeingRead
      <4>2. Between(<<>>, d, d, ~broken) BY <1>x, BetweenEmpty
      <4> QED BY <1>b, <2>0, <2>1, <3>1, <3>2, <3>3, <3>6, <4>1, <4>2 DEF Pipeline
    <3>8. CapPhases' BY <1>0, <2>0, <2>3, <3>1, <3>2, <3>3 DEF CapPhases
    <3>9. CapLength' BY <2>0, <3>2, <3>3 DEF CapLength
    <3> QED BY <3>4, <3>7, <3>8, <3>9 DEF CapInv, InPipeline
  <2> QED BY <2>2, <2>3
<1>5. CASE Process
  <2> DEFINE Cap == [at : {"idle", "reload", "read", "process", "return", "failed"},
                     frames_num : Nat, out : Seq(Nat), want : Nat, rd : Seq(Nat)]
             room == capture.frames_num - Len(capture.out)
  <2>0. /\ capture.at = "process" /\ capture \in Cap
        /\ UNCHANGED <<frame, standby, read_buf, read_buf_frames, effects, heard, broken>>
        /\ ~ standby /\ effects
    BY <1>0, <1>5 DEF Process, CapTypes, CapPhases
  <2>b. PICK consumed \in 0..Len(proc_buf_in) :
          \E produced \in 0..Smaller(room, Len(held) + consumed) :
          LET all == held \o SubSeq(proc_buf_in, 1, consumed)
          IN  /\ held' = SubSeq(all, produced + 1, Len(all))
              /\ capture' = [capture EXCEPT !.out = @ \o SubSeq(all, 1, produced),
                               !.at = IF produced = room THEN "return" ELSE "reload"]
              /\ proc_buf_in' = SubSeq(proc_buf_in, consumed + 1, Len(proc_buf_in))
    BY <1>5 DEF Process
  <2>1. PICK produced \in 0..Smaller(room, Len(held) + consumed) :
          LET all == held \o SubSeq(proc_buf_in, 1, consumed)
          IN  /\ held' = SubSeq(all, produced + 1, Len(all))
              /\ capture' = [capture EXCEPT !.out = @ \o SubSeq(all, 1, produced),
                               !.at = IF produced = room THEN "return" ELSE "reload"]
              /\ proc_buf_in' = SubSeq(proc_buf_in, consumed + 1, Len(proc_buf_in))
    BY <2>b
  <2> DEFINE all == held \o SubSeq(proc_buf_in, 1, consumed)
             next == IF produced = room THEN "return" ELSE "reload"
  <2>n. /\ held \in Seq(Nat) /\ proc_buf_in \in Seq(Nat) /\ room \in Nat /\ Len(held) \in Nat
        /\ Len(proc_buf_in) \in Nat /\ consumed \in Nat /\ produced \in Nat
        /\ produced <= room /\ produced <= Len(held) + consumed
    <3>1. /\ held \in Seq(Nat) /\ proc_buf_in \in Seq(Nat) /\ room \in Nat /\ Len(held) \in Nat
          /\ Len(proc_buf_in) \in Nat /\ consumed \in Nat
      BY <1>0, <2>0 DEF CapTypes, CapLength
    <3> HIDE DEF room
    <3>2. \A x, y \in Nat : Smaller(x, y) \in Nat /\ Smaller(x, y) <= x /\ Smaller(x, y) <= y
      BY DEF Smaller
    <3>3. Len(held) + consumed \in Nat BY <3>1
    <3> DEFINE most == Smaller(room, Len(held) + consumed)
    <3>4. most \in Nat /\ most <= room /\ most <= Len(held) + consumed BY <3>1, <3>2, <3>3
    <3> HIDE DEF most
    <3>5. produced \in 0..most BY DEF most
    <3> QED BY <3>1, <3>3, <3>4, <3>5
  <2>2. PICK e \in Nat : /\ Between(SubSeq(proc_buf_in, 1, consumed), b, e, ~broken)
                         /\ Between(SubSeq(proc_buf_in, consumed + 1, Len(proc_buf_in)), e, c,
                                    ~broken)
    BY <1>b, <1>x, BetweenSplit
  <2>3. Between(all, a, e, ~broken) BY <1>b, <1>x, <2>2, BetweenJoin
  <2>4. Len(all) = Len(held) + consumed
    <3>1. 0 + consumed = consumed /\ 0 + 1 = 1 /\ 0 + consumed <= Len(proc_buf_in) /\ 0 \in Nat
      BY <2>n
    <3>2. Len(SubSeq(proc_buf_in, 0 + 1, 0 + consumed)) = consumed
          /\ SubSeq(proc_buf_in, 0 + 1, 0 + consumed) \in Seq(Nat)
      BY <2>n, <3>1, CutOut, Zenon
    <3>3. Len(SubSeq(proc_buf_in, 1, consumed)) = consumed
          /\ SubSeq(proc_buf_in, 1, consumed) \in Seq(Nat)
      BY <3>1, <3>2
    <3> QED BY <2>n, <3>3, ConcatProperties
  <2>5. produced \in 0..Len(all) BY <2>n, <2>4
  <2>6. /\ held' = SubSeq(all, produced + 1, Len(all))
        /\ capture' = [capture EXCEPT !.out = capture.out \o SubSeq(all, 1, produced), !.at = next]
        /\ proc_buf_in' = SubSeq(proc_buf_in, consumed + 1, Len(proc_buf_in))
    BY <2>0, <2>1
  <2>a. next \in {"return", "reload"} /\ (next = "return" => produced = room) OBVIOUS
  <2> HIDE DEF all, next
  <2>7. PICK f \in Nat : /\ Between(SubSeq(all, 1, produced), a, f, ~broken)
                         /\ Between(SubSeq(all, produced + 1, Len(all)), f, e, ~broken)
    BY <1>x, <2>3, <2>5, BetweenSplit
  <2>8. Between(capture.out \o SubSeq(all, 1, produced), heard, f, ~broken)
    BY <1>b, <1>x, <2>7, BetweenJoin
  <2>9. /\ capture' \in Cap /\ capture'.at = next
        /\ capture'.out = capture.out \o SubSeq(all, 1, produced)
        /\ capture'.frames_num = capture.frames_num
    <3>1. capture.out \o SubSeq(all, 1, produced) \in Seq(Nat) BY <2>8 DEF Between
    <3> QED BY <2>0, <2>6, <2>a, <3>1
  <2>10. Pipeline(f, e, c, d)'
    <3>1. BeingRead = <<>> /\ BeingRead' = <<>> /\ Unread' = Unread
      BY <2>0, <2>9, <2>a DEF BeingRead, Unread
    <3> QED BY <1>b, <2>0, <2>2, <2>6, <2>7, <2>8, <2>9, <3>1 DEF Pipeline
  <2>11. CapTypes'
    <3>1. held' \in Seq(Nat) /\ proc_buf_in' \in Seq(Nat) BY <2>2, <2>6, <2>7 DEF Between
    <3> QED BY <1>0, <2>0, <2>9, <3>1 DEF CapTypes
  <2>12. CapPhases' BY <1>0, <2>0, <2>9, <2>a DEF CapPhases
  <2>13. CapLength'
    <3>1. Len(SubSeq(all, 1, produced)) = produced /\ SubSeq(all, 1, produced) \in Seq(Nat)
      <4>1. 0 + produced = produced /\ 0 + 1 = 1 /\ 0 + produced <= Len(all) /\ 0 \in Nat
        BY <2>n, <2>4
      <4>2. all \in Seq(Nat) BY <2>3 DEF Between
      <4>3. Len(SubSeq(all, 0 + 1, 0 + produced)) = produced
            /\ SubSeq(all, 0 + 1, 0 + produced) \in Seq(Nat)
        BY <2>n, <4>1, <4>2, CutOut, Zenon
      <4> QED BY <4>1, <4>3
    <3>2. capture.out \in Seq(Nat) /\ Len(capture.out) \in Nat /\ capture.frames_num \in Nat
      BY <2>0
    <3>3. Len(capture'.out) = Len(capture.out) + produced
      <4>1. Len(capture.out \o SubSeq(all, 1, produced))
              = Len(capture.out) + Len(SubSeq(all, 1, produced))
        BY <3>1, <3>2, ConcatProperties
      <4> QED BY <2>9, <3>1, <4>1
    <3>4. Len(capture.out) + produced <= capture.frames_num
          /\ (produced = room => Len(capture.out) + produced = capture.frames_num)
      <4>1. \A x, y, z \in Nat : z <= x - y => y + z <= x /\ (z = x - y => y + z = x) OBVIOUS
      <4>2. produced <= capture.frames_num - Len(capture.out) /\ produced \in Nat BY <2>n
      <4> QED BY <3>2, <4>1, <4>2
    <3> QED BY <2>9, <2>a, <3>3, <3>4 DEF CapLength
  <2> QED BY <2>10, <2>11, <2>12, <2>13 DEF CapInv, InPipeline
<1>6. CASE EndRead
  <2>0. /\ capture.at \in {"return", "failed"} /\ ~ standby
        /\ capture' = NoRead /\ standby' = (capture.at = "failed")
        /\ UNCHANGED <<frame, read_buf, read_buf_frames, proc_buf_in, effects, held, broken>>
        /\ heard' = IF capture.out = <<>> \/ capture.at = "failed" THEN heard
                    ELSE capture.out[Len(capture.out)]
        /\ capture.at = "failed" => broken
    BY <1>0, <1>6 DEF EndRead, CapPhases
  <2>1. /\ capture' \in [at : {"idle", "reload", "read", "process", "return", "failed"},
                         frames_num : Nat, out : Seq(Nat), want : Nat, rd : Seq(Nat)]
        /\ capture'.at = "idle" /\ capture'.out = <<>> /\ capture'.frames_num = 0
    BY <1>x, <2>0 DEF NoRead
  <2>2. heard' \in Nat /\ heard' <= a /\ (~broken => heard' = a)
    <3>1. CASE capture.at = "failed" BY <1>x, <1>le, <2>0, <3>1
    <3>2. CASE capture.at # "failed" /\ capture.out = <<>>
      <4>1. Between(<<>>, heard, a, ~broken) BY <1>b, <3>2
      <4> QED BY <1>x, <1>le, <2>0, <3>2, <4>1, BetweenEmpty
    <3>3. CASE capture.at # "failed" /\ capture.out # <<>>
      BY <1>b, <1>x, <2>0, <3>3, LastOf
    <3> QED BY <3>1, <3>2, <3>3
  <2>3. Between(<<>>, heard', a, ~broken)
    <3>1. CASE broken
      <4>1. FALSE \in BOOLEAN OBVIOUS
      <4>2. Between(<<>>, heard', a, FALSE) BY <2>2, <4>1, BetweenEmpty
      <4> QED BY <3>1, <4>2 DEF Between
    <3>2. CASE ~ broken BY <1>x, <2>2, <3>2, BetweenEmpty
    <3> QED BY <3>1, <3>2
  <2>4. Pipeline(a, b, c, d)'
    <3>1. BeingRead = <<>> /\ BeingRead' = <<>> /\ Unread' = Unread
      BY <2>0, <2>1 DEF BeingRead, Unread
    <3> QED BY <1>b, <2>0, <2>1, <2>3, <3>1 DEF Pipeline
  <2>5. CapTypes'
    <3>1. standby' \in BOOLEAN BY <2>0
    <3> QED BY <1>0, <2>0, <2>1, <2>2, <3>1 DEF CapTypes
  <2>6. CapPhases' BY <1>0, <2>0, <2>1 DEF CapPhases
  <2>7. CapLength' BY <1>x, <2>1 DEF CapLength
  <2> QED BY <2>4, <2>5, <2>6, <2>7 DEF CapInv, InPipeline
<1>7. CASE InStandby \/ SwitchEffects
  <2>0. /\ capture.at = "idle" /\ standby' \in BOOLEAN /\ broken' \in BOOLEAN
        /\ effects' \in BOOLEAN /\ capture.out = <<>>
        /\ UNCHANGED <<frame, read_buf, read_buf_frames, proc_buf_in, capture, heard>>
    BY <1>0, <1>7 DEF InStandby, SwitchEffects, CapTypes, CapPhases
  <2>1. CASE InStandby
    <3>1. UNCHANGED <<effects, held>> /\ standby' = TRUE /\ broken' = TRUE
      BY <2>1 DEF InStandby
    <3>2. CapTypes' BY <1>0, <2>0, <3>1 DEF CapTypes
    <3>3. Pipeline(a, b, c, d)'
      <4>1. Unread' = Unread /\ BeingRead' = BeingRead BY <2>0 DEF Unread, BeingRead
      <4>2. /\ Between(capture.out, heard, a, FALSE) /\ Between(held, a, b, FALSE)
            /\ Between(proc_buf_in, b, c, FALSE) /\ Between(BeingRead, c, d, FALSE)
            /\ Between(Unread, d, frame, FALSE)
        BY <1>b DEF Between
      <4>3. (~broken') = FALSE BY <3>1
      <4> QED BY <2>0, <3>1, <4>1, <4>2, <4>3 DEF Pipeline
    <3>4. CapPhases' BY <1>0, <2>0, <3>1 DEF CapPhases
    <3>5. CapLength' BY <1>0, <2>0 DEF CapLength
    <3> QED BY <3>2, <3>3, <3>4, <3>5 DEF CapInv, InPipeline
  <2>2. CASE SwitchEffects
    <3>1. /\ standby /\ UNCHANGED <<standby, broken>> /\ effects' = ~effects /\ held' = <<>>
      BY <2>2 DEF SwitchEffects
    <3>2. CapTypes' BY <1>0, <1>x, <2>0, <3>1 DEF CapTypes
    <3>3. Pipeline(a, b, c, d)'
      <4>1. Unread' = Unread /\ BeingRead' = BeingRead BY <2>0 DEF Unread, BeingRead
      <4>2. Between(<<>>, a, b, ~broken)
        <5>1. CASE broken
          <6>1. FALSE \in BOOLEAN OBVIOUS
          <6>2. Between(<<>>, a, b, FALSE) BY <1>le, <6>1, BetweenEmpty
          <6> QED BY <5>1, <6>2 DEF Between
        <5>2. CASE ~ broken
          <6>1. held = <<>> BY <1>0, <3>1, <5>2 DEF CapPhases
          <6> QED BY <1>b, <6>1
        <5> QED BY <5>1, <5>2
      <4> QED BY <1>b, <2>0, <3>1, <4>1, <4>2 DEF Pipeline
    <3>4. CapPhases' BY <1>0, <2>0, <3>1 DEF CapPhases
    <3>5. CapLength' BY <1>0, <2>0 DEF CapLength
    <3> QED BY <3>2, <3>3, <3>4, <3>5 DEF CapInv, InPipeline
  <2> QED BY <1>7, <2>1, <2>2
<1>8. CASE UNCHANGED capvars
  <2>1. (CapTypes /\ CapPhases /\ CapLength)'
    BY <1>0, <1>8 DEF capvars, CapTypes, CapPhases, CapLength
  <2>2. Unread' = Unread /\ BeingRead' = BeingRead BY <1>8 DEF capvars, Unread, BeingRead
  <2>3. Pipeline(a, b, c, d)' BY <1>8, <1>b, <2>2 DEF capvars, Pipeline
  <2> QED BY <2>1, <2>3 DEF CapInv, InPipeline
<1> QED BY <1>1, <1>2, <1>3, <1>4, <1>5, <1>6, <1>7, <1>8 DEF CapNext
(***************************************************************************)
(* A client of in_read gets as many frames as it asks for, in the order    *)
(* they were captured, none of them twice, and misses none until the       *)
(* stream is stopped (CaptureInOrder of audio_hw.c), for any size of the   *)
(* period, any sizes of reads, failing reads, resampling, and whatever the *)
(* effects keep back, as long as effects come and go in standby only.      *)
(***************************************************************************)
THEOREM CapturedInOrder ==
  ASSUME "detach" \notin CaptureEnv
  PROVE  CapSpec => []CaptureInOrder
<1>1. CapInv /\ [CapNext]_capvars => CapInv' BY CapStep
<1>2. CapInv => CaptureInOrder
  <2> SUFFICES ASSUME CapInv, capture.at = "return"
               PROVE  /\ Len(capture.out) = capture.frames_num
                      /\ \A i \in DOMAIN capture.out :
                           LET before == IF i = 1 THEN heard ELSE capture.out[i - 1]
                           IN  /\ capture.out[i] > before
                               /\ ~broken => capture.out[i] = before + 1
    BY DEF CaptureInOrder
  <2>1. PICK a \in Nat : Between(capture.out, heard, a, ~broken)
    BY DEF CapInv, InPipeline, Pipeline
  <2>2. /\ capture.out \in Seq(Nat) /\ Len(capture.out) \in Nat
        /\ DOMAIN capture.out = 1..Len(capture.out) /\ heard \in Nat
        /\ \A i \in 1..Len(capture.out) : capture.out[i] \in Nat
    BY <2>1 DEF Between, CapInv, CapTypes
  <2>3. ASSUME NEW i \in 1..Len(capture.out), i # 1
        PROVE  /\ capture.out[i] > capture.out[i - 1]
               /\ ~broken => capture.out[i] = capture.out[i - 1] + 1
    <3>1. i - 1 \in 1..Len(capture.out) /\ i - 1 < i BY <2>2, <2>3
    <3>2. capture.out[i - 1] < capture.out[i] BY <2>1, <3>1 DEF Between
    <3>3. ~broken => capture.out[i] = heard + i /\ capture.out[i - 1] = heard + (i - 1)
      BY <2>1, <3>1 DEF Between
    <3> QED BY <2>2, <3>1, <3>2, <3>3
  <2>4. 1 \in 1..Len(capture.out) => /\ capture.out[1] > heard
                                     /\ ~broken => capture.out[1] = heard + 1
    BY <2>1, <2>2 DEF Between
  <2>5. Len(capture.out) = capture.frames_num BY DEF CapInv, CapLength
  <2> QED BY <2>2, <2>3, <2>4, <2>5
<1> QED BY CapInitial, <1>1, <1>2, PTL DEF CapSpec
=============================================================================
