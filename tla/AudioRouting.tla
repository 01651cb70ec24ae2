---------------------------- MODULE AudioRouting ----------------------------
(***************************************************************************)
(* Routing in the audio HAL (audio/hal/audio_hw.c): which sound device a   *)
(* use case gets, the reference counts of the sound devices, the mixer     *)
(* paths, and what starting and stopping a stream does to them.            *)
(*                                                                         *)
(* Everything here runs with adev->lock held, so it is written as          *)
(* operators on a record h = [adev, stream, alsa], the state of the HAL;   *)
(* AudioHw makes them steps of threads.                                    *)
(*                                                                         *)
(* A set of audio devices stands for the bits of an audio_devices_t.  The  *)
(* tablet has no telephony (config_voice_capable is false), so that        *)
(* AUDIO_MODE_IN_CALL is never set and there is no voice call use case.    *)
(***************************************************************************)
EXTENDS Integers, Sequences, FiniteSets, SequencesExt

CONSTANTS
  primary_output,   \* the output stream; the policy configures just one
  Captures,         \* input streams of USECASE_AUDIO_CAPTURE
  Hotwords,         \* input streams of USECASE_AUDIO_CAPTURE_HOTWORD
  NoStream

Ins == Captures \cup Hotwords
Streams == {primary_output} \cup Ins

ASSUME StreamsAssumption ==
  /\ Captures \cap Hotwords = {}
  /\ primary_output \notin Ins
  /\ NoStream \notin Streams

OutDevices == {"speaker", "headset", "headphone", "sco"}
InDevices == {"builtin_mic", "back_mic", "headset_mic", "sco_mic"}
Sources == {"mic", "voice_communication", "camcorder", "voice_recognition",
            "hotword"}

\* snd_device_t, by the name of its mixer path.
SND_DEVICE_NONE == "none"
OutSndDevices == {"speaker", "headphones", "speaker-and-headphones"}
InSndDevices == {"handset-mic", "speaker-mic", "headset-mic", "camcorder-mic",
                 "voice-rec-mic", "voice-rec-headset-mic"}
SndDevices == OutSndDevices \cup InSndDevices

\* What get_pcm_device finds: an ALSA substream, or the DSP of the sound
\* trigger HAL.
PcmDevices == {"playback", "capture", "dsp"}

\* pcm_dev_list of a stream has at most one member.
NO_PCM == "empty list"
CLOSED_PCM == "not open"

\* CAPTURE_DEFAULT_CHANNEL_COUNT; the hotword profile has one channel.
ProfileChannels(s) == IF s \in Hotwords THEN 1 ELSE 4

AUDIO_USECASE(s) == CASE s = primary_output -> "playback"
                      [] s \in Hotwords -> "capture-hotword"
                      [] OTHER -> "capture"

Usecases == [id : {"playback", "capture", "capture-hotword"},
             stream : Streams,
             out_snd_device : OutSndDevices \cup {SND_DEVICE_NONE},
             in_snd_device : InSndDevices \cup {SND_DEVICE_NONE},
             mixer_list : BOOLEAN]     \* has the card's mixer in its list

StreamStates == [open : BOOLEAN,
                 standby : BOOLEAN,
                 devices : SUBSET (OutDevices \cup InDevices),
                 source : Sources,
                 pcm : PcmDevices \cup {NO_PCM, CLOSED_PCM},
                 channels : Nat,           \* config.channels
                 num_preprocessors : Nat,
                 aux_channels : {0, 4},
                 aux_channels_changed : BOOLEAN]

AdevStates == [active_input : Ins \cup {NoStream},
               usecase_list : Seq(Usecases),
               snd_dev_ref_cnt : [SndDevices -> Nat],
               route : SUBSET SndDevices]  \* mixer paths applied to the card

-----------------------------------------------------------------------------
(* Choosing devices *)

\* The devices the profiles of a stream's type cover.  The three playback
\* profiles differ in their DSP program only.
profile_devices(s) ==
  IF s = primary_output THEN {"speaker", "headset", "headphone"}
  ELSE {"builtin_mic", "back_mic", "headset_mic"}

get_pcm_device(s, devices) ==
  IF devices = {} \/ ~ devices \subseteq profile_devices(s) THEN NO_PCM
  ELSE CASE s = primary_output -> "playback"
         [] s \in Hotwords -> "dsp"
         [] OTHER -> "capture"

\* get_usecase_from_id; 0 when there is none.
get_usecase_from_id(a, id) ==
  SelectInSeq(a.usecase_list, LAMBDA uc : uc.id = id)

\* The stream of get_usecase_from_type(adev, PCM_CAPTURE|VOICE_CALL).
active_input(a) ==
  LET i == SelectInSeq(a.usecase_list, LAMBDA uc : uc.stream \in Ins)
  IN IF i = 0 THEN NoStream ELSE a.usecase_list[i].stream

get_output_snd_device(devices) ==
  LET wired == {"headset", "headphone"} IN
  CASE devices \in {{"speaker", w} : w \in wired} -> "speaker-and-headphones"
    [] Cardinality(devices) = 1 /\ devices \subseteq wired -> "headphones"
    [] devices = {"speaker"} -> "speaker"
    [] OTHER -> SND_DEVICE_NONE

\* The end of get_input_snd_device, for sources with no device of their own.
default_mic(in_device) ==
  IF "builtin_mic" \in in_device THEN "handset-mic"
  ELSE IF "back_mic" \in in_device THEN "speaker-mic"
  ELSE IF "headset_mic" \in in_device THEN "headset-mic"
  ELSE "handset-mic"

get_input_snd_device(h, out_device) ==
  LET in == active_input(h.adev) IN
  IF in = NoStream THEN SND_DEVICE_NONE      \* AUDIO_SOURCE_DEFAULT
  ELSE LET source == h.stream[in].source
           in_device == h.stream[in].devices
       IN CASE source = "camcorder"
               /\ in_device \cap {"builtin_mic", "back_mic"} # {}
                 -> "camcorder-mic"
            [] source = "voice_recognition" /\ "builtin_mic" \in in_device
                 -> "voice-rec-mic"
            [] source = "voice_recognition" /\ "builtin_mic" \notin in_device
               /\ "headset_mic" \in in_device
                 -> "voice-rec-headset-mic"
            [] source \in {"voice_communication", "mic"}
               /\ "speaker" \in out_device
                 -> default_mic({"back_mic"})
            [] OTHER -> default_mic(in_device)

-----------------------------------------------------------------------------
(* Reference counts and mixer paths *)

\* There is no name, and so no path, for SND_DEVICE_NONE.
enable_snd_device(a, uc, snd_device) ==
  IF snd_device = SND_DEVICE_NONE THEN a
  ELSE [a EXCEPT !.snd_dev_ref_cnt[snd_device] = @ + 1,
                 !.route = IF a.snd_dev_ref_cnt[snd_device] = 0 /\ uc.mixer_list
                           THEN @ \cup {snd_device} ELSE @]

disable_snd_device(a, uc, snd_device) ==
  IF snd_device = SND_DEVICE_NONE THEN a
  ELSE IF a.snd_dev_ref_cnt[snd_device] <= 0 THEN a
  ELSE [a EXCEPT !.snd_dev_ref_cnt[snd_device] = @ - 1,
                 !.route = IF a.snd_dev_ref_cnt[snd_device] = 1 /\ uc.mixer_list
                           THEN @ \ {snd_device} ELSE @]

MutantSwitchKeepsOld(a, i, out, in) ==
  LET uc == a.usecase_list[i]
  IN [enable_snd_device(enable_snd_device(a, uc, out), uc, in)
        EXCEPT !.usecase_list[i].out_snd_device = out,
               !.usecase_list[i].in_snd_device = in]

\* The end of select_devices: use case i leaves its devices for new ones.
switch_devices(a, i, out, in) ==
  LET uc == a.usecase_list[i]
      off == disable_snd_device(
               disable_snd_device(a, uc, uc.out_snd_device), uc, uc.in_snd_device)
      on == enable_snd_device(enable_snd_device(off, uc, out), uc, in)
  IN IF out = uc.out_snd_device /\ in = uc.in_snd_device THEN a
     ELSE [on EXCEPT !.usecase_list[i].out_snd_device = out,
                     !.usecase_list[i].in_snd_device = in]

\* select_devices(adev, USECASE_AUDIO_CAPTURE).
select_capture(h) ==
  LET i == get_usecase_from_id(h.adev, "capture")
      in == active_input(h.adev)
      out == h.stream[primary_output]
      mic == IF h.stream[in].source = "voice_communication" /\ ~ out.standby
             THEN get_input_snd_device(h, out.devices)
             ELSE get_input_snd_device(h, {})
  IN IF i = 0 THEN h
     ELSE [h EXCEPT !.adev = switch_devices(@, i, SND_DEVICE_NONE, mic)]

\* select_devices(adev, USECASE_AUDIO_PLAYBACK), which calls itself for the
\* active input.
select_playback(h) ==
  LET in == active_input(h.adev)
      h1 == IF in \in Captures /\ h.stream[in].source = "voice_communication"
            THEN select_capture(h) ELSE h
      i == get_usecase_from_id(h.adev, "playback")
      out == get_output_snd_device(h.stream[primary_output].devices)
  IN IF i = 0 THEN h
     ELSE [h1 EXCEPT !.adev = switch_devices(@, i, out, SND_DEVICE_NONE)]

select_devices(h, id) ==
  CASE id = "playback" -> select_playback(h)
    [] id = "capture" -> select_capture(h)
    [] id = "capture-hotword" -> h

-----------------------------------------------------------------------------
(* Starting and stopping streams.  A start returns [h, ok]; ready says that  *)
(* pcm_open gave a PCM that is ready.                                        *)

NewUsecase(s, mixer_list) ==
  [id |-> AUDIO_USECASE(s), stream |-> s, out_snd_device |-> SND_DEVICE_NONE,
   in_snd_device |-> SND_DEVICE_NONE, mixer_list |-> mixer_list]

\* The kernel opens a substream once.
pcm_open(h, s, device, ready) ==
  IF ready /\ device \notin h.alsa
  THEN [h |-> [h EXCEPT !.alsa = @ \cup {device}, !.stream[s].pcm = device],
        ok |-> TRUE]
  ELSE [h |-> [h EXCEPT !.stream[s].pcm = CLOSED_PCM], ok |-> FALSE]

MutantCloseForgets(h, s) == h

\* out_close_pcm_devices, in_close_pcm_devices.
close_pcm_devices(h, s) ==
  IF h.stream[s].pcm \in PcmDevices
  THEN [h EXCEPT !.alsa = @ \ {h.stream[s].pcm}, !.stream[s].pcm = CLOSED_PCM]
  ELSE h

\* uc_select_pcm_devices and the rest of enable_output_path_l: a device for
\* which there is no profile leaves the stream without a PCM and the use case
\* without a mixer.
enable_output_path_l(h, s) ==
  LET device == get_pcm_device(s, h.stream[s].devices)
      uc == NewUsecase(s, device # NO_PCM)
  IN select_devices(
       [h EXCEPT !.stream[s].pcm = IF device = NO_PCM THEN NO_PCM ELSE CLOSED_PCM,
                 !.adev.usecase_list = Append(@, uc)],
       AUDIO_USECASE(s))

\* stop_output_stream, which is disable_output_path_l.
stop_output_stream(h, s) ==
  LET i == get_usecase_from_id(h.adev, AUDIO_USECASE(s))
      uc == h.adev.usecase_list[i]
      a == disable_snd_device(h.adev, uc, uc.out_snd_device)
  IN IF i = 0 THEN h
     ELSE [h EXCEPT !.adev = [a EXCEPT !.usecase_list = RemoveAt(@, i)],
                    !.stream[s].pcm = NO_PCM]

\* start_output_stream with out_open_pcm_devices.
start_output_stream(h, s, ready) ==
  LET device == get_pcm_device(s, h.stream[s].devices)
      h1 == enable_output_path_l(h, s)
      opened == pcm_open(h1, s, device, ready)
  IN CASE device = NO_PCM -> [h |-> h1, ok |-> TRUE]
       [] device # NO_PCM /\ opened.ok -> opened
       [] OTHER -> [h |-> stop_output_stream(opened.h, s), ok |-> FALSE]

do_out_standby_l(h, s) ==
  stop_output_stream(
    close_pcm_devices([h EXCEPT !.stream[s].standby = TRUE], s), s)

stop_input_stream(h, s) ==
  LET i == get_usecase_from_id(h.adev, AUDIO_USECASE(s))
      uc == h.adev.usecase_list[i]
      a == [h.adev EXCEPT !.active_input = NoStream]
  IN IF i = 0 THEN [h EXCEPT !.adev = a]
     ELSE [h EXCEPT !.adev = [disable_snd_device(a, uc, uc.in_snd_device)
                                EXCEPT !.usecase_list = RemoveAt(@, i)],
                    !.stream[s].pcm = NO_PCM]

\* resampler says that create_resampler succeeds: its status is what
\* start_input_stream returns, but does not undo anything.
start_input_stream(h, s, ready, resampler) ==
  LET device == get_pcm_device(s, h.stream[s].devices)
      st == h.stream[s]
      h1 == select_devices(
              [h EXCEPT !.adev.active_input = s,
                        !.adev.usecase_list = Append(@, NewUsecase(s, TRUE)),
                        !.stream[s].pcm = CLOSED_PCM],
              AUDIO_USECASE(s))
      h2 == [h1 EXCEPT !.stream[s].channels =
               IF st.aux_channels_changed THEN st.aux_channels
               ELSE ProfileChannels(s)]
      opened == pcm_open(h2, s, device, ready)
  IN CASE device = NO_PCM
            -> [h |-> [h EXCEPT !.adev.active_input = NoStream], ok |-> FALSE]
       [] device # NO_PCM /\ opened.ok -> [h |-> opened.h, ok |-> resampler]
       [] OTHER -> [h |-> stop_input_stream(opened.h, s), ok |-> FALSE]

do_in_standby_l(h, s) ==
  IF h.stream[s].standby THEN h
  ELSE [stop_input_stream(close_pcm_devices(h, s), s)
          EXCEPT !.stream[s].standby = TRUE]

=============================================================================
