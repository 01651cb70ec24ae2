------------------------------ MODULE MCAudioHw ------------------------------
(* Constants for AudioHw: a playback thread, a record thread for each input,  *)
(* and a thread for everything else the framework asks for.                   *)
EXTENDS AudioHw

SpeakerOrSco == {{"speaker"}, {"sco"}}
SpeakerOrHeadset == {{"speaker"}, {"headset"}}
AnyMic == {{"builtin_mic"}, {"headset_mic"}, {"sco_mic"}}
BuiltinMic == {{"builtin_mic"}}

Play == {<<"player", f, "out">> : f \in {"write_check", "out_standby"}}
Policy == {<<"policy", "out_set_parameters", "out">>}
          \cup {<<"policy", f, "cap">> : f \in {"in_set_parameters", "in_standby",
                  "add_effect", "remove_effect", "close_input", "open_input"}}

OneInput == Play \cup Policy \cup {<<"recorder", "read_check", "cap">>}
TwoInputs == OneInput \cup {<<"policy", f, "hot">> : f \in {"close_input", "open_input"}}
             \cup {<<"listener", "read_check", "hot">>}
=============================================================================
