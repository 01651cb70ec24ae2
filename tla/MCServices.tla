----------------------------- MODULE MCServices -----------------------------
(***************************************************************************)
(* The smaller HALs on small instances: sound trigger, sensor hub, power,  *)
(* bluetooth, and the frames and the DSP of the audio HAL.  They share no  *)
(* state; part says which of them a behaviour explores, the others keep    *)
(* their initial state.                                                    *)
(***************************************************************************)
EXTENDS SoundTrigger, SensorHub, PowerHal, BluetoothHci, DspPipeline,
        AudioCapture

VARIABLE part
allvars == <<part, stvars, hubvars, powervars, btvars, dspvars, capvars>>

-----------------------------------------------------------------------------
(* The iio devices a dragon has: two accelerometers, the activity sensor   *)
(* and the ring the events come through.                                   *)

Device(name, location, id, calib) ==
  [name |-> name, location |-> location, id |-> id, calib |-> calib]
MCIioDevices == {Device("accel", "lid", 0, <<1, 2, 300>>), Device("accel", "base", 1, <<>>),
                 Device("activity", "lid", 3, <<>>), Device("ring", "", 4, <<>>)}

-----------------------------------------------------------------------------
(* DSP configurations.                                                     *)

Token(t, v) == [t |-> t, v |-> v]
OpenParen == Token("open", 0)
CloseParen == Token("close", 0)
Word(n) == Token("name", n)
Value(v) == Token("literal", v)
IsName(n) == <<OpenParen, Word("equal?"), Word("dsp_name"), Value(String(n)), CloseParen>>
Unless(n) == <<OpenParen, Word("not")>> \o IsName(n) \o <<CloseParen>>
Also(n) == <<OpenParen, Word("and"), Value(Boolean(TRUE))>> \o IsName(n) \o <<CloseParen>>
OrIs(n) == <<OpenParen, Word("or"), Word("disable_eq")>> \o IsName(n) \o <<CloseParen>>
Unclosed(n) == <<OpenParen, Word("not")>> \o IsName(n)
Conditions == {<<>>, Unless("speaker_eq"), Also("speaker_eq"), OrIs("invert_lr")}

Wire(dir, name) == [dir |-> dir, type |-> "audio", name |-> name]
Number == [dir |-> "input", type |-> "control", name |-> ""]
Section(label, purpose, disable, ports) ==
  [library |-> "builtin", label |-> label, purpose |-> purpose, disable |-> disable,
   ports |-> ports]
Source(disable) ==
  Section("source", "playback", disable, <<Wire("output", "a0"), Wire("output", "a1")>>)
Sink(in) == Section("sink", "playback", <<>>, <<Wire("input", in[1]), Wire("input", in[2])>>)
Stereo(label, disable, in, out) ==
  Section(label, "", disable, <<Wire("input", in[1]), Wire("input", in[2]),
                                Wire("output", out[1]), Wire("output", out[2]), Number>>)
Mono(disable, in, out) == Section("eq", "", disable, <<Wire("input", in), Wire("output", out)>>)

A == <<"a0", "a1">>
B == <<"b0", "b1">>
Out == <<"c0", "c1">>
Swap(w) == <<w[2], w[1]>>
StereoLabels == {"eq2", "drc", "mix_stereo", "invert_lr"}

\* Two stereo modules in a row, as in speakerdsp.ini; the wires of a sum and
\* of the sink may be crossed.
Chains ==
  {<<Sink(s), Stereo(l2, d2, B, Out), Source(d0), Stereo(l1, d1, A, B)>> :
     s \in {Out, Swap(Out)}, l1 \in StereoLabels, l2 \in StereoLabels \ {"mix_stereo"},
     d0 \in {<<>>, Unless("speaker_eq")}, d1 \in Conditions, d2 \in Conditions}
Sums ==
  {<<Stereo("mix_stereo", d2, i2, Out), Sink(Out), Stereo(l1, d1, A, B), Source(<<>>)>> :
     l1 \in StereoLabels, i2 \in {B, Swap(B)}, d1 \in Conditions,
     d2 \in Conditions \cup {Unclosed("speaker_eq")}}

\* A module for each channel, then one for both.
Monos ==
  {<<Source(<<>>), Mono(d1, "a0", "b0"), Sink(s), Mono(d2, "a1", "b1"),
     Stereo("drc", d3, B, Out)>> :
     s \in {Out, Swap(Out)}, d1 \in Conditions, d2 \in Conditions, d3 \in Conditions}

\* A wire nobody writes, two sources, a plugin without label.
Refused ==
  {<<Source(<<>>), Sink(Out)>>, <<Source(<<>>), Source(<<>>), Sink(A)>>,
   <<Source(<<>>), [Mono(<<>>, "a1", "b1") EXCEPT !.label = ""], Sink(A)>>}

MCIniFiles == Chains \cup Sums \cup Monos \cup Refused

-----------------------------------------------------------------------------
Init ==
  /\ part \in {"trigger", "sensors", "power", "bluetooth", "dsp", "capture"}
  /\ STInit /\ SensorInit /\ PowerInit /\ BtInit /\ DspInit /\ CapInit
  /\ part # "power" => target_time = 0
  /\ part # "capture" => effects = FALSE
  /\ part # "dsp" => ini_file = <<Source(<<>>), Sink(Out)>>

Next ==
  \/ /\ part = "trigger" /\ STNext
     /\ UNCHANGED <<part, hubvars, powervars, btvars, dspvars, capvars>>
  \/ /\ part = "sensors" /\ SensorNext
     /\ UNCHANGED <<part, stvars, powervars, btvars, dspvars, capvars>>
  \/ /\ part = "power" /\ PowerNext
     /\ UNCHANGED <<part, stvars, hubvars, btvars, dspvars, capvars>>
  \/ /\ part = "bluetooth" /\ BtNext
     /\ UNCHANGED <<part, stvars, hubvars, powervars, dspvars, capvars>>
  \/ /\ part = "dsp" /\ DspNext
     /\ UNCHANGED <<part, stvars, hubvars, powervars, btvars, capvars>>
  \/ /\ part = "capture" /\ CapNext
     /\ UNCHANGED <<part, stvars, hubvars, powervars, btvars, dspvars>>

\* The fairness of the sound trigger and of the power HAL.
Fairness ==
  /\ WF_powervars(part = "power" /\ threadLoop) /\ WF_powervars(part = "power" /\ Tick)
  /\ SF_stvars(part = "trigger" /\ STProgress)
  /\ WF_stvars(part = "trigger" /\ reader = "reading" /\ sound_trigger_read_samples)

Spec == Init /\ [][Next]_allvars /\ Fairness

=============================================================================
