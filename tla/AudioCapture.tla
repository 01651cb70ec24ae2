---------------------------- MODULE AudioCapture ----------------------------
(***************************************************************************)
(* How in_read of audio_hw.c gets its frames: read_and_process_frames with *)
(* the buffer of the attached effects, read_frames, and the buffer of one  *)
(* period that get_next_buffer and release_buffer keep for it and for the  *)
(* resampler.  AudioHw models the locks around all this.                   *)
(*                                                                         *)
(* A frame is the number the kernel captured it under.  Channels and rates *)
(* are left out: remapping channels and resampling keep the order of       *)
(* frames, and the resampler takes its frames from get_next_buffer in      *)
(* pieces of its own choice.  The effects are external: they consume some  *)
(* of the frames they are offered and produce the oldest they hold.        *)
(***************************************************************************)
EXTENDS Naturals, Sequences

CONSTANTS
  period_size,     \* frames of a period
  ReadSizes,       \* the numbers of frames a client asks for
  MaxFrame,        \* bound on the frames captured
  CaptureEnv       \* "pcm": pcm_read may fail; "resampler"; "detach": effects
                   \* come and go while the stream runs

ASSUME CaptureAssumption ==
  /\ period_size \in Nat \ {0}
  /\ ReadSizes \subseteq Nat
  /\ MaxFrame \in Nat

VARIABLES
  frame,           \* the last frame the kernel has captured
  standby,         \* stream_in::standby
  read_buf,        \* the period read last
  read_buf_frames, \* how many of its frames are left
  proc_buf_in,     \* the frames waiting for the effects
  effects,         \* whether effects are attached
  held,            \* the frames inside the effects
  capture,         \* in_read: [at, frames_num, out, want, rd]
  heard,           \* the last frame the client got
  broken           \* whether a read has failed or the stream was stopped

capvars == <<frame, standby, read_buf, read_buf_frames, proc_buf_in, effects, held, capture, heard,
             broken>>

NoRead == [at |-> "idle", frames_num |-> 0, out |-> <<>>, want |-> 0, rd |-> <<>>]

CapInit ==
  /\ frame = 0 /\ standby = TRUE
  /\ read_buf = <<>> /\ read_buf_frames = 0
  /\ proc_buf_in = <<>> /\ effects \in BOOLEAN /\ held = <<>>
  /\ capture = NoRead /\ heard = 0 /\ broken = FALSE

\* in_read; start_input_stream makes the buffers anew.
BeginRead(n) ==
  /\ capture.at = "idle"
  /\ capture' = [NoRead EXCEPT !.at = IF effects THEN "reload" ELSE "read",
                          !.frames_num = n, !.want = n]
  /\ standby' = FALSE
  /\ IF standby THEN proc_buf_in' = <<>> /\ read_buf_frames' = 0
     ELSE UNCHANGED <<proc_buf_in, read_buf_frames>>
  /\ UNCHANGED <<frame, read_buf, effects, held, heard, broken>>

\* read_and_process_frames with effects, the top of its loop: frames are
\* reloaded behind those that wait.
Reload ==
  /\ capture.at = "reload"
  /\ capture' = IF Len(proc_buf_in) < capture.frames_num
           THEN [capture EXCEPT !.at = "read", !.rd = <<>>,
                                !.want = capture.frames_num - Len(proc_buf_in)]
           ELSE [capture EXCEPT !.at = "process"]
  /\ UNCHANGED <<frame, standby, read_buf, read_buf_frames, proc_buf_in, effects, held, heard,
                 broken>>

Smaller(a, b) == IF a < b THEN a ELSE b

\* Mutant: what is left of the period is taken from its start.
MutantFromStart(buf, left, count) == SubSeq(buf, 1, count)

\* What get_next_buffer points at when left frames of the period are unread.
NextBuffer(buf, left, count) ==
  SubSeq(buf, period_size - left + 1, period_size - left + count)

\* read_frames goes round its loop until it has what it wants.  A new period
\* is read when the last one is used up; an error ends everything, with the
\* frames read so far.
ReadFrames ==
  /\ capture.at = "read" /\ Len(capture.rd) < capture.want
  /\ \/ \E fresh \in {read_buf_frames = 0} :
        \E buf \in {IF fresh THEN [i \in 1..period_size |-> frame + i] ELSE read_buf} :
        \E left \in {IF fresh THEN period_size ELSE read_buf_frames} :
        \E asked \in IF "resampler" \in CaptureEnv THEN 1..(capture.want - Len(capture.rd))
                     ELSE {capture.want - Len(capture.rd)} :
          /\ fresh => frame + period_size <= MaxFrame
          /\ frame' = IF fresh THEN frame + period_size ELSE frame
          /\ read_buf' = buf
          /\ capture' = [capture EXCEPT !.rd = @ \o NextBuffer(buf, left, Smaller(asked, left))]
          /\ read_buf_frames' = left - Smaller(asked, left)
          /\ UNCHANGED broken
     \/ /\ read_buf_frames = 0 /\ "pcm" \in CaptureEnv
        /\ capture' = [capture EXCEPT !.at = "failed"] /\ broken' = TRUE
        /\ UNCHANGED <<frame, read_buf, read_buf_frames>>
  /\ UNCHANGED <<standby, proc_buf_in, effects, held, heard>>

ReadDone ==
  /\ capture.at = "read" /\ Len(capture.rd) = capture.want
  /\ IF effects
     THEN /\ proc_buf_in' = proc_buf_in \o capture.rd
          /\ capture' = [capture EXCEPT !.at = "process", !.rd = <<>>]
     ELSE /\ capture' = [capture EXCEPT !.at = "return", !.out = capture.rd]
          /\ UNCHANGED proc_buf_in
  /\ UNCHANGED <<frame, standby, read_buf, read_buf_frames, effects, held, heard, broken>>

\* process() of the effects, and the move of the frames they leave to the
\* start of proc_buf_in.
Process ==
  /\ capture.at = "process"
  /\ \E consumed \in 0..Len(proc_buf_in) :
     \E room \in {capture.frames_num - Len(capture.out)} :
     \E produced \in 0..Smaller(room, Len(held) + consumed) :
       LET all == held \o SubSeq(proc_buf_in, 1, consumed)
       IN  /\ consumed + produced > 0
           /\ held' = SubSeq(all, produced + 1, Len(all))
           /\ capture' = [capture EXCEPT !.out = @ \o SubSeq(all, 1, produced),
                               !.at = IF produced = room THEN "return" ELSE "reload"]
           /\ proc_buf_in' = SubSeq(proc_buf_in, consumed + 1, Len(proc_buf_in))
  /\ UNCHANGED <<frame, standby, read_buf, read_buf_frames, effects, heard, broken>>

\* A read that fails puts the stream into standby.
EndRead ==
  /\ capture.at \in {"return", "failed"}
  /\ capture' = NoRead
  /\ standby' = (capture.at = "failed")
  /\ heard' = IF capture.out = <<>> \/ capture.at = "failed" THEN heard ELSE capture.out[Len(capture.out)]
  /\ UNCHANGED <<frame, read_buf, read_buf_frames, proc_buf_in, effects, held, broken>>

\* in_standby, from another thread between two reads
InStandby ==
  /\ capture.at = "idle" /\ ~standby
  /\ standby' = TRUE /\ broken' = TRUE
  /\ UNCHANGED <<frame, read_buf, read_buf_frames, proc_buf_in, effects, held, capture, heard>>

\* The last effect is removed, or the first one added.  A running stream goes
\* on, unless its auxiliary channels change.
SwitchEffects ==
  /\ capture.at = "idle"
  /\ standby \/ "detach" \in CaptureEnv
  /\ effects' = ~effects /\ held' = <<>>
  /\ UNCHANGED <<frame, standby, read_buf, read_buf_frames, proc_buf_in, capture, heard, broken>>

CapNext ==
  \/ \E n \in ReadSizes : BeginRead(n)
  \/ Reload \/ ReadFrames \/ ReadDone \/ Process \/ EndRead \/ InStandby \/ SwitchEffects

CapSpec == CapInit /\ [][CapNext]_capvars

-----------------------------------------------------------------------------
(***************************************************************************)
(* A client gets the frames of the microphone in the order they were       *)
(* captured, none of them twice, over reads of any size, whatever the      *)
(* effects keep back and however often the stream restarts; until the      *)
(* stream is stopped it misses none.  Effects stay attached while the      *)
(* stream runs.                                                            *)
(***************************************************************************)
CaptureInOrder ==
  capture.at = "return" =>
    /\ Len(capture.out) = capture.frames_num
    /\ \A i \in DOMAIN capture.out :
         LET before == IF i = 1 THEN heard ELSE capture.out[i - 1]
         IN  /\ capture.out[i] > before
             /\ ~broken => capture.out[i] = before + 1
=============================================================================
