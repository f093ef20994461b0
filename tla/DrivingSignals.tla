--------------------------- MODULE DrivingSignals ---------------------------
(***************************************************************************)
(* The audio bridge of LivePortrait and the feature rows of MuseTalk: how   *)
(* an audio file becomes one row of signals for each video frame, how the   *)
(* signals of a whole file are cut to a window.                             *)
(*                                                                         *)
(* What a row holds (loudness, keypoint deltas, features) is left out: a    *)
(* row is the place in the audio it was computed from.  Times are in        *)
(* milliseconds, places in samples at 16 kHz (16 to the millisecond).       *)
(***************************************************************************)
EXTENDS Integers, Sequences, FiniteSets, SequencesExt

Clip(n, low, high) == Max({low, Min({n, high})})

\* int(round(n / d)): a half goes to the even neighbour.
Nearest(n, d) == LET q == n \div d
                     r == 2 * (n % d)
                 IN  IF r < d \/ (r = d /\ q % 2 = 0) THEN q ELSE q + 1

FrameOf(ms, fps) == Nearest(ms * fps, 1000)

\* An audio file: what is spoken, its length, and whether it is a 16-bit WAV.
\* Channels are averaged, and the samples brought to 16 kHz.
Audios == [voice : Nat \ {0}, ms : Nat \ {0}, wav : BOOLEAN]

-----------------------------------------------------------------------------
(* Signals: frames promises as many rows as there are in row number of      *)
(* rows; row k (from 0) was computed from the audio from sample             *)
(* (first + k * bin) / per on.                                              *)

NoSignals == [voice |-> 0, first |-> 0, bin |-> 0, per |-> 1, frames |-> 0, rows |-> 0]

Expected(from, to, fps) == Max({1, FrameOf(to - from, fps)})

\* The samples of a window: a short one is padded with silence to its frames,
\* one after the end of the file is silence altogether.
WindowSamples(audio, from, to, fps) ==
    LET frames == Expected(from, to, fps)
        stop   == Min({to, audio.ms})
    IN  Max({16 * (stop - from), (frames * 16000) \div fps})

\* The samples are divided evenly, and rounded down, among the frames; the
\* loudness, crossings and pitch of each bin are left out.
Bin(samples, frames) == Max({1, samples \div frames})

\* The DSP backend.
Dsp(audio, from, to, fps) ==
    LET frames == Expected(from, to, fps) IN
    [voice |-> audio.voice, first |-> 16 * from, frames |-> frames, rows |-> frames,
     bin   |-> Bin(WindowSamples(audio, from, to, fps), frames), per |-> 1]

\* The neural backend takes no padding; the model spreads a row for each frame
\* evenly over what there is, or the bridge raises.
Neural(audio, from, to, fps) ==
    LET frames == Expected(from, to, fps) IN
    [voice |-> audio.voice, first |-> 16 * from * frames, frames |-> frames, rows |-> frames,
     bin   |-> 16 * Max({0, Min({to, audio.ms}) - from}), per |-> frames]

\* Both refuse an empty window.
EmptyWindow(from, to, fps) == fps <= 0 \/ to <= from

\* The neural model is imported and loaded at every call, and may fail to.
Unavailable(backend, down) == backend = "neural" /\ down

\* A file that is not a 16-bit WAV is refused by both.
BridgeFails(audio, from, to, fps, backend, down) ==
    EmptyWindow(from, to, fps) \/ ~audio.wav \/ Unavailable(backend, down)

AudioToDriving(audio, from, to, fps, backend) ==
    IF backend = "neural" THEN Neural(audio, from, to, fps) ELSE Dsp(audio, from, to, fps)

\* A neural row is averaged with the two rows on either side of it, edges
\* repeated, when there are more than five; a DSP row stands for itself.  Its
\* projection to keypoints, and the jaw that closes slowly, are left out.
Reach(s, k, backend) ==
    IF backend = "neural" /\ s.rows > 5 THEN {Clip(k + d, 0, s.rows - 1) : d \in -2 .. 2} ELSE {k}

-----------------------------------------------------------------------------
(* Windows.                                                                 *)

\* A slice of the signals of a whole file.  An empty slice still promises a
\* frame, which it may not have: rendering it fails on the shape.
Slice(s, from, to, fps) ==
    LET start == Clip(FrameOf(from, fps), 0, s.frames)
        end   == Clip(FrameOf(to, fps), 0, s.frames)
        last  == IF end <= start THEN start + 1 ELSE end
    IN  [s EXCEPT !.first = @ + start * s.bin, !.frames = last - start,
                  !.rows = Min({last, s.rows}) - start]

\* MuseTalk's audio encoder returns rows at a rate of its own for the part of
\* the window that has audio.
Features(audio, from, to, rate) ==
    LET rows == FrameOf(Max({0, Min({to, audio.ms}) - from}), rate) IN
    [voice |-> audio.voice, first |-> 16 * from * rate, bin |-> 16000, per |-> rate,
     frames |-> rows, rows |-> rows]

=============================================================================
