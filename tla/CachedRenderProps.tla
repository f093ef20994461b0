-------------------------- MODULE CachedRenderProps --------------------------
(* What the clips and videos of CachedRender should be.                     *)
EXTENDS CachedRender

\* Every variable keeps its type.
TypeOK ==
    /\ engine \in Engines
    /\ \A p \in Paths : files[p] \in Takes[p]
    /\ \A key \in DOMAIN signals :
          signals[key] \in [voice : Nat, first : Nat, bin : Nat, per : Nat \ {0},
                            frames : Nat, rows : Nat]
    /\ changed \subseteq Paths
    /\ guessed \subseteq DOMAIN signals
    /\ job \in Requests \cup {NoJob}
    /\ pc \in {"idle", "identity", "match", "roi", "count", "open", "drive", "rendered",
               "mux", "check", "done"}
    /\ windows \in 0 .. MaxWindows
    /\ window \in [from : Nat, to : Nat, number : 0 .. windows]
    /\ pack \in PacksMade \cup {NoPack}
    /\ matched \in [{"body", "mask", "neck", "boxes"} -> Streams]
    /\ clip \in Clips
    /\ frames \in Nat
    /\ verdict.probes \subseteq Probes

-----------------------------------------------------------------------------
\* Somebody speaks in the clip: it is not a synthetic one.
Speaking == clip.voice # 0 /\ pc \in {"rendered", "mux", "check", "done"}

\* The signals kept for the path are those of the file, of all of it.
Current == job.path \notin changed /\ Key \notin guessed

\* Where in the audio a row of the clip is from, and for how long, in ms.
At(k)  == (clip.first + k * clip.bin) \div (16 * clip.per)
RowMs  == clip.bin \div (16 * clip.per) + 1

\* How many rows a second of audio has, and how many rows of the file are before
\* the window.
Rate   == IF engine.kind = "musetalk" THEN engine.rate ELSE job.fps
Before == IF engine.kind = "musetalk" THEN 0 ELSE FrameOf(window.from, job.fps)

\* In ms, what k rows of the file fall short of their place: the DSP backend
\* gives each a whole number of samples (16000 // 30 of them at 30 frames a
\* second, a third of a sample too few), and none makes up for it.
Behind(k) ==
    IF engine.kind = "liveportrait" /\ engine.backend = "dsp"
    THEN (k * (16000 % job.fps) + 16 * job.fps - 1) \div (16 * job.fps) ELSE 0

\* The lips move to the words of the file that was asked for, whatever was
\* rendered in the process before, unless the file was written again since its
\* signals were kept (_DRIVING_CACHE has no notion of that).
OwnVoice == Speaking /\ job.path \notin changed => clip.voice = Audio.voice

\* Every row of a window is shown, once and in order, whichever batches of it
\* failed and were made again; give or take a row, and but for what the rows of
\* the file before fall short of, they start where the window does and end
\* where it or the audio does; a window is refused for want of signals, or made
\* blank, only when less than a row of the audio is in it.
EveryRowShown ==
    /\ Speaking /\ Current /\ window.from < Audio.ms =>
          LET end  == Min({window.to, Audio.ms})
              n    == Len(clip.rows)
              row  == 1000 \div Rate + 1
          IN  /\ clip.rows = Upto(0, n)
              /\ At(0) - window.from \in -(row + Behind(Before)) .. row
              /\ At(n) - end \in -(row + Behind(Before + n)) .. row
    /\ \/ pc = "drive" /\ Current /\ Driving.rows < Driving.frames
       \/ pc = "rendered" /\ ~engine.mock /\ clip # NoClip /\ ~Speaking
       => window.from + 1000 \div Rate >= Audio.ms

\* In a video that passed the quality control with its length compared, every
\* frame shows the lips of its own moment, give or take a frame and the
\* smoothing, ahead of it by no more than the tolerance of the control, and
\* behind by no more than the rows before it fall short of; and the masks, the
\* neck and the box of its own picture, if the template had as many of each.
\* The template must have the frame rate that was asked for, or a higher one,
\* and MuseTalk's encoder that rate: nothing in the code compares them.
PictureInStep ==
    /\ pc = "done" /\ verdict.status = "COMPLETED" /\ "lengths" \in verdict.probes
    /\ Speaking /\ Current
    /\ job.template.fps >= job.fps /\ (engine.kind = "musetalk" => engine.rate = job.fps)
    => LET t     == job.template
           frame == 1000 \div t.fps + 1
           smooth == IF engine.backend = "neural" THEN 2 * RowMs ELSE 0
       IN  \A k \in 0 .. frames - 1 :
              LET c == Composed(t, matched, k) IN
              /\ c.face # -1 =>
                    \A r \in Reach([rows |-> Len(clip.rows)], clip.rows[c.face + 1],
                                   engine.backend) :
                        At(r) - (k * 1000) \div t.fps
                            \in -(frame + smooth + Behind(k)) .. Tolerance + frame + smooth
              /\ t.body = t.mask /\ t.mask = t.neck /\ t.neck = t.boxes =>
                    c.body = c.mask /\ c.mask = c.neck /\ c.neck = c.box

\* A real engine animates only what a real engine of its kind has made, and, but
\* at the edges of the image, of a square ("Crop a square region around the
\* face"); a pack of mock data is refused whoever hands it over.
FaceOfTheSource ==
    Speaking =>
        /\ pack.real /\ pack.kind = engine.kind
        /\ LET b == job.image.box
               inside(img) == LET sq == Square(img, TRUE) IN
                   /\ sq.size \div 2 <= Min({sq.cx, sq.cy})
                   /\ sq.cx + sq.size \div 2 <= img.w
                   /\ sq.cy + sq.size \div 2 <= img.h
           IN  job.pack = NoPack /\ inside(job.image) => pack.crop[1] = pack.crop[2]
=============================================================================
