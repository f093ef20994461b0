----------------------------- MODULE Compositing -----------------------------
(***************************************************************************)
(* A body template brought to the length of the audio, the generated face   *)
(* put on it, the audio added and the result judged: what                   *)
(* render_cached_avatar does before and after it calls the engine.          *)
(*                                                                         *)
(* A stream of a template is the frames it had when it was recorded and the *)
(* frames it has now; colours and shapes are left out but for what the      *)
(* quality control looks at.                                                *)
(***************************************************************************)
EXTENDS FaceEngines

\* A template as recorded: its frame rate, the frames of its body clip and of
\* the two masks, its boxes, those of them that have no area in the picture or
\* are not numbers, and what most of its pixels are.
Templates == [fps : Nat \ {0}, body : Nat, mask : Nat, neck : Nat, boxes : Nat,
              flat : SUBSET Nat, nan : SUBSET Nat, look : {"plain", "green", "black"}]

Streams == [had : Nat, has : Nat]

AsRecorded(n) == [had |-> n, has |-> n]

Target(t, ms) == Max({1, FrameOf(ms, t.fps)})

\* Within a frame of the audio the template is taken as it is, whatever the
\* lengths of its other streams.
Fits(t, ms) == t.body > 0 /\ Target(t, ms) - t.body \in -1 .. 1

\* Otherwise each stream is cut or repeated to the same length; boxes that have
\* no frames keep none.
Rewritten(n, frames) == [had |-> n, has |-> IF n = 0 THEN 0 ELSE frames]

Matched(t, ms) ==
    LET to(n) == IF Fits(t, ms) THEN AsRecorded(n) ELSE Rewritten(n, Target(t, ms))
    IN  [body |-> to(t.body), mask |-> to(t.mask), neck |-> to(t.neck), boxes |-> to(t.boxes)]

\* A clip that cannot be opened, or has no frames to repeat.
MatchFails(t, ms) == t.body = 0 \/ (~Fits(t, ms) /\ (t.mask = 0 \/ t.neck = 0))

\* The recorded frame that frame k of a stream is: clips are repeated frame by
\* frame, boxes tiled.
Picture(stream, k) == k % stream.had
Box(stream, k)     == k % stream.had

\* The region of the face is cut from every frame that has a box, which must
\* be numbers.
RoiFails(t, m) ==
    \E k \in 0 .. Min({m.body.has, m.boxes.has}) - 1 : Box(m.boxes, k) \in t.nan

\* All streams are read in step, box by box, until one of them ends.
CompositeFrames(m, face) ==
    Min({m.boxes.has, m.body.has, Len(face.rows), m.mask.has, m.neck.has})

\* Variant: the face is read only for the frames that show it.
FaceReadWhenShown(t, m, k) ==
    Cardinality({i \in 0 .. k - 1 : Box(m.boxes, i) \notin t.flat})

\* The frame of the face that is read for frame k: the face is read for the
\* frames that do not show it, too.
FaceRead(t, m, k) == k

\* Frame k of the composite: which recorded frame the body, the masks and the
\* box are of, and which frame of the face is shown.  Where the box has no area
\* the body is left as it is.
Composed(t, m, k) ==
    LET box == Box(m.boxes, k) IN
    [body |-> Picture(m.body, k), mask |-> Picture(m.mask, k), neck |-> Picture(m.neck, k),
     box  |-> box,
     face |-> IF box \in t.flat THEN -1 ELSE FaceRead(t, m, k)]

\* A mask or a clip that cannot be opened.
CompositeFails(m) == m.mask.has = 0 \/ m.neck.has = 0

\* Muxing ends with the shorter stream, and fails on a clip without frames.
Muxed(n, fps, ms) == Min({n, (ms * fps + 999) \div 1000})

-----------------------------------------------------------------------------
(* Quality control.                                                         *)

Away(a, b) == Max({a, b}) - Min({a, b})

\* In ms, that the picture and the audio may differ by.
Tolerance == 100

\* The calls of ffprobe, any of which may fail.
Probes == {"lengths", "codec", "streams"}

\* The first check that fails; the lengths are passed over when they are not
\* known.  The body shows no green before the background of the studio.
Verdict(frames, t, ms, expected, studio, probes) ==
    IF frames = 0 THEN "FAILED_QC_UNREADABLE"
    ELSE IF t.look = "green" /\ ~studio THEN "FAILED_QC_DEBUG_OVERLAY"
    ELSE IF t.look = "black" THEN "FAILED_QC_BLACK_FRAMES"
    ELSE IF "lengths" \in probes /\ Away(frames * 1000, ms * t.fps) > Tolerance * t.fps
         THEN "FAILED_QC_DURATION"
    ELSE IF Away(frames, expected) > 2 THEN "FAILED_QC_FRAME_COUNT"
    ELSE IF "codec" \notin probes THEN "FAILED_QC_UNREADABLE"
    ELSE IF "streams" \notin probes THEN "FAILED_QC_MISSING_STREAMS"
    ELSE "COMPLETED"
=============================================================================
