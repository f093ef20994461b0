--------------------------- MODULE VideoJobProps ---------------------------
(* What the plans and the videos of VideoJob should be.                     *)
EXTENDS VideoJob

Abs(n) == IF n < 0 THEN -n ELSE n

\* Every variable keeps its type, and telemetry counts each chunk that was
\* rendered once, whatever was retried.
TypeOK ==
    /\ job \in Inputs \cup {NoJob}
    /\ pc \in {"idle", "plan", "segment", "render", "chunk", "encode", "leave"}
    /\ style \in {"default", "subtle", "expressive"}
    /\ saved \in Seq({"default", "subtle", "expressive"}) /\ Len(saved) = 2
    /\ slice \in Nat
    /\ \A i \in DOMAIN parts :
          parts[i] \in [start : Nat, end : Nat, ms : Nat, face : {0},
                        does : Gestures \cup {"none"}]
    /\ skipped \in Seq(Gestures)
    /\ tries \in 0 .. Attempts - 1
    /\ counted \in Nat /\ (job.kind = "chunks" => counted = Len(parts) - Cardinality(lost))
    /\ lost \subseteq DOMAIN parts
    /\ cuts \in Seq(Nat) /\ Len(cuts) <= Len(parts)
    /\ video \in [state : {"none", "completed", "degraded", "raised"}, ms : Nat]

-----------------------------------------------------------------------------
(* The plans.                                                               *)

\* The segments follow one another from 0 to d; the last millisecond between
\* two of them, or after the last, may be open.
Tiles(timeline, d) ==
    /\ timeline # <<>>
    /\ \A i \in DOMAIN timeline :
          /\ timeline[i].start <= timeline[i].end
          /\ timeline[i].start - (IF i = 1 THEN 0 ELSE timeline[i - 1].end) \in {0, 1}
    /\ d - Last(timeline).end \in {0, 1}

\* Both plans of a text job cover its audio without gap or overlap, however
\* many gestures crowd however short a clip, and the body makes every planned
\* gesture once (text_to_timeline: "the timeline is contiguous").
TimelinesTile ==
    pc = "plan" =>
        LET d    == PlanMs(job)
            body == BodyTimeline(job.text, d)
        IN  /\ Tiles(body, d)
            /\ Tiles(FaceTimeline(job.text, d), d)
            /\ \A k \in DOMAIN GestureIntents(job.text) :
                  \E i \in DOMAIN body : body[i].does = GestureIntents(job.text)[k].does

-----------------------------------------------------------------------------
(* The videos.                                                              *)

\* Every part of the video starts where its window of the audio does, its
\* overlap played once (EncodingWorker: "the overlap region from chunk N-1 is
\* not repeated"), up to what the cuts are off, in a chunk job; up to three half
\* frames and a packet for each part before it and the milliseconds the plan
\* leaves open, in a text job.  Excepted are parts without audio of their own
\* (an empty window, one after the end, one with less than the overlap) and the
\* chunk jobs whose audio has no length to ffprobe.
PartsInStep ==
    pc = "encode" =>
        \A i \in DOMAIN cuts :
            LET late == PlayedBefore(i) - (parts[i].start + cuts[i]) IN
            IF job.kind = "chunks"
            THEN job.probed /\ (i = 1 \/ parts[i].start + OverlapMs <= job.audio)
                     => Abs(late) <= (i - 1) * CutMs
            ELSE parts[i].start < Min({parts[i].end, job.audio})
                     => Abs(late) <= (i - 1) * (PacketMs + 60) + i

\* A job that ends with a video has a picture for all that is spoken, but for
\* what parts and cuts are rounded by and the milliseconds the plan of a text
\* job leaves open; speech beyond the planned length of a text job or beyond as
\* many windows as there may be is all that is cut, also where the last clip
\* ends with the audio or is trimmed to nothing.  A chunk job whose audio has no
\* length to ffprobe can only be sure of its first window.
SpokenToTheEnd ==
    video.state \in {"completed", "degraded"} =>
        LET planned == IF job.kind = "text" THEN PlanMs(job)
                       ELSE IF job.probed THEN Chunk(MaxChunks).end ELSE ChunkMs
            rounded == IF job.kind = "text" THEN 61 * Len(parts) + 1
                       ELSE 40 + (Len(parts) - 1) * CutMs
        IN  video.ms >= Min({job.audio, planned}) - rounded

\* A job gets what it asked for or is told so: it is rendered in its own style,
\* whichever way the job before it ended, and a text job reads as completed
\* exactly when every segment has the gesture it was planned with.
RenderedAsAsked ==
    /\ style = IF pc = "idle" THEN "default" ELSE job.style
    /\ job.kind = "text" /\ video.state \in {"completed", "degraded"} =>
          /\ Len(parts) = Len(Segments(job))
          /\ (video.state = "completed") <=>
                \A i \in DOMAIN parts : parts[i].does = Segments(job)[i].does

\* "The face moves continuously through lip-sync"
\* (run_cached_avatar_from_text.py:13): every frame of a text job's video is
\* given the face motion that is planned for its moment.  It does not hold:
\* each part starts the plan from its beginning.
FaceInStep ==
    LET face == FaceTimeline(job.text, PlanMs(job)) IN
    pc = "encode" /\ job.kind = "text" =>
        \A i \in DOMAIN parts : \A k \in 0 .. (parts[i].ms \div 40) - 2 :
            MotionAt(face, parts[i].face + 40 * k + 20)
                = MotionAt(face, parts[i].start + 40 * k + 20)
=============================================================================
