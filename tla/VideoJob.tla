------------------------------ MODULE VideoJob ------------------------------
(***************************************************************************)
(* How a video is made.  A text job plans its timelines, slices the audio   *)
(* to each segment, renders a part for each and has the EncodingWorker put  *)
(* the parts together (run_cached_avatar_from_text).  A chunk job cuts the  *)
(* audio into overlapping windows, renders each with retries, replaces a    *)
(* window it cannot render by a coloured clip and has the EncodingWorker    *)
(* trim the overlap (RenderVideo).  One engine serves one job after the     *)
(* other, and its settings carry the motion style of the job it is at.      *)
(*                                                                         *)
(* What a frame shows is left out: a part is its window of the audio, its   *)
(* gesture, its length and the face motion its first frames start from.     *)
(* Identities are those of AvatarPacks; here the look-up succeeds.  Times   *)
(* are in milliseconds; the video has 25 frames a second.                   *)
(***************************************************************************)
EXTENDS SpeechTimelines, FiniteSets

CONSTANTS
    Inputs,         \* the jobs the engine is asked for
    PacketMs,       \* how far a stream copy may run past its end
    CutMs,          \* how far from its place a stream copy may be cut
    MaxChunks       \* ChunkConfig.max_chunks; 200 in the code

\* A job.  Callers of RenderVideo give it an identity handle and a Tier; the
\* GPU worker gives it a pack and the name of a tier.
Jobs == [kind      : {"text", "chunks"},
         text      : Seq(Words),
         audio     : Nat,                   \* its real length
         probed    : BOOLEAN,               \* did ffprobe tell a length above 0?
         mode      : {"timeline", "dominant", "other"},
         templates : SUBSET Gestures,       \* body templates on disk
         style     : {"default", "subtle", "expressive"},
         worker    : BOOLEAN]               \* asked for by the GPU worker?

ASSUME VideoAssumption ==
    /\ Inputs \subseteq Jobs
    /\ \A j \in Inputs : j.probed => j.audio > 0
    /\ PacketMs \in Nat
    /\ CutMs \in Nat /\ CutMs >= 20      \* a frame may be as far
    /\ MaxChunks \in Nat \ {0}

Fallback == "idle_small"    \* dominant_fallback_gesture

ChunkMs   == 4000           \* ChunkConfig and EncodingWorker defaults
OverlapMs == 500
Attempts  == 3

NoJob == [kind |-> "none"]

NoVideo == [state |-> "none", ms |-> 0]

VARIABLES
    job,        \* the job under way, NoJob before the first
    pc,         \* what it is at
    style,      \* motion_style of the engine's settings
    saved,      \* settings kept by _do_process and by the text pipeline
    slice,      \* the length of the audio slice last written
    parts,      \* the parts rendered, in order
    skipped,    \* gestures without a body template
    tries,      \* failed attempts at the next chunk
    counted,    \* chunks published to the telemetry
    lost,       \* chunks replaced by a coloured clip
    cuts,       \* what has been trimmed from the start of each part
    video       \* what the job has come to

work == <<slice, parts, skipped, tries, counted, lost, cuts, video>>
vars == <<job, pc, style, saved, work>>

Init ==
    /\ job = NoJob
    /\ pc = "idle"
    /\ style = "default"
    /\ saved = <<"default", "default">>
    /\ slice = 0
    /\ parts = <<>>
    /\ skipped = <<>>
    /\ tries = 0
    /\ counted = 0
    /\ lost = {}
    /\ cuts = <<>>
    /\ video = NoVideo

-----------------------------------------------------------------------------
(* Lengths.                                                                 *)

\* The length the plan goes by.
PlanMs(j) == IF j.probed THEN j.audio ELSE 8000

\* round(seconds * fps): to the nearest frame, a half to the even one.
Frames(ms) == LET q == ms \div 40
                  r == ms % 40
              IN  IF r < 20 \/ (r = 20 /\ q % 2 = 0) THEN q ELSE q + 1

\* The frames of a part of so much audio.  A body template within one frame of
\* it is taken as it is, and muxing stops at the shorter stream.
PartFrames(ms) == LET n == Max({1, Frames(ms)}) IN {n, Max({n - 1, 1})}

\* Variant: the end of the window is taken for its length.
SliceMsFromZero(j, seg) ==
    IF seg.start >= seg.end THEN {j.audio}
    ELSE IF seg.start >= j.audio THEN {0}
    ELSE {Min({seg.end, j.audio - seg.start})}

\* The slice of a window: ffmpeg copies whole packets, has nothing past the end
\* of the audio, and refuses an empty window, for which the audio is copied.
SliceMs(j, seg) ==
    IF seg.start >= seg.end THEN {j.audio}
    ELSE IF seg.start >= j.audio THEN {0}
    ELSE LET ms == Min({seg.end, j.audio}) - seg.start
         IN  {ms, Min({ms + PacketMs, j.audio - seg.start})}

\* The segments a text job renders.
Segments(j) ==
    LET timeline == BodyTimeline(j.text, PlanMs(j)) IN
    IF j.mode = "dominant"
    THEN << [start |-> 0, end |-> PlanMs(j), does |-> DominantGesture(timeline)] >>
    ELSE timeline

\* Variant: the last window is only begun when it is full.
ChunkCountFull(j) ==
    LET step == ChunkMs - OverlapMs IN
    Min({MaxChunks, IF j.probed THEN Max({1, j.audio \div step}) ELSE 16})

\* _chunks_for: windows that start inside the audio, 16 when it has no length.
ChunkCount(j) ==
    LET step == ChunkMs - OverlapMs IN
    Min({MaxChunks, IF j.probed THEN (j.audio + step - 1) \div step ELSE 16})

Chunk(k) == [start |-> (k - 1) * (ChunkMs - OverlapMs),
             end   |-> (k - 1) * (ChunkMs - OverlapMs) + ChunkMs]

\* The frames LivePortrait has signals for: those of the whole audio cut to the
\* window; of the first window only when ffprobe tells no length.
LivePortraitFrames(j, c) ==
    LET rows == Max({1, Frames(IF j.probed THEN j.audio ELSE ChunkMs)})
    IN  Min({Frames(c.end), rows}) - Min({Frames(c.start), rows})

\* The frames MuseTalk has features for.
MuseTalkFrames(j, c) == Frames(Max({0, Min({c.end, j.audio}) - c.start}))

\* The length of the clip of a window: full in mock mode.  LivePortrait raises
\* without a frame, and may have the audio muxed up to the shorter of the two;
\* for MuseTalk half a second of nothing is written.
ClipMs(j, c) ==
    LET live == LivePortraitFrames(j, c)
        muse == MuseTalkFrames(j, c)
    IN  {ChunkMs}
        \cup (IF live > 0 THEN {40 * live, 40 * Min({live, Max({1, j.audio \div 40})})} ELSE {})
        \cup (IF muse > 0 THEN {40 * muse} ELSE {480, 520})

-----------------------------------------------------------------------------
Goto(step) == pc' = step

\* The exception, or the result, on its way out.
Leave(v) == /\ video' = v
            /\ Goto("leave")

Raised == [state |-> "raised", ms |-> 0]

\* _do_process: the style of the job goes into the settings of the engine.
Take(j) ==
    /\ pc = "idle"
    /\ job' = j
    /\ Goto(IF j.kind = "text" THEN "plan" ELSE "chunk")
    /\ style' = IF j.style = "default" THEN style ELSE j.style
    /\ saved' = [saved EXCEPT ![1] = style]
    /\ UNCHANGED work

\* run_cached_avatar_from_text overrides the style once more, plans and makes
\* sure that the fallback can be rendered.
Plan ==
    /\ pc = "plan"
    /\ style' = IF job.style = "default" THEN style ELSE job.style
    /\ saved' = [saved EXCEPT ![2] = style]
    /\ IF job.mode \in {"timeline", "dominant"} /\ Fallback \in job.templates
       THEN Goto("segment") /\ UNCHANGED video
       ELSE Leave(Raised)
    /\ UNCHANGED <<job, slice, parts, skipped, tries, counted, lost, cuts>>

\* The segment under way, and the gesture it is rendered with.
Segment == Segments(job)[Len(parts) + 1]

\* Variant: a missing template is replaced without a word.
ResolveSilently(gesture) ==
    /\ skipped' = skipped

\* _resolve_segment_gesture: a gesture without a template is written down.
Resolve(gesture) ==
    /\ skipped' = IF gesture \in job.templates THEN skipped ELSE Append(skipped, gesture)

Slice ==
    /\ pc = "segment"
    /\ Len(parts) < Len(Segments(job))
    /\ Resolve(Segment.does)
    /\ slice' \in SliceMs(job, Segment)
    /\ Goto("render")
    /\ UNCHANGED <<job, style, saved, parts, tries, counted, lost, cuts, video>>

\* render_cached_avatar: one window from the start of the slice, whatever the
\* slice is of, with the face timeline of the whole job.
RenderSegment ==
    /\ pc = "render"
    /\ \E n \in IF slice = 0 THEN {0, 1} ELSE PartFrames(slice) :
          parts' = Append(parts,
                     [start |-> Segment.start, end |-> Segment.end, ms |-> 40 * n,
                      does  |-> IF Segment.does \in job.templates THEN Segment.does
                                ELSE Fallback,
                      face  |-> 0])
    /\ Goto("segment")
    /\ UNCHANGED <<job, style, saved, slice, skipped, tries, counted, lost, cuts, video>>

\* The engine, the compositor or the muxer raises: a text job has no retry.
RenderFails ==
    /\ pc = "render"
    /\ Leave(Raised)
    /\ UNCHANGED <<job, style, saved, slice, parts, skipped, tries, counted, lost, cuts>>

-----------------------------------------------------------------------------
(* RenderVideo.                                                             *)

\* The part of the next chunk, with a clip of so much.
NextChunk(ms) == LET c == Chunk(Len(parts) + 1) IN
    [start |-> c.start, end |-> c.end, ms |-> ms, does |-> "none", face |-> 0]

\* One attempt succeeds and is published; with the name of a tier publishing
\* raises, so that it never does for the GPU worker.
RenderChunk ==
    /\ pc = "chunk"
    /\ Len(parts) < ChunkCount(job)
    /\ ~job.worker
    /\ \E ms \in ClipMs(job, Chunk(Len(parts) + 1)) : parts' = Append(parts, NextChunk(ms))
    /\ counted' = counted + 1
    /\ tries' = 0
    /\ UNCHANGED <<job, pc, style, saved, slice, skipped, lost, cuts, video>>

\* A coloured clip of a full window takes the place of the next chunk.
LoseChunk ==
    /\ parts' = Append(parts, NextChunk(ChunkMs))
    /\ lost' = lost \cup {Len(parts')}
    /\ tries' = 0

Retry == tries' = tries + 1 /\ UNCHANGED <<parts, lost>>

\* Variant: one attempt more than the code makes.
AttemptFailsOneMore ==
    /\ pc = "chunk"
    /\ Len(parts) < ChunkCount(job)
    /\ IF tries + 1 <= Attempts THEN Retry ELSE LoseChunk
    /\ UNCHANGED <<job, pc, style, saved, slice, skipped, counted, cuts, video>>

\* One attempt raises; the chunk is lost with the last one.
AttemptFails ==
    /\ pc = "chunk"
    /\ Len(parts) < ChunkCount(job)
    /\ IF tries + 1 < Attempts THEN Retry ELSE LoseChunk
    /\ UNCHANGED <<job, pc, style, saved, slice, skipped, counted, cuts, video>>

\* The coloured clip cannot be written.
ClipFails ==
    /\ pc = "chunk"
    /\ Len(parts) < ChunkCount(job)
    /\ tries + 1 = Attempts
    /\ Leave(Raised)
    /\ UNCHANGED <<job, style, saved, slice, parts, skipped, tries, counted, lost, cuts>>

\* The manifest is written.  The result needs the identity of the handle, which
\* a pack does not have.
ChunksDone ==
    /\ pc = "chunk"
    /\ Len(parts) = ChunkCount(job)
    /\ IF job.worker THEN Leave(Raised) ELSE Goto("encode") /\ UNCHANGED video
    /\ UNCHANGED <<job, style, saved, slice, parts, skipped, tries, counted, lost, cuts>>

SegmentsDone ==
    /\ pc = "segment"
    /\ Len(parts) = Len(Segments(job))
    /\ Goto("encode")
    /\ UNCHANGED <<job, style, saved, slice, parts, skipped, tries, counted, lost, cuts, video>>

-----------------------------------------------------------------------------
(* EncodingWorker.encode and the way out.                                   *)

\* Variant: the first part is trimmed as well.
TrimMsAll(i) ==
    IF job.kind = "text" THEN 0
    ELSE Min({OverlapMs, (2 * (parts[i].end - parts[i].start)) \div 5})

\* The start of every part but the first is trimmed by the overlap, which is
\* none for a text job, at most by 40% of what the manifest says the part has.
TrimMs(i) ==
    IF i = 1 \/ job.kind = "text" THEN 0
    ELSE Min({OverlapMs, (2 * (parts[i].end - parts[i].start)) \div 5})

\* A stream copy is cut between two frames; of a shorter clip it leaves nothing.
Cuts(i) ==
    LET asked == TrimMs(i) IN
    IF asked = 0 THEN {0}
    ELSE {Min({40 * n, parts[i].ms}) : n \in
             {k \in 0 .. asked + CutMs : asked - CutMs <= 40 * k /\ 40 * k <= asked + CutMs}}

Trim ==
    /\ pc = "encode"
    /\ Len(cuts) < Len(parts)
    /\ \E ms \in Cuts(Len(cuts) + 1) : cuts' = Append(cuts, ms)
    /\ UNCHANGED <<job, pc, style, saved, slice, parts, skipped, tries, counted, lost, video>>

\* How much of the video there is before part i.
PlayedBefore(i) ==
    FoldLeft(LAMBDA ms, k : ms + parts[k].ms - cuts[k], 0, [k \in 1 .. i - 1 |-> k])

\* What the job is then: completed, or degraded when a gesture was replaced
\* (a chunk job returns the chunks it lost instead).
Verdict == IF skipped = <<>> THEN "completed" ELSE "degraded"

\* Concatenated and muxed up to the shorter of video and audio; without sound
\* when muxing fails.
Encode ==
    /\ pc = "encode"
    /\ Len(cuts) = Len(parts)
    /\ LET ms == PlayedBefore(Len(parts) + 1) IN
       \E n \in {ms, Min({ms, job.audio})} : Leave([state |-> Verdict, ms |-> n])
    /\ UNCHANGED <<job, style, saved, slice, parts, skipped, tries, counted, lost, cuts>>

\* Concatenating fails, also for want of a part that could not be trimmed.
EncodeFails ==
    /\ pc = "encode"
    /\ Leave(Raised)
    /\ UNCHANGED <<job, style, saved, slice, parts, skipped, tries, counted, lost, cuts>>

\* The variables of the job go with it.
Forget ==
    /\ job' = NoJob
    /\ slice' = 0
    /\ parts' = <<>>
    /\ skipped' = <<>>
    /\ tries' = 0
    /\ counted' = 0
    /\ lost' = {}
    /\ cuts' = <<>>
    /\ video' = NoVideo

\* Variant: what the text pipeline has kept is restored last.
LeaveJobInner ==
    /\ pc = "leave"
    /\ style' = IF job.style = "default" THEN style
                ELSE IF job.kind = "text" THEN saved[2] ELSE saved[1]
    /\ saved' = <<"default", "default">>
    /\ Goto("idle")
    /\ Forget

\* finally, of the text pipeline and then of _do_process: the last word is that
\* of the outer one, on every way out.
LeaveJob ==
    /\ pc = "leave"
    /\ style' = IF job.style = "default" THEN style ELSE saved[1]
    /\ saved' = <<"default", "default">>
    /\ Goto("idle")
    /\ Forget

Next ==
    \/ \E j \in Inputs : Take(j)
    \/ Plan \/ Slice \/ RenderSegment \/ RenderFails \/ SegmentsDone
    \/ RenderChunk \/ AttemptFails \/ ClipFails \/ ChunksDone
    \/ Trim \/ Encode \/ EncodeFails \/ LeaveJob

Spec == Init /\ [][Next]_vars
=============================================================================
