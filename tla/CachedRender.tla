---------------------------- MODULE CachedRender ----------------------------
(***************************************************************************)
(* One engine rendering for one caller after the other: a cached avatar     *)
(* (render_cached_avatar: template, identity, region of the face, one       *)
(* window, compositing, audio, quality control) or the overlapping windows  *)
(* of RenderVideo.  LivePortrait keeps the signals of an audio file in the   *)
(* process, by its path; between two jobs the files may be written again.   *)
(*                                                                         *)
(* Retries of a window are in VideoJob, the states of an engine in          *)
(* EngineLifecycle, the store of packs in AvatarPacks: here an engine is    *)
(* ready and a pack is what a look-up has returned.                         *)
(***************************************************************************)
EXTENDS Compositing

CONSTANTS
    Engines,        \* the engines a process may be started with
    Takes,          \* for each path, the recordings that are put there
    Requests,       \* the jobs it is asked for
    Batch,          \* render_batch_size; 8 in the code
    MaxWindows      \* ChunkConfig.max_chunks; 200 in the code

Paths == DOMAIN Takes

NoPack == [kind |-> "none", real |-> FALSE, crop |-> <<0, 0>>]

\* A frame is never shorter than a sample: jobs of the API have 1 to 60 of them
\* in a second.
Rates == {f \in Nat : f # 0 /\ f <= 16000}

\* A job: what it renders, the audio it names and the rate it asks for; a
\* cached avatar also its template, and an image for want of a pack.
Jobs == [kind : {"cached", "windows"}, path : Paths, fps : Rates, template : Templates,
         image : Images, pack : PacksMade \cup {NoPack}]

ASSUME EnginesAssumption ==
    \A e \in Engines : e \in [kind : Kinds, mock : BOOLEAN, backend : {"dsp", "neural"},
                            rate : Rates]

ASSUME RequestsAssumption == Requests \subseteq Jobs

ASSUME CachedRenderAssumption ==
    /\ \A p \in Paths : Takes[p] \subseteq Audios /\ Takes[p] # {}
    /\ Batch \in Nat \ {0} /\ MaxWindows \in Nat \ {0}

NoJob == [kind |-> "none"]

VARIABLES
    engine,     \* what the process runs
    files,      \* the recording in each path
    signals,    \* _DRIVING_CACHE, by path and frame rate
    changed,    \* paths written again after their signals were kept
    guessed,    \* keys whose signals were made without the length of the file
    job,        \* the job under way
    pc,         \* what it is at
    window,     \* the window of the audio, and its number
    windows,    \* how many windows the job has
    pack,       \* the pack in hand
    matched,    \* the template, brought to length
    clip,       \* the clip last rendered
    frames,     \* how many frames the composite has
    verdict     \* how the job ended, and the calls of ffprobe that answered

kept == <<files, signals, changed, guessed>>
work == <<window, windows, pack, matched, clip, frames, verdict>>
vars == <<engine, kept, job, pc, work>>

NoWindow  == [from |-> 0, to |-> 0, number |-> 0]
Unmatched == [s \in {"body", "mask", "neck", "boxes"} |-> AsRecorded(0)]
Pending   == [status |-> "none", probes |-> {}]

Fresh(w, n, p, m, c, f, v) ==
    /\ w = NoWindow /\ n = 0
    /\ p = NoPack
    /\ m = Unmatched
    /\ c = NoClip
    /\ f = 0
    /\ v = Pending

Init ==
    /\ engine \in Engines
    /\ files \in {f \in [Paths -> UNION {Takes[p] : p \in Paths}] :
                     \A p \in Paths : f[p] \in Takes[p]}
    /\ signals = [key \in Paths \X {r.fps : r \in Requests} |-> NoSignals]
    /\ changed = {}
    /\ guessed = {}
    /\ job = NoJob
    /\ pc = "idle"
    /\ Fresh(window, windows, pack, matched, clip, frames, verdict)

Audio == files[job.path]

Goto(step) == pc' = step

\* The exception, or the result, on its way to the caller.
End(status, probes) == /\ verdict' = [status |-> status, probes |-> probes]
                       /\ Goto("done")

Raise == End("raised", {})

-----------------------------------------------------------------------------
(* The caller.                                                              *)

\* RenderVideo's windows start inside the audio, 16 when it has no length.
WindowCount(probed) ==
    Min({MaxWindows, IF probed THEN (Audio.ms + 3499) \div 3500 ELSE 16})

Window(k) == [from |-> (k - 1) * 3500, to |-> (k - 1) * 3500 + 4000, number |-> k]

Ask(r) ==
    /\ pc = "idle"
    /\ job' = r
    /\ Goto(IF r.kind = "cached" THEN "identity" ELSE "count")
    /\ UNCHANGED <<engine, kept, work>>

Count ==
    /\ pc = "count"
    /\ \E probed \in BOOLEAN : windows' = WindowCount(probed)
    /\ window' = Window(1)
    /\ pack' = job.pack
    /\ Goto("open")
    /\ UNCHANGED <<engine, kept, job, matched, clip, frames, verdict>>

\* Variant: one window more than there are.
NextWindowOneMore ==
    /\ pc = "rendered" /\ job.kind = "windows"
    /\ IF window.number <= windows
       THEN window' = Window(window.number + 1) /\ Goto("open") /\ UNCHANGED verdict
       ELSE End("rendered", {}) /\ UNCHANGED window
    /\ UNCHANGED <<engine, kept, job, windows, pack, matched, clip, frames>>

\* The next window, whether or not there is a clip of this one.
NextWindow ==
    /\ pc = "rendered" /\ job.kind = "windows"
    /\ IF window.number < windows
       THEN window' = Window(window.number + 1) /\ Goto("open") /\ UNCHANGED verdict
       ELSE End("rendered", {}) /\ UNCHANGED window
    /\ UNCHANGED <<engine, kept, job, windows, pack, matched, clip, frames>>

\* A window without a clip may be tried again.
Again ==
    /\ pc = "rendered" /\ job.kind = "windows" /\ clip = NoClip
    /\ Goto("open")
    /\ UNCHANGED <<engine, kept, job, work>>

Return ==
    /\ pc = "done"
    /\ job' = NoJob
    /\ Goto("idle")
    /\ Fresh(window', windows', pack', matched', clip', frames', verdict')
    /\ UNCHANGED <<engine, kept>>

\* Somebody puts another recording where one was.
Rewrite(p) ==
    /\ pc = "idle"
    /\ \E take \in Takes[p] \ {files[p]} : files' = [files EXCEPT ![p] = take]
    /\ changed' = IF \E key \in DOMAIN signals : key[1] = p /\ signals[key] # NoSignals
                  THEN changed \cup {p} ELSE changed
    /\ UNCHANGED <<engine, signals, guessed, job, pc, work>>

-----------------------------------------------------------------------------
(* render_cached_avatar, up to the engine.                                  *)

\* _resolve_identity: a pack that was given or found is taken as it is;
\* otherwise one is made of the image.
ResolveIdentity ==
    /\ pc = "identity"
    /\ \/ job.pack # NoPack /\ pack' = job.pack
       \/ job.pack = NoPack /\ job.image.w > 0 /\ pack' \in Prepared(engine, job.image)
    /\ Goto("match")
    /\ UNCHANGED <<engine, kept, job, window, windows, matched, clip, frames, verdict>>

\* Audio whose length is not known is matched as no audio, and rendered as four
\* seconds of it.
Match ==
    /\ pc = "match"
    /\ \E ms \in {0, Audio.ms} :
          IF MatchFails(job.template, ms)
          THEN Raise /\ UNCHANGED <<matched, window>>
          ELSE /\ matched' = Matched(job.template, ms)
               /\ window' = [from |-> 0, to |-> IF ms = 0 THEN 4000 ELSE ms, number |-> 1]
               /\ Goto("roi")
               /\ UNCHANGED verdict
    /\ windows' = 1
    /\ UNCHANGED <<engine, kept, job, pack, clip, frames>>

ExtractRoi ==
    /\ pc = "roi"
    /\ IF RoiFails(job.template, matched) THEN Raise ELSE Goto("open") /\ UNCHANGED verdict
    /\ UNCHANGED <<engine, kept, job, window, windows, pack, matched, clip, frames>>

-----------------------------------------------------------------------------
(* The engine.                                                              *)

Rendered(c) == clip' = c /\ Goto("rendered") /\ UNCHANGED verdict

\* The failure of a cached avatar is that of the job, the failure of a window
\* its own.
Refuse == IF job.kind = "cached" THEN Raise /\ UNCHANGED clip ELSE Rendered(NoClip)

RenderMock ==
    /\ pc = "open" /\ engine.mock
    /\ Rendered(MockClip(window.from, window.to, job.fps))
    /\ UNCHANGED <<engine, kept, job, window, windows, pack, matched, frames>>

\* Variant: signals are kept by their frame rate only.
KeyOfRate == <<CHOOSE p \in Paths : TRUE, job.fps>>

Key == <<job.path, job.fps>>

\* Variant: the signals of the first window are taken for those of the file.
HeardWindow(probed) == window.to

\* How much of the file its signals are made of.
Heard(probed) == IF probed THEN Audio.ms ELSE window.to

\* _get_sliced_driving_signals: the signals of the whole file are made once.
ReadAudio ==
    /\ pc = "open" /\ ~engine.mock /\ engine.kind = "liveportrait"
    /\ IF signals[Key] # NoSignals
       THEN Goto("drive") /\ UNCHANGED <<signals, guessed, clip, verdict>>
       ELSE \E probed, down \in BOOLEAN :
            IF BridgeFails(Audio, 0, Heard(probed), job.fps, engine.backend, down)
            THEN Refuse /\ UNCHANGED <<signals, guessed>>
            ELSE /\ signals' = [signals EXCEPT ![Key] =
                       AudioToDriving(Audio, 0, Heard(probed), job.fps, engine.backend)]
                 /\ guessed' = IF probed THEN guessed ELSE guessed \cup {Key}
                 /\ Goto("drive")
                 /\ UNCHANGED <<clip, verdict>>
    /\ UNCHANGED <<engine, files, changed, job, window, windows, pack, matched, frames>>

\* The signals of the window under way.
Driving == Slice(signals[Key], window.from, window.to, job.fps)

\* What a clip of LivePortrait shows: the face for a cached avatar; otherwise
\* the person, or the bare crop when pasting it back cannot be set up.
Shows == IF job.kind = "cached" THEN {"face"} ELSE {"person", "crop"}

\* The pack and the window may fail; otherwise every row becomes a frame.
DriveLivePortrait ==
    /\ pc = "drive"
    /\ IF LoadsSource(pack) /\ FitsKeypoints(Driving)
       THEN \E shows \in Shows :
                Rendered(RealClip(Driving, LivePortraitFrames(Driving, Batch), job.fps, shows))
       ELSE Refuse
    /\ UNCHANGED <<engine, kept, job, window, windows, pack, matched, frames>>

\* MuseTalk reads the window itself, and never pastes back.
RenderMuseTalk ==
    /\ pc = "open" /\ ~engine.mock /\ engine.kind = "musetalk"
    /\ LET rows == Features(Audio, window.from, window.to, engine.rate) IN
       IF LoadsLatent(pack)
       THEN \E failing \in SUBSET (0 .. (rows.rows - 1) \div Batch) :
                Rendered(RealClip(rows, Decode(UNet(rows, Batch, failing), Batch), job.fps,
                                  IF job.kind = "cached" THEN "face" ELSE "crop"))
       ELSE Refuse
    /\ UNCHANGED <<engine, kept, job, window, windows, pack, matched, frames>>

-----------------------------------------------------------------------------
(* render_cached_avatar, after the engine.                                  *)

Composite ==
    /\ pc = "rendered" /\ job.kind = "cached"
    /\ IF CompositeFails(matched) THEN Raise /\ UNCHANGED frames
       ELSE frames' = CompositeFrames(matched, clip) /\ Goto("mux") /\ UNCHANGED verdict
    /\ UNCHANGED <<engine, kept, job, window, windows, pack, matched, clip>>

\* A composite without frames cannot be muxed.
MuxAudio ==
    /\ pc = "mux"
    /\ IF frames = 0 THEN Raise ELSE Goto("check") /\ UNCHANGED verdict
    /\ UNCHANGED <<engine, kept, job, window, windows, pack, matched, clip, frames>>

\* The verdict is part of the result, whatever it is.
CheckQuality ==
    /\ pc = "check"
    /\ \E studio \in BOOLEAN, probes \in SUBSET Probes :
          End(Verdict(Muxed(frames, job.template.fps, Audio.ms), job.template, Audio.ms,
                      frames, studio, probes), probes)
    /\ UNCHANGED <<engine, kept, job, window, windows, pack, matched, clip, frames>>

\* A missing file or tool, or the model itself, at any step.
Fails ==
    /\ \/ pc \in {"identity", "match", "roi", "mux"} /\ Raise /\ UNCHANGED clip
       \/ pc = "rendered" /\ job.kind = "cached" /\ Raise /\ UNCHANGED clip
       \/ pc \in {"open", "drive"} /\ Refuse
    /\ UNCHANGED <<engine, kept, job, window, windows, pack, matched, frames>>

Next ==
    \/ \E r \in Requests : Ask(r)
    \/ \E p \in Paths : Rewrite(p)
    \/ Count \/ NextWindow \/ Again \/ Return
    \/ ResolveIdentity \/ Match \/ ExtractRoi
    \/ RenderMock \/ ReadAudio \/ DriveLivePortrait \/ RenderMuseTalk
    \/ Composite \/ MuxAudio \/ CheckQuality \/ Fails

Spec == Init /\ [][Next]_vars
=============================================================================
