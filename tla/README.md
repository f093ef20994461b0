# Heyavatar: TLA+ models, checks and proofs

Heyavatar turns a portrait and an audio track or a text into a talking-avatar
video. HTTP requests reach stateless FastAPI replicas, which put jobs into a
Redis stream; GPU worker processes take them out, render with one of several
engines, encode with ffmpeg and write the outcome to one Redis hash per job,
which `GET /jobs/{id}` reads.

This directory models the parts of that program whose correctness depends on
interleavings, failures, order or boundaries, checks them with TLC on small
instances, and proves every safety property that a passing run checks, of every
component, with TLAPS for all values of the constants. Paths
are relative to the root of the repository. `PROJECT.json` maps each definition
to the lines it models, lists the runs, and gives for each property a plausible
bug of the code (a "variant" definition in the module) under which it fails.

Contents: 1 inventory, 2 how the models are written, 3 job path, on Redis and in
memory, 4 fleet, 5 engines, 6 packs, 7 videos: the pipelines and the rendering
under them, 8 runs and bounds, 9 fairness, 10 proofs, 11 disagreements found,
12 what is abstracted or left out, 13 plan.

## 1. Inventory

Components, their state, what they do, and what makes them correct. "M" is
modelled, "P" partly, "-" not modelled (the reason is in section 12 and in
`PROJECT.json`).

| component | code | state | operations | hard behaviour | correct when | |
|---|---|---|---|---|---|---|
| Redis job queue | `src/scheduler/queue/redis.py` | stream, group cursor, pending list, `_stream_entry` in the job hash | publish, reserve (with reclaim and trim once per process), acknowledge, fail, cancel, depth | each method is several commands; death between them; reclaim by idle time; trimming | a delivery has one worker, is acknowledged after a verdict only, and is lost only by trimming | M |
| Redis job repository | `src/storage/jobs/redis.py` | the same hash `heyavatar:job:{id}` | upsert, get, mark | `mark` is a non-atomic read-modify-write | no finished job is reopened; a completed one has its result | M |
| Job contract | `contracts/job_queue.py` | - | publish, reserve, acknowledge, fail, cancel | - | the queue implements it | M |
| Jobs API | `api/routes/jobs.py` | none | submit, get, cancel | publish before upsert; ids clients choose | what a client reads follows the job | M |
| GPU worker loop | `workers/gpu_worker/worker.py` | current job, stop flag, engine | run loop, heartbeat thread | exceptions out of every call, death anywhere, two threads | each job gets a verdict and is acknowledged | P |
| GPU worker processing | `workers/gpu_worker/process.py` | engine settings | compile, text and render jobs | nested set-and-restore of settings | the outcome is the pipeline's | P |
| Worker pool, tier router, health keys | `src/scheduler/routing/*`, telemetry and probe code | pool records, Redis keys with a TTL | register, heartbeat, mark_in_flight, unregister, sync_from_redis, pick_available | two writers of each record; keys outlive workers | no lost capacity; live engines become visible, degraded ones are no longer routed | M |
| API application | `api/app/*` | AppState, gatherer thread | lifespan, health | an attribute that cannot be stored ends the lifespan | remote workers are gathered | P |
| Checkpoint managers | `providers/*/checkpoint_manager*` | checkpoint directory, hub cache | ensure_present, verify, download | shared directory, rolling upstream, torn files | only pinned bytes are loaded | M |
| LivePortrait and MuseTalk life cycle | `providers/*/adapter/engine.py` | engine state, weights | load, unload, state checks | every failure becomes DEGRADED | no mock answers in real mode | P |
| Compilation and packs | `src/application/compile_avatar.py`, `src/domain/avatar_pack.py`, `src/storage/avatar_packs.py` | archives, per-process caches | compile, write_pack, read, cache | two compilers of one identity, full disks, killed workers | the pack on disk is whole; caches and results name packs that were | M |
| Text to avatar pipeline | `src/application/run_cached_avatar_from_text.py`, `render_cached_avatar.py` | job directory | plan, slice, render per segment, encode | rounding, empty windows, fallbacks, no retry | parts in step with the audio; fallbacks reported | P |
| Motion and face timelines | `src/motion/*`, `providers/motion_extraction/mediapipe/gesture_planner.py` | none (pure) | plan, place, fill, sample | crowded gestures, short clips, words inside words | plans tile the audio | P |
| RenderVideo | `src/application/render_video/*` | none | windows, retries, degraded clips, manifest | retry against telemetry, unknown length, cap | nothing spoken is lost, chunks are counted once | P |
| Encoding worker | `workers/encoding_worker/*` | temporary files | trim, concatenate, mux | overlap, refusal of ffmpeg | the overlap is played once | P |
| In-memory and null queues | `src/scheduler/queue/memory.py`, `null.py`, `src/storage/jobs/memory.py` | deque, dict, cancelled set, lock; rows | as the Redis queue | threads between two calls; cancel beside reserve | as the ledger; a cancel in time sticks; every job is settled | M |
| Audio bridge | `providers/liveportrait/audio_bridge/*` | - | driving signals of a file or a window | rounding of bins, windows past the end, padding | one row per frame, of its own moment | M |
| LivePortrait preparation and rendering | `providers/liveportrait/adapter/_render.py`, `_identity.py` | driving-signal cache | prepare, slice, batch, paste back | stale or short cache, failing batches, a face at the edge | rows of the right audio, none lost or repeated | M |
| MuseTalk preparation and rendering | `providers/musetalk/adapter/_render.py` | - | crop, latent, batches with two levels of fallback | a batch that fails in the middle, a window without rows | as LivePortrait's | M |
| Compositing and quality control | `providers/compositing/*`, `src/quality/*`, `src/application/render_cached_avatar.py` | - | match the template to the audio, paste, mux, judge | streams of different length, dropped boxes, checks that cannot measure | what passes is in step with its audio | P |
| Talking on request, avatar images | `src/application/speak_avatar.py` and others | temporary pack | speak | a file that exists is trusted | the pack is whole | - |
| Pose tracks, composer, recordings | `src/motion/composer.py`, `pose_graph.py`, `src/body`, `src/face` | none | readers | - | - | - |
| EchoMimic | `providers/echomimic/*` | - | placeholder | - | - | - |
| Observability | `src/observability/*` | counters, spans | record | - | - | - |
| Configuration, logging, types | `src/core/*`, `src/domain/*` | read-only | - | - | - | - |
| Tools, scratch, operations | `tools/*`, `scratch/*`, `ops/*` | - | developer scripts | - | - | - |

How they interact: API and workers share nothing but Redis (stream, job
hashes, health keys) and three volumes (checkpoints, packs, captures). In one
process, the worker loop calls the processing code, which calls the pack
repository, the pipelines, one engine and the encoder; a heartbeat thread
reads the engine's health beside it. In the API process a gatherer thread
copies health keys into the pool the router reads.

The job path decides everything a client sees and is where processes interleave
freely, so it was modelled and proved first.

## 2. How the models are written

One module per component with its state, one action per command or file
operation (every point where another process can come between), and its
properties in a module of its own or, for packs, at its end; `MC*.tla` holds
constant values for TLC.

| module | stands for |
|---|---|
| `RedisStream` | the Redis 7 stream commands as operators (external) |
| `JobRecord` | the job hash and what upsert and mark write to it |
| `JobPlatform`, `JobPlatformProps`, `MCJobPlatform` | API handlers, workers, queue and repository, command by command |
| `JobLedger` | the abstract queue: what the contract promises of a delivery |
| `JobPlatformProofs` | proofs of the job path: types, deliveries, ledger, what clients read |
| `MemoryQueue`, `MemoryQueueProofs` | the in-memory and the null queue under handlers and worker threads; proofs |
| `WorkerFleet`, `WorkerFleetProps`, `WorkerFleetProofs`, `MCWorkerFleet` | heartbeats, health keys, gatherer, pool, router; proofs |
| `EngineLifecycle`, `EngineLifecycleProps`, `EngineLifecycleProofs`, `MCEngineLifecycle` | checkpoints and engine states; proofs |
| `AvatarPacks`, `AvatarPacksProofs`, `MCAvatarPacks` | compile, archives, repository caches; proofs |
| `SpeechTimelines` | the planners and schedulers, pure |
| `VideoJob`, `VideoJobProps`, `VideoJobProofs`, `MCVideoJob` | text pipeline, RenderVideo, EncodingWorker on one engine; proofs |
| `DrivingSignals` | from an audio file to one row of signals per frame, pure |
| `FaceEngines` | crops, packs and batches of LivePortrait and MuseTalk, pure |
| `Compositing` | template, compositor, muxing and quality control, pure |
| `FoldLemmas` | lemmas: induction over sets of numbers, largest and least, what a fold returns |
| `CachedRender`, `CachedRenderProps`, `CachedRenderProofs`, `MCCachedRender` | one engine rendering cached avatars and windows, with the caches and files it shares between jobs; proofs |

`JobPlatform` composes `JobRecord` and `RedisStream`; `VideoJob` extends
`SpeechTimelines`; `CachedRender` extends `Compositing`, which extends
`FaceEngines`, which extends `DrivingSignals`. `JobPlatformProps` and
`MemoryQueue` both instantiate `JobLedger`; `VideoJobProofs` and
`CachedRenderProofs` extend `FoldLemmas`. The systems meet at abstract points:
`Process` of `JobPlatform` stands for a whole `_process` call, whose outcomes
`VideoJob`, `CachedRender` and `AvatarPacks` detail; a chunk that `VideoJob`
renders or loses is a window of `CachedRender`; a worker of `EngineLifecycle`
that reaches "serving" is one of `WorkerFleet` that has passed its `Load`.

## 3. The job path

### On Redis: `JobPlatform`

| variable | code |
|---|---|
| `hash[j]` | `heyavatar:job:{id}`: state, payload, `_stream_entry`, result |
| `stream`, `lastDelivered`, `trimmed` | `heyavatar:jobs`, the group's cursor, what XTRIM has cut; an entry id is a position |
| `pending`, `stale` | the pending entries list, and those idle beyond `visibility_timeout_seconds` |
| `rq[r]` | a request handler: step, job, hash read by `mark` |
| `wk[w]` | a worker: step, job, entry, payload, outcome, marker read back, hash read by `mark`, page and cursor of `_reclaim` |
| `judged` | history: deliveries for which COMPLETED or FAILED was written |
| `crashes`, `errors`, `evictions` | faults so far, bounded |

Actions, in the order of the code: `SubmitHset`, `SubmitXadd` (publish),
`SubmitUpsert`; `CancelHset`, `CancelGet`, `CancelUpsert`; `Start`, `AutoClaim`,
`ReclaimHset`, `ReclaimXack`, `ReclaimHdel`, `Trim` (housekeeping, once per
process), `ReadGroup`, `PollEmpty`, `HgetPayload`, `HsetReserved` (reserve),
`RunGet`, `RunUpsert` (mark RUNNING), `Process`, `SettleHget`, `SettleHset`,
`SettleXack`, `SettleHdel` (acknowledge or fail), `FinalGet`, `FinalUpsert`
(final mark). Faults: `RequestFails`, `RedisError` (with `AfterError` for where
each exception leads), `Crash`, `EvictHash`; time: `EntryAges`.

`JobLedger` is the abstract specification: deliveries are published in an order,
handed out in that order to a worker with empty hands, judged, then closed;
trimming may cut off all but the newest `Keep`. The refinement mapping takes
`stream` for the log, computes each delivery's status from `lastDelivered`,
`trimmed`, `pending` and `judged`, a worker's hand from its entry, and `trimmed`
for the cutoff. Steps on hashes are stutters. A wrong XACK would close a
delivery that was not judged and is no step of the ledger.

Properties (`JobPlatformProps`): `DeliveredOnce`, `SingleWorkerPerJob` (on which
`mark` relies), `OwnMarker`, `JudgedBeforeClosed`, `CompletedHasResult`, `FinishedNotReopened`,
`NothingLeftBehind`, `ImplementsLedger`, `EveryEntryClosed`, `OrphansReclaimed`,
and the false `ClosedJobReadsTerminal`. The comment of each names what it needs.

### In one process: `MemoryQueue`

Variables: `backend` (in-memory or null), `log` and `head` (the deque is the log
behind `head`), `known` (`_by_id`), `cancelled`, `rows` (the repository), `rq`
(handlers), `wk` (worker threads), `judged` (history). Each method of queue and
repository holds its object's lock and is one step, and what is between two
calls interleaves: `SubmitPublish`, `SubmitUpsert`; `CancelQueue`, `CancelMark`;
`Reserve` and `ReserveNone` (which pass over cancelled jobs), `MarkRunning`,
`Process`, `Settle`, `FinalMark`. The null queue drops what is published and
hands out nothing.

It implements the same `JobLedger` under a mapping of its own: a delivery waits
behind `head`, is in a thread's hands from `Reserve` on, and is closed when it is
passed over because its job was cancelled. Properties: `KeepsLedger` (the
refinement), `CancelSticks` (a cancellation that was answered before a worker
got the job reads as cancelled for good, and nobody is given the job; the Redis
queue does not have this), `EveryJobSettled`.

## 4. Workers and routing: `WorkerFleet`

Variables: `api` (boot, gathering, serving), `pool` (WorkerPool records), `sync`
(the gatherer thread, with the key it has read), `keys` (health keys), `wk`
(main thread and heartbeat thread of each worker), `left` (starts and faults
that may still come, from one of the `Budgets`). The pool's
methods hold a lock and are operators applied in one step; the gatherer's pass
is `SyncScan`, `SyncGet`, `SyncCheck`, `SyncApply`, `SyncRest`, the heartbeat
`BeatTop`, `BeatPublish`. A worker goes through load, register, heartbeat start,
loop, and on the way out join, unload, unregister, delete key.

Properties: `InFlightHonest` (the pool never counts more jobs of a worker of its
process than that worker runs, although two threads write the record and the
API may be killed and started again under its ids), `CountLostToOldTest` (the
only way to count fewer is the gatherer's `register()` on a test of the records
that it made before the worker registered), `HeartbeatStopsFirst` (nothing
published after unload on an orderly stop), `RemoteWorkerVisible`,
`DegradedNotRouted`. There is no property about a worker that died, because
what is said of it does not hold: its key expires, and its record in the pool
stays (section 11).

## 5. Checkpoints and engines: `EngineLifecycle`

Variables: `deploy` (adapter, SHA256 pins, switches), `served` (what the
upstream has under each URL), `cached` (the hub's cache), `disk` (the shared
directory), `strays` (temporary files nobody removes), `wk` (step of `load`, the
temporary file, engine state, weights), `answers`, `used`. Each file operation
of `ensure_present` is a step: look, verify, fetch, install, recheck, then the
import and the weights.

Properties: `OnlyPinnedWeights` (LivePortrait), `ServesVerifiedFiles` (an engine
of either adapter that came up has every file of its manifest, with its pinned
bytes or admitted without a pin), `GoodFileKept`, `LoadEnds`, `BadCacheHeals`; `TypeOK` also bounds the temporary
files left by the faults there were, and says that MuseTalk answers nothing with
its mock.

## 6. Packs: `AvatarPacks`

Variables: `builds` (the engine of each compile), `files` (archives as manifest
part and assets part, with the compile each is from), `temp`, `pack` (the two
names), `cache` (per repository, never invalidated, as in the code), `wk`,
`published`, `result`. `write_pack` is `Open`, `WriteManifest`, `WriteAssets`,
`Replace`; any of them may fail, and a worker may be killed anywhere.

Properties: `PackWhole` (a reader never opens a torn archive), `ReportsTrue`
(what a repository caches or a job reports was once the pack).

## 7. Videos

### Plans and parts: `SpeechTimelines` and `VideoJob`

`SpeechTimelines` computes what the text pipeline plans: intents by rule
(`GestureIntents`, `FaceIntents`), the time of each anchor word
(`AnchorTime`, with `str.find`'s hits inside other words), segments moved and
clipped (`GestureSegment`), gaps and tail filled (`Put`, `PutTail`), the plan
looked up for a frame (`MotionAt`) and the dominant gesture.

`VideoJob` runs jobs one after the other on one engine. `Take` and `Plan` set
the motion style and keep what to restore; a text job alternates `Slice` and
`RenderSegment` and ends with `SegmentsDone`; a chunk job takes `RenderChunk` or
`AttemptFails` (three attempts, then `LoseChunk`) and ends with `ChunksDone`;
`Trim` cuts the overlap off one part after the other, `Encode` concatenates and
muxes; `LeaveJob` is the two `finally` blocks. `RenderFails`, `ClipFails` (the
coloured clip cannot be written) and `EncodeFails` are the ways out by exception.

The clip of a window (`ClipMs`) is as long as the engine makes it: four seconds
in mock mode; for LivePortrait the rows of the whole audio cut to the window, so
that the last clip ends with the audio, or earlier where muxing stops at the
shorter stream (`LivePortraitFrames`); for MuseTalk the rows of the window's
audio, or half a second of blank clip without any (`MuseTalkFrames`). A trim
(`Cuts`) is a stream copy: asked for `TrimMs`, which goes by the window and not
by the clip, it cuts between two frames up to `CutMs` away, and leaves nothing
of a clip that is shorter.

Properties: `TimelinesTile`, `PartsInStep` (no drift beyond rounding, packets and
cuts; overlap played once), `SpokenToTheEnd` (also where the last clip is short or
trimmed to nothing), `RenderedAsAsked` (verdict, count of chunks and style are
those of the job, whatever the one before left), and the false `FaceInStep`.

### Rendering: `DrivingSignals`, `FaceEngines`, `Compositing`, `CachedRender`

Three pure modules follow an audio file to the screen. A signal row is the place
in the audio that it was computed from; a clip is the row that each of its frames
shows; a composite is, for each frame, the recorded picture, masks and box and
the frame of the clip that are put together.

- `DrivingSignals`: the rows of a file or a window (`AudioToDriving`), the cut of
  a file's rows to a window (`Slice`), MuseTalk's rows (`Features`), with the
  rounding, padding and refusals of each.
- `FaceEngines`: the crop round a face (`LivePortraitCrop`, `MuseTalkCrop`), what
  a pack holds and who may load it, and the batches of both engines with
  their fallbacks (`LivePortraitFrames`, `UNet`, `Decode`).
- `Compositing`: the template brought to the length of the audio (`Matched`), the
  region of the face, the composition of frame k (`Composed`), and the verdict
  of the quality control when some of its measurements have failed (`Verdict`).

`CachedRender` runs jobs on them. Variables: `engine`, `files` (what is recorded
under each path), `signals` (`_DRIVING_CACHE`), `changed` and `guessed` (history:
paths written again, and cache entries made without knowing the length), `job`,
`pc`, `window`, `windows`, `pack`, `matched`, `clip`, `frames`, `verdict`. A
cached avatar goes through `ResolveIdentity`, `Match`, `ExtractRoi`, the engine,
`Composite`, `MuxAudio`, `CheckQuality`; the windows of RenderVideo through
`Count`, the engine and `NextWindow` or `Again`. The engine is `RenderMock`, or
`ReadAudio` and `DriveLivePortrait`, or `RenderMuseTalk`; `Fails` is an exception
of anything outside, `Rewrite` puts another recording where one was.

Properties: `OwnVoice` (lips move to the file that was asked for, with a cache
shared by all jobs), `EveryRowShown` (windows and failed batches lose, repeat
and shift nothing), `PictureInStep` (what the quality control lets pass is in
step; `Behind` is what the rows of the DSP backend fall short of), `FaceOfTheSource` (no real engine animates mock data or another engine's
pack; the crop is square away from the edges). Each names its exceptions, which
are defects or limits listed in section 11.

## 8. Runs and bounds

| run | asks | instance | states | result |
|---|---|---|---|---|
| `jobs` | what a client sees, what Redis keeps, deliveries and the ledger, under a crash and an exception anywhere | 2 jobs of different kinds, 2 requests, 2 workers, pages of 1, stream trimmed to 1 | 804 k | holds |
| `progress` | liveness with two crashes, an eviction and trimming | 2 jobs, 2 requests, 1 worker, pages of 1, stream trimmed to 1 | 468 k | holds |
| `stale_pending` | does a finished job read as finished? | 1 of each, no fault | 106 | violated |
| `memory` | ledger, cancellation and liveness of the in-memory and the null queue | 2 jobs, 3 requests, 2 worker threads | 113 k | holds |
| `fleet` | counts, heartbeats, and whether routing follows the workers | a worker in the API process and a remote one, in four budgets of starts, raises, kills and Redis errors | 367 k | holds |
| `fleet_slots` | the same with AppState as declared | 1 remote worker | small | violated |
| `engine` | loading under seven deployments | 1 worker, 2 files, 2 versions, 1 roll, 2 faults | 156 k | holds |
| `engine_race` | two workers, empty volume, a roll | 2 workers, 1 file | small | violated |
| `packs` | two engines compile and render one identity | 2 workers, 3 jobs, 2 faults | 747 k | holds |
| `video` | plans, parts, clips, cuts, verdict, telemetry, style | 7 scripts, 4 lengths, 3 modes, 7 chunk lengths | 257 k | holds |
| `face_motion` | does the face follow its plan? | 1 script, 2 lengths | small | violated |
| `render` | voices, rows, pictures and faces | 6 engines, 23 jobs, 2 recordings under one path, batches of 32, 3 windows | 363 k | holds |

Why the bounds are enough for what is asked.

- Job path. A property about deliveries relates at most two workers and two
  deliveries of one or two jobs, so two of each reach every pattern: a reclaimer
  and a live worker, an acknowledgement and a reclaim of the same entry, a
  cancel beside a submit. Pages of one entry make two pages with two entries.
  `StreamMaxLen = 1` lets trimming cut undelivered and pending entries. One crash
  and one exception hit every step; the proofs of section 10 cover every number.
  `progress` has one worker, trimmed to one entry and killed twice, so that a page
  of XAUTOCLAIM may hold a trimmed entry only, which ends `_reclaim`. Renders that
  outlast the visibility timeout are covered by the proofs alone (those that do not
  name `~LongRenders`).
- Memory. Three requests on two jobs are a submit, its cancel and another
  submit, or two cancels of one job; two threads race for one delivery.
- Fleet. A local and a remote worker are the two kinds of writer; two starts
  show an old key meeting a new run, of a remote worker and of one in the API. `FleetBudgets` (in `MCWorkerFleet`) says
  which faults come together.
- Engines. Two versions are enough to have a wrong one, two files to have a
  first failure and a later success (one through the hub, one through urllib).
- Packs. Three jobs let one recompile happen between another's look-up and its
  render; two faults let a writer be killed and another run out of disk.
- Videos. The scripts have no word, no keyword, one to four gestures in several
  orders, a keyword inside another word, and a word of two face rules. The
  lengths make gestures crowd, be clipped, and fit. `MaxChunks = 3` lets the cap
  bite, `PacketMs = 130` is above a packet of 1024 samples at 8 kHz. The chunk jobs
  have less than a window, just more than one, less than the overlap left in the
  last window, more than it, the cap and beyond, and no length. `CutMs = 20` is half
  a frame; the proofs hold for any larger one. (A tool that cannot cut a stream copy
  between keyframes cuts at one: `CutMs = 500` then.)
- Rendering. The audio files are a window and 10 ms, less than a window, two
  windows and 20 ms, and one that is no WAV; the templates are shorter than the
  audio, longer, of 24, 25 and 30 frames per second, of uneven and empty streams,
  with boxes without area or not numbers, and of looks the control refuses; the
  faces are in the middle and at two kinds of edge; the packs are real and mock
  ones of both engines, or are to be made. MuseTalk's encoder follows the rate
  that is asked for or not. Batches of 32 frames leave a first, a middle and a
  last one in a window (with the code's 8 there are more of the same). The
  path that is written again is that of most jobs.
- `fleet` and `progress` state each fault's bound in the cfg. Symmetry is used
  only in runs without liveness.

Deadlock is checked everywhere but in `engine` (workers stop after `MaxStarts`)
and `packs` (jobs are bounded).

## 9. Fairness

- `JobPlatform!Fairness`: a handler that has begun and a live worker go on with
  their next command (threads are scheduled); a worker that is down is started
  (`restart: unless-stopped` in `docker-compose.yml`); pending entries age (time
  passes). Requests need not come, nothing is assumed of faults, and a submit
  that failed half-way is not repeated.
- `WorkerFleet!FairSpec`: a run's next step, the heartbeat thread, the gatherer's
  next step, the boot of the API (the same restart policy) and the expiry of
  keys; none for starts, raises or kills.
- `MemoryQueue!FairSpec`: a handler that has begun and a worker thread go on;
  requests need not come.
- `EngineLifecycle!FairSpec`: the steps of `load`; not faults and not rolls.
- Safety runs use the specifications without fairness.

`EveryEntryClosed` excepts behaviours with a fault. `OrphansReclaimed` says what
the code guarantees after one: the housekeeping of a *starting* worker takes the
idle deliveries off the books, as long as those whose message was trimmed do not
fill a page (section 11). The code does it once per process, so that an orphan
left after the last start waits for the next.

## 10. What is proved

For every value of the constants (any sets of jobs, requests, workers and files,
any script, audio, template and rate, any bounds), from each module's named
assumptions alone:

| theorem | says | also needs |
|---|---|---|
| `TypeInvInvariant` | `Spec => []TypeInv` | |
| `TypeCorrect` | `Spec => []TypeOK` | |
| `OneWorkerPerDelivery` | `Spec => []DeliveredOnce` | |
| `OneWorkerPerJob` | `Spec => []SingleWorkerPerJob` | uuid ids |
| `XackOwnDelivery` | `Spec => []OwnMarker` | uuid ids |
| `VerdictBeforeAcknowledgement` | `Spec => []JudgedBeforeClosed` | uuid ids |
| `RedisKeepsLedger` | `Spec => ImplementsLedger`, that is `Ledger!LedgerSpec` | uuid ids |
| `CompletedNeverBare` | `Spec => []CompletedHasResult` | |
| `RestLeavesNothing` | `Spec => []NothingLeftBehind` | uuid ids |
| `FinishedStaysFinished` | `Spec => FinishedNotReopened` | uuid ids, jobs shorter than the visibility timeout |
| `DeliveriesGoOneWay` | `Spec => DeliveriesAdvance`: no delivery goes back in the ledger | |
| `QueueTypeCorrect` | `Spec => []TypeOK` of `MemoryQueue` | |
| `MemoryKeepsLedger` | `Spec => KeepsLedger`, that is `Ledger!LedgerSpec` | uuid ids |
| `CancellationSticks` | `Spec => CancelSticks` | uuid ids |
| `FleetTypeInvInvariant` | `Spec => []TypeInv` of `WorkerFleetProofs` | |
| `FleetTypeCorrect` | `Spec => []TypeOK` of `WorkerFleetProps` | |
| `CountNeverAbove` | `Spec => []InFlightHonest` | |
| `OnlyOldTestsLoseCount` | `Spec => CountLostToOldTest` | |
| `HeartbeatSilencedFirst` | `Spec => HeartbeatStopsFirst` | Redis answers within `join(timeout=2.0)` |
| `EngineTypeCorrect` | `Spec => []TypeOK` of `EngineLifecycleProps` | |
| `PinnedWeightsOnly` | `Spec => []OnlyPinnedWeights` | one worker on the volume |
| `VerifiedFilesOnly` | `Spec => []ServesVerifiedFiles` | one worker on the volume |
| `GoodFilesStay` | `Spec => GoodFileKept` | one worker on the volume |
| `PacksTypeCorrect` | `Spec => []TypeOK` of `AvatarPacks` | |
| `PackAlwaysWhole` | `Spec => []PackWhole` | process ids that differ |
| `ReportsAlwaysTrue` | `Spec => []ReportsTrue` | process ids that differ |
| `VideoInv` | `Spec => []VInv`, the inductive invariant of `VideoJob` | |
| `VideoTypes` | `Spec => []TypeOK` of `VideoJobProps` | |
| `PlansTile` | `Spec => []TimelinesTile` | |
| `PlayedInStep` | `Spec => []PartsInStep` | |
| `HeardOut` | `Spec => []SpokenToTheEnd` | |
| `AskedIsRendered` | `Spec => []RenderedAsAsked` | |
| `RenderTypes` | `Spec => []TypeOK` of `CachedRenderProps` | |
| `LipsOfTheFile` | `Spec => []OwnVoice` | |
| `FaceIsReal` | `Spec => []FaceOfTheSource` | |
| `RowsShown` | `Spec => []EveryRowShown` | |
| `PicturesInStep` | `Spec => []PictureInStep` | |

"uuid ids" is `ASSUME ~ClientReferences`: with client-chosen ids those of
`JobPlatform` are false (section 11). `DeliveredOnce` holds for them too, which
no run checks. "Jobs shorter than the visibility timeout" is `~LongRenders`: a
delivery that goes idle while its own worker has yet to write RESERVED or
RUNNING is failed by a worker that starts, and then reopened. With two workers
on one volume `OnlyPinnedWeights` is false (`engine_race`). "Redis
answers" is `~SlowRedis`: the join gives up after two seconds, and a SET that
blocks longer is published after `unload`.

The job path on Redis.

- `TypeOK` is not inductive: that `ReadGroup` puts an entry of the stream into
  `pending`, or that `ReclaimHset` has an entry to fail, depends on what each
  process has in its variables at each step. `TypeInv` adds `HandlersOK` (a
  handler that has begun has a job) and `WorkersOK` (a worker at a job step has a
  delivered entry *and its job*; at any other step none; a reclaimer has a
  non-empty page of delivered entries). One lemma per group of actions
  (`HandlerTypeInv`, `HousekeepingTypeInv`, `ReadGroupTypeInv`, `JobStepTypeInv`,
  `RestartTypeInv`, `EnvironmentTypeInv`) with one step per action.
- `DeliveredOnce`: an entry in hand is at most `lastDelivered` (`WorkersOK`), and
  the only step that gives one, `ReadGroup`, gives one beyond it (`EntryKept`,
  `ReadGroupEntry`). Nothing a client, a crash or an exception does gives one.
- `SingleWorkerPerJob`: `UniqueIds`, that a uuid belongs to one submit and one
  entry of the stream, makes jobs and entries one to one (`JobOfDelivery`).
- `OwnMarker`: `MarkersOfJob`, that the marker in a hash is a delivered entry of
  that job, which with `UniqueIds` is *the* entry.
- `JudgedBeforeClosed`: `VerdictsWritten`, that past the HSET of the state a
  delivery is in `judged`; with `OwnMarker`, XACK takes only such a delivery.
- The ledger: the status of a delivery depends on `stream`,
  `lastDelivered`, `trimmed`, `pending` and `judged` alone. One lemma for each
  command that changes them gives the step it maps to: XADD is `Publish`,
  XREADGROUP `HandOut` (the next unread entry is the first that waits), the HSET
  of a verdict `Judge`, XACK `Close`, XAUTOCLAIM `Vanish`, trimming `Cut`; each
  may be a stutter, when two processes judge or acknowledge one delivery. Every
  other step leaves the ledger or is `LetGo` (`QuietStep`), a crash included.
- Without faults: counts of faults only grow, so that a state
  without any was reached by `SmoothStep`s alone (`NoFaultBefore`). A job that
  reads as completed without result has a worker between its two writes
  (`ResultsDue`). A pending entry is held by a worker that will acknowledge it,
  by the marker in the hash or the one it has read, or is claimed by a reclaimer
  (`OpenHeld`); a marker has a worker that will remove it (`MarkersHeld`). What
  makes this inductive is that nobody else touches the marker in time: no other
  worker has the job, and a reclaimer removes a marker only after its XACK
  (`DropsClosed`, with `UniqueIds`). Both hold when renders outlast the
  visibility timeout.
- `FinishedNotReopened`: a finished job has a verdict on one of its entries
  (`FinishedPronounced`), which with `UniqueIds` is its only one; a worker that
  may still write RESERVED or RUNNING has a delivery without verdict
  (`BeginsUnjudged`), because a verdict is written by the worker that has the
  delivery, when it is past these steps, or by a reclaimer, and what is idle or
  being reclaimed is nobody's delivery (`Abandoned`). What is left is the submit
  handler's own upsert, which is the first disagreement of section 11.
- `DeliveriesAdvance`: the positions of the group only grow and what becomes
  pending is later than all of them (`GroupAdvances`). It needs neither uuid ids
  nor the refinement: even where one worker acknowledges another's delivery, none
  is given out again.

The queue in memory. `TypeOK` with `OneDelivery` (a thread at work has
one delivery, of its job, that is judged by `Settle` and not before) and
`OwnDelivery` (no two threads have the same) is inductive. For the ledger each group of actions
maps to a step or a stutter: only `CancelQueue` and `Reserve` change several
statuses at once, and that a cancelled job is published no more (`CancelsAsked`)
keeps a status from going back. `CancelSticks` needs `Handling`, what a handler
that is done has left behind, and `CancelledRows`, that the row of a job
cancelled in time says so.

Checkpoints. Types hold for any number of workers. For one, `Progress` follows
`load()` along the manifest: the files before the one it is at are accepted, a
download is under way only for a file that was refused, and what has been read
into VRAM is what the directory holds. So a replace never touches a file that
was passed, and the weights are the pinned ones.

Packs. `NumbersTaken` (a job's number is its own) and `FilesApart` (no two names,
temporary or final, are of one file) make `TypeOK` inductive for any process ids. When process ids differ, `OwnFile` (the
temporary name leads to the writer's own file), `Contents` (what is in the file
at each step of `write_pack`) and `History` (the pack, the caches and what jobs
have reported are of compiles that were published) give the other two, across
failures and kills at every step.

Fleet (`WorkerFleetProofs`). `TypeInv` adds to `TypeOK` what the gatherer and the
heartbeat thread have read (`ReadOK`, `HealthOK`). One lemma with a step per
action, `StepCounted`, says what a step does to a count: it stays at most the
number of jobs, and equal to it unless the gatherer registers the worker anew. It
assumes nothing of earlier runs: the API may be killed and started under the
same ids while keys and the gatherer's readings of before are still about.
`HeartbeatStopsFirst` follows from `StopOrder`: a run in which nothing was raised
leaves its loop by `stop()`, and has joined the thread before it unloads.

Videos (`FoldLemmas`, `VideoJobProofs`). The plans, and where a part is played,
are folds. `FoldRun` gives the function of a fold's intermediate results, and
`NatInd` and `IndUpTo` give induction over a *set* of numbers (from the theorem
that `<` is well-founded on Nat), so that a property of one step is carried to
the end.

- `TimelinesTile`: anchors lie inside the audio (`AnchorInside`, from the count
  of characters), intents are put in their order (`InOrderPermutes`), and each
  segment put after others leaves them `Laid`: they follow one another, the last
  millisecond between two may be open, none ends after the audio (`PutLaid`,
  `PutTailLaid`, `AddGestureLaid`, `AddMotionLaid`).
- `PartsInStep`: every part of a text job is as long as its window up to three
  half frames and a packet (`PartNear`), and the open milliseconds are counted
  (`PartsLead`). For a chunk job, the clip of a window is full while there is
  audio, and ends with it but for two half frames when there is not, whichever
  engine made it (`ClipNear`); a cut is as near as `CutMs` or takes the whole clip
  (`CutNear`); so that a window begins where the one before ends, as long as there
  is audio past its overlap (`ChunkPlayed`, `ChunkRun`). `SpokenToTheEnd` adds the
  lengths up (`PartsCover`, `ChunksHeard`): a clip of which nothing is left had at
  most the overlap to say, and the clip before it says it.
- `VInv` is what a step keeps: parts are those of the segments or windows so far
  (`PartsOfText`, `PartsOfChunks`), gestures that were missing are noted
  (`MissingNoted`), what has been trimmed was trimmed as it may be (`CutsMade`),
  the style of before is saved while a job runs (`StyleKept`).

Rendering (`CachedRenderProofs`).

- `OwnVoice`: `CacheHonest` (signals that are kept are those of the file in their
  path, or the path is known to be written again) with `ClipHonest` (no clip
  outlives its job).
- `FaceOfTheSource`: the sizes of a pack's entries tell who made it
  (`LoadedPacks`); the pack in hand is the job's own or one prepared from its
  image (`PackInv`); for any image and box, a square inside the image is cropped
  whole by both adapters, and so is the middle of an image (`SquareCrops`).
- `EveryRowShown` and `PictureInStep`: `RenderInv` says that kept signals are
  those of the whole file (`KeptWhole`), that a clip shows the rows of its window
  from the first on (`ClipOfWindow`), and, while a template is composed and
  judged, which one it is, how long, and whether lengths were compared
  (`Composing`, `Compared`). Three chains of lemmas lead there. Batches, with
  their fallbacks, put together are the run of all rows (`BatchesCut`,
  `BatchesJoined`, `LivePortraitRows`, `UNetRows`, `DecodedRows`). Rows are near
  their place in the audio for each backend (`WholeSamplesPlaced`,
  `SpreadPlaced`, `FeaturePlaced`, `WindowRows`). Frame k of the composite shows
  row k, or the last rows again within the tolerance of the control
  (`CompositeLength`, `StreamsInStep`).

Every invariant and safety action property of a passing run is thus proved. Only
model-checked: liveness (`EveryEntryClosed`, `OrphansReclaimed`,
`EveryJobSettled`, `RemoteWorkerVisible`, `DegradedNotRouted`,
`LoadEnds`, `BadCacheHeals`), because fairness and
`ENABLED` are out of the prover's reach; and the four properties that are false.
The library's theorems about induction take an operator, which no installed
prover can instantiate; the lemmas of `FoldLemmas` use sets instead. No module
declares a RECURSIVE operator.

## 11. Disagreements between code and documentation

With a run (`findings` in `PROJECT.json`):

1. `stale_pending`: `submit_job` upserts PENDING after it has published; a
   faster worker's verdict is overwritten and the job reads PENDING for good.
2. `fleet_slots`: `AppState` has slots and no gatherer attribute, so the lifespan
   of an API with Redis raises before it serves.
3. `engine_race`: a file verified by one worker is replaced by another's
   download before it is loaded, without a second look.
4. `face_motion`: each part of a text job starts the face plan from second 0.

Seen while modelling, in the models as the code has them, without a run of their
own:

- Jobs: `cancel()` writes a state that no worker reads; `depth()` counts only
  what was delivered; a render longer than the visibility timeout is failed by a
  worker that starts, while its own worker goes on; a reused client reference
  puts two workers on one job and lets one acknowledge the other's delivery.
- Housekeeping: `_reclaim` breaks at a page without messages, also when the page held
  entries that were all trimmed, so that the orphans behind it wait for another
  start, though its docstring speaks of every delivery that is idle
  (`OrphansReclaimed` excepts it).
- Fleet: a dead worker is said to disappear (`telemetry.py:113`,
  `worker_pool.py:103`, `worker.py:131`), but only its key does; its record in the
  pool stays, and is routed to when it was IDLE. When the API is started again
  under its ids, a key that is left makes the gatherer register a worker that has
  just registered itself, and the job that it has taken is no longer counted
  (`CountLostToOldTest` says that nothing else does that). A heartbeat
  never updates the engine id; a remote worker that renders counts as idle; the
  gatherer's check and registration are two steps; when an exception ends
  `run()`, a last heartbeat may follow `unload`.
- Engines: MuseTalk's `checkpoints.verify`, the operator's audit, gives no verdict:
  it builds its manager on `/dev/null`, where `mkdir` raises `FileExistsError`,
  though docs and tests expect an answer. LivePortrait prepares a mock identity when DEGRADED;
  `HEYAVATAR_LIVE_PORTRAIT_OFFLINE` is read nowhere; a DEGRADED render raises
  though a dummy clip is documented.
- Packs: temporary names hold the process id, which is 1 in every container, so
  that replicas may publish a cut pack; `verify_pack` trusts the list inside the
  manifest, rejects MuseTalk packs and has no caller; a text job that names an
  unknown identity compiles and is refused all the same; a pack may be
  recompiled under a handle.
- Videos: plain render jobs of the worker always fail (`tier.value` of a string,
  `identity_id` of a pack), though `process.py` promises an mp4; an empty segment
  is rendered with the whole audio; the trim goes by the window and not by the
  clip, so that a short last clip may be trimmed to nothing; audio beyond `max_chunks` windows (about 700
  seconds) is cut silently; text jobs ignore a quality rejection; the manifest
  parser raises on lines it is said to skip.
- Signals: the DSP backend gives every row a whole number of samples
  (`samples_per_frame` in `dsp.py:84`), so that at a rate that does not divide
  16000 each row ends too early and none makes up for it: at 30 frames per second
  a third of a sample each, and the lips are 37 ms late after a minute. The proof
  of `EveryRowShown` failed on it, and the bounds now say it (`Behind`).
  LivePortrait's cache of signals is never invalidated, so that a path
  that is written again is rendered with the old voice; when the length of the
  audio cannot be probed as the cache is filled, the end of the first window is
  taken for the end of the file for good; the last window, when short, has fewer
  rows than it promises, raises, and becomes a degraded chunk; a MuseTalk window
  without rows yields half a second of blank clip as a success; MuseTalk's rows
  follow the rate of its encoder, which nothing compares with the rate asked for.
- Faces: LivePortrait centres its shrunken square on the face again, so that a
  face near the left or upper edge gives an empty crop and raises, and one near
  the others a stretched one; MuseTalk's crop is not square at the edges; when
  pasting back cannot be set up the clip is the bare crop, reported as success;
  blinks and movements start again with each window.
- Compositing: a template of 24 frames per second asked for at 25 drifts 40 ms
  per second while the control passes; audio whose length cannot be probed makes
  a body of one frame under a window of four seconds; the number of frames is
  compared with itself; the count of invalid transforms is always 0; a box that is
  not a number raises before the compositor could drop its frame; the streams of
  a template are not compared with each other.

## 12. What is abstracted or left out

- Job path: `reserved_by`, attempt counters, error texts and time stamps, which
  nothing branches on; a command that raises has had no effect; XAUTOCLAIM's
  limit of entries scanned per call (ten times the page); eviction of the stream itself. Consumer
  names are left out because XACK and XAUTOCLAIM do not look at them. The API
  replicas are taken to run (but see `fleet_slots`). A graceful stop is a crash
  at the head of the loop. Bounds: `MaxCrashes`, `MaxErrors`, `MaxEvictions`.
- Fleet: the pool's methods are atomic (they hold its lock); a key expires only
  when its publisher is gone (the TTL is a multiple of the heartbeat period);
  worker ids are distinct, though replicas of one compose service share a
  default; a local worker whose heartbeat thread leaked is not restarted.
  Bounds: `MaxStarts`, `MaxRaises`, `MaxCrashes`, `MaxErrors`.
- Engines: file contents are versions; the hub cache starts empty; MuseTalk
  loads no weights from managed files; mock mode is left out. Bounds:
  `MaxStarts`, `MaxRolls`, `MaxFaults`.
- Packs: one source image (the identity id hashes its path, not its content);
  an archive is its manifest and its assets. `PackWhole` and `ReportsTrue` need
  process ids that differ. Bounds: `MaxJobs`, `MaxFaults`.
- Memory: nothing is persisted, so that a restart is `Init`; read-only methods
  are left out.
- Rendering: pixels, tensors, colour matching, feathering and the thresholds on
  pixels; what a signal row holds; retries of a window (they are in `VideoJob`).
  A clip that fails its measurements is a choice. Bounds: `Batch`, `MaxWindows`.
- Videos: thirteen representative words; integer milliseconds rounded down;
  lengths by frames at 25 per second; pictures are left out; `PacketMs` bounds
  how far a stream copy runs on, `CutMs` how far from its place it is cut; ffprobe
  is taken to tell RenderVideo and LivePortrait the same of a file (`CachedRender`
  has them apart), and MuseTalk's rows to come at the rate of the video; the identity look-up succeeds (it is in
  `AvatarPacks`); one job at a time on one engine, as in a worker. A part
  without audio of its own, past the end of the audio or with less than the
  overlap, is excepted from `PartsInStep` (`SpokenToTheEnd` covers the last); of a
  chunk job without a length only the first window is sure to be heard. `MaxChunks` is the code's `max_chunks`, made small.
- Not modelled: signal processing (numeric); metrics and tracing (nothing
  branches on them); settings (read once); tools and scratch scripts (outside the
  service); EchoMimic (a placeholder); `speak_avatar` and the other programs run
  on request, which call out to other tools or have no caller in the service.

## 13. Plan

Done: all components of section 1 marked M or P are modelled and checked, and
every safety property of the runs is proved. What would add most next:

1. Files of a job under a duplicate delivery (two runs of one job id in one
   capture directory), and the temporary pack of `speak_avatar`: two hazards of
   `PROJECT.json` without a property.
2. Theorems under weaker assumptions: how much of `OnlyPinnedWeights` is left
   when two workers share a volume, and of `PackWhole` when process ids agree.
3. The safety half of the liveness properties: that a waiting delivery or a
   worker in housekeeping always has an enabled step, and what each step brings
   nearer to the end.
