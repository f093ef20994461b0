-------------------------- MODULE CachedRenderProofs --------------------------
(***************************************************************************)
(* Proofs about CachedRender, for every audio, image, template, rate and    *)
(* order of jobs: whose voice moves the lips and whose face it is; that       *)
(* windows and failing batches lose, repeat and shift no row; and that a      *)
(* video which the quality control lets pass is in step with its audio.       *)
(***************************************************************************)
EXTENDS CachedRenderProps, FoldLemmas, TLAPS

Keys == Paths \X {r.fps : r \in Requests}

\* A job under way is one of those asked for.
Underway == pc # "idle" => job \in Requests

\* The kept signals are those of the file, unless it was written again.
CacheHonest ==
    \A key \in Keys : signals[key] # NoSignals /\ key[1] \notin changed
                          => signals[key].voice = files[key[1]].voice

\* The clip at hand, shown or not, speaks with the voice of the file; there is
\* none between jobs.
ClipHonest ==
    IF pc = "idle" THEN clip.voice = 0
    ELSE clip.voice # 0 /\ job.path \notin changed => clip.voice = Audio.voice

\* Signals have the fields they should have.
Fields(s) == s = [voice |-> s.voice, first |-> s.first, bin |-> s.bin, per |-> s.per,
                  frames |-> s.frames, rows |-> s.rows]

VoiceInv ==
    /\ DOMAIN signals = Keys /\ signals = [key \in Keys |-> signals[key]]
    /\ \A key \in Keys : Fields(signals[key])
    /\ files = [p \in Paths |-> files[p]]
    /\ Underway
    /\ CacheHonest
    /\ ClipHonest

-----------------------------------------------------------------------------
LEMMA JobFields ==
    ASSUME NEW r \in Requests
    PROVE  r.path \in Paths /\ <<r.path, r.fps>> \in Keys
<1>1. r \in Jobs
  BY RequestsAssumption
<1>2. r.path \in Paths
  BY <1>1 DEF Jobs
<1>3. r.fps \in {q.fps : q \in Requests}
  OBVIOUS
<1>. QED
  BY <1>2, <1>3 DEF Keys

\* A clip says what the signals it was made of say, or nothing.
LEMMA RealClipVoice ==
    ASSUME NEW s, NEW rows, NEW fps, NEW shows
    PROVE  RealClip(s, rows, fps, shows).voice \in {0, s.voice}
  BY DEF RealClip, Blank

LEMMA SliceVoice ==
    ASSUME NEW s, Fields(s), NEW from, NEW to, NEW fps
    PROVE  Slice(s, from, to, fps).voice = s.voice
<1>. DEFINE start == Clip(FrameOf(from, fps), 0, s.frames)
            end   == Clip(FrameOf(to, fps), 0, s.frames)
            last  == IF end <= start THEN start + 1 ELSE end
<1>1. Slice(s, from, to, fps) = [s EXCEPT !.first = @ + start * s.bin, !.frames = last - start,
                                          !.rows = Min({last, s.rows}) - start]
  BY DEF Slice
<1>. HIDE DEF start, last
<1>. QED
  BY <1>1 DEF Fields

LEMMA DrivingFields ==
    ASSUME NEW audio, NEW from, NEW to, NEW fps, NEW backend
    PROVE  /\ Fields(AudioToDriving(audio, from, to, fps, backend))
           /\ AudioToDriving(audio, from, to, fps, backend).voice = audio.voice
  BY DEF AudioToDriving, Neural, Dsp, Fields

\* The synthetic and the absent clip say nothing.
LEMMA SilentClips ==
    /\ NoClip.voice = 0
    /\ \A from, to, fps : MockClip(from, to, fps).voice = 0
  BY DEF NoClip, MockClip, Blank

-----------------------------------------------------------------------------
\* A step that keeps the files and their signals, and leaves the clip, or makes
\* one that says what the file says, or none.
LEMMA ClipStep ==
    ASSUME VoiceInv, UNCHANGED <<files, signals, changed>>,
           pc' # "idle" => job' \in Requests,
           \/ clip'.voice = 0
           \/ pc' # "idle" /\ clip'.voice = clip.voice /\ (pc # "idle" => job' = job)
           \/ /\ pc' # "idle" /\ job' = job
              /\ job.path \notin changed => clip'.voice = Audio.voice
    PROVE  VoiceInv'
<1>1. ClipHonest'
  BY DEF VoiceInv, ClipHonest, Audio
<1>2. Underway' /\ CacheHonest'
  BY DEF VoiceInv, Underway, CacheHonest
<1>. QED
  BY <1>1, <1>2 DEF VoiceInv

LEMMA RewriteStep ==
    ASSUME VoiceInv, NEW p \in Paths, Rewrite(p)
    PROVE  VoiceInv'
<1>1. /\ pc = "idle" /\ UNCHANGED <<signals, job, pc, clip>>
      /\ \A q \in Paths : q # p => files'[q] = files[q]
      /\ files' = [q \in Paths |-> files'[q]]
  <2>1. PICK take : files' = [files EXCEPT ![p] = take]
    BY DEF Rewrite
  <2>2. files = [q \in Paths |-> files[q]]
    BY DEF VoiceInv
  <2>3. files' = [q \in Paths |-> IF q = p THEN take ELSE files[q]]
    BY <2>1, <2>2
  <2>. QED
    BY <2>3 DEF Rewrite, work
<1>2. CacheHonest'
  <2>. SUFFICES ASSUME NEW key \in Keys, signals[key] # NoSignals, key[1] \notin changed'
                PROVE  signals[key].voice = files'[key[1]].voice
    BY <1>1 DEF CacheHonest
  <2>1. key[1] # p /\ key[1] \notin changed
    BY DEF Rewrite, VoiceInv
  <2>. QED
    BY <1>1, <2>1 DEF VoiceInv, CacheHonest, Keys
<1>3. ClipHonest' /\ Underway'
  BY <1>1 DEF VoiceInv, ClipHonest, Underway
<1>. QED
  BY <1>1, <1>2, <1>3 DEF VoiceInv

LEMMA ReadAudioStep ==
    ASSUME VoiceInv, ReadAudio
    PROVE  VoiceInv'
<1>0. pc # "idle" /\ job \in Requests /\ Key \in Keys
  BY JobFields DEF ReadAudio, VoiceInv, Underway, Key
<1>1. UNCHANGED <<files, changed, job>>
  BY DEF ReadAudio
<1>2. pc' # "idle" /\ (clip' = clip \/ clip' = NoClip)
  BY DEF ReadAudio, Refuse, Raise, End, Goto, Rendered
<1>3. ClipHonest'
  <2>1. clip'.voice = clip.voice \/ clip'.voice = 0
    BY <1>2, SilentClips
  <2>. QED
    BY <1>0, <1>1, <1>2, <2>1 DEF VoiceInv, ClipHonest, Audio
<1>4. CASE UNCHANGED signals
  BY <1>0, <1>1, <1>2, <1>3, <1>4 DEF VoiceInv, CacheHonest, Underway
<1>5. ASSUME NEW heard, signals' = [signals EXCEPT ![Key] =
                  AudioToDriving(Audio, 0, heard, job.fps, engine.backend)]
      PROVE  VoiceInv'
  <2>. DEFINE made == AudioToDriving(Audio, 0, heard, job.fps, engine.backend)
  <2>1. Fields(made) /\ made.voice = files[job.path].voice
    BY DrivingFields DEF Audio
  <2>2. signals' = [key \in Keys |-> IF key = Key THEN made ELSE signals[key]]
    BY <1>5 DEF VoiceInv
  <2>. HIDE DEF made
  <2>3. CacheHonest'
    <3>. SUFFICES ASSUME NEW key \in Keys, signals'[key] # NoSignals, key[1] \notin changed
                  PROVE  signals'[key].voice = files[key[1]].voice
      BY <1>1 DEF CacheHonest
    <3>1. CASE key = Key
      BY <2>1, <2>2, <3>1 DEF Key
    <3>2. CASE key # Key
      BY <2>2, <3>2 DEF VoiceInv, CacheHonest
    <3>. QED
      BY <3>1, <3>2
  <2>4. \A key \in Keys : Fields(signals'[key])
    BY <2>1, <2>2 DEF VoiceInv
  <2>5. DOMAIN signals' = Keys /\ signals' = [key \in Keys |-> signals'[key]]
    BY <2>2
  <2>6. Underway' /\ files' = [p \in Paths |-> files'[p]]
    BY <1>0, <1>1 DEF Underway, VoiceInv
  <2>. QED
    BY <1>3, <2>3, <2>4, <2>5, <2>6 DEF VoiceInv
<1>6. UNCHANGED signals \/ \E heard : signals' = [signals EXCEPT ![Key] =
          AudioToDriving(Audio, 0, heard, job.fps, engine.backend)]
  BY DEF ReadAudio
<1>. QED
  BY <1>4, <1>5, <1>6

LEMMA RenderStep ==
    ASSUME VoiceInv, RenderMock \/ DriveLivePortrait \/ RenderMuseTalk
    PROVE  VoiceInv'
<1>0. /\ pc # "idle" /\ job \in Requests /\ Key \in Keys
      /\ UNCHANGED <<files, signals, changed, job>>
  BY JobFields DEF RenderMock, DriveLivePortrait, RenderMuseTalk, VoiceInv, Underway, Key, kept
<1>1. pc' # "idle"
  BY DEF RenderMock, DriveLivePortrait, RenderMuseTalk, Refuse, Raise, End, Goto, Rendered
<1>2. CASE clip' = clip \/ clip' = NoClip
  BY <1>0, <1>1, <1>2, SilentClips, ClipStep
<1>3. CASE RenderMock
  <2>1. clip'.voice = 0
    BY <1>3, SilentClips DEF RenderMock, Rendered
  <2>. QED
    BY <1>0, <2>1, ClipStep
<1>4. CASE DriveLivePortrait /\ clip' # NoClip /\ clip' # clip
  <2>1. clip'.voice \in {0, Driving.voice}
    BY <1>4, RealClipVoice DEF DriveLivePortrait, Refuse, Raise, Rendered
  <2>2. Driving.voice = signals[Key].voice
    BY <1>0, SliceVoice DEF Driving, VoiceInv
  <2>3. job.path \notin changed => signals[Key].voice \in {0, Audio.voice}
    BY <1>0 DEF VoiceInv, CacheHonest, NoSignals, Key, Audio
  <2>. QED
    BY <1>0, <1>1, <2>1, <2>2, <2>3, ClipStep
<1>5. CASE RenderMuseTalk /\ clip' # NoClip /\ clip' # clip
  <2>1. Features(Audio, window.from, window.to, engine.rate).voice = Audio.voice
    BY DEF Features
  <2>2. clip'.voice \in {0, Audio.voice}
    BY <1>5, <2>1, RealClipVoice DEF RenderMuseTalk, Refuse, Raise, Rendered
  <2>. QED
    BY <1>0, <1>1, <2>2, ClipStep
<1>. QED
  BY <1>2, <1>3, <1>4, <1>5

LEMMA VoiceStep ==
    ASSUME VoiceInv, [Next]_vars
    PROVE  VoiceInv'
<1>1. ASSUME NEW r \in Requests, Ask(r)
      PROVE  VoiceInv'
  BY <1>1, ClipStep DEF Ask, kept, work, Goto
<1>2. ASSUME NEW p \in Paths, Rewrite(p)
      PROVE  VoiceInv'
  BY <1>2, RewriteStep
<1>3. CASE Return
  BY <1>3, SilentClips, ClipStep DEF Return, Fresh, Goto, kept
<1>4. CASE \/ Count \/ NextWindow \/ Again \/ ResolveIdentity \/ Match \/ ExtractRoi
           \/ Composite \/ MuxAudio \/ CheckQuality
  <2>1. /\ pc # "idle" /\ pc' # "idle"
        /\ UNCHANGED <<files, signals, changed, job, clip>>
    BY <1>4 DEF Count, NextWindow, Again, ResolveIdentity, Match, ExtractRoi, Composite,
       MuxAudio, CheckQuality, Raise, End, Goto, kept, work
  <2>. QED
    BY <2>1, ClipStep DEF VoiceInv, Underway
<1>5. CASE Fails
  <2>1. /\ pc # "idle" /\ pc' # "idle" /\ clip' \in {clip, NoClip}
        /\ UNCHANGED <<files, signals, changed, job>>
    BY <1>5 DEF Fails, Refuse, Raise, End, Goto, Rendered, kept
  <2>. QED
    BY <2>1, SilentClips, ClipStep DEF VoiceInv, Underway
<1>6. CASE ReadAudio
  BY <1>6, ReadAudioStep
<1>7. CASE RenderMock \/ DriveLivePortrait \/ RenderMuseTalk
  BY <1>7, RenderStep
<1>8. CASE UNCHANGED vars
  BY <1>8 DEF vars, kept, work, VoiceInv, Underway, CacheHonest, ClipHonest, Audio
<1>. QED
  BY <1>1, <1>2, <1>3, <1>4, <1>5, <1>6, <1>7, <1>8 DEF Next

LEMMA VoiceInit ==
    ASSUME Init
    PROVE  VoiceInv
<1>1. /\ files = [p \in Paths |-> files[p]] /\ pc = "idle" /\ clip = NoClip
      /\ signals = [key \in Keys |-> NoSignals]
  BY DEF Init, Fresh, Keys
<1>2. Fields(NoSignals)
  BY DEF Fields, NoSignals
<1>3. ClipHonest /\ Underway /\ CacheHonest
  BY <1>1, SilentClips DEF ClipHonest, Underway, CacheHonest
<1>. QED
  BY <1>1, <1>2, <1>3 DEF VoiceInv

LEMMA VoiceAlways == Spec => []VoiceInv
<1>1. Init => VoiceInv
  BY VoiceInit
<1>2. VoiceInv /\ [Next]_vars => VoiceInv'
  BY VoiceStep
<1>. QED
  BY <1>1, <1>2, PTL DEF Spec

\* Whatever was rendered before in the process, by whichever engine and for
\* whichever path and frame rate, and whatever failed: lips speak with the voice
\* of the file asked for, unless that file was written again after its signals
\* were kept.
THEOREM LipsOfTheFile == Spec => []OwnVoice
<1>1. VoiceInv => OwnVoice
  BY DEF VoiceInv, ClipHonest, OwnVoice, Speaking
<1>. QED
  BY <1>1, VoiceAlways, PTL

-----------------------------------------------------------------------------
(* Packs: whose face it is, and of what crop.                                *)

\* The size of a pack's entries tells a real engine who made it.
LEMMA LoadedPacks ==
    ASSUME NEW p \in PacksMade \cup {NoPack}
    PROVE  /\ LoadsSource(p) => p.real /\ p.kind = "liveportrait"
           /\ LoadsLatent(p) => p.real /\ p.kind = "musetalk"
<1>1. Max({1, 0}) = 1
  BY MaxOfTwo
<1>2. LoadsSource(p) => p.real /\ p.kind = "liveportrait"
  <2>1. CASE p.kind # "liveportrait"
    BY <2>1 DEF LoadsSource, Bytes, MuseTalkMock, MuseTalkReal
  <2>2. CASE p.kind = "liveportrait" /\ ~p.real
    <3>1. Bytes(p).features = 256
      BY <2>2 DEF Bytes, LivePortraitMock
    <3>2. 256 \div 2 = 128 /\ 128 \div (32 * 64 * 64) = 0
      OBVIOUS
    <3>. QED
      BY <1>1, <3>1, <3>2 DEF LoadsSource
  <2>. QED
    BY <2>1, <2>2
<1>3. LoadsLatent(p) => p.real /\ p.kind = "musetalk"
  BY DEF LoadsLatent, Bytes, LivePortraitMock, LivePortraitReal, MuseTalkMock, MuseTalkReal,
     PacksMade, NoPack, Kinds
<1>. QED
  BY <1>2, <1>3

\* The square round the face is all in the image.
Inside(img) ==
    LET sq == Square(img, TRUE) IN
    /\ sq.size \div 2 <= Min({sq.cx, sq.cy})
    /\ sq.cx + sq.size \div 2 <= img.w
    /\ sq.cy + sq.size \div 2 <= img.h

\* A square within the image is cut off nowhere.
LEMMA WholeSquare ==
    ASSUME NEW centre \in Nat, NEW size \in Nat, NEW edge \in Nat,
           size \div 2 <= centre, centre + size \div 2 <= edge
    PROVE  CutOff(centre, size, edge) = <<centre - size \div 2, centre + size \div 2>>
<1>. DEFINE h == size \div 2
<1>1. h \in Nat /\ centre - h \in Int /\ centre + h \in Int
  OBVIOUS
<1>2. Max({0, centre - h}) = centre - h /\ Min({edge, centre + h}) = centre + h
  BY <1>1, MaxOfTwo, MinOfTwo
<1>. QED
  BY <1>2 DEF CutOff

\* A slice within an array is all there.
LEMMA WholeSlice ==
    ASSUME NEW a \in Nat, NEW b \in Nat, NEW n \in Nat, a <= b, b <= n
    PROVE  Sliced(a, b, n) = b - a
<1>1. Min({a, n}) = a /\ Min({b, n}) = b /\ Max({0, b - a}) = b - a
  BY MinOfTwo, MaxOfTwo
<1>. DEFINE at(i) == IF i < 0 THEN Max({0, n + i}) ELSE Min({i, n})
<1>2. at(a) = a /\ at(b) = b
  BY <1>1
<1>3. Sliced(a, b, n) = Max({0, at(b) - at(a)})
  BY DEF Sliced
<1>. HIDE DEF at
<1>. QED
  BY <1>1, <1>2, <1>3

\* In an image that holds it, both adapters crop a square; the middle of an
\* image always holds its own.
LEMMA SquareCrops ==
    ASSUME NEW img \in Images, NEW found \in BOOLEAN, found => Inside(img)
    PROVE  /\ LivePortraitCrop(img, found)[1] = LivePortraitCrop(img, found)[2]
           /\ MuseTalkCrop(img, found)[1] = MuseTalkCrop(img, found)[2]
<1>. DEFINE sq == Square(img, found)
<1>1. /\ sq.cx \in Nat /\ sq.cy \in Nat /\ sq.size \in Nat
      /\ img.w \in Nat /\ img.h \in Nat
      /\ sq.size \div 2 <= sq.cx /\ sq.cx + sq.size \div 2 <= img.w
      /\ sq.size \div 2 <= sq.cy /\ sq.cy + sq.size \div 2 <= img.h
  <2>1. /\ img.w \in Nat /\ img.h \in Nat /\ img.box[1] \in Nat /\ img.box[2] \in Nat
        /\ img.box[3] \in Nat /\ img.box[4] \in Nat
    BY DEF Images
  <2>2. CASE found
    <3>1. Max({img.box[3], img.box[4]}) \in Nat
      BY <2>1, MaxOfTwo
    <3>2. \A m \in Nat : (m * 14) \div 10 \in Nat
      OBVIOUS
    <3>3. sq.cx \in Nat /\ sq.cy \in Nat /\ sq.size \in Nat
      BY <2>1, <2>2, <3>1, <3>2 DEF Square
    <3>4. /\ sq.size \div 2 <= Min({sq.cx, sq.cy})
          /\ sq.cx + sq.size \div 2 <= img.w
          /\ sq.cy + sq.size \div 2 <= img.h
      BY <2>2 DEF Inside
    <3>. HIDE DEF sq
    <3>5. sq.size \div 2 \in Nat
      BY <3>3
    <3>6. sq.size \div 2 <= sq.cx /\ sq.size \div 2 <= sq.cy
      BY <3>3, <3>4, <3>5, MinOfTwo
    <3>. QED
      BY <2>1, <3>3, <3>4, <3>6
  <2>3. CASE ~found
    <3>1. Min({img.w, img.h}) = IF img.w <= img.h THEN img.w ELSE img.h
      BY <2>1, MinOfTwo
    <3>2. /\ sq.cx = img.w \div 2 /\ sq.cy = img.h \div 2
          /\ sq.size = IF img.w <= img.h THEN img.w ELSE img.h
      BY <2>3, <3>1 DEF Square
    <3>. HIDE DEF sq
    <3>. QED
      BY <2>1, <3>2
  <2>. QED
    BY <2>2, <2>3
<1>. DEFINE h == sq.size \div 2
<1>. HIDE DEF sq
<1>2. /\ CutOff(sq.cx, sq.size, img.w) = <<sq.cx - h, sq.cx + h>>
      /\ CutOff(sq.cy, sq.size, img.h) = <<sq.cy - h, sq.cy + h>>
  BY <1>1, WholeSquare
<1>3. h \in Nat /\ (sq.cx + h) - (sq.cx - h) = 2 * h /\ (sq.cy + h) - (sq.cy - h) = 2 * h
  BY <1>1
<1>4. Min({2 * h, 2 * h}) = 2 * h /\ Max({0, 2 * h}) = 2 * h /\ (2 * h) \div 2 = h
  BY <1>3, MinOfTwo, MaxOfTwo
<1>5. /\ sq.cx - h \in Nat /\ (sq.cx - h) + 2 * h \in Nat /\ (sq.cx - h) + 2 * h <= img.w
      /\ sq.cy - h \in Nat /\ (sq.cy - h) + 2 * h \in Nat /\ (sq.cy - h) + 2 * h <= img.h
      /\ ((sq.cx - h) + 2 * h) - (sq.cx - h) = 2 * h
      /\ ((sq.cy - h) + 2 * h) - (sq.cy - h) = 2 * h
      /\ sq.cx - h <= (sq.cx - h) + 2 * h /\ sq.cy - h <= (sq.cy - h) + 2 * h
  BY <1>1, <1>3
<1>6. /\ Sliced(sq.cx - h, (sq.cx - h) + 2 * h, img.w) = 2 * h
      /\ Sliced(sq.cy - h, (sq.cy - h) + 2 * h, img.h) = 2 * h
  BY <1>1, <1>5, WholeSlice
<1>. DEFINE x    == CutOff(sq.cx, sq.size, img.w)
            y    == CutOff(sq.cy, sq.size, img.h)
            side == Min({x[2] - x[1], y[2] - y[1]})
<1>7. x[2] - x[1] = 2 * h /\ y[2] - y[1] = 2 * h
  BY <1>2, <1>3
<1>8. side = 2 * h
  BY <1>4, <1>7
<1>9. LivePortraitCrop(img, found)
          = <<Sliced(sq.cx - side \div 2, (sq.cx - side \div 2) + side, img.w),
              Sliced(sq.cy - side \div 2, (sq.cy - side \div 2) + side, img.h)>>
  BY DEF LivePortraitCrop, sq
<1>10. MuseTalkCrop(img, found) = <<Max({0, x[2] - x[1]}), Max({0, y[2] - y[1]})>>
  BY DEF MuseTalkCrop, sq
<1>. HIDE DEF x, y, side
<1>11. LivePortraitCrop(img, found) = <<2 * h, 2 * h>>
  BY <1>4, <1>6, <1>8, <1>9
<1>12. MuseTalkCrop(img, found) = <<2 * h, 2 * h>>
  BY <1>4, <1>7, <1>10
<1>. QED
  BY <1>11, <1>12

LEMMA EngineKind ==
    ASSUME NEW e \in Engines
    PROVE  /\ e.kind \in Kinds /\ e.backend \in {"dsp", "neural"}
           /\ e.rate \in Nat /\ e.rate # 0
<1>1. e \in [kind : Kinds, mock : BOOLEAN, backend : {"dsp", "neural"}, rate : Rates]
  BY EnginesAssumption
<1>2. e.kind \in Kinds /\ e.backend \in {"dsp", "neural"}
  BY <1>1
<1>3. e.rate \in Nat /\ e.rate # 0
  BY <1>1 DEF Rates
<1>. QED
  BY <1>2, <1>3

\* A pack a real engine has made of an image is square when the face is inside.
LEMMA PreparedPacks ==
    ASSUME NEW e \in Engines, NEW img \in Images, NEW p \in Prepared(e, img), p.real
    PROVE  /\ p.kind = e.kind
           /\ Inside(img) => p.crop[1] = p.crop[2]
<1>. DEFINE make(f) == IF e.kind = "musetalk" THEN MuseTalkPack(img, f)
                                             ELSE LivePortraitPack(img, f)
<1>0. e.kind \in Kinds
  BY EngineKind
<1>1. ~e.mock
  BY DEF Prepared, MockPack
<1>2. PICK f \in BOOLEAN : p = make(f)
  BY <1>1 DEF Prepared
<1>3. p.kind = e.kind
  BY <1>0, <1>2 DEF MuseTalkPack, LivePortraitPack, Kinds
<1>4. ASSUME Inside(img)
      PROVE  p.crop[1] = p.crop[2]
  <2>1. \A g \in BOOLEAN : /\ LivePortraitCrop(img, g)[1] = LivePortraitCrop(img, g)[2]
                           /\ MuseTalkCrop(img, g)[1] = MuseTalkCrop(img, g)[2]
    BY <1>4, SquareCrops
  <2>2. \/ p.crop \in {LivePortraitCrop(img, f), MuseTalkCrop(img, f)}
        \/ p.crop = MuseTalkCrop(img, FALSE)
    BY <1>2 DEF MuseTalkPack, LivePortraitPack
  <2>. QED
    BY <2>1, <2>2
<1>. QED
  BY <1>3, <1>4

LEMMA JobPack ==
    ASSUME NEW r \in Requests
    PROVE  r.pack \in PacksMade \cup {NoPack} /\ r.image \in Images
<1>1. r \in Jobs
  BY RequestsAssumption
<1>. QED
  BY <1>1 DEF Jobs

LEMMA CropTypes ==
    ASSUME NEW img \in Images, NEW found \in BOOLEAN
    PROVE  LivePortraitCrop(img, found) \in Nat \X Nat /\ MuseTalkCrop(img, found) \in Nat \X Nat
<1>. DEFINE sq == Square(img, found)
<1>1. /\ img.w \in Nat /\ img.h \in Nat
      /\ sq.cx \in Int /\ sq.cy \in Int /\ sq.size \in Int
  <2>1. /\ img.w \in Nat /\ img.h \in Nat /\ img.box[1] \in Nat /\ img.box[2] \in Nat
        /\ img.box[3] \in Nat /\ img.box[4] \in Nat
    BY DEF Images
  <2>2. Max({img.box[3], img.box[4]}) \in Int /\ Min({img.w, img.h}) \in Int
    BY <2>1, MaxOfTwo, MinOfTwo
  <2>. QED
    BY <2>1, <2>2 DEF Square
<1>2. \A a, b \in Int, n \in Nat : Sliced(a, b, n) \in Nat
  <2>. SUFFICES ASSUME NEW a \in Int, NEW b \in Int, NEW n \in Nat
                PROVE  Sliced(a, b, n) \in Nat
    OBVIOUS
  <2>. DEFINE at(i) == IF i < 0 THEN Max({0, n + i}) ELSE Min({i, n})
  <2>1. \A i \in Int : Max({0, n + i}) \in Int /\ Min({i, n}) \in Int
    BY MinOfTwo, MaxOfTwo
  <2>2. at(a) \in Int /\ at(b) \in Int
    BY <2>1
  <2>3. Sliced(a, b, n) = Max({0, at(b) - at(a)})
    BY DEF Sliced
  <2>. HIDE DEF at
  <2>. QED
    BY <2>2, <2>3, MaxOfTwo
<1>3. \A c, s \in Int, n \in Nat : CutOff(c, s, n) \in Int \X Int
  BY MinOfTwo, MaxOfTwo DEF CutOff
<1>. DEFINE x    == CutOff(sq.cx, sq.size, img.w)
            y    == CutOff(sq.cy, sq.size, img.h)
            side == Min({x[2] - x[1], y[2] - y[1]})
<1>. HIDE DEF sq
<1>4. x \in Int \X Int /\ y \in Int \X Int
  BY <1>1, <1>3
<1>. HIDE DEF x, y
<1>5. x[2] - x[1] \in Int /\ y[2] - y[1] \in Int
  BY <1>4
<1>6. side \in Int
  BY <1>5, MinOfTwo
<1>7. LivePortraitCrop(img, found)
          = <<Sliced(sq.cx - side \div 2, (sq.cx - side \div 2) + side, img.w),
              Sliced(sq.cy - side \div 2, (sq.cy - side \div 2) + side, img.h)>>
  BY DEF LivePortraitCrop, sq, x, y
<1>8. MuseTalkCrop(img, found) = <<Max({0, x[2] - x[1]}), Max({0, y[2] - y[1]})>>
  BY DEF MuseTalkCrop, sq, x, y
<1>. HIDE DEF side
<1>9. LivePortraitCrop(img, found) \in Nat \X Nat
  <2>1. side \div 2 \in Int
    BY <1>6
  <2>2. /\ sq.cx - side \div 2 \in Int /\ (sq.cx - side \div 2) + side \in Int
        /\ sq.cy - side \div 2 \in Int /\ (sq.cy - side \div 2) + side \in Int
    BY <1>1, <1>6, <2>1
  <2>3. /\ Sliced(sq.cx - side \div 2, (sq.cx - side \div 2) + side, img.w) \in Nat
        /\ Sliced(sq.cy - side \div 2, (sq.cy - side \div 2) + side, img.h) \in Nat
    BY <1>1, <1>2, <2>2
  <2>. QED
    BY <1>7, <2>3
<1>10. Max({0, x[2] - x[1]}) \in Nat /\ Max({0, y[2] - y[1]}) \in Nat
  BY <1>5, MaxOfTwo
<1>. QED
  BY <1>8, <1>9, <1>10

LEMMA PreparedType ==
    ASSUME NEW e \in Engines, NEW img \in Images
    PROVE  Prepared(e, img) \subseteq PacksMade
<1>0. e.kind \in Kinds
  BY EngineKind
<1>1. ASSUME NEW f \in BOOLEAN
      PROVE  LivePortraitPack(img, f) \in PacksMade /\ MuseTalkPack(img, f) \in PacksMade
  BY CropTypes DEF LivePortraitPack, MuseTalkPack, PacksMade, Kinds
<1>2. MockPack(e.kind) \in PacksMade
  BY <1>0 DEF MockPack, PacksMade
<1>. QED
  BY <1>1, <1>2 DEF Prepared

\* The pack in hand is the job's, or was made of its image; what has been
\* rendered with it is a real pack of the engine's kind.
PackInv ==
    /\ engine \in Engines
    /\ Underway
    /\ pc = "idle" => pack = NoPack
    /\ pc # "idle" /\ pack # NoPack => pack = job.pack \/ pack \in Prepared(engine, job.image)
    /\ pack \in PacksMade \cup {NoPack}
    /\ pc = "drive" => engine.kind = "liveportrait"
    /\ pc \in {"idle", "identity", "count"} => clip.voice = 0
    /\ clip.voice # 0 => pack.real /\ pack.kind = engine.kind

\* A step after which the pack is what it was.
LEMMA SamePack ==
    ASSUME PackInv, pc # "idle", UNCHANGED <<engine, job, pack>>,
           pc' \notin {"idle", "identity", "count"},
           pc' = "drive" => engine.kind = "liveportrait",
           \/ clip'.voice \in {0, clip.voice}
           \/ pack.real /\ pack.kind = engine.kind
    PROVE  PackInv'
  BY DEF PackInv, Underway

LEMMA PackStep ==
    ASSUME PackInv, [Next]_vars
    PROVE  PackInv'
<1>1. ASSUME NEW r \in Requests, Ask(r)
      PROVE  PackInv'
  BY <1>1 DEF Ask, work, Goto, PackInv, Underway
<1>2. ASSUME NEW p \in Paths, Rewrite(p)
      PROVE  PackInv'
  BY <1>2 DEF Rewrite, work, PackInv, Underway
<1>3. CASE Return
  BY <1>3, SilentClips DEF Return, Fresh, Goto, PackInv, Underway
<1>4. CASE Count
  <2>1. job \in Requests /\ clip.voice = 0
    BY <1>4 DEF Count, PackInv, Underway
  <2>2. job.pack \in PacksMade \cup {NoPack}
    BY <2>1, JobPack
  <2>. QED
    BY <1>4, <2>1, <2>2 DEF Count, Goto, PackInv, Underway
<1>5. CASE ResolveIdentity
  <2>1. job \in Requests /\ clip.voice = 0
    BY <1>5 DEF ResolveIdentity, PackInv, Underway
  <2>2. job.pack \in PacksMade \cup {NoPack} /\ job.image \in Images
    BY <2>1, JobPack
  <2>3. pack' \in PacksMade \cup {NoPack}
    BY <1>5, <2>2, PreparedType DEF ResolveIdentity, PackInv
  <2>. QED
    BY <1>5, <2>1, <2>3 DEF ResolveIdentity, Goto, PackInv, Underway
<1>6. CASE \/ NextWindow \/ Again \/ Match \/ ExtractRoi \/ Composite \/ MuxAudio
           \/ CheckQuality
  <2>1. /\ pc # "idle" /\ pc' \notin {"idle", "identity", "count", "drive"}
        /\ UNCHANGED <<engine, job, pack, clip>>
    BY <1>6 DEF NextWindow, Again, Match, ExtractRoi, Composite, MuxAudio, CheckQuality,
       Raise, End, Goto, kept, work
  <2>. QED
    BY <2>1, SamePack
<1>7. CASE Fails \/ RenderMock
  <2>1. /\ pc # "idle" /\ pc' \notin {"idle", "identity", "count", "drive"}
        /\ UNCHANGED <<engine, job, pack>>
    BY <1>7 DEF Fails, RenderMock, Refuse, Raise, End, Goto, Rendered
  <2>2. clip'.voice \in {0, clip.voice}
    BY <1>7, SilentClips DEF Fails, RenderMock, Refuse, Raise, End, Goto, Rendered
  <2>. QED
    BY <2>1, <2>2, SamePack
<1>8. CASE ReadAudio
  <2>1. /\ pc # "idle" /\ pc' \notin {"idle", "identity", "count"}
        /\ UNCHANGED <<engine, job, pack>> /\ engine.kind = "liveportrait"
        /\ clip' = clip \/ clip' = NoClip
    BY <1>8 DEF ReadAudio, Refuse, Raise, End, Goto, Rendered
  <2>2. clip'.voice \in {0, clip.voice}
    BY <2>1, SilentClips
  <2>. QED
    BY <2>1, <2>2, SamePack
<1>9. CASE DriveLivePortrait \/ RenderMuseTalk
  <2>1. /\ pc # "idle" /\ pc' \notin {"idle", "identity", "count", "drive"}
        /\ UNCHANGED <<engine, job, pack>>
    BY <1>9 DEF DriveLivePortrait, RenderMuseTalk, Refuse, Raise, End, Goto, Rendered
  <2>2. CASE clip' = clip \/ clip' = NoClip
    BY <2>1, <2>2, SilentClips, SamePack
  <2>3. CASE ~(clip' = clip \/ clip' = NoClip)
    <3>1. \/ LoadsSource(pack) /\ engine.kind = "liveportrait"
          \/ LoadsLatent(pack) /\ engine.kind = "musetalk"
      BY <1>9, <2>3 DEF DriveLivePortrait, RenderMuseTalk, Refuse, Raise, End, Rendered, PackInv
    <3>2. pack.real /\ pack.kind = engine.kind
      BY <3>1, LoadedPacks DEF PackInv
    <3>. QED
      BY <2>1, <3>2, SamePack
  <2>. QED
    BY <2>2, <2>3
<1>10. CASE UNCHANGED vars
  BY <1>10 DEF vars, work, PackInv, Underway
<1>. QED
  BY <1>1, <1>2, <1>3, <1>4, <1>5, <1>6, <1>7, <1>8, <1>9, <1>10 DEF Next

\* No real engine animates a pack of mock data or of the other engine's, whoever
\* hands it over and whatever failed before; a pack it has made itself is of a
\* square of the image when the square round the face is inside.
THEOREM FaceIsReal == Spec => []FaceOfTheSource
<1>1. Init => PackInv
  BY SilentClips DEF Init, Fresh, PackInv, Underway
<1>2. PackInv /\ [Next]_vars => PackInv'
  BY PackStep
<1>3. PackInv => FaceOfTheSource
  <2>. SUFFICES ASSUME PackInv, Speaking
                PROVE  /\ pack.real /\ pack.kind = engine.kind
                       /\ job.pack = NoPack /\ Inside(job.image) => pack.crop[1] = pack.crop[2]
    BY DEF FaceOfTheSource, Inside
  <2>1. pack.real /\ pack.kind = engine.kind /\ pc # "idle" /\ pack # NoPack
    BY DEF PackInv, Speaking, NoPack
  <2>2. job \in Requests
    BY <2>1 DEF PackInv, Underway
  <2>3. job.image \in Images
    BY <2>2, JobPack
  <2>4. ASSUME job.pack = NoPack, Inside(job.image)
        PROVE  pack.crop[1] = pack.crop[2]
    <3>1. pack \in Prepared(engine, job.image) /\ engine \in Engines
      BY <2>1, <2>4 DEF PackInv
    <3>. QED
      BY <2>1, <2>3, <2>4, <3>1, PreparedPacks
  <2>. QED
    BY <2>1, <2>4
<1>. QED
  BY <1>1, <1>2, <1>3, PTL DEF Spec

-----------------------------------------------------------------------------
(* Batches: what is made one after the other is all there, in order.         *)

LEMMA UptoIs ==
    ASSUME NEW a \in Nat, NEW b \in Nat, a <= b
    PROVE  /\ Upto(a, b) = [k \in 1 .. b - a |-> a + k - 1]
           /\ Upto(a, b) \in Seq(Nat) /\ Len(Upto(a, b)) = b - a
<1>1. Max({0, b - a}) = b - a
  BY MaxOfTwo
<1>2. Upto(a, b) = [k \in 1 .. b - a |-> a + k - 1]
  BY <1>1 DEF Upto
<1>. QED
  BY <1>2

LEMMA UptoJoin ==
    ASSUME NEW a \in Nat, NEW b \in Nat, NEW c \in Nat, a <= b, b <= c
    PROVE  Upto(a, b) \o Upto(b, c) = Upto(a, c)
<1>1. Upto(a, b) = [k \in 1 .. b - a |-> a + k - 1]
  BY UptoIs
<1>2. Upto(b, c) = [k \in 1 .. c - b |-> b + k - 1]
  BY UptoIs
<1>3. Upto(a, c) = [k \in 1 .. c - a |-> a + k - 1]
  <2>1. a <= c
    OBVIOUS
  <2>. QED
    BY <2>1, UptoIs
<1>. QED
  BY <1>1, <1>2, <1>3

\* Runs of numbers that follow one another are one run.
FollowOn(parts, m, c) ==
    /\ c \in [0 .. m -> Nat] /\ DOMAIN parts = 1 .. m /\ parts \in Seq(Seq(Nat))
    /\ \A i \in 1 .. m : c[i - 1] <= c[i] /\ parts[i] = Upto(c[i - 1], c[i])

LEMMA FlattenRuns ==
    ASSUME NEW m \in Nat, NEW c, NEW parts, FollowOn(parts, m, c)
    PROVE  FlattenSeq(parts) = Upto(c[0], c[m])
<1>1. Len(parts) = m /\ parts \in Seq(Seq(Nat)) /\ c \in [0 .. m -> Nat]
  BY DEF FollowOn
<1>2. CASE m = 0
  <2>1. FlattenSeq(parts) = <<>>
    BY <1>1, <1>2 DEF FlattenSeq
  <2>2. c[0] \in Nat /\ Upto(c[0], c[0]) = <<>>
    <3>1. PICK x \in Nat : x = c[0]
      BY <1>1
    <3>2. Upto(x, x) = [k \in 1 .. x - x |-> x + k - 1]
      BY UptoIs
    <3>. QED
      BY <3>1, <3>2
  <2>. QED
    BY <1>2, <2>1, <2>2
<1>3. CASE m # 0
  <2>. DEFINE h == CHOOSE f : f = [i \in 1 .. m |-> IF i = 1 THEN parts[i] ELSE f[i - 1] \o parts[i]]
              g == [i \in 1 .. m |-> Upto(c[0], c[i])]
              S == {i \in 0 .. m : i # 0 => c[0] <= c[i]}
  <2>1. FlattenSeq(parts) = h[m]
    BY <1>1, <1>3 DEF FlattenSeq
  <2>2. \A i \in 0 .. m : i \in S
    <3>1. 0 \in S
      OBVIOUS
    <3>2. ASSUME NEW i \in 0 .. m - 1, i \in S PROVE i + 1 \in S
      <4>1. /\ i + 1 \in 1 .. m /\ (i + 1) - 1 = i
            /\ c[0] \in Nat /\ c[i] \in Nat /\ c[i + 1] \in Nat
        BY <1>1
      <4>2. c[(i + 1) - 1] <= c[i + 1]
        BY <4>1 DEF FollowOn
      <4>. QED
        BY <3>2, <4>1, <4>2
    <3>. HIDE DEF S
    <3>. QED
      BY <3>1, <3>2, IndUpTo
  <2>3. ASSUME NEW i \in 1 .. m
        PROVE  g[i] = IF i = 1 THEN parts[i] ELSE g[i - 1] \o parts[i]
    <3>1. parts[i] = Upto(c[i - 1], c[i]) /\ c[i - 1] <= c[i]
      BY DEF FollowOn
    <3>2. CASE i = 1
      BY <3>1, <3>2
    <3>3. CASE i # 1
      <4>1. /\ i - 1 \in 1 .. m /\ i - 1 \in 0 .. m /\ i - 1 \in S
            /\ c[0] \in Nat /\ c[i - 1] \in Nat /\ c[i] \in Nat
        <5>. HIDE DEF S
        <5>. QED
          BY <1>1, <2>2, <3>3
      <4>2. c[0] <= c[i - 1]
        BY <3>3, <4>1
      <4>3. Upto(c[0], c[i - 1]) \o Upto(c[i - 1], c[i]) = Upto(c[0], c[i])
        BY <3>1, <4>1, <4>2, UptoJoin
      <4>. QED
        BY <3>1, <3>3, <4>1, <4>3
    <3>. QED
      BY <3>2, <3>3
  <2>4. g = [i \in 1 .. m |-> IF i = 1 THEN parts[i] ELSE g[i - 1] \o parts[i]]
    BY <2>3
  <2>5. h = [i \in 1 .. m |-> IF i = 1 THEN parts[i] ELSE h[i - 1] \o parts[i]]
    <3>. HIDE DEF g
    <3>. QED
      BY <2>4
  <2>. DEFINE T == {i \in 0 .. m : i # 0 => h[i] = g[i]}
  <2>. HIDE DEF h, g
  <2>6. ASSUME NEW i \in 0 .. m - 1, i \in T PROVE i + 1 \in T
    <3>1. i + 1 \in 1 .. m /\ (i + 1) - 1 = i
      OBVIOUS
    <3>2. /\ h[i + 1] = IF i + 1 = 1 THEN parts[i + 1] ELSE h[i] \o parts[i + 1]
          /\ g[i + 1] = IF i + 1 = 1 THEN parts[i + 1] ELSE g[i] \o parts[i + 1]
      BY <2>4, <2>5, <3>1
    <3>3. i = 0 \/ h[i] = g[i]
      BY <2>6
    <3>4. h[i + 1] = g[i + 1]
      BY <3>2, <3>3
    <3>. QED
      BY <3>4
  <2>7. \A i \in 0 .. m : i \in T
    <3>1. 0 \in T
      OBVIOUS
    <3>. HIDE DEF T
    <3>. QED
      BY <2>6, <3>1, IndUpTo
  <2>8. h[m] = g[m]
    BY <1>3, <2>7
  <2>9. g[m] = Upto(c[0], c[m])
    BY <1>3 DEF g
  <2>. QED
    BY <2>1, <2>8, <2>9
<1>. QED
  BY <1>2, <1>3

LEMMA TimesMono ==
    ASSUME NEW a \in Nat, NEW b \in Nat, NEW k \in Nat, a <= b
    PROVE  a * k <= b * k /\ a * k \in Nat /\ b * k \in Nat
<1>1. PICK d \in Nat : b = a + d
  <2>1. b - a \in Nat /\ b = a + (b - a)
    OBVIOUS
  <2>. QED
    BY <2>1
<1>2. b * k = a * k + d * k /\ d * k \in Nat /\ a * k \in Nat
  BY <1>1
<1>. QED
  BY <1>2

\* Where the batches of n frames are cut.
CutInto(n, size, m, c) ==
    /\ DOMAIN Batches(n, size) = 1 .. m
    /\ \A i \in 1 .. m : /\ c[i - 1] <= c[i] /\ c[i] <= n
                         /\ Batches(n, size)[i].from = c[i - 1]
                         /\ Batches(n, size)[i].to = c[i]

Cuts(n, size) == [i \in 0 .. (n + size - 1) \div size |-> Min({i * size, n})]

LEMMA BatchesCut ==
    ASSUME NEW n \in Nat, NEW size \in Nat, size # 0
    PROVE  \E m, c : /\ m \in Nat /\ c \in [0 .. m -> Nat] /\ c[0] = 0 /\ c[m] = n
                     /\ CutInto(n, size, m, c)
<1>0. PICK m : m = (n + size - 1) \div size
  OBVIOUS
<1>1. m \in Nat /\ m * size >= n /\ (m - 1) * size < n + size /\ (m # 0 => (m - 1) * size < n)
  <2>1. n + size - 1 \in Nat
    OBVIOUS
  <2>2. m \in Nat /\ m * size <= n + size - 1 /\ n + size - 1 < m * size + size
    BY <1>0, <2>1
  <2>3. (m - 1) * size = m * size - size
    BY <2>2
  <2>. QED
    BY <2>2, <2>3
<1>2. ASSUME NEW i \in 0 .. m
      PROVE  i * size \in Nat /\ Min({i * size, n}) = IF i * size <= n THEN i * size ELSE n
  <2>1. i * size \in Nat
    BY <1>1
  <2>. QED
    BY <2>1, MinOfTwo
<1>3. ASSUME NEW i \in 1 .. m
      PROVE  (i - 1) * size < n /\ (i - 1) * size \in Nat /\ (i - 1) * size <= i * size
  <2>1. i - 1 \in Nat /\ m - 1 \in Nat /\ i - 1 <= m - 1 /\ i \in Nat /\ i - 1 <= i
    BY <1>1
  <2>2. (i - 1) * size <= (m - 1) * size /\ (i - 1) * size <= i * size /\ (i - 1) * size \in Nat
    BY <2>1, TimesMono
  <2>. QED
    BY <1>1, <2>1, <2>2
<1>4. Cuts(n, size) = [i \in 0 .. m |-> Min({i * size, n})]
  BY <1>0 DEF Cuts
<1>5. Cuts(n, size) \in [0 .. m -> Nat]
  BY <1>2, <1>4
<1>6. 0 \in 0 .. m /\ m \in 0 .. m /\ 0 * size = 0
  BY <1>1
<1>7. Cuts(n, size)[0] = 0 /\ Cuts(n, size)[m] = n
  <2>1. Cuts(n, size)[0] = IF 0 * size <= n THEN 0 * size ELSE n
    BY <1>2, <1>4, <1>6
  <2>2. Cuts(n, size)[m] = IF m * size <= n THEN m * size ELSE n
    BY <1>2, <1>4, <1>6
  <2>3. PICK y \in Nat : y = m * size
    BY <1>2, <1>6
  <2>4. Cuts(n, size)[m] = n
    BY <1>1, <2>2, <2>3
  <2>. QED
    BY <1>6, <2>1, <2>4
<1>8. Batches(n, size) = [i \in 1 .. m |-> [from |-> (i - 1) * size, to |-> Min({i * size, n})]]
  BY <1>0 DEF Batches
<1>9. ASSUME NEW i \in 1 .. m
      PROVE  /\ Cuts(n, size)[i - 1] = (i - 1) * size
             /\ Cuts(n, size)[i] = Min({i * size, n})
             /\ Cuts(n, size)[i] = IF i * size <= n THEN i * size ELSE n
             /\ i * size \in Nat
  <2>1. i \in 0 .. m /\ i - 1 \in 0 .. m
    BY <1>1
  <2>2. Min({(i - 1) * size, n}) = (i - 1) * size
    BY <1>2, <1>3, <2>1
  <2>. QED
    BY <1>2, <1>4, <2>1, <2>2
<1>10. ASSUME NEW i \in 1 .. m
       PROVE  /\ Cuts(n, size)[i - 1] <= Cuts(n, size)[i]
              /\ Cuts(n, size)[i] <= n
              /\ Batches(n, size)[i].from = Cuts(n, size)[i - 1]
              /\ Batches(n, size)[i].to = Cuts(n, size)[i]
  <2>1. Batches(n, size)[i] = [from |-> (i - 1) * size, to |-> Min({i * size, n})]
    BY <1>8
  <2>2. PICK x \in Nat, y \in Nat : x = (i - 1) * size /\ y = i * size
    BY <1>3, <1>9
  <2>3. x < n /\ x <= y
    BY <1>3, <2>2
  <2>4. Cuts(n, size)[i - 1] = x /\ Cuts(n, size)[i] = IF y <= n THEN y ELSE n
    BY <1>9, <2>2
  <2>5. Cuts(n, size)[i - 1] <= Cuts(n, size)[i] /\ Cuts(n, size)[i] <= n
    BY <2>2, <2>3, <2>4
  <2>. QED
    BY <1>9, <2>1, <2>5
<1>11. CutInto(n, size, m, Cuts(n, size))
  BY <1>8, <1>10 DEF CutInto
<1>. QED
  BY <1>1, <1>5, <1>7, <1>11

LEMMA OneByOneIs ==
    ASSUME NEW a \in Nat, NEW b \in Nat, a <= b
    PROVE  OneByOne(a, b) = Upto(a, b)
<1>. DEFINE m == b - a
            parts == [k \in 1 .. m |-> <<a + k - 1>>]
            c == [i \in 0 .. m |-> a + i]
<1>1. m \in Nat /\ c \in [0 .. m -> Nat] /\ c[0] = a /\ c[m] = b
  OBVIOUS
<1>2. ASSUME NEW i \in 1 .. m
      PROVE  c[i - 1] <= c[i] /\ parts[i] = Upto(c[i - 1], c[i]) /\ parts[i] \in Seq(Nat)
  <2>1. c[i - 1] = a + i - 1 /\ c[i] = a + i /\ a + i - 1 \in Nat /\ a + i \in Nat
    OBVIOUS
  <2>2. Upto(a + i - 1, a + i) = <<a + i - 1>>
    <3>1. PICK x, y : x = a + i - 1 /\ y = a + i
      OBVIOUS
    <3>2. x \in Nat /\ y \in Nat /\ x <= y /\ y - x = 1
      BY <3>1
    <3>3. Upto(x, y) = [k \in 1 .. y - x |-> x + k - 1]
      BY <3>2, UptoIs
    <3>. QED
      BY <3>1, <3>2, <3>3
  <2>. QED
    BY <2>1, <2>2
<1>3. parts \in Seq(Seq(Nat)) /\ DOMAIN parts = 1 .. m
  BY <1>2
<1>4. OneByOne(a, b) = FlattenSeq(parts)
  BY DEF OneByOne
<1>. HIDE DEF parts, c, m
<1>5. FollowOn(parts, m, c)
  BY <1>1, <1>2, <1>3 DEF FollowOn
<1>. QED
  BY <1>1, <1>4, <1>5, FlattenRuns

\* What a batch of frames is made of, whichever way it was made.
LEMMA BatchesJoined ==
    ASSUME NEW n \in Nat, NEW size \in Nat, size # 0, NEW parts,
           DOMAIN parts = DOMAIN Batches(n, size),
           parts = [i \in DOMAIN parts |-> parts[i]],
           \A i \in DOMAIN parts :
              parts[i] = Upto(Batches(n, size)[i].from, Batches(n, size)[i].to)
    PROVE  FlattenSeq(parts) = Upto(0, n)
<1>1. PICK m, c : /\ m \in Nat /\ c \in [0 .. m -> Nat] /\ c[0] = 0 /\ c[m] = n
                  /\ CutInto(n, size, m, c)
  BY BatchesCut
<1>2. /\ m \in Nat /\ c \in [0 .. m -> Nat] /\ c[0] = 0 /\ c[m] = n /\ DOMAIN parts = 1 .. m
      /\ \A i \in 1 .. m : c[i - 1] <= c[i] /\ parts[i] = Upto(c[i - 1], c[i])
  BY <1>1 DEF CutInto
<1>3. \A i \in 1 .. m : parts[i] \in Seq(Nat)
  <2>. SUFFICES ASSUME NEW i \in 1 .. m PROVE parts[i] \in Seq(Nat)
    OBVIOUS
  <2>1. c[i - 1] \in Nat /\ c[i] \in Nat
    BY <1>2
  <2>. QED
    BY <1>2, <2>1, UptoIs
<1>4. parts \in Seq(Seq(Nat))
  BY <1>2, <1>3
<1>5. FollowOn(parts, m, c)
  BY <1>2, <1>4 DEF FollowOn
<1>. QED
  BY <1>2, <1>5, FlattenRuns

LEMMA BatchBounds ==
    ASSUME NEW n \in Nat, NEW size \in Nat, size # 0, NEW i \in DOMAIN Batches(n, size)
    PROVE  /\ Batches(n, size)[i].from \in Nat /\ Batches(n, size)[i].to \in Nat
           /\ Batches(n, size)[i].from <= Batches(n, size)[i].to
           /\ Batches(n, size)[i].to <= n
<1>1. PICK m, c : /\ m \in Nat /\ c \in [0 .. m -> Nat] /\ c[0] = 0 /\ c[m] = n
                  /\ CutInto(n, size, m, c)
  BY BatchesCut
<1>2. i \in 1 .. m
  BY <1>1 DEF CutInto
<1>3. c[i - 1] \in Nat /\ c[i] \in Nat
  BY <1>1, <1>2
<1>. QED
  BY <1>1, <1>2, <1>3 DEF CutInto

LEMMA LivePortraitRows ==
    ASSUME NEW s, s.frames \in Nat, NEW size \in Nat, size # 0
    PROVE  LivePortraitFrames(s, size) = Upto(0, s.frames)
<1>. DEFINE b == Batches(s.frames, size)
            parts == [i \in DOMAIN b |-> Upto(b[i].from, b[i].to)]
<1>1. LivePortraitFrames(s, size) = FlattenSeq(parts)
  BY DEF LivePortraitFrames
<1>2. DOMAIN parts = DOMAIN Batches(s.frames, size) /\ parts = [i \in DOMAIN parts |-> parts[i]]
      /\ \A i \in DOMAIN parts :
            parts[i] = Upto(Batches(s.frames, size)[i].from, Batches(s.frames, size)[i].to)
  OBVIOUS
<1>. HIDE DEF parts
<1>. QED
  BY <1>1, <1>2, BatchesJoined

\* Batches that failed come in their place, once.
LEMMA UNetRows ==
    ASSUME NEW s, s.rows \in Nat, NEW size \in Nat, size # 0, NEW failing
    PROVE  UNet(s, size, failing) = Upto(0, s.rows)
<1>. DEFINE b == Batches(s.rows, size)
            parts == [i \in DOMAIN b |-> IF i - 1 \in failing THEN OneByOne(b[i].from, b[i].to)
                                         ELSE Upto(b[i].from, b[i].to)]
<1>1. UNet(s, size, failing) = FlattenSeq(parts)
  BY DEF UNet
<1>2. ASSUME NEW i \in DOMAIN b PROVE parts[i] = Upto(b[i].from, b[i].to)
  <2>1. b[i].from \in Nat /\ b[i].to \in Nat /\ b[i].from <= b[i].to
    BY BatchBounds
  <2>2. OneByOne(b[i].from, b[i].to) = Upto(b[i].from, b[i].to)
    BY <2>1, OneByOneIs
  <2>. QED
    BY <2>2
<1>3. DOMAIN parts = DOMAIN Batches(s.rows, size) /\ parts = [i \in DOMAIN parts |-> parts[i]]
      /\ \A i \in DOMAIN parts :
            parts[i] = Upto(Batches(s.rows, size)[i].from, Batches(s.rows, size)[i].to)
  BY <1>2
<1>. HIDE DEF parts
<1>. QED
  BY <1>1, <1>3, BatchesJoined

LEMMA DecodedRows ==
    ASSUME NEW n \in Nat, NEW size \in Nat, size # 0
    PROVE  Decode(Upto(0, n), size) = Upto(0, n)
<1>. DEFINE b == Batches(n, size)
            parts == [i \in DOMAIN b |-> SubSeq(Upto(0, n), b[i].from + 1, b[i].to)]
<1>1. Upto(0, n) = [k \in 1 .. n |-> k - 1] /\ Len(Upto(0, n)) = n /\ Upto(0, n) \in Seq(Nat)
  BY UptoIs
<1>2. Decode(Upto(0, n), size) = FlattenSeq(parts)
  BY <1>1 DEF Decode
<1>3. ASSUME NEW i \in DOMAIN b PROVE parts[i] = Upto(b[i].from, b[i].to)
  <2>1. PICK x, y : x = b[i].from /\ y = b[i].to
    OBVIOUS
  <2>2. x \in Nat /\ y \in Nat /\ x <= y /\ y <= n
    BY <2>1, BatchBounds
  <2>3. Upto(x, y) = [k \in 1 .. y - x |-> x + k - 1]
    BY <2>2, UptoIs
  <2>4. SubSeq(Upto(0, n), x + 1, y) = [k \in 1 .. y - x |-> x + k - 1]
    BY <1>1, <2>2
  <2>. QED
    BY <2>1, <2>3, <2>4
<1>4. DOMAIN parts = DOMAIN Batches(n, size) /\ parts = [i \in DOMAIN parts |-> parts[i]]
      /\ \A i \in DOMAIN parts :
            parts[i] = Upto(Batches(n, size)[i].from, Batches(n, size)[i].to)
  BY <1>3
<1>. HIDE DEF parts
<1>. QED
  BY <1>2, <1>4, BatchesJoined

-----------------------------------------------------------------------------
(* Rounding: where a row is, and where it should be.                         *)

LEMMA DivIs ==
    ASSUME NEW a \in Nat, NEW d \in Nat, d # 0
    PROVE  /\ a \div d \in Nat
           /\ (a \div d) * d <= a /\ a < (a \div d) * d + d
  OBVIOUS

LEMMA Cancel ==
    ASSUME NEW x \in Int, NEW y \in Int, NEW d \in Nat, d # 0
    PROVE  /\ x * d <= y * d => x <= y
           /\ x * d < y * d => x < y
<1>1. ASSUME x > y PROVE x * d >= y * d + d
  <2>1. PICK e \in Nat : x = y + 1 + e
    <3>1. x - y - 1 \in Nat /\ x = y + 1 + (x - y - 1)
      BY <1>1
    <3>. QED
      BY <3>1
  <2>2. x * d = y * d + d + e * d /\ e * d \in Nat
    BY <2>1
  <2>. QED
    BY <2>2
<1>2. x * d \in Int /\ y * d \in Int
  OBVIOUS
<1>3. x = y => x * d = y * d
  OBVIOUS
<1>. QED
  BY <1>1, <1>2, <1>3

LEMMA LeqDiv ==
    ASSUME NEW x \in Int, NEW f \in Nat, f # 0, NEW n \in Nat, x * f <= n
    PROVE  x <= n \div f
<1>1. PICK q \in Nat : q = n \div f /\ n < q * f + f
  BY DivIs
<1>2. (q + 1) * f = q * f + f /\ q * f \in Int /\ x * f \in Int
  OBVIOUS
<1>3. x * f < (q + 1) * f
  BY <1>1, <1>2
<1>4. x < q + 1
  BY <1>3, Cancel
<1>. QED
  BY <1>1, <1>4

LEMMA FrameOfIs ==
    ASSUME NEW ms \in Nat, NEW fps \in Nat
    PROVE  /\ FrameOf(ms, fps) \in Nat
           /\ 2000 * FrameOf(ms, fps) <= 2 * (ms * fps) + 1000
           /\ 2 * (ms * fps) <= 2000 * FrameOf(ms, fps) + 1000
<1>1. PICK n \in Nat : ms * fps = n
  OBVIOUS
<1>0. PICK q, r : n \div 1000 = q /\ (n % 1000) = r
  OBVIOUS
<1>2. q \in Nat /\ r \in 0 .. 999 /\ n = 1000 * q + r
  BY <1>0
<1>3. Nearest(n, 1000) = IF 2 * r < 1000 \/ (2 * r = 1000 /\ q % 2 = 0) THEN q ELSE q + 1
  BY <1>0 DEF Nearest
<1>4. CASE 2 * r < 1000 \/ (2 * r = 1000 /\ q % 2 = 0)
  <2>1. Nearest(n, 1000) = q
    BY <1>3, <1>4
  <2>. QED
    BY <1>1, <1>2, <1>4, <2>1 DEF FrameOf
<1>5. CASE ~(2 * r < 1000 \/ (2 * r = 1000 /\ q % 2 = 0))
  <2>1. Nearest(n, 1000) = q + 1
    BY <1>3, <1>5
  <2>. QED
    BY <1>1, <1>2, <1>5, <2>1 DEF FrameOf
<1>. QED
  BY <1>4, <1>5

LEMMA FrameOfMono ==
    ASSUME NEW a \in Nat, NEW b \in Nat, NEW fps \in Nat, a <= b
    PROVE  FrameOf(a, fps) <= FrameOf(b, fps)
<1>1. PICK x \in Nat, y \in Nat : a * fps = x /\ b * fps = y
  OBVIOUS
<1>2. x <= y
  BY <1>1, TimesMono
<1>3. PICK p \in Nat : /\ FrameOf(a, fps) = p
                       /\ 2000 * p <= 2 * x + 1000 /\ 2 * x <= 2000 * p + 1000
  <2>1. /\ FrameOf(a, fps) \in Nat
        /\ 2000 * FrameOf(a, fps) <= 2 * (a * fps) + 1000
        /\ 2 * (a * fps) <= 2000 * FrameOf(a, fps) + 1000
    BY FrameOfIs
  <2>. QED
    BY <1>1, <2>1
<1>4. PICK q \in Nat : /\ FrameOf(b, fps) = q
                       /\ 2000 * q <= 2 * y + 1000 /\ 2 * y <= 2000 * q + 1000
  <2>1. /\ FrameOf(b, fps) \in Nat
        /\ 2000 * FrameOf(b, fps) <= 2 * (b * fps) + 1000
        /\ 2 * (b * fps) <= 2000 * FrameOf(b, fps) + 1000
    BY FrameOfIs
  <2>. QED
    BY <1>1, <2>1
<1>5. ASSUME x = y PROVE p = q
  <2>1. FrameOf(a, fps) = Nearest(x, 1000) /\ FrameOf(b, fps) = Nearest(y, 1000)
    BY <1>1 DEF FrameOf
  <2>. QED
    BY <1>3, <1>4, <1>5, <2>1
<1>. QED
  BY <1>2, <1>3, <1>4, <1>5

\* A place in ms of row k at f rows a second, within half a row and within what
\* the rows before it fall short of.
Placed(f, k, place, behind) ==
    /\ place * f <= 1000 * k + 500
    /\ 1000 * k - 500 < (place + 1 + behind) * f

\* Such a row starts within a row of where it should.
LEMMA PlacedNear ==
    ASSUME NEW f \in Nat, f # 0, NEW x \in Nat, NEW k \in Nat, k = FrameOf(x, f),
           NEW place \in Nat, NEW behind \in Nat, Placed(f, k, place, behind)
    PROVE  place - x \in -(1000 \div f + 1 + behind) .. 1000 \div f + 1
<1>1. PICK xf \in Nat : x * f = xf
  OBVIOUS
<1>2. 2000 * k <= 2 * xf + 1000 /\ 2 * xf <= 2000 * k + 1000
  <2>1. 2000 * FrameOf(x, f) <= 2 * (x * f) + 1000 /\ 2 * (x * f) <= 2000 * FrameOf(x, f) + 1000
    BY FrameOfIs
  <2>. QED
    BY <1>1, <2>1
<1>3. 1000 \div f \in Nat
  OBVIOUS
<1>4. place - x <= 1000 \div f
  <2>1. (place - x) * f = place * f - xf /\ place * f \in Int
    BY <1>1
  <2>2. (place - x) * f <= 1000
    BY <1>2, <2>1 DEF Placed
  <2>3. PICK z \in Int, c \in Nat : z = place - x /\ c = 1000
    OBVIOUS
  <2>4. z \in Int /\ c \in Nat /\ z * f <= c
    BY <2>2, <2>3
  <2>5. z <= c \div f
    BY <2>4, LeqDiv
  <2>. QED
    BY <2>3, <2>5
<1>5. x - (place + 1 + behind) <= 1000 \div f
  <2>1. PICK y \in Nat : place + 1 + behind = y
    OBVIOUS
  <2>2. (x - y) * f = xf - y * f /\ y * f \in Int
    BY <1>1
  <2>3. (x - y) * f <= 1000
    BY <1>2, <2>1, <2>2 DEF Placed
  <2>4. x - y <= 1000 \div f
    <3>1. PICK z \in Int, c \in Nat : z = x - y /\ c = 1000
      OBVIOUS
    <3>2. z \in Int /\ c \in Nat /\ z * f <= c
      BY <2>3, <3>1
    <3>3. z <= c \div f
      BY <3>2, LeqDiv
    <3>. QED
      BY <3>1, <3>3
  <2>. QED
    BY <2>1, <2>4
<1>. QED
  BY <1>3, <1>4, <1>5

\* Where row k is, in ms, when rows of bin samples, per of them at a time, begin
\* at the beginning.
PlaceOf(k, bin, per) == (k * bin) \div (16 * per)

\* D ms have no more than F rows and a half.
AtMost(D, f, F) == 2 * (D * f) <= 2000 * F + 1000

\* D ms have no less than F rows but for a half.
AtLeast(D, f, F) == 2000 * F <= 2 * (D * f) + 1000

\* S samples for D ms, or for F rows if they are more, in rows of b of them.
WholeSamples(D, f, F, g, S, b) ==
    /\ g = (F * 16000) \div f
    /\ S = IF 16 * D >= g THEN 16 * D ELSE g
    /\ b = IF 1 >= S \div F THEN 1 ELSE S \div F

LEMMA WholeSamplesFit ==
    ASSUME NEW f \in Nat, f # 0, f <= 16000, NEW F \in Nat, F # 0, NEW D \in Nat,
           AtMost(D, f, F), NEW g, NEW S, NEW b, WholeSamples(D, f, F, g, S, b)
    PROVE  /\ b \in Nat /\ S \in Nat /\ b * F <= S
           /\ 16000 \div f <= b
           /\ S * f <= 16000 * F + 8000
<1>0. f \in Nat /\ f # 0 /\ f <= 16000
  OBVIOUS
<1>1. (F * 16000) \div f = g /\ g \in Nat /\ g * f <= F * 16000
  <2>1. PICK a \in Nat : F * 16000 = a
    OBVIOUS
  <2>2. a \div f \in Nat /\ (a \div f) * f <= a
    BY <1>0, <2>1, DivIs
  <2>. QED
    BY <2>1, <2>2 DEF WholeSamples
<1>2. S \in Nat /\ 16 * D <= S /\ g <= S /\ (S = g \/ S = 16 * D)
  BY <1>1 DEF WholeSamples
<1>3. PICK w \in Nat : 16000 \div f = w /\ w * f <= 16000 /\ w # 0
  <2>1. PICK a \in Nat : a = 16000
    OBVIOUS
  <2>2. a \div f \in Nat /\ (a \div f) * f <= a /\ a < (a \div f) * f + f
    BY <1>0, DivIs
  <2>3. PICK w \in Nat : a \div f = w /\ w * f <= a /\ a < w * f + f
    BY <2>2
  <2>4. w # 0
    BY <1>0, <2>1, <2>3
  <2>. QED
    BY <2>1, <2>3, <2>4
<1>4. w * F <= g
  <2>1. (w * F) * f = (w * f) * F /\ w * f \in Nat /\ w * F \in Int
    OBVIOUS
  <2>2. (w * f) * F <= 16000 * F
    BY <1>3, <2>1, TimesMono
  <2>3. (w * F) * f <= F * 16000
    BY <2>1, <2>2
  <2>4. PICK a \in Nat, x \in Nat : F * 16000 = a /\ w * F = x
    OBVIOUS
  <2>5. x <= a \div f
    BY <1>0, <2>3, <2>4, LeqDiv
  <2>. QED
    BY <1>1, <2>4, <2>5
<1>5. PICK q \in Nat : S \div F = q /\ q * F <= S
  <2>1. S \div F \in Nat /\ (S \div F) * F <= S
    <3>1. S \in Nat
      BY <1>2
    <3>. QED
      BY <3>1, DivIs
  <2>. QED
    BY <2>1
<1>6. w <= q
  <2>1. w * F <= S /\ w * F \in Int
    <3>1. g \in Nat /\ S \in Nat /\ g <= S
      BY <1>1, <1>2
    <3>2. w \in Nat /\ w * F \in Int
      BY <1>3
    <3>. QED
      BY <1>4, <3>1, <3>2
  <2>2. w <= S \div F
    <3>1. S \in Nat /\ w \in Int /\ w * F <= S
      BY <1>2, <2>1
    <3>. QED
      BY <3>1, LeqDiv
  <2>. QED
    BY <1>5, <2>2
<1>7. b = q
  BY <1>3, <1>5, <1>6 DEF WholeSamples
<1>8. S * f <= 16000 * F + 8000
  <2>1. CASE S = g
    BY <1>1, <2>1
  <2>2. CASE S = 16 * D
    <3>1. PICK y \in Nat : D * f = y
      BY <1>0
    <3>2. S * f = 16 * y
      BY <1>0, <2>2, <3>1
    <3>. QED
      BY <3>1, <3>2 DEF AtMost
  <2>. QED
    BY <1>2, <2>1, <2>2
<1>. QED
  BY <1>2, <1>3, <1>5, <1>6, <1>7, <1>8

\* What rows of whole samples fall short of their places, in ms.
Short(k, f) == (k * (16000 % f) + 16 * f - 1) \div (16 * f)

LEMMA WholeSamplesPlaced ==
    ASSUME NEW f \in Nat, f # 0, f <= 16000, NEW F \in Nat, F # 0, NEW D \in Nat,
           AtMost(D, f, F), NEW g, NEW S, NEW b, WholeSamples(D, f, F, g, S, b),
           NEW k \in 0 .. F, NEW place, PlaceOf(k, b, 1) = place
    PROVE  /\ place \in Nat /\ Short(k, f) \in Nat
           /\ place * f <= 1000 * k + 500
           /\ 1000 * k < (place + 1 + Short(k, f)) * f
<1>1. /\ b \in Nat /\ S \in Nat /\ b * F <= S /\ 16000 \div f <= b
      /\ S * f <= 16000 * F + 8000
  BY WholeSamplesFit
<1>2. k \in Nat /\ k <= F /\ f \in Nat /\ f # 0
  OBVIOUS
<1>3. PICK kb \in Nat : k * b = kb
  BY <1>1, <1>2
<1>4. place \in Nat /\ 16 * place <= kb /\ kb < 16 * place + 16
  <2>1. place = kb \div 16
    BY <1>1, <1>2, <1>3 DEF PlaceOf
  <2>. QED
    BY <2>1
<1>5. kb * f <= 16000 * k + 8000
  <2>1. kb * F = (b * F) * k /\ b * F \in Nat /\ S * k \in Nat
    BY <1>1, <1>2, <1>3
  <2>2. (b * F) * k <= S * k
    BY <1>1, <1>2, <2>1, TimesMono
  <2>3. (kb * F) * f <= (S * k) * f
    <3>1. PICK x \in Nat, y \in Nat : kb * F = x /\ S * k = y
      BY <2>1
    <3>2. x * f <= y * f
      BY <1>2, <2>1, <2>2, <3>1, TimesMono
    <3>. QED
      BY <3>1, <3>2
  <2>4. (S * k) * f = (S * f) * k /\ S * f \in Nat
    BY <1>1, <1>2
  <2>5. (S * f) * k <= (16000 * F + 8000) * k
    BY <1>1, <1>2, <2>4, TimesMono
  <2>6. (16000 * F + 8000) * k = (16000 * k) * F + 8000 * k /\ (16000 * k) * F \in Nat
    BY <1>2
  <2>7. (16000 * k + 8000) * F = (16000 * k) * F + 8000 * F
    BY <1>2
  <2>8. (kb * F) * f = (kb * f) * F /\ kb * f \in Nat
    BY <1>2
  <2>9. (kb * f) * F <= (16000 * k + 8000) * F
    <3>1. (kb * f) * F <= (16000 * F + 8000) * k
      BY <2>3, <2>4, <2>5, <2>8
    <3>2. PICK x \in Nat, y \in Nat : (kb * f) * F = x /\ (16000 * k) * F = y
      BY <1>2, <2>6, <2>8
    <3>3. x <= y + 8000 * k
      BY <2>6, <3>1, <3>2
    <3>4. x <= y + 8000 * F
      BY <1>2, <3>3
    <3>. QED
      BY <2>7, <3>2, <3>4
  <2>. QED
    BY <1>2, <2>8, <2>9, Cancel
<1>6. place * f <= 1000 * k + 500
  <2>1. (16 * place) * f <= kb * f /\ kb * f \in Nat
    BY <1>2, <1>4, TimesMono
  <2>2. (16 * place) * f = 16 * (place * f) /\ place * f \in Nat
    BY <1>2, <1>4
  <2>. QED
    BY <1>2, <1>5, <2>1, <2>2
<1>7. PICK w \in Nat, m \in Nat : /\ 16000 \div f = w /\ (16000 % f) = m
                                  /\ w * f + m = 16000
  <2>1. PICK a \in Nat : a = 16000
    OBVIOUS
  <2>2. a \div f \in Nat /\ (a % f) \in Nat /\ (a \div f) * f + (a % f) = a
    BY <1>2
  <2>. QED
    BY <2>1, <2>2
<1>8. kb * f >= 16000 * k - k * m
  <2>1. w * k <= b * k /\ b * k \in Nat
    BY <1>1, <1>2, <1>7, TimesMono
  <2>2. (w * k) * f <= (b * k) * f
    BY <1>2, <2>1, TimesMono
  <2>3. (w * k) * f = (w * f) * k /\ w * f \in Nat
    BY <1>2
  <2>4. (w * f) * k = 16000 * k - k * m
    <3>1. w * f = 16000 - m
      BY <1>7, <2>3
    <3>. QED
      BY <1>2, <3>1
  <2>. QED
    BY <1>1, <1>2, <1>3, <2>2, <2>3, <2>4
<1>9. PICK B \in Nat : Short(k, f) = B /\ k * m <= 16 * (B * f)
  <2>1. PICK a \in Nat, d \in Nat : k * m + 16 * f - 1 = a /\ 16 * f = d /\ d # 0
    BY <1>2
  <2>2. a \div d \in Nat /\ a < (a \div d) * d + d
    BY <2>1, DivIs
  <2>3. PICK B \in Nat : a \div d = B /\ a < B * d + d
    BY <2>2
  <2>4. B = Short(k, f)
    BY <1>7, <2>1, <2>3 DEF Short
  <2>5. B * d = 16 * (B * f) /\ B * f \in Nat /\ k * m \in Nat
    BY <1>2, <2>1
  <2>6. k * m <= 16 * (B * f)
    BY <2>1, <2>3, <2>5
  <2>. QED
    BY <2>4, <2>6
<1>10. 1000 * k < (place + 1 + B) * f
  <2>1. kb + 1 <= 16 * place + 16
    BY <1>4
  <2>2. (kb + 1) * f <= (16 * place + 16) * f
    BY <1>2, <1>4, <2>1, TimesMono
  <2>3. /\ (kb + 1) * f = kb * f + f /\ kb * f \in Nat
        /\ (16 * place + 16) * f = 16 * (place * f) + 16 * f /\ place * f \in Nat
        /\ (place + 1 + B) * f = place * f + f + B * f /\ B * f \in Nat
        /\ k * m \in Nat
    BY <1>2, <1>4
  <2>. QED
    BY <1>2, <1>8, <1>9, <2>2, <2>3
<1>. QED
  BY <1>4, <1>6, <1>9, <1>10

\* F rows spread evenly over D ms.
LEMMA SpreadPlaced ==
    ASSUME NEW f \in Nat, f # 0, f <= 16000, NEW F \in Nat, F # 0, NEW D \in Nat,
           AtMost(D, f, F),
           NEW k \in 0 .. F, NEW place, PlaceOf(k, 16 * D, F) = place
    PROVE  /\ place \in Nat
           /\ place * F <= k * D /\ k * D < (place + 1) * F
           /\ place * f <= 1000 * k + 500
           /\ 2000 * F <= 2 * (D * f) + 1000 => 1000 * k - 500 < (place + 1) * f
<1>1. k \in Nat /\ k <= F /\ f \in Nat /\ f # 0
  OBVIOUS
<1>2. PICK kD \in Nat, Df \in Nat : k * D = kD /\ D * f = Df
  BY <1>1
<1>3. place \in Nat /\ place * F <= kD /\ kD < place * F + F
  <2>1. PICK a \in Nat, d \in Nat : k * (16 * D) = a /\ 16 * F = d /\ d # 0
    BY <1>1
  <2>2. a \div d \in Nat /\ (a \div d) * d <= a /\ a < (a \div d) * d + d
    BY <2>1, DivIs
  <2>4. a \div d = place
    BY <2>1 DEF PlaceOf
  <2>3. a = 16 * kD /\ place * d = 16 * (place * F) /\ place * F \in Nat
    BY <1>1, <1>2, <2>1, <2>2, <2>4
  <2>. QED
    BY <2>1, <2>2, <2>3, <2>4
<1>4. (place + 1) * F = place * F + F /\ place * F \in Nat
  BY <1>3
<1>5. place * f <= 1000 * k + 500
  <2>1. (place * F) * f <= kD * f
    BY <1>1, <1>3, <1>4, TimesMono
  <2>2. kD * f = Df * k /\ (place * F) * f = (place * f) * F /\ place * f \in Nat
    BY <1>1, <1>2, <1>3
  <2>3. Df <= 1000 * F + 500
    BY <1>2 DEF AtMost
  <2>4. Df * k <= (1000 * F + 500) * k
    BY <1>1, <2>3, TimesMono
  <2>5. /\ (1000 * F + 500) * k = (1000 * k) * F + 500 * k /\ (1000 * k) * F \in Nat
        /\ (1000 * k + 500) * F = (1000 * k) * F + 500 * F
    BY <1>1
  <2>6. (place * f) * F <= (1000 * k + 500) * F
    <3>1. PICK x \in Nat, y \in Nat : (place * f) * F = x /\ (1000 * k) * F = y
      BY <1>1, <2>2, <2>5
    <3>2. x <= y + 500 * k
      BY <2>1, <2>2, <2>4, <2>5, <3>1
    <3>3. x <= y + 500 * F
      BY <1>1, <3>2
    <3>. QED
      BY <2>5, <3>1, <3>3
  <2>. QED
    BY <1>1, <2>2, <2>6, Cancel
<1>6. ASSUME 2000 * F <= 2 * (D * f) + 1000
      PROVE  1000 * k - 500 < (place + 1) * f
  <2>1. (kD + 1) * f <= (place * F + F) * f
    <3>1. PICK x \in Nat : x = kD + 1
      OBVIOUS
    <3>3. PICK y \in Nat : y = place * F + F
      <4>1. place * F + F \in Nat
        BY <1>1, <1>4
      <4>. QED
        BY <4>1
    <3>2. x * f <= y * f
      <4>1. x <= y
        BY <1>3, <3>1, <3>3
      <4>. QED
        BY <1>1, <4>1, TimesMono
    <3>. QED
      BY <3>1, <3>2, <3>3
  <2>2. /\ (kD + 1) * f = Df * k + f /\ Df * k \in Nat
        /\ (place * F + F) * f = ((place + 1) * f) * F
    BY <1>1, <1>2, <1>3
  <2>3. 1000 * F <= Df + 500
    BY <1>2, <1>6
  <2>4. (1000 * F) * k <= (Df + 500) * k
    BY <1>1, <2>3, TimesMono
  <2>5. /\ (Df + 500) * k = Df * k + 500 * k
        /\ (1000 * F) * k = (1000 * k) * F /\ (1000 * k) * F \in Nat
        /\ (1000 * k - 500) * F = (1000 * k) * F - 500 * F
        /\ 1000 * k - 500 \in Int /\ (place + 1) * f \in Int
    BY <1>1, <1>3
  <2>6. (1000 * k - 500) * F < ((place + 1) * f) * F
    <3>1. PICK x \in Nat, y \in Nat, z \in Int :
              Df * k = x /\ (1000 * k) * F = y /\ ((place + 1) * f) * F = z
      BY <1>1, <1>3, <2>2, <2>5
    <3>2. x + f <= z
      BY <2>1, <2>2, <3>1
    <3>3. y <= x + 500 * k
      BY <2>4, <2>5, <3>1
    <3>4. y - 500 * F < z
      BY <1>1, <3>2, <3>3
    <3>. QED
      BY <2>5, <3>1, <3>4
  <2>. QED
    BY <2>5, <2>6, Cancel
<1>. QED
  BY <1>2, <1>3, <1>4, <1>5, <1>6

-----------------------------------------------------------------------------
(* Where the rows of a whole file are.                                       *)

Lag(k, f, backend) == IF backend = "dsp" THEN Short(k, f) ELSE 0

\* The signals of all of a file of D ms: as many rows as there are frames, each
\* in its place; a file without a frame has one.
AllRows(s, D, f, backend) ==
    /\ s.first = 0 /\ s.bin \in Nat /\ s.per \in Nat /\ s.per # 0
    /\ s.frames \in Nat /\ s.frames # 0 /\ s.rows = s.frames
    /\ s.frames = FrameOf(D, f) \/ (s.frames = 1 /\ FrameOf(D, f) = 0)
    /\ \A k \in 0 .. s.frames : k = 0 \/ s.frames = FrameOf(D, f) =>
          Placed(f, k, PlaceOf(k, s.bin, s.per), Lag(k, f, backend))
    /\ FrameOf(D, f) = 0 => PlaceOf(1, s.bin, s.per) \in D .. D + 1000 \div f

LEMMA PlaceNat ==
    ASSUME NEW k \in Nat, NEW bin \in Nat, NEW per \in Nat, per # 0
    PROVE  PlaceOf(k, bin, per) \in Nat /\ PlaceOf(0, bin, per) = 0
<1>1. PICK a \in Nat, d \in Nat : a = k * bin /\ d = 16 * per /\ d # 0
  OBVIOUS
<1>2. a \div d \in Nat /\ 0 * bin = 0 /\ 0 \div d = 0
  BY <1>1
<1>. QED
  BY <1>1, <1>2 DEF PlaceOf

LEMMA LagNat ==
    ASSUME NEW k \in Nat, NEW f \in Nat, f # 0, NEW backend
    PROVE  Lag(k, f, backend) \in Nat
<1>1. PICK m \in Nat : m = 16000 % f
  OBVIOUS
<1>2. PICK a \in Nat, d \in Nat : a = k * m + 16 * f - 1 /\ d = 16 * f /\ d # 0
  <2>1. k * m \in Nat
    BY <1>1
  <2>. QED
    BY <2>1
<1>3. a \div d \in Nat
  BY <1>2
<1>4. Short(k, f) = a \div d
  BY <1>1, <1>2 DEF Short
<1>. QED
  BY <1>3, <1>4 DEF Lag

\* The number of rows of a file.
LEMMA RowCount ==
    ASSUME NEW D \in Nat, NEW f \in Nat, NEW F, Max({1, FrameOf(D, f)}) = F
    PROVE  /\ F \in Nat /\ F # 0
           /\ F = FrameOf(D, f) \/ (F = 1 /\ FrameOf(D, f) = 0)
           /\ AtMost(D, f, F)
           /\ F = FrameOf(D, f) => AtLeast(D, f, F)
<1>1. PICK x \in Nat : /\ x = FrameOf(D, f)
                       /\ 2000 * x <= 2 * (D * f) + 1000 /\ 2 * (D * f) <= 2000 * x + 1000
  <2>1. /\ FrameOf(D, f) \in Nat
        /\ 2000 * FrameOf(D, f) <= 2 * (D * f) + 1000
        /\ 2 * (D * f) <= 2000 * FrameOf(D, f) + 1000
    BY FrameOfIs
  <2>. QED
    BY <2>1
<1>2. PICK c \in Nat : c = 1
  OBVIOUS
<1>3. Max({c, x}) = IF c >= x THEN c ELSE x
  BY MaxOfTwo
<1>4. F = (IF 1 >= x THEN 1 ELSE x)
  BY <1>1, <1>2, <1>3
<1>5. D * f \in Nat
  OBVIOUS
<1>. QED
  BY <1>1, <1>4, <1>5 DEF AtMost, AtLeast

LEMMA DspRows ==
    ASSUME NEW audio \in Audios, NEW f \in Nat, f # 0, f <= 16000
    PROVE  AllRows(Dsp(audio, 0, audio.ms, f), audio.ms, f, "dsp")
<1>1. PICK D \in Nat : audio.ms = D /\ D # 0
  BY DEF Audios
<1>2. PICK n : Expected(0, D, f) = n
  OBVIOUS
<1>3. PICK m : WindowSamples(audio, 0, D, f) = m
  OBVIOUS
<1>4. PICK w : Bin(m, n) = w
  OBVIOUS
<1>5. Dsp(audio, 0, D, f) = [voice |-> audio.voice, first |-> 0, frames |-> n, rows |-> n,
                             bin |-> w, per |-> 1]
  BY <1>2, <1>3, <1>4 DEF Dsp
<1>6. /\ n \in Nat /\ n # 0 /\ (n = FrameOf(D, f) \/ (n = 1 /\ FrameOf(D, f) = 0))
      /\ AtMost(D, f, n)
  <2>1. D - 0 = D
    OBVIOUS
  <2>2. Max({1, FrameOf(D, f)}) = n
    BY <1>2, <2>1 DEF Expected
  <2>. QED
    BY <2>2, RowCount
<1>7. n \in Nat /\ n # 0 /\ AtMost(D, f, n)
  BY <1>6
<1>8. PICK g \in Nat : (n * 16000) \div f = g
  <2>1. PICK a \in Nat : n * 16000 = a
    BY <1>7
  <2>2. a \div f \in Nat
    BY DivIs
  <2>. QED
    BY <2>1, <2>2
<1>9. WholeSamples(D, f, n, g, m, w)
  <2>1. PICK e \in Nat : 16 * D = e
    OBVIOUS
  <2>2. PICK p, r : /\ p = 16 * (Min({D, audio.ms}) - 0)
                    /\ r = (Expected(0, D, f) * 16000) \div f
    OBVIOUS
  <2>3. m = (IF e >= g THEN e ELSE g) /\ m \in Nat
    <3>1. Min({D, audio.ms}) - 0 = D
      BY <1>1, MinOfTwo
    <3>2. m = Max({16 * (Min({D, audio.ms}) - 0), (Expected(0, D, f) * 16000) \div f})
      BY <1>3 DEF WindowSamples
    <3>3. p = e /\ r = g
      BY <1>2, <1>8, <2>1, <2>2, <3>1
    <3>4. m = Max({p, r})
      BY <2>2, <3>2
    <3>5. p \in Nat /\ r \in Nat
      BY <3>3
    <3>6. m = IF p >= r THEN p ELSE r
      BY <3>4, <3>5, MaxOfTwo
    <3>. QED
      BY <3>3, <3>6
  <2>4. PICK q \in Nat : m \div n = q
    BY <1>7, <2>3, DivIs
  <2>5. PICK c \in Nat : 1 = c
    OBVIOUS
  <2>6. Max({c, q}) = w
    BY <1>4, <2>4, <2>5 DEF Bin
  <2>7. w = IF c >= q THEN c ELSE q
    BY <2>6, MaxOfTwo
  <2>. QED
    BY <1>8, <2>1, <2>3, <2>4, <2>5, <2>7 DEF WholeSamples
<1>10. /\ w \in Nat /\ m \in Nat /\ w * n <= m /\ 16000 \div f <= w
       /\ m * f <= 16000 * n + 8000
  BY <1>7, <1>9, WholeSamplesFit
<1>11. ASSUME NEW k \in 0 .. n
       PROVE  Placed(f, k, PlaceOf(k, w, 1), Lag(k, f, "dsp"))
  <2>1. PICK place : PlaceOf(k, w, 1) = place
    OBVIOUS
  <2>2. /\ place \in Nat /\ Short(k, f) \in Nat
        /\ place * f <= 1000 * k + 500
        /\ 1000 * k < (place + 1 + Short(k, f)) * f
    BY <1>7, <1>9, <2>1, WholeSamplesPlaced
  <2>3. PlaceOf(k, w, 1) = place /\ Lag(k, f, "dsp") = Short(k, f)
    BY <2>1 DEF Lag
  <2>4. k \in Nat /\ (place + 1 + Short(k, f)) * f \in Int
    BY <1>8, <2>2
  <2>. QED
    BY <2>2, <2>3, <2>4 DEF Placed
<1>12. ASSUME FrameOf(D, f) = 0
       PROVE  PlaceOf(1, w, 1) \in D .. D + 1000 \div f
  <2>1. n = 1
    BY <1>6, <1>12
  <2>2. PICK q \in Nat : q = 16000 \div f
    OBVIOUS
  <2>3. PICK e \in Nat : e = 16 * D
    BY <1>1
  <2>4. m = IF e >= q THEN e ELSE q
    <3>1. n * 16000 = 16000
      BY <2>1
    <3>2. g = q
      BY <1>8, <2>2, <3>1
    <3>. QED
      BY <1>9, <2>3, <3>2 DEF WholeSamples
  <2>5. w = m
    <3>1. m \div 1 = m /\ m >= 1
      BY <1>1, <1>10, <2>3, <2>4
    <3>. QED
      BY <1>9, <2>1, <3>1 DEF WholeSamples
  <2>6. PICK h \in Nat : h = 1000 \div f /\ q \div 16 <= h
    <3>1. PICK c \in Nat : c = 1000
      OBVIOUS
    <3>2. PICK z \in Nat : z = q \div 16 /\ 16 * z <= q
      <4>1. q \div 16 \in Nat /\ 16 * (q \div 16) <= q
        OBVIOUS
      <4>. QED
        BY <4>1
    <3>3. q * f <= 16000
      <4>1. PICK a \in Nat : a = 16000
        OBVIOUS
      <4>2. (a \div f) * f <= a
        BY <4>1, DivIs
      <4>. QED
        BY <2>2, <4>1, <4>2
    <3>4. z * f <= c
      <4>1. PICK y \in Nat : y = 16 * z
        BY <3>2
      <4>2. y * f <= q * f
        BY <3>2, <4>1, TimesMono
      <4>3. y * f = 16 * (z * f) /\ z * f \in Nat /\ q * f \in Nat
        BY <4>1, <3>2
      <4>. QED
        BY <3>1, <3>3, <4>2, <4>3
    <3>5. z \in Int /\ z <= c \div f
      <4>1. z \in Int
        BY <3>2
      <4>. QED
        BY <3>4, <4>1, LeqDiv
    <3>6. 1000 \div f \in Nat
      OBVIOUS
    <3>. QED
      BY <3>1, <3>2, <3>5, <3>6
  <2>7. PlaceOf(1, w, 1) = m \div 16
    BY <1>10, <2>5 DEF PlaceOf
  <2>8. e \div 16 = D
    BY <1>1, <2>3
  <2>. QED
    BY <1>1, <2>2, <2>4, <2>6, <2>7, <2>8
<1>13. AllRows([voice |-> audio.voice, first |-> 0, frames |-> n, rows |-> n, bin |-> w,
                per |-> 1], D, f, "dsp")
  BY <1>6, <1>10, <1>11, <1>12 DEF AllRows
<1>. QED
  BY <1>1, <1>5, <1>13

LEMMA NeuralRows ==
    ASSUME NEW audio \in Audios, NEW f \in Nat, f # 0, f <= 16000
    PROVE  AllRows(Neural(audio, 0, audio.ms, f), audio.ms, f, "neural")
<1>1. PICK D \in Nat : audio.ms = D /\ D # 0
  BY DEF Audios
<1>2. PICK n : Expected(0, D, f) = n
  OBVIOUS
<1>8. /\ n \in Nat /\ n # 0 /\ (n = FrameOf(D, f) \/ (n = 1 /\ FrameOf(D, f) = 0))
      /\ AtMost(D, f, n)
      /\ n = FrameOf(D, f) => AtLeast(D, f, n)
  <2>1. D - 0 = D
    OBVIOUS
  <2>2. Max({1, FrameOf(D, f)}) = n
    BY <1>2, <2>1 DEF Expected
  <2>. QED
    BY <2>2, RowCount
<1>3. Max({0, Min({D, audio.ms}) - 0}) = D
  <2>1. PICK z \in Nat : z = 0
    OBVIOUS
  <2>2. Max({z, D}) = IF z >= D THEN z ELSE D
    BY MaxOfTwo
  <2>3. Min({D, audio.ms}) = D
    BY <1>1, MinOfTwo
  <2>4. D - 0 = D
    OBVIOUS
  <2>. QED
    BY <2>1, <2>2, <2>3, <2>4
<1>4. Neural(audio, 0, D, f) = [voice |-> audio.voice, first |-> 0, frames |-> n, rows |-> n,
                                bin |-> 16 * D, per |-> n]
  <2>1. 16 * 0 * n = 0
    BY <1>8
  <2>. QED
    BY <1>2, <1>3, <2>1 DEF Neural
<1>10. 16 * D \in Nat
  BY <1>1
<1>11. ASSUME NEW k \in 0 .. n, k = 0 \/ n = FrameOf(D, f)
       PROVE  Placed(f, k, PlaceOf(k, 16 * D, n), Lag(k, f, "neural"))
  <2>1. PICK place : PlaceOf(k, 16 * D, n) = place
    OBVIOUS
  <2>2. /\ place \in Nat
        /\ place * f <= 1000 * k + 500
        /\ 2000 * n <= 2 * (D * f) + 1000 => 1000 * k - 500 < (place + 1) * f
    BY <1>1, <1>8, <2>1, SpreadPlaced
  <2>3. PlaceOf(k, 16 * D, n) = place /\ Lag(k, f, "neural") = 0
    BY <2>1 DEF Lag
  <2>4. k \in Nat /\ place + 1 + 0 = place + 1 /\ (place + 1) * f \in Nat
    BY <1>8, <2>2
  <2>5. CASE n = FrameOf(D, f)
    BY <1>8, <2>2, <2>3, <2>4, <2>5 DEF Placed, AtLeast
  <2>6. CASE k = 0
    BY <2>2, <2>3, <2>4, <2>6 DEF Placed
  <2>. QED
    BY <1>11, <2>5, <2>6
<1>12. ASSUME FrameOf(D, f) = 0
       PROVE  PlaceOf(1, 16 * D, n) \in D .. D + 1000 \div f
  <2>1. n = 1 /\ 1 * (16 * D) = 16 * D /\ (16 * D) \div 16 = D /\ 16 * 1 = 16
    BY <1>1, <1>8, <1>12
  <2>2. PlaceOf(1, 16 * D, n) = D
    BY <2>1 DEF PlaceOf
  <2>3. 1000 \div f \in Nat
    OBVIOUS
  <2>. QED
    BY <1>1, <2>2, <2>3
<1>13. AllRows([voice |-> audio.voice, first |-> 0, frames |-> n, rows |-> n, bin |-> 16 * D,
                per |-> n], D, f, "neural")
  BY <1>8, <1>10, <1>11, <1>12 DEF AllRows
<1>. QED
  BY <1>1, <1>4, <1>13

LEMMA DrivingRows ==
    ASSUME NEW audio \in Audios, NEW f \in Nat, f # 0, f <= 16000,
           NEW backend \in {"dsp", "neural"}
    PROVE  AllRows(AudioToDriving(audio, 0, audio.ms, f, backend), audio.ms, f, backend)
<1>1. CASE backend = "dsp"
  BY <1>1, DspRows DEF AudioToDriving
<1>2. CASE backend = "neural"
  BY <1>2, NeuralRows DEF AudioToDriving
<1>. QED
  BY <1>1, <1>2

-----------------------------------------------------------------------------
(* The rows of a window.                                                     *)

LEMMA ClipNat ==
    ASSUME NEW n \in Nat, NEW F \in Nat
    PROVE  Clip(n, 0, F) = IF n <= F THEN n ELSE F
<1>1. PICK m \in Nat : Min({n, F}) = m /\ m = IF n <= F THEN n ELSE F
  BY MinOfTwo
<1>2. PICK z \in Nat : 0 = z
  OBVIOUS
<1>3. Max({z, m}) = IF z >= m THEN z ELSE m
  BY MaxOfTwo
<1>4. Max({0, Min({n, F})}) = m
  BY <1>1, <1>2, <1>3
<1>. QED
  BY <1>1, <1>4 DEF Clip

\* A slice of F rows from row i to row j.
SliceOf(d, s, F, i, j) ==
    LET start == IF i <= F THEN i ELSE F
        end   == IF j <= F THEN j ELSE F
    IN  /\ d.first = s.first + start * s.bin /\ d.bin = s.bin /\ d.per = s.per
        /\ d.voice = s.voice
        /\ end > start => d.rows = end - start /\ d.frames = end - start
        /\ end <= start => d.frames = 1 /\ d.rows = IF start < F THEN 1 ELSE 0

LEMMA SliceIs ==
    ASSUME NEW s, Fields(s), NEW F \in Nat, s.frames = F, s.rows = F,
           NEW from, NEW to, NEW f, NEW i \in Nat, NEW j \in Nat,
           FrameOf(from, f) = i, FrameOf(to, f) = j, i <= j
    PROVE  SliceOf(Slice(s, from, to, f), s, F, i, j)
<1>1. PICK start \in Nat : start = IF i <= F THEN i ELSE F
  OBVIOUS
<1>2. PICK end \in Nat : end = IF j <= F THEN j ELSE F
  OBVIOUS
<1>3. PICK last \in Nat : last = IF end <= start THEN start + 1 ELSE end
  OBVIOUS
<1>4. Clip(FrameOf(from, f), 0, s.frames) = start /\ Clip(FrameOf(to, f), 0, s.frames) = end
  BY <1>1, <1>2, ClipNat
<1>5. Slice(s, from, to, f) = [s EXCEPT !.first = @ + start * s.bin, !.frames = last - start,
                                        !.rows = Min({last, s.rows}) - start]
  BY <1>3, <1>4 DEF Slice
<1>6. Min({last, s.rows}) = IF last <= F THEN last ELSE F
  BY MinOfTwo
<1>7. PICK d : Slice(s, from, to, f) = d
  OBVIOUS
<1>8. /\ d.first = s.first + start * s.bin /\ d.bin = s.bin /\ d.per = s.per
      /\ d.voice = s.voice /\ d.frames = last - start
      /\ d.rows = Min({last, s.rows}) - start
  BY <1>5, <1>7 DEF Fields
<1>9. start <= end /\ start <= F /\ end <= F
  BY <1>1, <1>2
<1>. QED
  BY <1>1, <1>2, <1>3, <1>6, <1>7, <1>8, <1>9 DEF SliceOf

\* A window of RenderVideo, or of a cached avatar, of a file of D ms.
SomeWindow(from, to, D) ==
    /\ from \in Nat /\ to \in Nat
    /\ to = from + 4000 \/ (from = 0 /\ (to = 4000 \/ to = D))

\* Its end, or that of the file.
EndOf(to, D) == IF to <= D THEN to ELSE D

\* What a slice for such a window is: all of its rows, or none where less than a
\* row of the file is left.
RowsOfWindow(d, s, D, f, from, to) ==
    /\ d.bin = s.bin /\ d.per = s.per /\ d.voice = s.voice
    /\ d.frames \in Nat /\ d.rows \in Nat /\ d.rows <= d.frames
    /\ FrameOf(from, f) \in Nat /\ d.first = FrameOf(from, f) * s.bin
    /\ d.rows # d.frames => from + 1000 \div f >= D
    /\ d.rows = d.frames /\ FrameOf(D, f) = 0 =>
          FrameOf(from, f) = 0 /\ d.rows = 1 /\ D <= to
    /\ d.rows = d.frames /\ FrameOf(D, f) # 0 =>
          /\ FrameOf(from, f) + d.rows = FrameOf(EndOf(to, D), f)
          /\ FrameOf(from, f) + d.rows <= s.frames

\* Four seconds have a frame at every rate.
LEMMA FourSeconds ==
    ASSUME NEW from \in Nat, NEW f \in Nat, f # 0
    PROVE  FrameOf(from, f) < FrameOf(from + 4000, f)
<1>1. PICK x \in Nat, y \in Nat : from * f = x /\ (from + 4000) * f = y
  OBVIOUS
<1>2. y = x + 4000 * f
  BY <1>1
<1>3. PICK p \in Nat : FrameOf(from, f) = p /\ 2000 * p <= 2 * x + 1000
  <2>1. FrameOf(from, f) \in Nat /\ 2000 * FrameOf(from, f) <= 2 * (from * f) + 1000
    BY FrameOfIs
  <2>. QED
    BY <1>1, <2>1
<1>4. PICK q \in Nat : FrameOf(from + 4000, f) = q /\ 2 * y <= 2000 * q + 1000
  <2>1. PICK to \in Nat : from + 4000 = to
    OBVIOUS
  <2>2. FrameOf(to, f) \in Nat /\ 2 * (to * f) <= 2000 * FrameOf(to, f) + 1000
    BY FrameOfIs
  <2>. QED
    BY <1>1, <2>1, <2>2
<1>. QED
  BY <1>2, <1>3, <1>4

LEMMA WindowRows ==
    ASSUME NEW s, Fields(s), NEW D \in Nat, D # 0, NEW f \in Nat, f # 0,
           NEW backend, AllRows(s, D, f, backend),
           NEW from, NEW to, SomeWindow(from, to, D), from < D
    PROVE  RowsOfWindow(Slice(s, from, to, f), s, D, f, from, to)
<1>1. from \in Nat /\ to \in Nat /\ from <= to /\ from <= D
  BY DEF SomeWindow
<1>2. PICK F \in Nat : /\ s.frames = F /\ s.rows = F /\ F # 0 /\ s.first = 0 /\ s.bin \in Nat
  BY DEF AllRows
<1>3. PICK i \in Nat, j \in Nat : FrameOf(from, f) = i /\ FrameOf(to, f) = j
  <2>1. FrameOf(from, f) \in Nat /\ FrameOf(to, f) \in Nat
    BY <1>1, FrameOfIs
  <2>. QED
    BY <2>1
<1>4. i <= j
  BY <1>1, <1>3, FrameOfMono
<1>5. PICK x \in Nat : /\ FrameOf(D, f) = x /\ (F = x \/ (F = 1 /\ x = 0))
                       /\ 2 * (D * f) <= 2000 * x + 1000
  <2>1. FrameOf(D, f) \in Nat /\ 2 * (D * f) <= 2000 * FrameOf(D, f) + 1000
    BY FrameOfIs
  <2>. QED
    BY <1>2, <2>1 DEF AllRows
<1>6. i <= x
  BY <1>1, <1>3, <1>5, FrameOfMono
<1>7. PICK d : Slice(s, from, to, f) = d
  OBVIOUS
<1>8. SliceOf(d, s, F, i, j)
  BY <1>2, <1>3, <1>4, <1>7, SliceIs
<1>9. PICK e \in Nat : e = (IF j <= F THEN j ELSE F)
  OBVIOUS
<1>10. /\ d.bin = s.bin /\ d.per = s.per /\ d.voice = s.voice /\ d.first = i * s.bin
       /\ e > i => d.rows = e - i /\ d.frames = e - i
       /\ e <= i => d.frames = 1 /\ d.rows = IF i < F THEN 1 ELSE 0
  <2>1. i <= F /\ 0 + i * s.bin = i * s.bin
    BY <1>2, <1>5, <1>6
  <2>. QED
    BY <1>2, <1>8, <1>9, <2>1 DEF SliceOf
<1>11. to < D => i < j
  <2>1. to < D => to = from + 4000
    BY DEF SomeWindow
  <2>2. to = from + 4000 => i < j
    BY <1>1, <1>3, FourSeconds
  <2>. QED
    BY <2>1, <2>2
<1>12. D <= to => x <= j
  BY <1>1, <1>3, <1>5, FrameOfMono
<1>13. to <= D => j <= x
  BY <1>1, <1>3, <1>5, FrameOfMono
<1>14. CASE x = 0
  <2>1. F = 1 /\ i = 0
    BY <1>2, <1>5, <1>6, <1>14
  <2>2. D <= to
    BY <1>1, <1>11, <1>13, <1>14, <2>1
  <2>3. d.rows = 1 /\ d.frames = 1
    BY <1>9, <1>10, <2>1
  <2>. QED
    BY <1>3, <1>5, <1>7, <1>10, <1>14, <2>1, <2>2, <2>3 DEF RowsOfWindow
<1>15. CASE x # 0
  <2>1. F = x
    BY <1>5, <1>15
  <2>2. FrameOf(EndOf(to, D), f) = e
    <3>1. CASE to <= D
      BY <1>3, <1>9, <1>13, <2>1, <3>1 DEF EndOf
    <3>2. CASE ~(to <= D)
      <4>1. EndOf(to, D) = D /\ x <= j
        BY <1>1, <1>12, <3>2 DEF EndOf
      <4>. QED
        BY <1>5, <1>9, <2>1, <4>1
    <3>. QED
      BY <3>1, <3>2
  <2>3. CASE e > i
    <3>1. d.rows = e - i /\ d.frames = e - i /\ e <= F
      BY <1>9, <1>10, <2>3
    <3>. QED
      BY <1>2, <1>3, <1>5, <1>7, <1>10, <1>15, <2>2, <2>3, <3>1 DEF RowsOfWindow
  <2>4. CASE e <= i
    <3>1. i = F
      BY <1>1, <1>6, <1>9, <1>11, <1>12, <2>1, <2>4
    <3>2. d.frames = 1 /\ d.rows = 0
      BY <1>10, <2>4, <3>1
    <3>3. from + 1000 \div f >= D
      <4>1. PICK y \in Nat, z \in Nat : from * f = y /\ D * f = z
        BY <1>1
      <4>2. 2000 * i <= 2 * y + 1000 /\ 2 * z <= 2000 * i + 1000
        <5>1. 2000 * FrameOf(from, f) <= 2 * (from * f) + 1000
          BY <1>1, FrameOfIs
        <5>. QED
          BY <1>3, <1>5, <2>1, <3>1, <4>1, <5>1
      <4>3. PICK w \in Int, c \in Nat : D - from = w /\ 1000 = c
        BY <1>1
      <4>4. w * f = z - y
        BY <1>1, <4>1, <4>3
      <4>5. w \in Int /\ c \in Nat /\ w * f <= c
        BY <4>2, <4>3, <4>4
      <4>6. w <= c \div f
        BY <4>5, LeqDiv
      <4>7. 1000 \div f \in Nat
        OBVIOUS
      <4>. QED
        BY <1>1, <4>3, <4>6, <4>7
    <3>. QED
      BY <1>3, <1>5, <1>7, <1>10, <3>2, <3>3 DEF RowsOfWindow
  <2>. QED
    BY <2>3, <2>4
<1>. QED
  BY <1>14, <1>15

\* Where row k of a slice is, in ms.
RowAt(d, k) == (d.first + k * d.bin) \div (16 * d.per)

\* The place is that of the row of the file.
StartsAt(d, i, bin) == d.bin = bin /\ d.first = i * bin

LEMMA RowAtIs ==
    ASSUME NEW d, NEW i \in Nat, NEW k \in Nat, NEW bin \in Nat, StartsAt(d, i, bin)
    PROVE  RowAt(d, k) = PlaceOf(i + k, bin, d.per)
<1>1. (i + k) * bin = i * bin + k * bin
  OBVIOUS
<1>. QED
  BY <1>1 DEF RowAt, PlaceOf, StartsAt

\* A row more or less, and what the rows before it fall short of.
Near(place, ms, f, lag) == place - ms \in -(1000 \div f + 1 + lag) .. 1000 \div f + 1

LEMMA EndsPlaced ==
    ASSUME NEW s, NEW D \in Nat, D # 0, NEW f \in Nat, f # 0,
           NEW backend, AllRows(s, D, f, backend),
           NEW from, NEW to, SomeWindow(from, to, D), from < D,
           NEW d, RowsOfWindow(d, s, D, f, from, to), d.rows = d.frames
    PROVE  /\ Near(RowAt(d, 0), from, f, Lag(FrameOf(from, f), f, backend))
           /\ Near(RowAt(d, d.rows), EndOf(to, D), f,
                   Lag(FrameOf(from, f) + d.rows, f, backend))
<1>1. PICK bin \in Nat, per \in Nat : s.bin = bin /\ s.per = per /\ per # 0
  BY DEF AllRows
<1>2. PICK i \in Nat, n \in Nat : FrameOf(from, f) = i /\ d.rows = n
  BY DEF RowsOfWindow
<1>3. d.bin = bin /\ d.per = per /\ d.first = i * bin
  BY <1>1, <1>2 DEF RowsOfWindow
<1>4. PICK F \in Nat : /\ s.frames = F
                       /\ \A k \in 0 .. F : k = 0 \/ F = FrameOf(D, f) =>
                             Placed(f, k, PlaceOf(k, bin, per), Lag(k, f, backend))
  BY <1>1 DEF AllRows
<1>5. from \in Nat /\ to \in Nat
  BY DEF SomeWindow
<1>6. /\ RowAt(d, 0) = PlaceOf(i, bin, per)
      /\ RowAt(d, n) = PlaceOf(i + n, bin, per)
  <2>0. StartsAt(d, i, bin)
    BY <1>3 DEF StartsAt
  <2>1. PICK z \in Nat : 0 = z /\ i + z = i
    OBVIOUS
  <2>2. ASSUME NEW k \in Nat PROVE RowAt(d, k) = PlaceOf(i + k, bin, d.per)
    BY <2>0, RowAtIs
  <2>. QED
    BY <1>3, <2>1, <2>2
<1>7. ASSUME NEW x \in Nat, NEW k \in 0 .. F, FrameOf(x, f) = k,
             k = 0 \/ F = FrameOf(D, f)
      PROVE  Near(PlaceOf(k, bin, per), x, f, Lag(k, f, backend))
  <2>1. k \in Nat
    OBVIOUS
  <2>2. PICK place \in Nat : PlaceOf(k, bin, per) = place
    BY <1>1, <2>1, PlaceNat
  <2>3. PICK lag \in Nat : Lag(k, f, backend) = lag
    BY <2>1, LagNat
  <2>4. Placed(f, k, place, lag)
    BY <1>4, <1>7, <2>2, <2>3
  <2>5. k = FrameOf(x, f)
    BY <1>7
  <2>6. place - x \in -(1000 \div f + 1 + lag) .. 1000 \div f + 1
    BY <2>1, <2>4, <2>5, PlacedNear
  <2>. QED
    BY <2>2, <2>3, <2>6 DEF Near
<1>8. CASE FrameOf(D, f) = 0
  <2>1. i = 0 /\ n = 1 /\ D <= to
    BY <1>2, <1>8 DEF RowsOfWindow
  <2>2. Near(PlaceOf(i, bin, per), from, f, Lag(i, f, backend))
    <3>1. i \in 0 .. F
      BY <1>4, <2>1
    <3>. QED
      BY <1>2, <1>5, <1>7, <2>1, <3>1
  <2>3. PlaceOf(1, bin, per) \in D .. D + 1000 \div f
    BY <1>1, <1>8 DEF AllRows
  <2>4. EndOf(to, D) = D
    BY <1>5, <2>1 DEF EndOf
  <2>5. Lag(1, f, backend) \in Nat /\ 1000 \div f \in Nat
    BY LagNat
  <2>6. Near(PlaceOf(1, bin, per), D, f, Lag(1, f, backend))
    BY <2>3, <2>5 DEF Near
  <2>. QED
    BY <1>2, <1>6, <2>1, <2>2, <2>4, <2>6
<1>9. CASE FrameOf(D, f) # 0
  <2>1. i + n = FrameOf(EndOf(to, D), f) /\ i + n <= F
    BY <1>2, <1>4, <1>9 DEF RowsOfWindow
  <2>2. F = FrameOf(D, f) /\ i \in 0 .. F /\ i + n \in 0 .. F /\ EndOf(to, D) \in Nat
    BY <1>4, <1>5, <1>9, <2>1 DEF AllRows, EndOf
  <2>3. Near(PlaceOf(i, bin, per), from, f, Lag(i, f, backend))
    BY <1>2, <1>5, <1>7, <2>2
  <2>4. PICK k \in 0 .. F, x \in Nat : i + n = k /\ EndOf(to, D) = x
    BY <2>2
  <2>5. Near(PlaceOf(k, bin, per), x, f, Lag(k, f, backend))
    BY <1>7, <2>1, <2>2, <2>4
  <2>. QED
    BY <1>2, <1>6, <2>3, <2>4, <2>5
<1>. QED
  BY <1>8, <1>9

-----------------------------------------------------------------------------
(* MuseTalk: rows at a rate of their own, of the window itself.              *)

\* How much of the window has audio.
HeardOf(from, to, D) == IF from <= EndOf(to, D) THEN EndOf(to, D) - from ELSE 0

LEMMA FeatureRows ==
    ASSUME NEW audio, NEW D \in Nat, audio.ms = D, NEW from \in Nat, NEW to \in Nat, NEW rate
    PROVE  Features(audio, from, to, rate)
             = [voice |-> audio.voice, first |-> 16 * from * rate, bin |-> 16000, per |-> rate,
                frames |-> FrameOf(HeardOf(from, to, D), rate),
                rows |-> FrameOf(HeardOf(from, to, D), rate)]
<1>1. PICK e \in Nat : EndOf(to, D) = e
  BY DEF EndOf
<1>2. Min({to, audio.ms}) = e
  BY <1>1, MinOfTwo DEF EndOf
<1>3. PICK w \in Int, z \in Nat : e - from = w /\ 0 = z
  OBVIOUS
<1>4. Max({z, w}) = IF z >= w THEN z ELSE w
  BY MaxOfTwo
<1>5. Max({0, Min({to, audio.ms}) - from}) = HeardOf(from, to, D)
  BY <1>1, <1>2, <1>3, <1>4 DEF HeardOf
<1>. QED
  BY <1>5 DEF Features

\* Where row k of the features of a window is in it.
FeatureAt(k, rate) == (1000 * k) \div rate

LEMMA FeaturePlaced ==
    ASSUME NEW rate \in Nat, rate # 0, NEW k \in Nat, NEW place, FeatureAt(k, rate) = place
    PROVE  place \in Nat /\ Placed(rate, k, place, 0)
<1>1. PICK a \in Nat : 1000 * k = a
  OBVIOUS
<1>2. a \div rate \in Nat /\ (a \div rate) * rate <= a /\ a < (a \div rate) * rate + rate
  BY DivIs
<1>3. place \in Nat /\ place * rate <= a /\ a < place * rate + rate
  BY <1>1, <1>2 DEF FeatureAt
<1>4. (place + 1 + 0) * rate = place * rate + rate /\ place * rate \in Nat
  BY <1>3
<1>. QED
  BY <1>1, <1>3, <1>4 DEF Placed

\* Row k of a window is the time of its beginning and k rows.
LEMMA FeatureRowAt ==
    ASSUME NEW d, NEW rate \in Nat, rate # 0, NEW from \in Nat, NEW k \in Nat,
           d.first = 16 * from * rate, d.bin = 16000, d.per = rate
    PROVE  RowAt(d, k) = from + FeatureAt(k, rate)
<1>1. PICK a \in Nat, q \in Nat : 1000 * k = a /\ a \div rate = q
  OBVIOUS
<1>2. q * rate <= a /\ a < q * rate + rate
  BY <1>1, DivIs
<1>3. PICK m \in Nat : d.first + k * d.bin = m
  <2>1. 16 * from * rate \in Nat
    OBVIOUS
  <2>. QED
    BY <2>1
<1>4. PICK y \in Nat : q * rate = y
  BY <1>1
<1>5. PICK z \in Nat : from * rate = z
  OBVIOUS
<1>6. m = 16 * z + 16 * a
  BY <1>1, <1>3, <1>5
<1>7. PICK h \in Nat : 16 * rate = h /\ h # 0
  OBVIOUS
<1>8. (from + q) * h = 16 * z + 16 * y
  BY <1>1, <1>4, <1>5, <1>7
<1>9. PICK p \in Nat : m \div h = p /\ p * h <= m /\ m < p * h + h
  <2>1. m \div h \in Nat /\ (m \div h) * h <= m /\ m < (m \div h) * h + h
    BY <1>7, DivIs
  <2>. QED
    BY <2>1
<1>10. from + q < p + 1
  <2>1. (from + q) * h <= m
    BY <1>2, <1>4, <1>6, <1>8
  <2>2. (p + 1) * h = p * h + h /\ p * h \in Nat /\ (from + q) * h \in Nat
    BY <1>1, <1>7, <1>9
  <2>3. (from + q) * h < (p + 1) * h
    BY <1>9, <2>1, <2>2
  <2>4. PICK u \in Int, v \in Int : from + q = u /\ p + 1 = v
    BY <1>1
  <2>5. u < v
    BY <1>7, <2>3, <2>4, Cancel
  <2>. QED
    BY <2>4, <2>5
<1>11. p < from + q + 1
  <2>1. m < (from + q) * h + h
    BY <1>2, <1>4, <1>6, <1>7, <1>8
  <2>2. (from + q + 1) * h = (from + q) * h + h /\ p * h \in Nat /\ (from + q) * h \in Nat
    BY <1>1, <1>7, <1>9
  <2>3. p * h < (from + q + 1) * h
    BY <1>9, <2>1, <2>2
  <2>4. PICK u \in Int : from + q + 1 = u
    BY <1>1
  <2>5. p < u
    BY <1>7, <1>9, <2>3, <2>4, Cancel
  <2>. QED
    BY <2>4, <2>5
<1>12. p = from + q
  BY <1>1, <1>9, <1>10, <1>11
<1>. QED
  BY <1>1, <1>3, <1>7, <1>9, <1>12 DEF RowAt, FeatureAt

LEMMA FeatureEnds ==
    ASSUME NEW rate \in Nat, rate # 0, NEW D \in Nat, NEW from \in Nat, NEW to \in Nat,
           from < D, from <= to, NEW d, d.first = 16 * from * rate, d.bin = 16000,
           d.per = rate, d.rows = FrameOf(HeardOf(from, to, D), rate)
    PROVE  /\ RowAt(d, 0) = from
           /\ Near(RowAt(d, d.rows), EndOf(to, D), rate, 0)
<1>1. RowAt(d, 0) = from
  <2>1. PICK z \in Nat : 0 = z
    OBVIOUS
  <2>2. RowAt(d, z) = from + FeatureAt(z, rate)
    BY FeatureRowAt
  <2>3. 0 \div rate = 0 /\ 1000 * 0 = 0
    OBVIOUS
  <2>4. FeatureAt(z, rate) = 0
    BY <2>1, <2>3 DEF FeatureAt
  <2>. QED
    BY <2>1, <2>2, <2>4
<1>2. PICK x \in Nat : HeardOf(from, to, D) = x /\ EndOf(to, D) = from + x
  BY DEF HeardOf, EndOf
<1>3. PICK n \in Nat : n = FrameOf(x, rate)
  BY FrameOfIs
<1>4. PICK place : FeatureAt(n, rate) = place
  OBVIOUS
<1>5. place \in Nat /\ Placed(rate, n, place, 0)
  BY <1>4, FeaturePlaced
<1>6. place - x \in -(1000 \div rate + 1 + 0) .. 1000 \div rate + 1
  BY <1>3, <1>5, PlacedNear
<1>7. RowAt(d, n) = from + place
  BY <1>4, FeatureRowAt
<1>8. d.rows = n
  BY <1>2, <1>3
<1>9. (from + place) - (from + x) = place - x
  BY <1>5
<1>. QED
  BY <1>1, <1>2, <1>6, <1>7, <1>8, <1>9 DEF Near

\* Nothing to encode: less than a row of the file is left.
LEMMA NothingHeard ==
    ASSUME NEW rate \in Nat, rate # 0, NEW D \in Nat, D # 0, NEW from, NEW to,
           SomeWindow(from, to, D), FrameOf(HeardOf(from, to, D), rate) = 0
    PROVE  from + 1000 \div rate >= D
<1>1. from \in Nat /\ to \in Nat
  BY DEF SomeWindow
<1>2. PICK x \in Nat : HeardOf(from, to, D) = x /\ x + from >= EndOf(to, D)
  BY <1>1 DEF HeardOf, EndOf
<1>3. 2 * (x * rate) <= 1000
  <2>1. 2 * (x * rate) <= 2000 * FrameOf(x, rate) + 1000
    BY FrameOfIs
  <2>. QED
    BY <1>2, <2>1
<1>4. x <= 1000 \div rate /\ x < 4000
  <2>1. PICK c \in Nat : 1000 = c
    OBVIOUS
  <2>2. x * rate <= c /\ x * rate \in Nat /\ x \in Int
    BY <1>3, <2>1
  <2>3. x <= c \div rate
    BY <2>2, LeqDiv
  <2>4. PICK r \in Nat : rate = 1 + r
    <3>1. rate - 1 \in Nat /\ rate = 1 + (rate - 1)
      OBVIOUS
    <3>. QED
      BY <3>1
  <2>5. x * rate = x + x * r /\ x * r \in Nat
    BY <2>4
  <2>. QED
    BY <2>1, <2>2, <2>3, <2>5
<1>5. 1000 \div rate \in Nat
  OBVIOUS
<1>6. EndOf(to, D) = D
  BY <1>1, <1>2, <1>4 DEF SomeWindow, HeardOf, EndOf
<1>. QED
  BY <1>1, <1>2, <1>4, <1>5, <1>6

-----------------------------------------------------------------------------
(* What holds of every state, on which rows and pictures are proved.         *)

\* The clip shows every row of the signals, in order, and nothing else.
Animated(s) ==
    /\ clip.voice = s.voice /\ clip.first = s.first /\ clip.bin = s.bin /\ clip.per = s.per
    /\ s.rows # 0 /\ clip.rows = Upto(0, s.rows)

\* What MuseTalk's encoder makes of the window.
Encoded == Features(Audio, window.from, window.to, engine.rate)

\* What is kept of a file that was not written again, and whose length was
\* known, are the signals of all of it.
KeptWhole ==
    \A key \in Keys : signals[key] # NoSignals =>
        /\ signals[key].voice # 0
        /\ key \notin guessed /\ key[1] \notin changed =>
              signals[key] = AudioToDriving(files[key[1]], 0, files[key[1]].ms, key[2],
                                            engine.backend)

Stages == {"idle", "identity", "match", "roi", "count", "open", "drive", "rendered",
           "mux", "check", "done"}

\* Which jobs are at which steps, and when there is nothing to show yet.
StepOfKind ==
    /\ pc \in Stages
    /\ pc \in {"identity", "match", "roi", "mux", "check"} => job.kind = "cached"
    /\ pc = "count" => job.kind = "windows"
    /\ pc = "idle" => job = NoJob
    /\ pc \in {"idle", "identity", "match", "count"} => window = NoWindow
    /\ pc \in {"idle", "identity", "match", "roi", "count"} => clip = NoClip
    /\ pc \in {"open", "drive"} /\ job.kind = "cached" => clip = NoClip
    /\ pc = "drive" => engine.kind = "liveportrait" /\ ~engine.mock /\ signals[Key] # NoSignals

\* The window of a cached avatar is the whole of the audio, or four seconds of
\* it; the windows of RenderVideo have four seconds each.
RealWindow ==
    IF job.kind = "cached" THEN window.from = 0 /\ window.to \in {4000, Audio.ms}
    ELSE window.from \in Nat /\ window.to = window.from + 4000

\* There is a window from the time its job is ready to be rendered.
WindowSet ==
    pc \in {"roi", "open", "drive", "rendered", "mux", "check"} \/ clip.voice # 0 => RealWindow

\* The clip of the window under way is all that its signals are, or there was
\* nothing for MuseTalk to encode.
ClipOfWindow ==
    Speaking \/ (pc = "rendered" /\ ~engine.mock /\ clip # NoClip) =>
        IF engine.kind = "liveportrait"
        THEN signals[Key] # NoSignals /\ Driving.rows = Driving.frames /\ Animated(Driving)
        ELSE Animated(Encoded) \/ (Encoded.rows = 0 /\ clip.voice = 0)

\* The template in hand is the job's, brought to some length; the composite has
\* the frames of its streams and of the clip.
Composing ==
    /\ job.kind = "cached" /\ pc \in {"roi", "open", "drive", "rendered", "mux", "check"} =>
          \E ms \in {0, Audio.ms} : matched = Matched(job.template, ms)
    /\ pc \in {"mux", "check"} => frames = CompositeFrames(matched, clip)

\* What a video was judged by when its lengths were compared.
Compared ==
    pc = "done" /\ verdict.status = "COMPLETED" =>
        /\ job.kind = "cached"
        /\ \E ms \in {0, Audio.ms} : matched = Matched(job.template, ms)
        /\ frames = CompositeFrames(matched, clip)
        /\ RealWindow
        /\ LET t == job.template
               n == Muxed(frames, t.fps, Audio.ms)
           IN  "lengths" \in verdict.probes => Away(n * 1000, Audio.ms * t.fps) <= Tolerance * t.fps

RenderInv ==
    /\ TypeOK /\ guessed \subseteq Keys
    /\ KeptWhole
    /\ StepOfKind
    /\ WindowSet
    /\ ClipOfWindow
    /\ Composing
    /\ Compared

-----------------------------------------------------------------------------
(* Every row is shown.                                                       *)

LEMMA JobRate ==
    ASSUME NEW r \in Jobs
    PROVE  r.fps \in Nat /\ r.fps # 0 /\ r.fps <= 16000
  BY DEF Jobs, Rates

LEMMA UnderwayTypes ==
    ASSUME RenderInv, VoiceInv, pc # "idle"
    PROVE  /\ job \in Requests /\ job.path \in Paths /\ Key \in Keys
           /\ job.fps \in Nat /\ job.fps # 0 /\ job.fps <= 16000
           /\ Audio \in Audios /\ Audio.ms \in Nat /\ Audio.ms # 0 /\ Audio.voice # 0
           /\ engine.kind \in Kinds /\ engine.backend \in {"dsp", "neural"}
           /\ engine.rate \in Nat /\ engine.rate # 0
<1>1. job \in Requests /\ job \in Jobs
  BY RequestsAssumption DEF VoiceInv, Underway
<1>2. job.path \in Paths /\ Key \in Keys
  BY <1>1, JobFields DEF Key
<1>3. job.fps \in Nat /\ job.fps # 0 /\ job.fps <= 16000
  BY <1>1, JobRate
<1>4. Audio \in Audios
  BY <1>2, CachedRenderAssumption DEF RenderInv, TypeOK, Audio
<1>5. engine \in Engines
  BY DEF RenderInv, TypeOK
<1>6. /\ engine.kind \in Kinds /\ engine.backend \in {"dsp", "neural"}
      /\ engine.rate \in Nat /\ engine.rate # 0
  BY <1>5, EngineKind
<1>. QED
  BY <1>1, <1>2, <1>3, <1>4, <1>6 DEF Audios

\* The kept signals of a file that was not written again.
LEMMA KeptRows ==
    ASSUME RenderInv, VoiceInv, pc # "idle", Current, signals[Key] # NoSignals
    PROVE  /\ Fields(signals[Key])
           /\ AllRows(signals[Key], Audio.ms, job.fps, engine.backend)
<1>1. /\ Key \in Keys /\ job.fps \in Nat /\ job.fps # 0 /\ job.fps <= 16000
      /\ Audio \in Audios /\ engine.backend \in {"dsp", "neural"}
  BY UnderwayTypes
<1>2. signals[Key] = AudioToDriving(Audio, 0, Audio.ms, job.fps, engine.backend)
  BY <1>1 DEF RenderInv, KeptWhole, Current, Key, Audio
<1>3. AllRows(AudioToDriving(Audio, 0, Audio.ms, job.fps, engine.backend), Audio.ms, job.fps,
              engine.backend)
  BY <1>1, DrivingRows
<1>. QED
  BY <1>1, <1>2, <1>3 DEF VoiceInv

LEMMA WindowUnderway ==
    ASSUME RenderInv, VoiceInv, pc # "idle",
           pc \in {"roi", "open", "drive", "rendered", "mux", "check"} \/ clip.voice # 0
    PROVE  /\ SomeWindow(window.from, window.to, Audio.ms)
           /\ window.from \in Nat /\ window.to \in Nat
<1>1. RealWindow
  BY DEF RenderInv, WindowSet
<1>2. window.from \in Nat /\ window.to \in Nat
  BY DEF RenderInv, TypeOK
<1>. QED
  BY <1>1, <1>2 DEF RealWindow, SomeWindow

\* The rows of the window in the signals of the file.
LEMMA DrivingOfWindow ==
    ASSUME RenderInv, VoiceInv, pc # "idle", Current, signals[Key] # NoSignals,
           pc \in {"roi", "open", "drive", "rendered", "mux", "check"} \/ clip.voice # 0,
           window.from < Audio.ms
    PROVE  RowsOfWindow(Driving, signals[Key], Audio.ms, job.fps, window.from, window.to)
<1>0. PICK from, to : window.from = from /\ window.to = to
  OBVIOUS
<1>1. PICK D \in Nat, f \in Nat :
          Audio.ms = D /\ job.fps = f /\ window.from = from /\ window.to = to
  BY <1>0, UnderwayTypes
<1>2. PICK s : signals[Key] = s
  OBVIOUS
<1>3. Fields(s) /\ AllRows(s, D, f, engine.backend)
  BY <1>1, <1>2, KeptRows
<1>4. SomeWindow(from, to, D) /\ from < D
  BY <1>1, WindowUnderway
<1>5. D # 0 /\ f # 0
  BY <1>1, UnderwayTypes
<1>6. RowsOfWindow(Slice(s, from, to, f), s, D, f, from, to)
  BY <1>3, <1>4, <1>5, WindowRows
<1>. QED
  BY <1>1, <1>2, <1>6 DEF Driving

\* A clip begins and ends where its window does.
LEMMA ClipEnds ==
    ASSUME RenderInv, VoiceInv, Speaking, Current, window.from < Audio.ms
    PROVE  LET end == Min({window.to, Audio.ms})
               n   == Len(clip.rows)
               row == 1000 \div Rate + 1
           IN  /\ clip.rows = Upto(0, n)
               /\ At(0) - window.from \in -(row + Behind(Before)) .. row
               /\ At(n) - end \in -(row + Behind(Before + n)) .. row
<1>1. pc # "idle" /\ clip.voice # 0
  BY DEF Speaking
<1>2. PICK D \in Nat, f \in Nat, from \in Nat, to \in Nat :
          Audio.ms = D /\ job.fps = f /\ window.from = from /\ window.to = to
  BY <1>1, UnderwayTypes, WindowUnderway
<1>3. SomeWindow(from, to, D) /\ from < D /\ D # 0 /\ f # 0
  BY <1>1, <1>2, UnderwayTypes, WindowUnderway
<1>4. Min({window.to, Audio.ms}) = EndOf(to, D)
  BY <1>2, MinOfTwo DEF EndOf
<1>5. \A k : At(k) = RowAt(clip, k)
  BY DEF At, RowAt
<1>6. CASE engine.kind = "liveportrait"
  <2>1. PICK d : Driving = d
    OBVIOUS
  <2>2. signals[Key] # NoSignals /\ d.rows = d.frames /\ Animated(d)
    BY <1>6, <2>1 DEF RenderInv, ClipOfWindow
  <2>3. PICK s : signals[Key] = s
    OBVIOUS
  <2>4. RowsOfWindow(d, s, D, f, from, to)
    BY <1>1, <1>2, <1>3, <2>1, <2>2, <2>3, DrivingOfWindow
  <2>5. AllRows(s, D, f, engine.backend)
    BY <1>1, <1>2, <2>2, <2>3, KeptRows
  <2>6. PICK n \in Nat : d.rows = n
    BY <2>4 DEF RowsOfWindow
  <2>7. /\ Near(RowAt(d, 0), from, f, Lag(FrameOf(from, f), f, engine.backend))
        /\ Near(RowAt(d, n), EndOf(to, D), f, Lag(FrameOf(from, f) + n, f, engine.backend))
    BY <1>3, <2>2, <2>4, <2>5, <2>6, EndsPlaced
  <2>8. clip.rows = Upto(0, n) /\ Len(clip.rows) = n
    BY <2>2, <2>6, UptoIs DEF Animated
  <2>9. \A k : At(k) = RowAt(d, k)
    BY <2>2 DEF Animated, At, RowAt
  <2>10. Rate = f /\ Before = FrameOf(from, f)
    BY <1>2, <1>6 DEF Rate, Before
  <2>11. \A k : Behind(k) = Lag(k, f, engine.backend)
    BY <1>2, <1>6 DEF Behind, Lag, Short
  <2>. QED
    BY <1>2, <1>4, <2>7, <2>8, <2>9, <2>10, <2>11 DEF Near
<1>7. CASE engine.kind = "musetalk"
  <2>1. PICK rate \in Nat : engine.rate = rate /\ rate # 0
    BY <1>1, UnderwayTypes
  <2>2. PICK d : Encoded = d
    OBVIOUS
  <2>3. Animated(d)
    BY <1>1, <1>7, <2>2 DEF RenderInv, ClipOfWindow
  <2>4. d = [voice |-> Audio.voice, first |-> 16 * from * rate, bin |-> 16000, per |-> rate,
             frames |-> FrameOf(HeardOf(from, to, D), rate),
             rows |-> FrameOf(HeardOf(from, to, D), rate)]
    <3>1. Encoded = Features(Audio, from, to, rate) /\ Audio.ms = D
      BY <1>2, <2>1 DEF Encoded
    <3>. QED
      BY <2>2, <3>1, FeatureRows
  <2>5. d.rows \in Nat
    <3>1. PICK x \in Nat : HeardOf(from, to, D) = x
      BY DEF HeardOf, EndOf
    <3>2. FrameOf(x, rate) \in Nat
      BY FrameOfIs
    <3>. QED
      BY <2>4, <3>1, <3>2
  <2>6. RowAt(d, 0) = from /\ Near(RowAt(d, d.rows), EndOf(to, D), rate, 0)
    <3>1. from <= to
      BY <1>3 DEF SomeWindow
    <3>. QED
      BY <1>3, <2>1, <2>4, <3>1, FeatureEnds
  <2>7. clip.rows = Upto(0, d.rows) /\ Len(clip.rows) = d.rows
    BY <2>3, <2>5, UptoIs DEF Animated
  <2>8. \A k : At(k) = RowAt(d, k)
    BY <2>3 DEF Animated, At, RowAt
  <2>9. Rate = rate /\ (\A k : Behind(k) = 0) /\ 1000 \div rate \in Nat
    BY <1>7, <2>1 DEF Rate, Behind
  <2>10. from - from \in -(1000 \div rate + 1 + 0) .. 1000 \div rate + 1
    BY <2>9
  <2>. QED
    BY <1>2, <1>4, <2>6, <2>7, <2>8, <2>9, <2>10 DEF Near
<1>. QED
  BY <1>1, <1>6, <1>7, UnderwayTypes DEF Kinds

\* What is refused, or made blank, has less than a row.
LEMMA RefusedIsShort ==
    ASSUME RenderInv, VoiceInv,
           \/ pc = "drive" /\ Current /\ Driving.rows < Driving.frames
           \/ pc = "rendered" /\ ~engine.mock /\ clip # NoClip /\ ~Speaking
    PROVE  window.from + 1000 \div Rate >= Audio.ms
<1>1. pc # "idle" /\ pc \in {"drive", "rendered"}
  OBVIOUS
<1>2. PICK D \in Nat, f \in Nat, from \in Nat, to \in Nat :
          Audio.ms = D /\ job.fps = f /\ window.from = from /\ window.to = to
  BY <1>1, UnderwayTypes, WindowUnderway
<1>3. SomeWindow(from, to, D) /\ D # 0 /\ f # 0
  BY <1>1, <1>2, UnderwayTypes, WindowUnderway
<1>4. CASE pc = "drive" /\ Current /\ Driving.rows < Driving.frames
  <2>1. engine.kind = "liveportrait" /\ signals[Key] # NoSignals
    BY <1>4 DEF RenderInv, StepOfKind
  <2>2. Rate = f /\ 1000 \div f \in Nat
    BY <1>2, <1>3, <2>1 DEF Rate
  <2>3. CASE from < D
    <3>1. PICK d, s : Driving = d /\ signals[Key] = s
      OBVIOUS
    <3>2. RowsOfWindow(d, s, D, f, from, to)
      BY <1>1, <1>2, <1>4, <2>1, <2>3, <3>1, DrivingOfWindow
    <3>3. d.rows # d.frames
      BY <1>4, <3>1, <3>2 DEF RowsOfWindow
    <3>. QED
      BY <1>2, <2>2, <3>2, <3>3 DEF RowsOfWindow
  <2>. QED
    BY <1>2, <2>2, <2>3
<1>5. CASE pc = "rendered" /\ ~engine.mock /\ clip # NoClip /\ ~Speaking
  <2>1. clip.voice = 0
    BY <1>5 DEF Speaking
  <2>2. engine.kind \in Kinds /\ Audio.voice # 0
    BY <1>1, UnderwayTypes
  <2>3. engine.kind = "musetalk"
    <3>1. ASSUME engine.kind = "liveportrait" PROVE FALSE
      <4>1. signals[Key] # NoSignals /\ Animated(Driving) /\ Key \in Keys
        BY <1>1, <1>5, <3>1, UnderwayTypes DEF RenderInv, ClipOfWindow
      <4>2. Driving.voice = signals[Key].voice
        BY <4>1, SliceVoice DEF Driving, VoiceInv
      <4>. QED
        BY <2>1, <4>1, <4>2 DEF Animated, RenderInv, KeptWhole
    <3>. QED
      BY <2>2, <3>1 DEF Kinds
  <2>4. PICK rate \in Nat : engine.rate = rate /\ rate # 0
    BY <1>1, UnderwayTypes
  <2>5. Encoded = [voice |-> Audio.voice, first |-> 16 * from * rate, bin |-> 16000,
                   per |-> rate, frames |-> FrameOf(HeardOf(from, to, D), rate),
                   rows |-> FrameOf(HeardOf(from, to, D), rate)]
    <3>1. Encoded = Features(Audio, from, to, rate) /\ Audio.ms = D
      BY <1>2, <2>4 DEF Encoded
    <3>. QED
      BY <3>1, FeatureRows
  <2>6. FrameOf(HeardOf(from, to, D), rate) = 0
    BY <1>5, <2>1, <2>2, <2>3, <2>5 DEF RenderInv, ClipOfWindow, Animated
  <2>7. from + 1000 \div rate >= D
    BY <1>3, <2>4, <2>6, NothingHeard
  <2>. QED
    BY <1>2, <2>3, <2>4, <2>7 DEF Rate
<1>. QED
  BY <1>4, <1>5

LEMMA RowsAreShown ==
    ASSUME RenderInv, VoiceInv
    PROVE  EveryRowShown
  BY ClipEnds, RefusedIsShort DEF EveryRowShown

-----------------------------------------------------------------------------
(* The picture and the lips.                                                 *)

\* Frame k of a video of at least the rate of its rows, no more than a tenth of
\* a second shorter than the audio, shows a row of its own moment.
LongEnough(D, tf, x) == D * tf <= 1000 * x + 100 * tf

Enough(D, f, k, P, x) == (k = 0 /\ P = 0) \/ 1000 * x <= D * f + 500

InTime(P, k, tf, lag) ==
    P - (k * 1000) \div tf \in -(1000 \div tf + 1 + lag) .. 101 + 1000 \div tf

LEMMA InStep ==
    ASSUME NEW f \in Nat, f # 0, NEW tf \in Nat, f <= tf, NEW k \in Nat,
           NEW P \in Nat, NEW lag \in Nat, Placed(f, k, P, lag),
           NEW x \in Nat, k < x, NEW D \in Nat, LongEnough(D, tf, x), Enough(D, f, k, P, x)
    PROVE  InTime(P, k, tf, lag)
<1>0. D * tf <= 1000 * x + 100 * tf /\ ((k = 0 /\ P = 0) \/ 1000 * x <= D * f + 500)
  BY DEF LongEnough, Enough
<1>1. PICK a \in Nat, ref \in Nat : k * 1000 = a /\ a \div tf = ref
  <2>1. PICK a \in Nat : k * 1000 = a
    OBVIOUS
  <2>2. a \div tf \in Nat
    BY DivIs
  <2>. QED
    BY <2>1, <2>2
<1>2. ref * tf <= a /\ a < ref * tf + tf /\ tf # 0
  BY <1>1, DivIs
<1>3. 1000 \div tf \in Nat
  BY <1>2
<1>4. PICK b \in Nat : P + 1 + lag = b
  OBVIOUS
<1>5. ref - b <= 1000 \div tf
  <2>1. b * f <= b * tf
    BY TimesMono
  <2>2. a - 500 < b * f /\ b * f \in Nat /\ b * tf \in Nat
    BY <1>1, <1>4 DEF Placed
  <2>3. (ref - b) * tf = ref * tf - b * tf /\ ref * tf \in Nat
    BY <1>1, <1>4
  <2>4. PICK z \in Int, c \in Nat : ref - b = z /\ 1000 = c
    BY <1>1, <1>4
  <2>5. z \in Int /\ c \in Nat /\ z * tf <= c
    BY <1>2, <2>1, <2>2, <2>3, <2>4
  <2>6. z <= c \div tf
    BY <1>2, <2>5, LeqDiv
  <2>. QED
    BY <2>4, <2>6
<1>6. P * tf <= a + 100 * tf + 1000
  <2>1. CASE k = 0 /\ P = 0
    BY <1>1, <2>1
  <2>2. CASE 1000 * x <= D * f + 500
    <3>0. D * tf <= 1000 * x + 100 * tf
      BY <1>0
    <3>1. PICK e \in Nat : tf = f + e
      <4>1. tf - f \in Nat /\ tf = f + (tf - f)
        OBVIOUS
      <4>. QED
        BY <4>1
    <3>2. PICK De \in Nat, Df \in Nat, ke \in Nat, kf \in Nat, ef \in Nat, ff \in Nat :
              D * e = De /\ D * f = Df /\ a * e = ke /\ a * f = kf /\ e * f = ef /\ f * f = ff
      <4>1. /\ D * e \in Nat /\ D * f \in Nat /\ a * e \in Nat /\ a * f \in Nat
            /\ e * f \in Nat /\ f * f \in Nat
        BY <1>1
      <4>. QED
        BY <4>1
    <3>3. De <= 100 * f + 100 * e + 500
      <4>1. D * tf = Df + De
        BY <3>1, <3>2
      <4>. QED
        BY <2>2, <3>0, <3>1, <3>2, <4>1
    <3>4. a + 500 <= Df
      BY <1>1, <2>2, <3>2
    <3>5. ke + 500 * e <= Df * e
      <4>1. PICK m \in Nat : a + 500 = m
        BY <1>1
      <4>2. m * e <= Df * e
        BY <3>4, <4>1, TimesMono
      <4>3. m * e = ke + 500 * e
        BY <1>1, <3>2, <4>1
      <4>. QED
        BY <4>2, <4>3
    <3>6. Df * e <= 100 * ff + 100 * ef + 500 * f
      <4>1. PICK m \in Nat : 100 * f + 100 * e + 500 = m
        OBVIOUS
      <4>2. De * f <= m * f
        BY <3>3, <4>1, TimesMono
      <4>3. m * f = 100 * ff + 100 * ef + 500 * f
        BY <3>2, <4>1
      <4>4. De * f = Df * e
        BY <3>2
      <4>. QED
        BY <4>2, <4>3, <4>4
    <3>7. (P * tf) * f <= kf + ke + 500 * tf
      <4>1. PICK y \in Nat, w \in Nat : P * f = y /\ a + 500 = w
        BY <1>1
      <4>2. y <= w
        BY <1>1, <4>1 DEF Placed
      <4>3. y * tf <= w * tf
        BY <4>2, TimesMono
      <4>4. y * tf = (P * tf) * f
        BY <4>1
      <4>5. w * tf = kf + ke + 500 * tf
        BY <1>1, <3>1, <3>2, <4>1
      <4>. QED
        BY <4>3, <4>4, <4>5
    <3>8. PICK u \in Nat, v \in Nat : P * tf = u /\ a + 100 * tf + 1000 = v
      BY <1>1
    <3>9. v * f = kf + 100 * ff + 100 * ef + 1000 * f
      <4>1. v = a + 100 * f + 100 * e + 1000
        BY <3>1, <3>8
      <4>. QED
        BY <1>1, <3>2, <4>1
    <3>10. u * f <= v * f
      BY <3>1, <3>5, <3>6, <3>7, <3>8, <3>9
    <3>11. u <= v
      BY <3>10, Cancel
    <3>. QED
      BY <3>8, <3>11
  <2>. QED
    BY <1>0, <2>1, <2>2
<1>7. P - ref - 101 <= 1000 \div tf
  <2>1. PICK z \in Int, c \in Nat : P - ref - 101 = z /\ 1000 = c
    BY <1>1
  <2>2. z * tf = P * tf - ref * tf - 101 * tf /\ P * tf \in Nat /\ ref * tf \in Nat
    BY <1>1, <2>1
  <2>3. z \in Int /\ c \in Nat /\ z * tf <= c
    BY <1>1, <1>2, <1>6, <2>1, <2>2
  <2>4. z <= c \div tf
    BY <1>2, <2>3, LeqDiv
  <2>. QED
    BY <2>1, <2>4
<1>. QED
  BY <1>1, <1>3, <1>4, <1>5, <1>7 DEF InTime

\* Two rows further is two rows later.
LEMMA OneRowOn ==
    ASSUME NEW a \in Nat, NEW bin \in Nat, NEW d \in Nat, d # 0
    PROVE  /\ (a + bin) \div d - a \div d \in 0 .. bin \div d + 1
           /\ a \div d \in Nat /\ bin \div d \in Nat
<1>1. PICK p \in Nat, q \in Nat, w \in Nat :
          a \div d = p /\ (a + bin) \div d = q /\ bin \div d = w
  <2>1. PICK y \in Nat : a + bin = y
    OBVIOUS
  <2>2. a \div d \in Nat /\ y \div d \in Nat /\ bin \div d \in Nat
    BY DivIs
  <2>. QED
    BY <2>1, <2>2
<1>2. p * d <= a /\ a < p * d + d
  BY <1>1, DivIs
<1>3. q * d <= a + bin /\ a + bin < q * d + d
  <2>1. PICK y \in Nat : a + bin = y
    OBVIOUS
  <2>2. (y \div d) * d <= y /\ y < (y \div d) * d + d
    BY DivIs
  <2>. QED
    BY <1>1, <2>1, <2>2
<1>4. w * d <= bin /\ bin < w * d + d
  BY <1>1, DivIs
<1>5. p < q + 1
  <2>1. PICK y \in Int : q + 1 = y
    OBVIOUS
  <2>2. y * d = q * d + d /\ p * d \in Nat /\ q * d \in Nat
    BY <2>1
  <2>3. p * d < y * d
    BY <1>2, <1>3, <2>2
  <2>4. p < y
    BY <2>3, Cancel
  <2>. QED
    BY <2>1, <2>4
<1>6. q < p + w + 2
  <2>1. PICK y \in Int : p + w + 2 = y
    OBVIOUS
  <2>2. y * d = p * d + w * d + 2 * d /\ p * d \in Nat /\ q * d \in Nat /\ w * d \in Nat
    BY <2>1
  <2>3. q * d < y * d
    BY <1>2, <1>3, <1>4, <2>2
  <2>4. q < y
    BY <2>3, Cancel
  <2>. QED
    BY <2>1, <2>4
<1>. QED
  BY <1>1, <1>5, <1>6

LEMMA RowsApart ==
    ASSUME NEW d, d.first \in Nat, d.bin \in Nat, d.per \in Nat, d.per # 0,
           NEW k \in Nat, NEW r \in Nat, r - k \in -2 .. 2
    PROVE  /\ RowAt(d, r) - RowAt(d, k)
                \in -(2 * (d.bin \div (16 * d.per) + 1)) .. 2 * (d.bin \div (16 * d.per) + 1)
           /\ RowAt(d, k) \in Nat /\ d.bin \div (16 * d.per) \in Nat
<1>1. PICK first \in Nat, bin \in Nat, h \in Nat :
          d.first = first /\ d.bin = bin /\ 16 * d.per = h /\ h # 0
  OBVIOUS
<1>2. PICK w \in Nat : bin \div h = w
  <2>1. bin \div h \in Nat
    BY <1>1, DivIs
  <2>. QED
    BY <2>1
<1>3. ASSUME NEW j \in Nat
      PROVE  /\ RowAt(d, j) \in Nat
             /\ RowAt(d, j + 1) - RowAt(d, j) \in 0 .. w + 1
  <2>1. PICK a \in Nat : first + j * bin = a
    OBVIOUS
  <2>2. first + (j + 1) * bin = a + bin
    BY <2>1
  <2>3. RowAt(d, j) = a \div h /\ RowAt(d, j + 1) = (a + bin) \div h
    BY <1>1, <2>1, <2>2 DEF RowAt
  <2>4. (a + bin) \div h - a \div h \in 0 .. bin \div h + 1 /\ a \div h \in Nat
    BY <1>1, OneRowOn
  <2>. QED
    BY <1>2, <2>3, <2>4
<1>4. ASSUME NEW j \in Nat
      PROVE  RowAt(d, j + 2) - RowAt(d, j) \in 0 .. 2 * (w + 1)
  <2>1. PICK m \in Nat : j + 1 = m /\ j + 2 = m + 1
    OBVIOUS
  <2>2. RowAt(d, m + 1) - RowAt(d, m) \in 0 .. w + 1 /\ RowAt(d, m) \in Nat
    BY <1>3
  <2>3. RowAt(d, j + 1) - RowAt(d, j) \in 0 .. w + 1 /\ RowAt(d, j) \in Nat
    BY <1>3
  <2>4. RowAt(d, m + 1) \in Nat
    BY <1>3, <2>1
  <2>. QED
    BY <2>1, <2>2, <2>3, <2>4
<1>5. RowAt(d, r) \in Nat /\ RowAt(d, k) \in Nat
  BY <1>3
<1>6. RowAt(d, r) - RowAt(d, k) \in -(2 * (w + 1)) .. 2 * (w + 1)
  <2>1. r = k \/ r = k + 1 \/ r = k + 2 \/ k = r + 1 \/ k = r + 2
    OBVIOUS
  <2>2. CASE r = k
    BY <1>5, <2>2
  <2>3. CASE r = k + 1
    <3>1. RowAt(d, k + 1) - RowAt(d, k) \in 0 .. w + 1
      BY <1>3
    <3>. QED
      BY <1>5, <2>3, <3>1
  <2>4. CASE r = k + 2
    <3>1. RowAt(d, k + 2) - RowAt(d, k) \in 0 .. 2 * (w + 1)
      BY <1>4
    <3>. QED
      BY <1>5, <2>4, <3>1
  <2>5. CASE k = r + 1
    <3>1. RowAt(d, r + 1) - RowAt(d, r) \in 0 .. w + 1
      BY <1>3
    <3>. QED
      BY <1>5, <2>5, <3>1
  <2>6. CASE k = r + 2
    <3>1. RowAt(d, r + 2) - RowAt(d, r) \in 0 .. 2 * (w + 1)
      BY <1>4
    <3>. QED
      BY <1>5, <2>6, <3>1
  <2>. QED
    BY <2>1, <2>2, <2>3, <2>4, <2>5, <2>6
<1>. QED
  BY <1>1, <1>2, <1>5, <1>6

\* Which rows a row is averaged with.
LEMMA ReachIs ==
    ASSUME NEW n \in Nat, NEW k \in Nat, k < n, NEW backend,
           NEW r \in Reach([rows |-> n], k, backend)
    PROVE  /\ r \in Nat /\ r - k \in -2 .. 2
           /\ backend # "neural" => r = k
<1>1. CASE backend = "neural" /\ n > 5
  <2>1. PICK d \in -2 .. 2 : r = Clip(k + d, 0, n - 1)
    BY <1>1 DEF Reach
  <2>2. PICK y \in Int, w \in Int, z \in Int : k + d = y /\ n - 1 = w /\ 0 = z
    OBVIOUS
  <2>3. PICK m \in Int : Min({y, w}) = m /\ m = IF y <= w THEN y ELSE w
    BY MinOfTwo
  <2>4. Max({z, m}) = IF z >= m THEN z ELSE m
    BY MaxOfTwo
  <2>5. r = Max({0, Min({y, w})})
    BY <2>1, <2>2 DEF Clip
  <2>6. r = IF z >= m THEN z ELSE m
    BY <2>2, <2>3, <2>4, <2>5
  <2>. QED
    BY <1>1, <2>2, <2>3, <2>6
<1>2. CASE ~(backend = "neural" /\ n > 5)
  <2>1. r = k
    BY <1>2 DEF Reach
  <2>. QED
    BY <2>1
<1>. QED
  BY <1>1, <1>2

\* Where the rows of a clip of a file's beginning are: the place of row k, how
\* far behind it may be, and how many rows there are for its D ms at f rows in a
\* second.
Shown(D, f, k, place, lag, n) ==
    /\ place \in Nat /\ lag \in Nat /\ Placed(f, k, place, lag)
    /\ (k = 0 /\ place = 0) \/ 1000 * n <= D * f + 500

LEMMA FirstFrame ==
    ASSUME NEW f \in Nat
    PROVE  FrameOf(0, f) = 0
<1>1. 0 * f = 0 /\ 0 \div 1000 = 0 /\ (0 % 1000) = 0
  OBVIOUS
<1>. QED
  BY <1>1 DEF FrameOf, Nearest

LEMMA BeginningShown ==
    ASSUME NEW s, NEW D \in Nat, D # 0, NEW f \in Nat, f # 0,
           NEW backend, AllRows(s, D, f, backend), NEW to, SomeWindow(0, to, D),
           NEW d, RowsOfWindow(d, s, D, f, 0, to), d.rows = d.frames,
           NEW k \in Nat, k < d.rows
    PROVE  Shown(D, f, k, RowAt(d, k), Lag(k, f, backend), d.rows)
<1>1. PICK bin \in Nat, per \in Nat : s.bin = bin /\ s.per = per /\ per # 0
  BY DEF AllRows
<1>2. PICK n \in Nat : d.rows = n /\ k \in 0 .. n
  BY DEF RowsOfWindow
<1>3. FrameOf(0, f) = 0
  BY FirstFrame
<1>4. d.bin = bin /\ d.per = per /\ d.first = 0
  BY <1>1, <1>3 DEF RowsOfWindow
<1>5. RowAt(d, k) = PlaceOf(k, bin, per)
  <2>1. 0 + k * bin = k * bin
    BY <1>1
  <2>. QED
    BY <1>4, <2>1 DEF RowAt, PlaceOf
<1>6. PICK place \in Nat, lag \in Nat :
          PlaceOf(k, bin, per) = place /\ Lag(k, f, backend) = lag /\ (k = 0 => place = 0)
  <2>1. PlaceOf(k, bin, per) \in Nat /\ Lag(k, f, backend) \in Nat
    BY <1>1, PlaceNat, LagNat
  <2>2. k = 0 => PlaceOf(k, bin, per) = 0
    BY <1>1, PlaceNat
  <2>. QED
    BY <2>1, <2>2
<1>7. PICK F \in Nat : /\ s.frames = F /\ (F = FrameOf(D, f) \/ (F = 1 /\ FrameOf(D, f) = 0))
                       /\ \A j \in 0 .. F : j = 0 \/ F = FrameOf(D, f) =>
                             Placed(f, j, PlaceOf(j, bin, per), Lag(j, f, backend))
  BY <1>1 DEF AllRows
<1>8. CASE FrameOf(D, f) = 0
  <2>1. k = 0 /\ k \in 0 .. F
    BY <1>2, <1>7, <1>8 DEF RowsOfWindow
  <2>2. Placed(f, k, place, lag)
    BY <1>6, <1>7, <2>1
  <2>. QED
    BY <1>2, <1>5, <1>6, <2>1, <2>2 DEF Shown
<1>9. CASE FrameOf(D, f) # 0
  <2>1. n <= F /\ k \in 0 .. F /\ F = FrameOf(D, f)
    BY <1>2, <1>3, <1>7, <1>9 DEF RowsOfWindow
  <2>2. Placed(f, k, place, lag)
    BY <1>6, <1>7, <2>1
  <2>3. 1000 * n <= D * f + 500
    <3>1. 2000 * FrameOf(D, f) <= 2 * (D * f) + 1000 /\ D * f \in Nat
      BY FrameOfIs
    <3>. QED
      BY <2>1, <3>1
  <2>. QED
    BY <1>2, <1>5, <1>6, <2>2, <2>3 DEF Shown
<1>. QED
  BY <1>8, <1>9

LEMMA LenOfUpto ==
    ASSUME NEW n \in Nat
    PROVE  Len(Upto(0, n)) = n /\ Upto(0, n) = [k \in 1 .. n |-> k - 1]
<1>1. Upto(0, n) = [k \in 1 .. n |-> k - 1] /\ Len(Upto(0, n)) = n
  BY UptoIs
<1>. QED
  BY <1>1

LEMMA FeaturesShown ==
    ASSUME NEW f \in Nat, f # 0, NEW D \in Nat, NEW to \in Nat, NEW d, d.first = 0,
           d.bin = 16000, d.per = f, d.rows = FrameOf(HeardOf(0, to, D), f),
           NEW k \in Nat
    PROVE  Shown(D, f, k, RowAt(d, k), 0, d.rows)
<1>1. PICK from \in Nat : 0 = from
  OBVIOUS
<1>2. RowAt(d, k) = FeatureAt(k, f) /\ FeatureAt(k, f) \in Nat
  <2>1. d.first = 16 * from * f
    BY <1>1
  <2>2. RowAt(d, k) = from + FeatureAt(k, f)
    BY <2>1, FeatureRowAt
  <2>3. FeatureAt(k, f) \in Nat
    <3>1. PICK place : FeatureAt(k, f) = place
      OBVIOUS
    <3>. QED
      BY <3>1, FeaturePlaced
  <2>. QED
    BY <1>1, <2>2, <2>3
<1>3. PICK place \in Nat : FeatureAt(k, f) = place /\ Placed(f, k, place, 0)
  <2>1. PICK place : FeatureAt(k, f) = place
    OBVIOUS
  <2>. QED
    BY <1>2, <2>1, FeaturePlaced
<1>4. PICK x \in Nat : HeardOf(0, to, D) = x /\ x <= D
  BY DEF HeardOf, EndOf
<1>5. 1000 * FrameOf(x, f) <= D * f + 500
  <2>1. FrameOf(x, f) \in Nat /\ 2000 * FrameOf(x, f) <= 2 * (x * f) + 1000
    BY FrameOfIs
  <2>2. x * f <= D * f /\ x * f \in Nat /\ D * f \in Nat
    BY <1>4, TimesMono
  <2>. QED
    BY <2>1, <2>2
<1>. QED
  BY <1>2, <1>3, <1>4, <1>5 DEF Shown

\* The rows of the clip of a cached avatar.
LEMMA ClipShown ==
    ASSUME RenderInv, VoiceInv, Speaking, Current, RealWindow, job.kind = "cached",
           engine.kind = "musetalk" => engine.rate = job.fps
    PROVE  /\ Len(clip.rows) \in Nat /\ clip.rows = Upto(0, Len(clip.rows))
           /\ \A k \in 0 .. Len(clip.rows) - 1 :
                 Shown(Audio.ms, job.fps, k, At(k), Behind(k), Len(clip.rows))
<1>1. pc # "idle" /\ clip.voice # 0
  BY DEF Speaking
<1>2. PICK D \in Nat, f \in Nat, to \in Nat :
          Audio.ms = D /\ job.fps = f /\ window.to = to
  BY <1>1, UnderwayTypes, WindowUnderway
<1>3. window.from = 0 /\ SomeWindow(0, to, D) /\ D # 0 /\ f # 0
  <2>1. window.from = 0
    BY DEF RealWindow
  <2>. QED
    BY <1>1, <1>2, <2>1, UnderwayTypes, WindowUnderway
<1>4. \A k : At(k) = RowAt(clip, k)
  BY DEF At, RowAt
<1>5. CASE engine.kind = "liveportrait"
  <2>1. PICK d, s : Driving = d /\ signals[Key] = s
    OBVIOUS
  <2>2. s # NoSignals /\ d.rows = d.frames /\ Animated(d)
    BY <1>5, <2>1 DEF RenderInv, ClipOfWindow
  <2>3. RowsOfWindow(d, s, D, f, 0, to)
    <3>1. window.from < Audio.ms
      BY <1>2, <1>3
    <3>2. RowsOfWindow(Driving, signals[Key], Audio.ms, job.fps, window.from, window.to)
      BY <1>1, <2>1, <2>2, <3>1, DrivingOfWindow
    <3>. QED
      BY <1>2, <1>3, <2>1, <3>2
  <2>4. AllRows(s, D, f, engine.backend)
    BY <1>1, <1>2, <2>1, <2>2, KeptRows
  <2>5. PICK n \in Nat : d.rows = n
    BY <2>3 DEF RowsOfWindow
  <2>6. clip.rows = Upto(0, n) /\ Len(clip.rows) = n
    <3>1. clip.rows = Upto(0, n)
      BY <2>2, <2>5 DEF Animated
    <3>. QED
      BY <3>1, LenOfUpto
  <2>7. \A k : At(k) = RowAt(d, k) /\ Behind(k) = Lag(k, f, engine.backend)
    BY <1>2, <1>5, <2>2 DEF Animated, At, RowAt, Behind, Lag, Short
  <2>8. ASSUME NEW k \in 0 .. n - 1
        PROVE  Shown(D, f, k, RowAt(d, k), Lag(k, f, engine.backend), n)
    <3>1. k \in Nat /\ k < d.rows
      BY <2>5
    <3>. QED
      BY <1>3, <2>2, <2>3, <2>4, <2>5, <3>1, BeginningShown
  <2>. QED
    BY <1>2, <2>6, <2>7, <2>8
<1>6. CASE engine.kind = "musetalk"
  <2>1. engine.rate = f
    BY <1>2, <1>6
  <2>2. PICK d : Encoded = d
    OBVIOUS
  <2>3. Animated(d)
    BY <1>1, <1>6, <2>2 DEF RenderInv, ClipOfWindow
  <2>4. PICK z \in Nat : 0 = z
    OBVIOUS
  <2>5. d = [voice |-> Audio.voice, first |-> 16 * z * f, bin |-> 16000, per |-> f,
             frames |-> FrameOf(HeardOf(z, to, D), f),
             rows |-> FrameOf(HeardOf(z, to, D), f)]
    <3>1. Encoded = Features(Audio, z, to, f) /\ Audio.ms = D
      BY <1>2, <1>3, <2>1, <2>4 DEF Encoded
    <3>. QED
      BY <2>2, <3>1, FeatureRows
  <2>6. /\ d.first = 0 /\ d.bin = 16000 /\ d.per = f
        /\ d.rows = FrameOf(HeardOf(0, to, D), f)
    BY <2>4, <2>5
  <2>7. PICK n \in Nat : d.rows = n
    <3>1. PICK x \in Nat : HeardOf(0, to, D) = x
      BY DEF HeardOf, EndOf
    <3>2. FrameOf(x, f) \in Nat
      BY FrameOfIs
    <3>. QED
      BY <2>6, <3>1, <3>2
  <2>8. clip.rows = Upto(0, n) /\ Len(clip.rows) = n
    <3>1. clip.rows = Upto(0, n)
      BY <2>3, <2>7 DEF Animated
    <3>. QED
      BY <3>1, LenOfUpto
  <2>9. \A k : At(k) = RowAt(d, k) /\ Behind(k) = 0
    BY <1>6, <2>3 DEF Animated, At, RowAt, Behind
  <2>10. ASSUME NEW k \in 0 .. n - 1
         PROVE  Shown(D, f, k, RowAt(d, k), 0, n)
    BY <1>3, <2>6, <2>7, FeaturesShown
  <2>. QED
    BY <1>2, <2>8, <2>9, <2>10
<1>. QED
  BY <1>1, <1>5, <1>6, UnderwayTypes DEF Kinds

\* A composite has no more frames than the clip.
LEMMA CompositeLength ==
    ASSUME matched \in [{"body", "mask", "neck", "boxes"} -> Streams], Len(clip.rows) \in Nat
    PROVE  /\ CompositeFrames(matched, clip) \in Nat
           /\ CompositeFrames(matched, clip) <= Len(clip.rows)
<1>. DEFINE S == {matched.boxes.has, matched.body.has, Len(clip.rows), matched.mask.has,
                  matched.neck.has}
<1>1. S \in SUBSET Nat /\ Len(clip.rows) \in S
  BY DEF Streams
<1>2. Min(S) \in S /\ \A y \in S : Min(S) <= y
  <2>. HIDE DEF S
  <2>. QED
    BY <1>1, MinNat
<1>3. CompositeFrames(matched, clip) = Min(S)
  BY DEF CompositeFrames
<1>. HIDE DEF S
<1>. QED
  BY <1>1, <1>2, <1>3

\* What the quality control compares is not longer than the composite.
LEMMA MuxedNat ==
    ASSUME NEW x \in Nat, NEW D \in Nat, NEW tf \in Nat
    PROVE  Muxed(x, tf, D) \in Nat /\ Muxed(x, tf, D) <= x
<1>1. PICK c : (D * tf + 999) \div 1000 = c
  OBVIOUS
<1>2. c \in Nat
  <2>1. PICK y \in Nat : D * tf + 999 = y
    OBVIOUS
  <2>. QED
    BY <1>1, <2>1
<1>3. Min({x, c}) = IF x <= c THEN x ELSE c
  BY <1>2, MinOfTwo
<1>4. Muxed(x, tf, D) = Min({x, c})
  BY <1>1 DEF Muxed
<1>. QED
  BY <1>2, <1>3, <1>4

LEMMA MuxedLength ==
    ASSUME NEW x \in Nat, NEW D \in Nat, NEW tf \in Nat,
           Away(Muxed(x, tf, D) * 1000, D * tf) <= 100 * tf
    PROVE  D * tf <= 1000 * x + 100 * tf
<1>3. PICK m \in Nat : Muxed(x, tf, D) = m /\ m <= x
  BY MuxedNat
<1>4. PICK a \in Nat, b \in Nat : m * 1000 = a /\ D * tf = b
  OBVIOUS
<1>5. Max({a, b}) = (IF a >= b THEN a ELSE b) /\ Min({a, b}) = IF a <= b THEN a ELSE b
  BY MaxOfTwo, MinOfTwo
<1>6. Away(a, b) >= b - a
  BY <1>5 DEF Away
<1>7. Away(a, b) <= 100 * tf
  BY <1>3, <1>4
<1>8. Away(a, b) \in Int
  BY <1>5 DEF Away
<1>. QED
  BY <1>3, <1>4, <1>6, <1>7, <1>8

\* Streams of one length keep in step, whatever was done to the template.
LEMMA StreamsInStep ==
    ASSUME NEW t, NEW ms, NEW m, m = Matched(t, ms), NEW k,
           t.body = t.mask, t.mask = t.neck, t.neck = t.boxes
    PROVE  LET c == Composed(t, m, k) IN c.body = c.mask /\ c.mask = c.neck /\ c.neck = c.box
<1>1. m.body = m.mask /\ m.mask = m.neck /\ m.neck = m.boxes
  BY DEF Matched
<1>. QED
  BY <1>1 DEF Composed, Picture, Box

\* Every frame of a video that passed shows its own moment, and its own picture.
LEMMA PicturesAreInStep ==
    ASSUME RenderInv, VoiceInv
    PROVE  PictureInStep
<1>. DEFINE t == job.template
            frame == 1000 \div t.fps + 1
            smooth == IF engine.backend = "neural" THEN 2 * RowMs ELSE 0
<1>. SUFFICES ASSUME pc = "done", verdict.status = "COMPLETED", "lengths" \in verdict.probes,
                     Speaking, Current, t.fps >= job.fps,
                     engine.kind = "musetalk" => engine.rate = job.fps,
                     NEW k \in 0 .. frames - 1, NEW c, c = Composed(t, matched, k)
              PROVE  /\ c.face # -1 =>
                            \A r \in Reach([rows |-> Len(clip.rows)], clip.rows[c.face + 1],
                                           engine.backend) :
                                At(r) - (k * 1000) \div t.fps
                                    \in -(frame + smooth + Behind(k))
                                          .. Tolerance + frame + smooth
                     /\ t.body = t.mask /\ t.mask = t.neck /\ t.neck = t.boxes =>
                            c.body = c.mask /\ c.mask = c.neck /\ c.neck = c.box
  BY DEF PictureInStep
<1>1. /\ job.kind = "cached" /\ RealWindow
      /\ frames = CompositeFrames(matched, clip)
      /\ Away(Muxed(frames, t.fps, Audio.ms) * 1000, Audio.ms * t.fps) <= Tolerance * t.fps
  BY DEF RenderInv, Compared
<1>2. PICK ms : matched = Matched(t, ms)
  BY DEF RenderInv, Compared
<1>3. t.body = t.mask /\ t.mask = t.neck /\ t.neck = t.boxes =>
          c.body = c.mask /\ c.mask = c.neck /\ c.neck = c.box
  BY <1>2, StreamsInStep
<1>4. /\ Len(clip.rows) \in Nat /\ clip.rows = Upto(0, Len(clip.rows))
      /\ \A j \in 0 .. Len(clip.rows) - 1 :
            Shown(Audio.ms, job.fps, j, At(j), Behind(j), Len(clip.rows))
  BY <1>1, ClipShown
<1>5. PICK n \in Nat, x \in Nat : Len(clip.rows) = n /\ frames = x /\ x <= n
  <2>1. matched \in [{"body", "mask", "neck", "boxes"} -> Streams]
    BY DEF RenderInv, TypeOK
  <2>. QED
    BY <1>1, <1>4, <2>1, CompositeLength
<1>6. PICK D \in Nat, f \in Nat, tf \in Nat :
          Audio.ms = D /\ job.fps = f /\ t.fps = tf /\ f # 0 /\ f <= tf
  <2>1. t.fps \in Nat
    <3>1. job \in Jobs
      BY UnderwayTypes, RequestsAssumption
    <3>. QED
      BY <3>1 DEF Jobs, Templates
  <2>2. Audio.ms \in Nat /\ job.fps \in Nat /\ job.fps # 0
    BY UnderwayTypes
  <2>. QED
    BY <2>1, <2>2
<1>7. k \in Nat /\ k < x /\ k \in 0 .. n - 1
  BY <1>5
<1>8. D * tf <= 1000 * x + 100 * tf
  BY <1>1, <1>5, <1>6, MuxedLength DEF Tolerance
<1>9. PICK P \in Nat, lag \in Nat :
          /\ At(k) = P /\ Behind(k) = lag /\ Placed(f, k, P, lag)
          /\ (k = 0 /\ P = 0) \/ 1000 * n <= D * f + 500
  <2>1. Shown(D, f, k, At(k), Behind(k), n)
    BY <1>4, <1>5, <1>6, <1>7
  <2>. QED
    BY <2>1 DEF Shown
<1>10. P - (k * 1000) \div tf \in -(1000 \div tf + 1 + lag) .. 101 + 1000 \div tf
  <2>1. (k = 0 /\ P = 0) \/ 1000 * x <= D * f + 500
    <3>1. D * f \in Nat
      OBVIOUS
    <3>. QED
      BY <1>5, <1>9, <3>1
  <2>2. /\ f # 0 /\ f <= tf /\ k \in Nat /\ k < x /\ Placed(f, k, P, lag)
        /\ LongEnough(D, tf, x) /\ Enough(D, f, k, P, x)
    BY <1>6, <1>7, <1>8, <1>9, <2>1 DEF LongEnough, Enough
  <2>3. InTime(P, k, tf, lag)
    BY <2>2, InStep
  <2>. QED
    BY <2>3 DEF InTime
<1>11. ASSUME c.face # -1,
              NEW r \in Reach([rows |-> Len(clip.rows)], clip.rows[c.face + 1], engine.backend)
       PROVE  At(r) - (k * 1000) \div t.fps
                  \in -(frame + smooth + Behind(k)) .. Tolerance + frame + smooth
  <2>1. c.face = k
    BY <1>11 DEF Composed, FaceRead
  <2>2. clip.rows[k + 1] = k
    <3>1. ASSUME NEW m \in Nat, k < m PROVE Upto(0, m)[k + 1] = k
      <4>1. Upto(0, m) = [j \in 1 .. m |-> j - 1]
        BY <3>1, LenOfUpto
      <4>. QED
        BY <1>7, <3>1, <4>1
    <3>. QED
      BY <1>4, <1>5, <1>7, <3>1
  <2>3. r \in Reach([rows |-> n], k, engine.backend)
    BY <1>5, <1>11, <2>1, <2>2
  <2>4. r \in Nat /\ r - k \in -2 .. 2 /\ (engine.backend # "neural" => r = k)
    BY <1>5, <1>7, <2>3, ReachIs
  <2>5. clip.first \in Nat /\ clip.bin \in Nat /\ clip.per \in Nat /\ clip.per # 0
    BY DEF RenderInv, TypeOK, Clips
  <2>6. PICK w \in Nat : /\ RowMs = w + 1
                         /\ RowAt(clip, r) - RowAt(clip, k) \in -(2 * (w + 1)) .. 2 * (w + 1)
    <3>1. /\ RowAt(clip, r) - RowAt(clip, k)
                \in -(2 * (clip.bin \div (16 * clip.per) + 1))
                      .. 2 * (clip.bin \div (16 * clip.per) + 1)
          /\ clip.bin \div (16 * clip.per) \in Nat
      BY <1>7, <2>4, <2>5, RowsApart
    <3>. QED
      BY <3>1 DEF RowMs
  <2>7. At(r) = RowAt(clip, r) /\ At(k) = RowAt(clip, k) /\ RowAt(clip, r) \in Nat
    <3>1. RowAt(clip, r) \in Nat
      BY <2>4, <2>5, RowsApart
    <3>. QED
      BY <3>1 DEF At, RowAt
  <2>8. 1000 \div tf \in Nat /\ (k * 1000) \div tf \in Nat
    <3>1. PICK a \in Nat, b \in Nat : k * 1000 = a /\ 1000 = b
      BY <1>7
    <3>2. a \div tf \in Nat /\ b \div tf \in Nat
      BY <1>6, DivIs
    <3>. QED
      BY <3>1, <3>2
  <2>9. PICK ref \in Nat, g \in Nat, q \in Nat :
            (k * 1000) \div tf = ref /\ 1000 \div tf = g /\ RowAt(clip, r) = q
    BY <2>7, <2>8
  <2>10. P - ref \in -(g + 1 + lag) .. 101 + g
    BY <1>10, <2>9
  <2>11. CASE engine.backend = "neural"
    <3>1. q - P \in -(2 * (w + 1)) .. 2 * (w + 1)
      BY <1>9, <2>6, <2>7, <2>9
    <3>2. q - ref \in -((g + 1) + 2 * (w + 1) + lag) .. 100 + (g + 1) + 2 * (w + 1)
      BY <2>10, <3>1
    <3>3. smooth = 2 * (w + 1) /\ frame = g + 1
      BY <1>6, <2>6, <2>9, <2>11
    <3>. QED
      BY <1>6, <1>9, <2>7, <2>9, <3>2, <3>3 DEF Tolerance
  <2>12. CASE engine.backend # "neural"
    <3>1. q = P
      BY <1>9, <2>4, <2>7, <2>9, <2>12
    <3>2. q - ref \in -((g + 1) + 0 + lag) .. 100 + (g + 1) + 0
      BY <2>10, <3>1
    <3>3. smooth = 0 /\ frame = g + 1
      BY <1>6, <2>9, <2>12
    <3>. QED
      BY <1>6, <1>9, <2>7, <2>9, <3>2, <3>3 DEF Tolerance
  <2>. QED
    BY <2>11, <2>12
<1>. QED
  BY <1>3, <1>11

-----------------------------------------------------------------------------
(* The invariant is kept: what is made has its type.                         *)

\* Signals have a voice, a place for each row, and promise some rows.
Typed(s) ==
    /\ Fields(s) /\ s.voice \in Nat /\ s.first \in Nat /\ s.bin \in Nat /\ s.per \in Nat \ {0}
    /\ s.frames \in Nat /\ s.rows \in Nat

LEMMA NoSignalsTyped == Typed(NoSignals)
  BY DEF Typed, Fields, NoSignals

LEMMA FrameNat ==
    ASSUME NEW ms \in Nat, NEW f \in Nat
    PROVE  FrameOf(ms, f) \in Nat
  BY FrameOfIs

LEMMA DspTyped ==
    ASSUME NEW audio \in Audios, NEW to \in Nat, NEW f \in Nat, f # 0
    PROVE  Typed(Dsp(audio, 0, to, f))
<1>1. PICK F : Max({1, FrameOf(to, f)}) = F
  OBVIOUS
<1>2. F \in Nat /\ F # 0
  BY <1>1, RowCount
<1>3. Expected(0, to, f) = F
  <2>1. to - 0 = to
    OBVIOUS
  <2>. QED
    BY <1>1, <2>1 DEF Expected
<1>4. audio.voice \in Nat /\ audio.ms \in Nat
  BY DEF Audios
<1>5. PICK stop \in Nat : Min({to, audio.ms}) = stop
  <2>1. Min({to, audio.ms}) = IF to <= audio.ms THEN to ELSE audio.ms
    BY <1>4, MinOfTwo
  <2>. QED
    BY <1>4, <2>1
<1>6. PICK a \in Nat : 16 * (stop - 0) = a
  OBVIOUS
<1>7. PICK n \in Nat : WindowSamples(audio, 0, to, f) = n
  <2>1. PICK y \in Nat : F * 16000 = y
    BY <1>2
  <2>2. PICK b \in Nat : y \div f = b
    <3>1. y \div f \in Nat
      BY DivIs
    <3>. QED
      BY <3>1
  <2>3. Max({a, b}) = IF a >= b THEN a ELSE b
    BY MaxOfTwo
  <2>4. WindowSamples(audio, 0, to, f) =
            Max({16 * (Min({to, audio.ms}) - 0), (Expected(0, to, f) * 16000) \div f})
    BY DEF WindowSamples
  <2>5. (Expected(0, to, f) * 16000) \div f = b
    BY <1>3, <2>1, <2>2
  <2>6. 16 * (Min({to, audio.ms}) - 0) = a
    BY <1>5, <1>6
  <2>7. WindowSamples(audio, 0, to, f) = Max({a, b})
    <3>1. PICK m : WindowSamples(audio, 0, to, f) = m
      OBVIOUS
    <3>2. PICK p, r : p = 16 * (Min({to, audio.ms}) - 0) /\ r = (Expected(0, to, f) * 16000) \div f
      OBVIOUS
    <3>3. m = Max({p, r})
      BY <2>4, <3>1, <3>2
    <3>4. p = a /\ r = b
      BY <2>5, <2>6, <3>2
    <3>. QED
      BY <3>1, <3>3, <3>4
  <2>. QED
    BY <2>3, <2>7
<1>8. PICK bin \in Nat : Bin(WindowSamples(audio, 0, to, f), Expected(0, to, f)) = bin
  <2>1. PICK q \in Nat : n \div F = q
    <3>1. n \div F \in Nat
      BY <1>2, DivIs
    <3>. QED
      BY <3>1
  <2>2. PICK one \in Nat : one = 1
    OBVIOUS
  <2>3. Max({one, q}) = IF one >= q THEN one ELSE q
    BY MaxOfTwo
  <2>4. Bin(n, F) = Max({one, q})
    BY <2>1, <2>2 DEF Bin
  <2>. QED
    BY <1>3, <1>7, <2>3, <2>4
<1>9. Dsp(audio, 0, to, f) = [voice |-> audio.voice, first |-> 16 * 0, frames |-> F, rows |-> F,
                             bin |-> bin, per |-> 1]
  BY <1>3, <1>8 DEF Dsp
<1>. QED
  BY <1>2, <1>4, <1>9 DEF Typed, Fields

LEMMA NeuralTyped ==
    ASSUME NEW audio \in Audios, NEW to \in Nat, NEW f \in Nat, f # 0
    PROVE  Typed(Neural(audio, 0, to, f))
<1>1. PICK F : Max({1, FrameOf(to, f)}) = F
  OBVIOUS
<1>2. F \in Nat /\ F # 0
  BY <1>1, RowCount
<1>3. Expected(0, to, f) = F
  <2>1. to - 0 = to
    OBVIOUS
  <2>. QED
    BY <1>1, <2>1 DEF Expected
<1>4. audio.voice \in Nat /\ audio.ms \in Nat
  BY DEF Audios
<1>5. PICK stop \in Nat : Min({to, audio.ms}) = stop
  <2>1. Min({to, audio.ms}) = IF to <= audio.ms THEN to ELSE audio.ms
    BY <1>4, MinOfTwo
  <2>. QED
    BY <1>4, <2>1
<1>6. PICK n \in Nat : Max({0, Min({to, audio.ms}) - 0}) = n
  <2>1. PICK z \in Nat : 0 = z
    OBVIOUS
  <2>2. Max({z, stop}) = IF z >= stop THEN z ELSE stop
    BY MaxOfTwo
  <2>3. stop - 0 = stop
    OBVIOUS
  <2>. QED
    BY <1>5, <2>1, <2>2, <2>3
<1>7. Neural(audio, 0, to, f) =
          [voice |-> audio.voice, first |-> 16 * 0 * F, frames |-> F, rows |-> F,
           bin |-> 16 * n, per |-> F]
  BY <1>3, <1>6 DEF Neural
<1>8. 16 * 0 * F = 0
  BY <1>2
<1>. QED
  BY <1>2, <1>4, <1>7, <1>8 DEF Typed, Fields

LEMMA DrivingTyped ==
    ASSUME NEW audio \in Audios, NEW to \in Nat, NEW f \in Nat, f # 0, NEW backend
    PROVE  Typed(AudioToDriving(audio, 0, to, f, backend))
  BY DspTyped, NeuralTyped DEF AudioToDriving

\* A slice promises at least one row; its place is that of its first one.
LEMMA SliceTyped ==
    ASSUME NEW s, Typed(s), NEW from \in Nat, NEW to \in Nat, NEW f \in Nat,
           NEW d, d = Slice(s, from, to, f)
    PROVE  /\ d.voice = s.voice /\ d.first \in Nat /\ d.bin = s.bin /\ d.per = s.per
           /\ d.frames \in Nat /\ d.frames # 0
<1>1. PICK i \in Nat, j \in Nat : FrameOf(from, f) = i /\ FrameOf(to, f) = j
  BY FrameNat
<1>2. PICK F \in Nat, bin \in Nat, at \in Nat : s.frames = F /\ s.bin = bin /\ s.first = at
  BY DEF Typed
<1>3. PICK start \in Nat, end \in Nat : Clip(i, 0, F) = start /\ Clip(j, 0, F) = end
  <2>1. Clip(i, 0, F) \in Nat
    BY ClipNat
  <2>2. Clip(j, 0, F) \in Nat
    BY ClipNat
  <2>. QED
    BY <2>1, <2>2
<1>4. PICK last \in Nat : last = IF end <= start THEN start + 1 ELSE end
  OBVIOUS
<1>5. d = [s EXCEPT !.first = @ + start * s.bin, !.frames = last - start,
                    !.rows = Min({last, s.rows}) - start]
  BY <1>1, <1>2, <1>3, <1>4 DEF Slice
<1>6. start * bin \in Nat /\ at + start * bin \in Nat
  OBVIOUS
<1>7. last - start \in Nat /\ last - start # 0
  BY <1>4
<1>8. /\ d.voice = s.voice /\ d.bin = s.bin /\ d.per = s.per
      /\ d.first = at + start * bin /\ d.frames = last - start
  BY <1>2, <1>5 DEF Typed, Fields
<1>. QED
  BY <1>6, <1>7, <1>8

LEMMA FeaturesTyped ==
    ASSUME NEW audio \in Audios, NEW from \in Nat, NEW to \in Nat, NEW rate \in Nat, rate # 0,
           NEW d, d = Features(audio, from, to, rate)
    PROVE  /\ d.voice \in Nat /\ d.voice # 0 /\ d.first \in Nat /\ d.bin \in Nat
           /\ d.per \in Nat /\ d.per # 0 /\ d.rows \in Nat
<1>1. audio.voice \in Nat /\ audio.voice # 0 /\ audio.ms \in Nat
  BY DEF Audios
<1>2. PICK stop \in Nat : Min({to, audio.ms}) = stop
  <2>1. Min({to, audio.ms}) = IF to <= audio.ms THEN to ELSE audio.ms
    BY <1>1, MinOfTwo
  <2>. QED
    BY <1>1, <2>1
<1>3. PICK n \in Nat : Max({0, Min({to, audio.ms}) - from}) = n
  <2>1. PICK z \in Int, c \in Int : 0 = z /\ stop - from = c
    OBVIOUS
  <2>2. Max({z, c}) = IF z >= c THEN z ELSE c
    BY MaxOfTwo
  <2>. QED
    BY <1>2, <2>1, <2>2
<1>4. PICK rows \in Nat : FrameOf(n, rate) = rows
  BY FrameNat
<1>5. d = [voice |-> audio.voice, first |-> 16 * from * rate, bin |-> 16000, per |-> rate,
           frames |-> rows, rows |-> rows]
  BY <1>3, <1>4 DEF Features
<1>6. 16 * from * rate \in Nat
  OBVIOUS
<1>. QED
  BY <1>1, <1>5, <1>6

LEMMA NoClipTyped == NoClip \in Clips
  BY DEF NoClip, Clips

LEMMA BlankTyped ==
    ASSUME NEW ms \in Nat, NEW f \in Nat
    PROVE  Blank(ms, f) \in Clips /\ Blank(ms, f).voice = 0
<1>1. PICK n \in Nat : (ms * f + 999) \div 1000 = n
  <2>1. PICK y \in Nat : ms * f + 999 = y
    OBVIOUS
  <2>2. y \div 1000 \in Nat
    OBVIOUS
  <2>. QED
    BY <2>1, <2>2
<1>2. PICK rows : rows = [k \in 1 .. n |-> -1]
  OBVIOUS
<1>4. rows \in Seq(Int)
  BY <1>2
<1>3. Blank(ms, f) = [fps |-> f, voice |-> 0, first |-> 0, bin |-> 0, per |-> 1, rows |-> rows,
                     shows |-> "nothing"]
  BY <1>1, <1>2 DEF Blank
<1>. QED
  BY <1>3, <1>4 DEF Clips

LEMMA MockClipTyped ==
    ASSUME NEW from \in Nat, NEW to \in Nat, NEW f \in Nat
    PROVE  MockClip(from, to, f) \in Clips /\ MockClip(from, to, f).voice = 0
<1>1. PICK ms \in Nat : Duration(from, to) = ms
  <2>1. PICK c \in Int, d \in Int : 500 = c /\ to - from = d
    OBVIOUS
  <2>2. Max({c, d}) = IF c >= d THEN c ELSE d
    BY MaxOfTwo
  <2>. QED
    BY <2>1, <2>2 DEF Duration
<1>. QED
  BY <1>1, BlankTyped DEF MockClip

\* The clip of n rows of signals: they are all there, in order; none make it
\* blank.
LEMMA RealClipTyped ==
    ASSUME NEW s, s.voice \in Nat, s.first \in Nat, s.bin \in Nat, s.per \in Nat, s.per # 0,
           NEW n \in Nat, NEW f \in Nat, NEW shows \in {"face", "crop", "person"},
           NEW c, c = RealClip(s, Upto(0, n), f, shows)
    PROVE  /\ c \in Clips
           /\ n = 0 => c.voice = 0
           /\ n # 0 => /\ c.voice = s.voice /\ c.first = s.first /\ c.bin = s.bin
                       /\ c.per = s.per /\ c.rows = Upto(0, n)
<1>1. Upto(0, n) = [k \in 1 .. n |-> k - 1]
  BY LenOfUpto
<1>2. Upto(0, n) \in Seq(Int)
  BY <1>1
<1>3. n # 0 => Upto(0, n) # <<>>
  BY LenOfUpto
<1>4. CASE Upto(0, n) = <<>>
  <2>1. PICK ms \in Nat : 500 = ms
    OBVIOUS
  <2>2. c = Blank(ms, f)
    BY <1>4, <2>1 DEF RealClip
  <2>. QED
    BY <1>3, <1>4, <2>2, BlankTyped
<1>5. CASE Upto(0, n) # <<>>
  <2>1. c = [fps |-> f, voice |-> s.voice, first |-> s.first, bin |-> s.bin, per |-> s.per,
             rows |-> Upto(0, n), shows |-> shows]
    BY <1>5 DEF RealClip
  <2>2. n # 0
    <3>1. n = 0 => Upto(0, n) = <<>>
      BY <1>1
    <3>. QED
      BY <1>5, <3>1
  <2>. QED
    BY <1>2, <2>1, <2>2 DEF Clips
<1>. QED
  BY <1>4, <1>5

LEMMA MatchedTyped ==
    ASSUME NEW t \in Templates, NEW ms \in Nat
    PROVE  Matched(t, ms) \in [{"body", "mask", "neck", "boxes"} -> Streams]
<1>1. t.fps \in Nat /\ t.body \in Nat /\ t.mask \in Nat /\ t.neck \in Nat /\ t.boxes \in Nat
  BY DEF Templates
<1>2. Target(t, ms) \in Nat
  <2>1. PICK F \in Nat, one \in Nat : FrameOf(ms, t.fps) = F /\ 1 = one
    BY <1>1, FrameNat
  <2>2. Max({one, F}) = IF one >= F THEN one ELSE F
    BY MaxOfTwo
  <2>. QED
    BY <2>1, <2>2 DEF Target
<1>. DEFINE to(n) == IF Fits(t, ms) THEN AsRecorded(n) ELSE Rewritten(n, Target(t, ms))
<1>3. \A n \in Nat : to(n) \in Streams
  BY <1>2 DEF AsRecorded, Rewritten, Streams
<1>4. Matched(t, ms) =
          [body |-> to(t.body), mask |-> to(t.mask), neck |-> to(t.neck), boxes |-> to(t.boxes)]
  BY DEF Matched
<1>. HIDE DEF to
<1>. QED
  BY <1>1, <1>3, <1>4

-----------------------------------------------------------------------------
(* The invariant is kept: the parts of it that a step must mind.             *)

KeptInv ==
    /\ engine \in Engines
    /\ \A p \in Paths : files[p] \in Takes[p]
    /\ \A key \in Keys : Typed(signals[key])
    /\ changed \subseteq Paths /\ guessed \subseteq Keys
    /\ KeptWhole

WorkTyped ==
    /\ job \in Requests \cup {NoJob}
    /\ windows \in 0 .. MaxWindows
    /\ window \in [from : Nat, to : Nat, number : 0 .. windows]
    /\ pack \in PacksMade \cup {NoPack}
    /\ matched \in [{"body", "mask", "neck", "boxes"} -> Streams]
    /\ clip \in Clips
    /\ frames \in Nat
    /\ verdict.probes \subseteq Probes

LEMMA KeptParts ==
    ASSUME RenderInv, VoiceInv
    PROVE  KeptInv
<1>1. ASSUME NEW key \in Keys
      PROVE  Typed(signals[key])
  <2>1. signals[key] \in [voice : Nat, first : Nat, bin : Nat, per : Nat \ {0},
                          frames : Nat, rows : Nat]
    BY DEF RenderInv, TypeOK, VoiceInv
  <2>2. Fields(signals[key])
    BY DEF VoiceInv
  <2>. QED
    BY <2>1, <2>2 DEF Typed
<1>. QED
  BY <1>1 DEF RenderInv, TypeOK, VoiceInv, KeptInv

LEMMA WorkParts ==
    ASSUME RenderInv
    PROVE  WorkTyped
  BY DEF RenderInv, TypeOK, WorkTyped

\* Typed signals are records.
LEMMA TypedRecord ==
    ASSUME NEW s, Typed(s)
    PROVE  s \in [voice : Nat, first : Nat, bin : Nat, per : Nat \ {0}, frames : Nat, rows : Nat]
  BY DEF Typed, Fields

LEMMA PartsMakeInv ==
    ASSUME VoiceInv', KeptInv', WorkTyped', StepOfKind', WindowSet', ClipOfWindow', Composing',
           Compared'
    PROVE  RenderInv'
<1>1. \A key \in DOMAIN signals' :
          signals'[key] \in [voice : Nat, first : Nat, bin : Nat, per : Nat \ {0},
                             frames : Nat, rows : Nat]
  BY TypedRecord DEF VoiceInv, KeptInv
<1>2. TypeOK'
  BY <1>1 DEF KeptInv, WorkTyped, TypeOK, StepOfKind, Stages, VoiceInv
<1>. QED
  BY <1>2 DEF RenderInv, KeptInv

\* Most steps leave what is kept alone.
LEMMA KeptStays ==
    ASSUME RenderInv, VoiceInv, UNCHANGED <<engine, kept>>
    PROVE  KeptInv'
<1>1. KeptInv
  BY KeptParts
<1>. QED
  BY <1>1 DEF KeptInv, KeptWhole, kept

LEMMA SameWindow ==
    ASSUME UNCHANGED <<engine, kept, job, window>>
    PROVE  /\ Audio' = Audio /\ Key' = Key /\ Driving' = Driving /\ Encoded' = Encoded
           /\ RealWindow' = RealWindow
  BY DEF kept, Audio, Key, Driving, Encoded, RealWindow

\* A step that has nothing to do with the window or its clip.
LEMMA QuietStep ==
    ASSUME RenderInv, UNCHANGED <<engine, kept, job, window, clip>>,
           pc' \in {"roi", "open", "drive", "rendered", "mux", "check"} =>
              pc \in {"roi", "open", "drive", "rendered", "mux", "check"},
           pc' # "rendered",
           pc' \in {"mux", "check", "done"} =>
              pc \in {"rendered", "mux", "check", "done"} \/ clip = NoClip
    PROVE  WindowSet' /\ ClipOfWindow'
<1>1. /\ Audio' = Audio /\ Key' = Key /\ Driving' = Driving /\ Encoded' = Encoded
      /\ RealWindow' = RealWindow
  BY SameWindow
<1>2. Animated(Driving)' = Animated(Driving) /\ Animated(Encoded)' = Animated(Encoded)
  BY <1>1 DEF Animated
<1>3. NoClip.voice = 0
  BY SilentClips
<1>4. WindowSet'
  BY <1>1 DEF RenderInv, WindowSet
<1>5. Speaking' => Speaking
  BY <1>3 DEF Speaking
<1>6. ClipOfWindow'
  BY <1>1, <1>2, <1>5 DEF RenderInv, ClipOfWindow, kept
<1>. QED
  BY <1>4, <1>6

-----------------------------------------------------------------------------
(* The invariant is kept: the caller.                                        *)

LEMMA UnmatchedTyped ==
    Unmatched \in [{"body", "mask", "neck", "boxes"} -> Streams]
  BY DEF Unmatched, AsRecorded, Streams

LEMMA RenderInit ==
    ASSUME Init
    PROVE  RenderInv
<1>1. /\ engine \in Engines /\ \A p \in Paths : files[p] \in Takes[p]
      /\ signals = [key \in Keys |-> NoSignals] /\ changed = {} /\ guessed = {}
      /\ job = NoJob /\ pc = "idle"
      /\ window = NoWindow /\ windows = 0 /\ pack = NoPack /\ matched = Unmatched
      /\ clip = NoClip /\ frames = 0 /\ verdict = Pending
  BY DEF Init, Fresh, Keys
<1>2. NoSignals \in [voice : Nat, first : Nat, bin : Nat, per : Nat \ {0}, frames : Nat,
                     rows : Nat]
  BY DEF NoSignals
<1>3. TypeOK /\ guessed \subseteq Keys
  BY <1>1, <1>2, UnmatchedTyped, NoClipTyped, CachedRenderAssumption
     DEF TypeOK, NoWindow, Pending
<1>4. KeptWhole /\ StepOfKind
  BY <1>1 DEF KeptWhole, StepOfKind, Stages
<1>5. WindowSet /\ ClipOfWindow /\ Composing /\ Compared
  BY <1>1, SilentClips DEF WindowSet, ClipOfWindow, Composing, Compared, Speaking
<1>. QED
  BY <1>3, <1>4, <1>5 DEF RenderInv

LEMMA AskKeeps ==
    ASSUME RenderInv, VoiceInv, NEW r \in Requests, Ask(r), VoiceInv'
    PROVE  RenderInv'
<1>1. /\ pc = "idle" /\ job' = r /\ UNCHANGED <<engine, kept, work>>
      /\ pc' = IF r.kind = "cached" THEN "identity" ELSE "count"
  BY DEF Ask, Goto
<1>2. clip = NoClip /\ clip' = NoClip
  BY <1>1 DEF RenderInv, StepOfKind, work
<1>3. KeptInv'
  BY <1>1, KeptStays
<1>4. WorkTyped'
  <2>1. WorkTyped
    BY WorkParts
  <2>. QED
    BY <1>1, <2>1 DEF WorkTyped, work
<1>5. r.kind \in {"cached", "windows"}
  <2>1. r \in Jobs
    BY RequestsAssumption
  <2>. QED
    BY <2>1 DEF Jobs
<1>6. StepOfKind'
  BY <1>1, <1>2, <1>5 DEF RenderInv, StepOfKind, Stages, work
<1>7. WindowSet' /\ ClipOfWindow' /\ Composing' /\ Compared'
  BY <1>1, <1>2, SilentClips DEF WindowSet, ClipOfWindow, Composing, Compared, Speaking
<1>. QED
  BY <1>3, <1>4, <1>6, <1>7, PartsMakeInv

LEMMA ReturnKeeps ==
    ASSUME RenderInv, VoiceInv, Return, VoiceInv'
    PROVE  RenderInv'
<1>1. /\ pc' = "idle" /\ job' = NoJob /\ UNCHANGED <<engine, kept>>
      /\ window' = NoWindow /\ windows' = 0 /\ pack' = NoPack /\ matched' = Unmatched
      /\ clip' = NoClip /\ frames' = 0 /\ verdict' = Pending
  BY DEF Return, Fresh, Goto
<1>2. KeptInv'
  BY <1>1, KeptStays
<1>3. WorkTyped'
  BY <1>1, UnmatchedTyped, NoClipTyped, CachedRenderAssumption DEF WorkTyped, NoWindow, Pending
<1>4. StepOfKind'
  BY <1>1 DEF StepOfKind, Stages
<1>5. WindowSet' /\ ClipOfWindow' /\ Composing' /\ Compared'
  BY <1>1, SilentClips DEF WindowSet, ClipOfWindow, Composing, Compared, Speaking
<1>. QED
  BY <1>2, <1>3, <1>4, <1>5, PartsMakeInv

LEMMA RewriteKeeps ==
    ASSUME RenderInv, VoiceInv, NEW p \in Paths, Rewrite(p), VoiceInv'
    PROVE  RenderInv'
<1>1. pc = "idle" /\ UNCHANGED <<engine, signals, guessed, job, pc, work>>
  BY DEF Rewrite
<1>2. clip = NoClip /\ clip' = NoClip /\ job = NoJob /\ pc' = "idle"
  BY <1>1 DEF RenderInv, StepOfKind, work
<1>3. KeptInv
  BY KeptParts
<1>4. PICK take \in Takes[p] : files' = [files EXCEPT ![p] = take]
  BY DEF Rewrite
<1>5. files' = [q \in Paths |-> IF q = p THEN take ELSE files[q]]
  BY <1>4 DEF VoiceInv
<1>6. changed' \subseteq Paths /\ changed \subseteq changed'
  BY <1>3 DEF Rewrite, KeptInv
<1>7. ASSUME NEW key \in Keys, signals[key] # NoSignals
      PROVE  key[1] = p => p \in changed'
  BY <1>7 DEF Rewrite, VoiceInv
<1>8. KeptWhole'
  <2>. SUFFICES ASSUME NEW key \in Keys, signals[key] # NoSignals
                PROVE  /\ signals[key].voice # 0
                       /\ key \notin guessed /\ key[1] \notin changed' =>
                             signals[key] = AudioToDriving(files'[key[1]], 0, files'[key[1]].ms,
                                                           key[2], engine.backend)
    BY <1>1 DEF KeptWhole
  <2>1. key[1] \in Paths
    BY DEF Keys
  <2>2. key[1] \notin changed' => files'[key[1]] = files[key[1]] /\ key[1] \notin changed
    BY <1>5, <1>6, <1>7, <2>1
  <2>. QED
    BY <1>3, <2>2 DEF KeptInv, KeptWhole
<1>9. KeptInv'
  <2>1. \A q \in Paths : files'[q] \in Takes[q]
    BY <1>3, <1>5 DEF KeptInv
  <2>. QED
    BY <1>1, <1>3, <1>6, <1>8, <2>1 DEF KeptInv
<1>10. WorkTyped'
  <2>1. WorkTyped
    BY WorkParts
  <2>. QED
    BY <1>1, <2>1 DEF WorkTyped, work
<1>11. StepOfKind'
  BY <1>1, <1>2 DEF RenderInv, StepOfKind, Stages, work
<1>12. WindowSet' /\ ClipOfWindow' /\ Composing' /\ Compared'
  BY <1>2, SilentClips DEF WindowSet, ClipOfWindow, Composing, Compared, Speaking
<1>. QED
  BY <1>9, <1>10, <1>11, <1>12, PartsMakeInv

LEMMA WindowCountIs ==
    ASSUME RenderInv, VoiceInv, pc # "idle", NEW probed \in BOOLEAN
    PROVE  WindowCount(probed) \in 1 .. MaxWindows
<1>1. MaxWindows \in Nat /\ MaxWindows # 0
  BY CachedRenderAssumption
<1>2. PICK n : (IF probed THEN (Audio.ms + 3499) \div 3500 ELSE 16) = n
  OBVIOUS
<1>3. n \in Nat /\ n # 0
  <2>1. PICK D \in Nat : Audio.ms = D /\ D # 0
    BY UnderwayTypes
  <2>2. (D + 3499) \div 3500 \in Nat /\ (D + 3499) \div 3500 # 0
    BY <2>1
  <2>. QED
    BY <1>2, <2>1, <2>2
<1>4. Min({MaxWindows, n}) = IF MaxWindows <= n THEN MaxWindows ELSE n
  BY <1>1, <1>3, MinOfTwo
<1>5. WindowCount(probed) = Min({MaxWindows, n})
  BY <1>2 DEF WindowCount
<1>. QED
  BY <1>1, <1>3, <1>4, <1>5

LEMMA WindowTyped ==
    ASSUME NEW k \in Nat, k # 0, NEW n \in Nat, k <= n
    PROVE  /\ Window(k) \in [from : Nat, to : Nat, number : 0 .. n]
           /\ Window(k).from \in Nat /\ Window(k).to = Window(k).from + 4000
<1>1. PICK from \in Nat : (k - 1) * 3500 = from
  <2>1. PICK j \in Nat : k - 1 = j
    OBVIOUS
  <2>. QED
    BY <2>1
<1>2. Window(k) = [from |-> from, to |-> from + 4000, number |-> k]
  BY <1>1 DEF Window
<1>. QED
  BY <1>2

LEMMA CountKeeps ==
    ASSUME RenderInv, VoiceInv, Count, VoiceInv'
    PROVE  RenderInv'
<1>1. /\ pc = "count" /\ pc' = "open" /\ window' = Window(1) /\ pack' = job.pack
      /\ UNCHANGED <<engine, kept, job, matched, clip, frames, verdict>>
  BY DEF Count, Goto
<1>2. job.kind = "windows" /\ clip = NoClip /\ job \in Requests
  BY <1>1, UnderwayTypes DEF RenderInv, StepOfKind
<1>3. PICK n \in Nat : windows' = n /\ n # 0 /\ n \in 0 .. MaxWindows
  <2>1. PICK probed \in BOOLEAN : windows' = WindowCount(probed)
    BY DEF Count
  <2>2. windows' \in 1 .. MaxWindows
    BY <1>1, <2>1, WindowCountIs
  <2>. QED
    BY <2>2, CachedRenderAssumption
<1>4. PICK k \in Nat : 1 = k /\ k # 0 /\ k <= n
  BY <1>3
<1>5. window' \in [from : Nat, to : Nat, number : 0 .. n]
      /\ window'.from \in Nat /\ window'.to = window'.from + 4000
  BY <1>1, <1>4, WindowTyped
<1>6. KeptInv'
  BY <1>1, KeptStays
<1>7. WorkTyped'
  <2>1. WorkTyped
    BY WorkParts
  <2>2. job.pack \in PacksMade \cup {NoPack}
    BY <1>2, JobPack
  <2>. QED
    BY <1>1, <1>3, <1>5, <2>1, <2>2 DEF WorkTyped
<1>8. StepOfKind'
  BY <1>1, <1>2 DEF StepOfKind, Stages
<1>9. WindowSet'
  BY <1>1, <1>2, <1>5 DEF WindowSet, RealWindow
<1>10. ClipOfWindow' /\ Composing' /\ Compared'
  BY <1>1, <1>2 DEF ClipOfWindow, Composing, Compared, Speaking
<1>. QED
  BY <1>6, <1>7, <1>8, <1>9, <1>10, PartsMakeInv

LEMMA NextWindowKeeps ==
    ASSUME RenderInv, VoiceInv, NextWindow, VoiceInv'
    PROVE  RenderInv'
<1>1. /\ pc = "rendered" /\ job.kind = "windows"
      /\ UNCHANGED <<engine, kept, job, windows, pack, matched, clip, frames>>
  BY DEF NextWindow
<1>2. KeptInv' /\ WorkTyped
  BY <1>1, KeptStays, WorkParts
<1>3. CASE window.number < windows
  <2>1. window' = Window(window.number + 1) /\ pc' = "open" /\ UNCHANGED verdict
    BY <1>3 DEF NextWindow, Goto
  <2>2. PICK n \in Nat, k \in Nat : windows = n /\ window.number + 1 = k /\ k # 0 /\ k <= n
    BY <1>2, <1>3, CachedRenderAssumption DEF WorkTyped
  <2>3. window' \in [from : Nat, to : Nat, number : 0 .. n]
        /\ window'.from \in Nat /\ window'.to = window'.from + 4000
    BY <2>1, <2>2, WindowTyped
  <2>4. WorkTyped'
    BY <1>1, <1>2, <2>1, <2>2, <2>3 DEF WorkTyped
  <2>5. StepOfKind'
    BY <1>1, <2>1 DEF StepOfKind, Stages
  <2>6. WindowSet'
    BY <1>1, <2>1, <2>3 DEF WindowSet, RealWindow
  <2>7. ClipOfWindow' /\ Composing' /\ Compared'
    BY <1>1, <2>1 DEF ClipOfWindow, Composing, Compared, Speaking
  <2>. QED
    BY <1>2, <2>4, <2>5, <2>6, <2>7, PartsMakeInv
<1>4. CASE ~(window.number < windows)
  <2>1. UNCHANGED window /\ pc' = "done" /\ verdict' = [status |-> "rendered", probes |-> {}]
    BY <1>4 DEF NextWindow, End, Goto
  <2>2. WorkTyped'
    BY <1>1, <1>2, <2>1 DEF WorkTyped
  <2>3. StepOfKind'
    BY <1>1, <2>1 DEF StepOfKind, Stages
  <2>4. WindowSet' /\ ClipOfWindow'
    BY <1>1, <2>1, QuietStep
  <2>5. Composing' /\ Compared'
    BY <1>1, <2>1 DEF Composing, Compared
  <2>. QED
    BY <1>2, <2>2, <2>3, <2>4, <2>5, PartsMakeInv
<1>. QED
  BY <1>3, <1>4

LEMMA AgainKeeps ==
    ASSUME RenderInv, VoiceInv, Again, VoiceInv'
    PROVE  RenderInv'
<1>1. /\ pc = "rendered" /\ job.kind = "windows" /\ pc' = "open"
      /\ UNCHANGED <<engine, kept, job, work>>
  BY DEF Again, Goto
<1>2. KeptInv' /\ WorkTyped
  BY <1>1, KeptStays, WorkParts
<1>3. WorkTyped'
  BY <1>1, <1>2 DEF WorkTyped, work
<1>4. WindowSet' /\ ClipOfWindow'
  BY <1>1, QuietStep DEF work
<1>5. StepOfKind' /\ Composing' /\ Compared'
  BY <1>1 DEF StepOfKind, Stages, Composing, Compared
<1>. QED
  BY <1>2, <1>3, <1>4, <1>5, PartsMakeInv

-----------------------------------------------------------------------------
(* The invariant is kept: render_cached_avatar.                              *)

\* A cached avatar that raises, and one that goes on.
LEMMA RaiseKeeps ==
    ASSUME RenderInv, VoiceInv, VoiceInv', WorkTyped', UNCHANGED <<engine, kept, job, clip>>,
           pc \in Stages \ {"idle", "done"}, Raise, window' = window \/ clip = NoClip,
           pc \in {"open", "drive"} => job.kind = "cached"
    PROVE  RenderInv'
<1>1. pc' = "done" /\ verdict'.status = "raised"
  BY DEF Raise, End, Goto
<1>2. KeptInv'
  BY KeptStays
<1>3. pc \in {"rendered", "mux", "check"} \/ clip = NoClip
  BY DEF RenderInv, StepOfKind, Stages
<1>4. StepOfKind' /\ Composing' /\ Compared'
  BY <1>1 DEF StepOfKind, Stages, Composing, Compared
<1>5. WindowSet' /\ ClipOfWindow'
  <2>1. CASE window' = window
    BY <1>1, <1>3, <2>1, QuietStep
  <2>2. CASE clip = NoClip
    BY <1>1, <2>2, SilentClips DEF WindowSet, ClipOfWindow, Speaking
  <2>. QED
    BY <2>1, <2>2
<1>. QED
  BY <1>2, <1>4, <1>5, PartsMakeInv

LEMMA ResolveIdentityKeeps ==
    ASSUME RenderInv, VoiceInv, ResolveIdentity, VoiceInv'
    PROVE  RenderInv'
<1>1. /\ pc = "identity" /\ pc' = "match"
      /\ pack' = job.pack \/ pack' \in Prepared(engine, job.image)
      /\ UNCHANGED <<engine, kept, job, window, windows, matched, clip, frames, verdict>>
  BY DEF ResolveIdentity, Goto
<1>2. KeptInv' /\ WorkTyped /\ KeptInv
  BY <1>1, KeptStays, WorkParts, KeptParts
<1>3. pack' \in PacksMade \cup {NoPack}
  <2>1. job \in Requests /\ engine \in Engines
    BY <1>1, <1>2, UnderwayTypes DEF KeptInv
  <2>2. job.pack \in PacksMade \cup {NoPack} /\ job.image \in Images
    BY <2>1, JobPack
  <2>3. Prepared(engine, job.image) \subseteq PacksMade
    BY <2>1, <2>2, PreparedType
  <2>. QED
    BY <1>1, <2>2, <2>3
<1>4. WorkTyped'
  BY <1>1, <1>2, <1>3 DEF WorkTyped
<1>5. StepOfKind' /\ clip = NoClip
  BY <1>1 DEF RenderInv, StepOfKind, Stages
<1>6. WindowSet' /\ ClipOfWindow'
  BY <1>1, <1>5, QuietStep
<1>7. Composing' /\ Compared'
  BY <1>1 DEF Composing, Compared
<1>. QED
  BY <1>2, <1>4, <1>5, <1>6, <1>7, PartsMakeInv

LEMMA JobTemplate ==
    ASSUME NEW r \in Requests
    PROVE  r.template \in Templates /\ r.kind \in {"cached", "windows"}
<1>1. r \in Jobs
  BY RequestsAssumption
<1>. QED
  BY <1>1 DEF Jobs

LEMMA MatchKeeps ==
    ASSUME RenderInv, VoiceInv, Match, VoiceInv'
    PROVE  RenderInv'
<1>1. /\ pc = "match" /\ windows' = 1 /\ UNCHANGED <<engine, kept, job, pack, clip, frames>>
  BY DEF Match
<1>2. KeptInv' /\ WorkTyped
  BY <1>1, KeptStays, WorkParts
<1>3. clip = NoClip /\ job.kind = "cached" /\ job \in Requests /\ Audio.ms \in Nat
  BY <1>1, UnderwayTypes DEF RenderInv, StepOfKind
<1>4. 1 \in 0 .. MaxWindows /\ job.template \in Templates
  BY <1>3, CachedRenderAssumption, JobTemplate
<1>5. window = NoWindow
  BY <1>1 DEF RenderInv, StepOfKind
<1>6. CASE Raise /\ UNCHANGED <<matched, window>>
  <2>1. WorkTyped'
    BY <1>1, <1>2, <1>4, <1>5, <1>6 DEF WorkTyped, NoWindow, Raise, End
  <2>. QED
    BY <1>1, <1>6, <2>1, RaiseKeeps DEF Stages
<1>7. ASSUME NEW ms \in {0, Audio.ms}, matched' = Matched(job.template, ms),
             window' = [from |-> 0, to |-> IF ms = 0 THEN 4000 ELSE ms, number |-> 1],
             pc' = "roi", UNCHANGED verdict
      PROVE  RenderInv'
  <2>1. matched' \in [{"body", "mask", "neck", "boxes"} -> Streams]
    BY <1>3, <1>4, <1>7, MatchedTyped
  <2>2. window' \in [from : Nat, to : Nat, number : 0 .. 1]
    BY <1>3, <1>7
  <2>3. WorkTyped'
    BY <1>1, <1>2, <1>4, <1>7, <2>1, <2>2 DEF WorkTyped
  <2>4. StepOfKind'
    BY <1>1, <1>3, <1>7 DEF StepOfKind, Stages
  <2>5. Audio' = Audio
    BY <1>1 DEF Audio, kept
  <2>6. WindowSet'
    BY <1>1, <1>3, <1>7, <2>5 DEF WindowSet, RealWindow
  <2>7. ClipOfWindow' /\ Compared'
    BY <1>7 DEF ClipOfWindow, Compared, Speaking
  <2>8. Composing'
    BY <1>1, <1>7, <2>5 DEF Composing
  <2>. QED
    BY <1>2, <2>3, <2>4, <2>6, <2>7, <2>8, PartsMakeInv
<1>8. \/ Raise /\ UNCHANGED <<matched, window>>
      \/ \E ms \in {0, Audio.ms} :
            /\ matched' = Matched(job.template, ms)
            /\ window' = [from |-> 0, to |-> IF ms = 0 THEN 4000 ELSE ms, number |-> 1]
            /\ pc' = "roi" /\ UNCHANGED verdict
  BY DEF Match, Goto
<1>. QED
  BY <1>6, <1>7, <1>8

\* What Composing and Compared say of the template is of the job alone.
LEMMA SameTemplate ==
    ASSUME RenderInv, UNCHANGED <<engine, kept, job, matched>>, job.kind = "cached",
           pc \in {"roi", "open", "drive", "rendered", "mux", "check"}
    PROVE  \E ms \in {0, Audio'.ms} : matched' = Matched(job'.template, ms)
<1>1. Audio' = Audio
  BY DEF Audio, kept
<1>. QED
  BY <1>1 DEF RenderInv, Composing

LEMMA ExtractRoiKeeps ==
    ASSUME RenderInv, VoiceInv, ExtractRoi, VoiceInv'
    PROVE  RenderInv'
<1>1. /\ pc = "roi"
      /\ UNCHANGED <<engine, kept, job, window, windows, pack, matched, clip, frames>>
  BY DEF ExtractRoi
<1>2. KeptInv' /\ WorkTyped
  BY <1>1, KeptStays, WorkParts
<1>3. clip = NoClip /\ job.kind = "cached"
  BY <1>1 DEF RenderInv, StepOfKind
<1>4. CASE Raise
  <2>1. WorkTyped'
    BY <1>1, <1>2, <1>4 DEF WorkTyped, Raise, End
  <2>. QED
    BY <1>1, <1>4, <2>1, RaiseKeeps DEF Stages
<1>5. CASE pc' = "open" /\ UNCHANGED verdict
  <2>1. WorkTyped'
    BY <1>1, <1>2, <1>5 DEF WorkTyped
  <2>2. StepOfKind'
    BY <1>1, <1>3, <1>5 DEF StepOfKind, Stages
  <2>3. WindowSet' /\ ClipOfWindow'
    BY <1>1, <1>5, QuietStep
  <2>4. Composing' /\ Compared'
    BY <1>1, <1>3, <1>5, SameTemplate DEF Composing, Compared
  <2>. QED
    BY <1>2, <2>1, <2>2, <2>3, <2>4, PartsMakeInv
<1>. QED
  BY <1>4, <1>5 DEF ExtractRoi, Goto

LEMMA CompositeKeeps ==
    ASSUME RenderInv, VoiceInv, Composite, VoiceInv'
    PROVE  RenderInv'
<1>1. /\ pc = "rendered" /\ job.kind = "cached"
      /\ UNCHANGED <<engine, kept, job, window, windows, pack, matched, clip>>
  BY DEF Composite
<1>2. KeptInv' /\ WorkTyped
  BY <1>1, KeptStays, WorkParts
<1>3. CASE Raise /\ UNCHANGED frames
  <2>1. WorkTyped'
    BY <1>1, <1>2, <1>3 DEF WorkTyped, Raise, End
  <2>. QED
    BY <1>1, <1>3, <2>1, RaiseKeeps DEF Stages
<1>4. CASE frames' = CompositeFrames(matched, clip) /\ pc' = "mux" /\ UNCHANGED verdict
  <2>1. frames' \in Nat
    <3>1. Len(clip.rows) \in Nat
      <4>1. clip.rows \in Seq(Int)
        BY <1>2 DEF WorkTyped, Clips
      <4>. QED
        BY <4>1
    <3>. QED
      BY <1>2, <1>4, <3>1, CompositeLength DEF WorkTyped
  <2>2. WorkTyped'
    BY <1>1, <1>2, <1>4, <2>1 DEF WorkTyped
  <2>3. StepOfKind'
    BY <1>1, <1>4 DEF StepOfKind, Stages
  <2>4. WindowSet' /\ ClipOfWindow'
    BY <1>1, <1>4, QuietStep
  <2>5. Composing' /\ Compared'
    BY <1>1, <1>4, SameTemplate DEF Composing, Compared
  <2>. QED
    BY <1>2, <2>2, <2>3, <2>4, <2>5, PartsMakeInv
<1>. QED
  BY <1>3, <1>4 DEF Composite, Goto

LEMMA MuxAudioKeeps ==
    ASSUME RenderInv, VoiceInv, MuxAudio, VoiceInv'
    PROVE  RenderInv'
<1>1. /\ pc = "mux"
      /\ UNCHANGED <<engine, kept, job, window, windows, pack, matched, clip, frames>>
  BY DEF MuxAudio
<1>2. KeptInv' /\ WorkTyped
  BY <1>1, KeptStays, WorkParts
<1>3. job.kind = "cached"
  BY <1>1 DEF RenderInv, StepOfKind
<1>4. CASE Raise
  <2>1. WorkTyped'
    BY <1>1, <1>2, <1>4 DEF WorkTyped, Raise, End
  <2>. QED
    BY <1>1, <1>4, <2>1, RaiseKeeps DEF Stages
<1>5. CASE pc' = "check" /\ UNCHANGED verdict
  <2>1. WorkTyped'
    BY <1>1, <1>2, <1>5 DEF WorkTyped
  <2>2. StepOfKind'
    BY <1>1, <1>3, <1>5 DEF StepOfKind, Stages
  <2>3. WindowSet' /\ ClipOfWindow'
    BY <1>1, <1>5, QuietStep
  <2>4. frames' = CompositeFrames(matched', clip')
    BY <1>1 DEF RenderInv, Composing
  <2>5. Composing' /\ Compared'
    BY <1>1, <1>3, <1>5, <2>4, SameTemplate DEF Composing, Compared
  <2>. QED
    BY <1>2, <2>1, <2>2, <2>3, <2>5, PartsMakeInv
<1>. QED
  BY <1>4, <1>5 DEF MuxAudio, Goto

\* A video that passed with its lengths known is as long as the audio, nearly.
LEMMA PassedLengths ==
    ASSUME NEW n, NEW t, NEW ms, NEW expected, NEW studio, NEW probes,
           Verdict(n, t, ms, expected, studio, probes) = "COMPLETED", "lengths" \in probes
    PROVE  ~(Away(n * 1000, ms * t.fps) > Tolerance * t.fps)
  BY DEF Verdict

LEMMA CheckQualityKeeps ==
    ASSUME RenderInv, VoiceInv, CheckQuality, VoiceInv'
    PROVE  RenderInv'
<1>1. /\ pc = "check" /\ pc' = "done"
      /\ UNCHANGED <<engine, kept, job, window, windows, pack, matched, clip, frames>>
  BY DEF CheckQuality, End, Goto
<1>2. KeptInv' /\ WorkTyped
  BY <1>1, KeptStays, WorkParts
<1>3. job.kind = "cached" /\ RealWindow
  BY <1>1 DEF RenderInv, StepOfKind, WindowSet
<1>4. PICK studio \in BOOLEAN, probes \in SUBSET Probes :
          verdict' = [status |-> Verdict(Muxed(frames, job.template.fps, Audio.ms), job.template,
                                         Audio.ms, frames, studio, probes),
                      probes |-> probes]
  BY DEF CheckQuality, End
<1>5. PICK s : Verdict(Muxed(frames, job.template.fps, Audio.ms), job.template, Audio.ms, frames,
                       studio, probes) = s
  OBVIOUS
<1>6. verdict'.status = s /\ verdict'.probes = probes
  BY <1>4, <1>5
<1>7. WorkTyped'
  BY <1>1, <1>2, <1>6 DEF WorkTyped
<1>8. StepOfKind'
  BY <1>1 DEF StepOfKind, Stages
<1>9. WindowSet' /\ ClipOfWindow'
  BY <1>1, QuietStep
<1>10. Audio' = Audio /\ RealWindow'
  BY <1>1, <1>3, SameWindow
<1>11. Compared'
  <2>. SUFFICES ASSUME s = "COMPLETED"
                PROVE  /\ \E ms \in {0, Audio'.ms} : matched' = Matched(job'.template, ms)
                       /\ frames' = CompositeFrames(matched', clip')
                       /\ "lengths" \in probes =>
                             Away(Muxed(frames, job.template.fps, Audio.ms) * 1000,
                                  Audio.ms * job.template.fps) <= Tolerance * job.template.fps
    BY <1>1, <1>3, <1>6, <1>10 DEF Compared
  <2>1. \E ms \in {0, Audio'.ms} : matched' = Matched(job'.template, ms)
    BY <1>1, <1>3, SameTemplate
  <2>2. frames' = CompositeFrames(matched', clip')
    BY <1>1 DEF RenderInv, Composing
  <2>3. ASSUME "lengths" \in probes
        PROVE  Away(Muxed(frames, job.template.fps, Audio.ms) * 1000,
                    Audio.ms * job.template.fps) <= Tolerance * job.template.fps
    <3>1. PICK D \in Nat, tf \in Nat, x \in Nat :
              Audio.ms = D /\ job.template.fps = tf /\ frames = x
      <4>1. Audio.ms \in Nat /\ job \in Requests
        BY <1>1, UnderwayTypes
      <4>2. job.template.fps \in Nat
        BY <4>1, JobTemplate DEF Templates
      <4>. QED
        BY <1>2, <4>1, <4>2 DEF WorkTyped
    <3>2. PICK n : Muxed(x, tf, D) = n
      OBVIOUS
    <3>3. n \in Nat
      BY <3>2, MuxedNat
    <3>4. PICK a \in Nat, b \in Nat : n * 1000 = a /\ D * tf = b
      BY <3>3
    <3>5. Away(a, b) \in Int
      BY MaxOfTwo, MinOfTwo DEF Away
    <3>6. ~(Away(a, b) > Tolerance * tf)
      BY <1>5, <2>3, <3>1, <3>2, <3>4, PassedLengths
    <3>7. Away(a, b) <= Tolerance * tf
      BY <3>5, <3>6 DEF Tolerance
    <3>. QED
      BY <3>1, <3>2, <3>4, <3>7
  <2>. QED
    BY <2>1, <2>2, <2>3
<1>12. Composing'
  BY <1>1 DEF Composing
<1>. QED
  BY <1>2, <1>7, <1>8, <1>9, <1>11, <1>12, PartsMakeInv

-----------------------------------------------------------------------------
(* The invariant is kept: the engine.                                        *)

Sound(c) ==
    IF engine.kind = "liveportrait"
    THEN /\ signals[Key] # NoSignals /\ Driving.rows = Driving.frames
         /\ c.voice = Driving.voice /\ c.first = Driving.first /\ c.bin = Driving.bin
         /\ c.per = Driving.per /\ Driving.rows # 0 /\ c.rows = Upto(0, Driving.rows)
    ELSE \/ /\ c.voice = Encoded.voice /\ c.first = Encoded.first /\ c.bin = Encoded.bin
            /\ c.per = Encoded.per /\ Encoded.rows # 0 /\ c.rows = Upto(0, Encoded.rows)
         \/ Encoded.rows = 0 /\ c.voice = 0

\* A clip of the window has been made, or there is none.
LEMMA RenderedKeeps ==
    ASSUME RenderInv, VoiceInv, VoiceInv', pc \in {"open", "drive"}, pc' = "rendered",
           UNCHANGED <<engine, kept, job, window, windows, pack, matched, frames, verdict>>,
           clip' \in Clips, clip'.voice # 0 \/ (~engine.mock /\ clip' # NoClip) => Sound(clip')
    PROVE  RenderInv'
<1>1. KeptInv' /\ WorkTyped
  BY KeptStays, WorkParts
<1>2. WorkTyped'
  BY <1>1 DEF WorkTyped
<1>3. StepOfKind'
  BY DEF StepOfKind, Stages
<1>4. /\ Audio' = Audio /\ Key' = Key /\ Driving' = Driving /\ Encoded' = Encoded
      /\ RealWindow' = RealWindow
  BY SameWindow
<1>5. WindowSet'
  BY <1>4 DEF RenderInv, WindowSet
<1>6. ClipOfWindow'
  <2>. SUFFICES ASSUME Sound(clip')
                PROVE  ClipOfWindow'
    BY DEF ClipOfWindow, Speaking
  <2>1. engine.kind = "liveportrait" =>
            signals[Key] # NoSignals /\ Driving.rows = Driving.frames /\ Animated(Driving)'
    BY <1>4 DEF Sound, Animated
  <2>2. engine.kind # "liveportrait" =>
            Animated(Encoded)' \/ (Encoded.rows = 0 /\ clip'.voice = 0)
    BY <1>4 DEF Sound, Animated
  <2>. QED
    BY <1>4, <2>1, <2>2 DEF ClipOfWindow, kept
<1>7. Composing' /\ Compared'
  BY SameTemplate DEF Composing, Compared
<1>. QED
  BY <1>1, <1>2, <1>3, <1>5, <1>6, <1>7, PartsMakeInv

\* The engine refuses: the job fails, or the window has no clip.
LEMMA RefuseKeeps ==
    ASSUME RenderInv, VoiceInv, VoiceInv', pc \in {"open", "drive"}, Refuse,
           UNCHANGED <<engine, kept, job, window, windows, pack, matched, frames>>
    PROVE  RenderInv'
<1>1. WorkTyped
  BY WorkParts
<1>2. CASE job.kind = "cached"
  <2>1. Raise /\ UNCHANGED clip
    BY <1>2 DEF Refuse
  <2>2. WorkTyped'
    BY <1>1, <2>1 DEF WorkTyped, Raise, End
  <2>. QED
    BY <1>2, <2>1, <2>2, RaiseKeeps DEF Stages
<1>3. CASE job.kind # "cached"
  <2>1. clip' = NoClip /\ pc' = "rendered" /\ UNCHANGED verdict
    BY <1>3 DEF Refuse, Rendered, Goto
  <2>. QED
    BY <2>1, NoClipTyped, SilentClips, RenderedKeeps
<1>. QED
  BY <1>2, <1>3

LEMMA RenderMockKeeps ==
    ASSUME RenderInv, VoiceInv, RenderMock, VoiceInv'
    PROVE  RenderInv'
<1>1. /\ pc = "open" /\ engine.mock /\ pc' = "rendered"
      /\ clip' = MockClip(window.from, window.to, job.fps)
      /\ UNCHANGED <<engine, kept, job, window, windows, pack, matched, frames, verdict>>
  BY DEF RenderMock, Rendered, Goto
<1>2. window.from \in Nat /\ window.to \in Nat /\ job.fps \in Nat
  BY <1>1, UnderwayTypes, WindowUnderway
<1>3. clip' \in Clips /\ clip'.voice = 0
  BY <1>1, <1>2, MockClipTyped
<1>. QED
  BY <1>1, <1>3, RenderedKeeps

LEMMA KeptVoice ==
    ASSUME RenderInv, VoiceInv, pc # "idle", signals[Key] # NoSignals
    PROVE  Typed(signals[Key]) /\ signals[Key].voice # 0
<1>1. Key \in Keys
  BY UnderwayTypes
<1>. QED
  BY <1>1, KeptParts DEF KeptInv, KeptWhole

LEMMA DriveKeeps ==
    ASSUME RenderInv, VoiceInv, DriveLivePortrait, VoiceInv'
    PROVE  RenderInv'
<1>1. /\ pc = "drive"
      /\ UNCHANGED <<engine, kept, job, window, windows, pack, matched, frames>>
  BY DEF DriveLivePortrait
<1>2. CASE Refuse
  BY <1>1, <1>2, RefuseKeeps
<1>3. ASSUME FitsKeypoints(Driving), NEW shows \in Shows,
             Rendered(RealClip(Driving, LivePortraitFrames(Driving, Batch), job.fps, shows))
      PROVE  RenderInv'
  <2>1. engine.kind = "liveportrait" /\ signals[Key] # NoSignals
    BY <1>1 DEF RenderInv, StepOfKind
  <2>2. Typed(signals[Key]) /\ signals[Key].voice # 0
    BY <1>1, <2>1, KeptVoice
  <2>3. PICK s, d : signals[Key] = s /\ Driving = d
    OBVIOUS
  <2>4. window.from \in Nat /\ window.to \in Nat /\ job.fps \in Nat
    BY <1>1, UnderwayTypes, WindowUnderway
  <2>5. /\ d.voice = s.voice /\ d.first \in Nat /\ d.bin = s.bin /\ d.per = s.per
        /\ d.frames \in Nat /\ d.frames # 0
    <3>1. d = Slice(s, window.from, window.to, job.fps)
      BY <2>3 DEF Driving
    <3>. QED
      BY <2>2, <2>3, <2>4, <3>1, SliceTyped
  <2>6. PICK n \in Nat : d.frames = n /\ d.rows = n /\ n # 0
    BY <1>3, <2>3, <2>5 DEF FitsKeypoints
  <2>7. LivePortraitFrames(Driving, Batch) = Upto(0, n)
    BY <2>3, <2>6, LivePortraitRows, CachedRenderAssumption
  <2>8. /\ d.voice \in Nat /\ d.bin \in Nat /\ d.per \in Nat /\ d.per # 0
        /\ shows \in {"face", "crop", "person"}
    BY <2>2, <2>3, <2>5 DEF Typed, Shows
  <2>9. PICK c : c = RealClip(d, Upto(0, n), job.fps, shows)
    OBVIOUS
  <2>10. clip' = c /\ pc' = "rendered" /\ UNCHANGED verdict
    BY <1>3, <2>3, <2>7, <2>9 DEF Rendered, Goto
  <2>11. /\ c \in Clips /\ c.voice = d.voice /\ c.first = d.first /\ c.bin = d.bin
         /\ c.per = d.per /\ c.rows = Upto(0, n)
    BY <2>4, <2>5, <2>6, <2>8, <2>9, RealClipTyped
  <2>12. Sound(clip')
    BY <2>1, <2>3, <2>6, <2>10, <2>11 DEF Sound
  <2>. QED
    BY <1>1, <2>10, <2>11, <2>12, RenderedKeeps
<1>. QED
  BY <1>2, <1>3 DEF DriveLivePortrait

LEMMA MuseTalkKeeps ==
    ASSUME RenderInv, VoiceInv, RenderMuseTalk, VoiceInv'
    PROVE  RenderInv'
<1>1. /\ pc = "open" /\ engine.kind = "musetalk"
      /\ UNCHANGED <<engine, kept, job, window, windows, pack, matched, frames>>
  BY DEF RenderMuseTalk
<1>2. CASE Refuse
  BY <1>1, <1>2, RefuseKeeps
<1>3. ASSUME NEW failing, NEW shows \in {"face", "crop"},
             Rendered(RealClip(Encoded, Decode(UNet(Encoded, Batch, failing), Batch), job.fps,
                               shows))
      PROVE  RenderInv'
  <2>1. PICK d : Encoded = d
    OBVIOUS
  <2>2. window.from \in Nat /\ window.to \in Nat /\ job.fps \in Nat
    BY <1>1, UnderwayTypes, WindowUnderway
  <2>3. /\ d.voice \in Nat /\ d.voice # 0 /\ d.first \in Nat /\ d.bin \in Nat
        /\ d.per \in Nat /\ d.per # 0 /\ d.rows \in Nat
    <3>1. d = Features(Audio, window.from, window.to, engine.rate)
      BY <2>1 DEF Encoded
    <3>2. Audio \in Audios /\ engine.rate \in Nat /\ engine.rate # 0
      BY <1>1, UnderwayTypes
    <3>. QED
      BY <2>2, <3>1, <3>2, FeaturesTyped
  <2>4. PICK n \in Nat : d.rows = n
    BY <2>3
  <2>5. Decode(UNet(Encoded, Batch, failing), Batch) = Upto(0, n)
    <3>1. Batch \in Nat /\ Batch # 0
      BY CachedRenderAssumption
    <3>2. UNet(d, Batch, failing) = Upto(0, n)
      BY <2>4, <3>1, UNetRows
    <3>3. Decode(Upto(0, n), Batch) = Upto(0, n)
      BY <3>1, DecodedRows
    <3>. QED
      BY <2>1, <3>2, <3>3
  <2>6. PICK c : c = RealClip(d, Upto(0, n), job.fps, shows)
    OBVIOUS
  <2>7. clip' = c /\ pc' = "rendered" /\ UNCHANGED verdict
    BY <1>3, <2>1, <2>5, <2>6 DEF Rendered, Goto
  <2>8. /\ c \in Clips
        /\ n = 0 => c.voice = 0
        /\ n # 0 => /\ c.voice = d.voice /\ c.first = d.first /\ c.bin = d.bin
                    /\ c.per = d.per /\ c.rows = Upto(0, n)
    BY <2>2, <2>3, <2>6, RealClipTyped
  <2>9. Sound(clip')
    BY <1>1, <2>1, <2>4, <2>7, <2>8 DEF Sound
  <2>. QED
    BY <1>1, <2>7, <2>8, <2>9, RenderedKeeps
<1>4. \/ Refuse
      \/ \E failing : \E shows \in {"face", "crop"} :
            Rendered(RealClip(Encoded, Decode(UNet(Encoded, Batch, failing), Batch), job.fps,
                              shows))
  <2>1. CASE LoadsLatent(pack)
    <3>1. PICK failing : Rendered(RealClip(Encoded, Decode(UNet(Encoded, Batch, failing), Batch),
                                           job.fps,
                                           IF job.kind = "cached" THEN "face" ELSE "crop"))
      BY <2>1 DEF RenderMuseTalk, Encoded
    <3>. QED
      BY <3>1
  <2>2. CASE ~LoadsLatent(pack)
    BY <2>2 DEF RenderMuseTalk
  <2>. QED
    BY <2>1, <2>2
<1>. QED
  BY <1>2, <1>3, <1>4

LEMMA ReadAudioKeeps ==
    ASSUME RenderInv, VoiceInv, ReadAudio, VoiceInv'
    PROVE  RenderInv'
<1>1. /\ pc = "open" /\ ~engine.mock /\ engine.kind = "liveportrait"
      /\ UNCHANGED <<engine, files, changed, job, window, windows, pack, matched, frames>>
  BY DEF ReadAudio
<1>2. WorkTyped /\ KeptInv
  BY WorkParts, KeptParts
<1>3. CASE Refuse /\ UNCHANGED <<signals, guessed>>
  BY <1>1, <1>3, RefuseKeeps DEF kept
<1>4. ASSUME pc' = "drive", UNCHANGED <<clip, verdict>>, signals'[Key] # NoSignals, KeptInv'
      PROVE  RenderInv'
  <2>1. Audio' = Audio /\ Key' = Key /\ RealWindow' = RealWindow
    BY <1>1 DEF Audio, Key, RealWindow
  <2>2. WorkTyped'
    BY <1>1, <1>2, <1>4 DEF WorkTyped
  <2>3. StepOfKind'
    <3>1. job.kind = "cached" => clip = NoClip
      BY <1>1 DEF RenderInv, StepOfKind
    <3>. QED
      BY <1>1, <1>4, <2>1, <3>1 DEF StepOfKind, Stages
  <2>4. WindowSet'
    BY <1>1, <2>1 DEF RenderInv, WindowSet
  <2>5. ClipOfWindow' /\ Compared'
    BY <1>4 DEF ClipOfWindow, Compared, Speaking
  <2>6. Composing'
    BY <1>1, <1>4, <2>1 DEF RenderInv, Composing
  <2>. QED
    BY <1>4, <2>2, <2>3, <2>4, <2>5, <2>6, PartsMakeInv
<1>5. CASE signals[Key] # NoSignals
  <2>1. pc' = "drive" /\ UNCHANGED <<signals, guessed, clip, verdict>>
    BY <1>5 DEF ReadAudio, Goto
  <2>2. KeptInv'
    BY <1>1, <2>1, KeptStays DEF kept
  <2>. QED
    BY <1>4, <1>5, <2>1, <2>2
<1>6. ASSUME NEW probed \in BOOLEAN,
             signals' = [signals EXCEPT ![Key] =
                 AudioToDriving(Audio, 0, Heard(probed), job.fps, engine.backend)],
             guessed' = IF probed THEN guessed ELSE guessed \cup {Key},
             pc' = "drive", UNCHANGED <<clip, verdict>>
      PROVE  RenderInv'
  <2>1. PICK made : AudioToDriving(Audio, 0, Heard(probed), job.fps, engine.backend) = made
    OBVIOUS
  <2>2. /\ Key \in Keys /\ job.fps \in Nat /\ job.fps # 0 /\ Audio \in Audios
        /\ Audio.ms \in Nat /\ Audio.voice # 0 /\ window.to \in Nat
    BY <1>1, UnderwayTypes, WindowUnderway
  <2>3. Heard(probed) \in Nat
    BY <2>2 DEF Heard
  <2>4. Typed(made)
    BY <2>1, <2>2, <2>3, DrivingTyped
  <2>5. made.voice = Audio.voice
    BY <2>1, DrivingFields
  <2>6. made # NoSignals
    BY <2>2, <2>5 DEF NoSignals
  <2>7. \A key \in Keys : signals'[key] = IF key = Key THEN made ELSE signals[key]
    BY <1>6, <2>1 DEF VoiceInv
  <2>8. KeptWhole'
    <3>. SUFFICES ASSUME NEW key \in Keys, signals'[key] # NoSignals
                  PROVE  /\ signals'[key].voice # 0
                         /\ key \notin guessed' /\ key[1] \notin changed =>
                               signals'[key] = AudioToDriving(files[key[1]], 0,
                                                   files[key[1]].ms, key[2], engine.backend)
      BY <1>1 DEF KeptWhole
    <3>1. CASE key = Key
      <4>1. signals'[key] = made /\ key[1] = job.path /\ key[2] = job.fps
        BY <2>7, <3>1 DEF Key
      <4>2. key \notin guessed' => Heard(probed) = Audio.ms
        BY <1>6, <3>1 DEF Heard
      <4>. QED
        BY <2>1, <2>2, <2>5, <4>1, <4>2 DEF Audio
    <3>2. CASE key # Key
      BY <1>2, <1>6, <2>7, <3>2 DEF KeptInv, KeptWhole
    <3>. QED
      BY <3>1, <3>2
  <2>9. KeptInv'
    <3>1. \A key \in Keys : Typed(signals'[key])
      BY <1>2, <2>4, <2>7 DEF KeptInv
    <3>2. guessed' \subseteq Keys
      BY <1>2, <1>6, <2>2 DEF KeptInv
    <3>. QED
      BY <1>1, <1>2, <2>8, <3>1, <3>2 DEF KeptInv
  <2>. QED
    BY <1>4, <1>6, <2>2, <2>6, <2>7, <2>9
<1>7. \/ signals[Key] # NoSignals
      \/ Refuse /\ UNCHANGED <<signals, guessed>>
      \/ \E probed \in BOOLEAN :
            /\ signals' = [signals EXCEPT ![Key] =
                   AudioToDriving(Audio, 0, Heard(probed), job.fps, engine.backend)]
            /\ guessed' = IF probed THEN guessed ELSE guessed \cup {Key}
            /\ pc' = "drive" /\ UNCHANGED <<clip, verdict>>
  BY DEF ReadAudio, Goto
<1>. QED
  BY <1>3, <1>5, <1>6, <1>7

LEMMA FailsKeeps ==
    ASSUME RenderInv, VoiceInv, Fails, VoiceInv'
    PROVE  RenderInv'
<1>1. UNCHANGED <<engine, kept, job, window, windows, pack, matched, frames>>
  BY DEF Fails
<1>2. CASE pc \in {"open", "drive"} /\ Refuse
  BY <1>1, <1>2, RefuseKeeps
<1>3. CASE Raise /\ UNCHANGED clip /\ pc \in {"identity", "match", "roi", "mux", "rendered"}
  <2>1. WorkTyped'
    BY <1>1, <1>3, WorkParts DEF WorkTyped, Raise, End
  <2>. QED
    BY <1>1, <1>3, <2>1, RaiseKeeps DEF Stages
<1>. QED
  BY <1>2, <1>3 DEF Fails

LEMMA RenderStutters ==
    ASSUME RenderInv, UNCHANGED vars
    PROVE  RenderInv'
<1>1. /\ UNCHANGED <<engine, kept, job, pc, window, windows, pack, matched, clip, frames, verdict>>
      /\ UNCHANGED <<files, signals, changed, guessed>>
  BY DEF vars, kept, work
<1>2. /\ Audio' = Audio /\ Key' = Key /\ Driving' = Driving /\ Encoded' = Encoded
      /\ RealWindow' = RealWindow
  BY <1>1, SameWindow
<1>3. TypeOK' /\ (guessed \subseteq Keys)' /\ KeptWhole'
  BY <1>1 DEF RenderInv, TypeOK, KeptWhole
<1>4. StepOfKind' /\ WindowSet' /\ Composing' /\ Compared'
  BY <1>1, <1>2 DEF RenderInv, StepOfKind, WindowSet, Composing, Compared
<1>5. ClipOfWindow'
  BY <1>1, <1>2 DEF RenderInv, ClipOfWindow, Speaking, Animated
<1>. QED
  BY <1>3, <1>4, <1>5 DEF RenderInv

LEMMA RenderKeeps ==
    ASSUME RenderInv, VoiceInv, [Next]_vars
    PROVE  RenderInv'
<1>0. VoiceInv'
  BY VoiceStep
<1>1. ASSUME NEW r \in Requests, Ask(r)
      PROVE  RenderInv'
  BY <1>0, <1>1, AskKeeps
<1>2. ASSUME NEW p \in Paths, Rewrite(p)
      PROVE  RenderInv'
  BY <1>0, <1>2, RewriteKeeps
<1>3. CASE Count
  BY <1>0, <1>3, CountKeeps
<1>4. CASE NextWindow
  BY <1>0, <1>4, NextWindowKeeps
<1>5. CASE Again
  BY <1>0, <1>5, AgainKeeps
<1>6. CASE Return
  BY <1>0, <1>6, ReturnKeeps
<1>7. CASE ResolveIdentity
  BY <1>0, <1>7, ResolveIdentityKeeps
<1>8. CASE Match
  BY <1>0, <1>8, MatchKeeps
<1>9. CASE ExtractRoi
  BY <1>0, <1>9, ExtractRoiKeeps
<1>10. CASE RenderMock
  BY <1>0, <1>10, RenderMockKeeps
<1>11. CASE ReadAudio
  BY <1>0, <1>11, ReadAudioKeeps
<1>12. CASE DriveLivePortrait
  BY <1>0, <1>12, DriveKeeps
<1>13. CASE RenderMuseTalk
  BY <1>0, <1>13, MuseTalkKeeps
<1>14. CASE Composite
  BY <1>0, <1>14, CompositeKeeps
<1>15. CASE MuxAudio
  BY <1>0, <1>15, MuxAudioKeeps
<1>16. CASE CheckQuality
  BY <1>0, <1>16, CheckQualityKeeps
<1>17. CASE Fails
  BY <1>0, <1>17, FailsKeeps
<1>18. CASE UNCHANGED vars
  BY <1>18, RenderStutters
<1>. QED
  BY <1>1, <1>2, <1>3, <1>4, <1>5, <1>6, <1>7, <1>8, <1>9, <1>10, <1>11, <1>12, <1>13, <1>14,
     <1>15, <1>16, <1>17, <1>18 DEF Next

-----------------------------------------------------------------------------
LEMMA RenderAlways == Spec => [](RenderInv /\ VoiceInv)
<1>1. Init => RenderInv
  BY RenderInit
<1>2. RenderInv /\ VoiceInv /\ [Next]_vars => RenderInv'
  BY RenderKeeps
<1>. QED
  BY <1>1, <1>2, VoiceAlways, PTL DEF Spec

\* Every variable keeps its type: no rounding, cutting or repeating makes a
\* length, a place or a number of frames negative, whatever the rates.
THEOREM RenderTypes == Spec => []TypeOK
<1>1. RenderInv => TypeOK
  BY DEF RenderInv
<1>. QED
  BY <1>1, RenderAlways, PTL

\* Every row of every window is shown, once and in order, whichever batches
\* failed, at every frame rate up to 16000 and every length of file: the clip
\* begins and ends where the window and the audio do, a row and what the DSP
\* backend drops of its samples aside.
THEOREM RowsShown == Spec => []EveryRowShown
<1>1. RenderInv /\ VoiceInv => EveryRowShown
  BY RowsAreShown
<1>. QED
  BY <1>1, RenderAlways, PTL

\* What the quality control passes, with its length compared, is in step: lips
\* with the words of their moment, mask, neck and box with the picture of the
\* body, for every template and every audio.
THEOREM PicturesInStep == Spec => []PictureInStep
<1>1. RenderInv /\ VoiceInv => PictureInStep
  BY PicturesAreInStep
<1>. QED
  BY <1>1, RenderAlways, PTL
=============================================================================
