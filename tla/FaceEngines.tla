----------------------------- MODULE FaceEngines -----------------------------
(***************************************************************************)
(* What the LivePortrait and MuseTalk adapters make: the pack of a source   *)
(* image, and the clip of a window of the audio, in real and in mock mode.  *)
(* Pixels, tensors and GPU are left out: a pack is who made it, the size of *)
(* its entries and the crop it was made from; a clip is the signal row that *)
(* each of its frames shows, -1 for none.                                   *)
(***************************************************************************)
EXTENDS DrivingSignals

Kinds == {"liveportrait", "musetalk"}

-----------------------------------------------------------------------------
(* Identities.                                                              *)

\* An image has a size and the box of its largest face, <<x, y, w, h>>.
Images == [w : Nat, h : Nat, box : Nat \X Nat \X Nat \X Nat]

\* The square to be cropped: 1.4 times the box, or all that fits round the
\* middle when no detector finds a face.
Square(img, found) ==
    LET b == img.box IN
    IF found THEN [cx |-> b[1] + b[3] \div 2, cy |-> b[2] + b[4] \div 2,
                   size |-> (Max({b[3], b[4]}) * 14) \div 10]
    ELSE [cx |-> img.w \div 2, cy |-> img.h \div 2, size |-> Min({img.w, img.h})]

\* The square cut off at the edges of the image: low and high in each direction.
CutOff(centre, size, edge) == <<Max({0, centre - size \div 2}), Min({edge, centre + size \div 2})>>

\* How much an array of n yields for the slice [a, b): a negative index counts
\* from its end.
Sliced(a, b, n) ==
    LET at(i) == IF i < 0 THEN Max({0, n + i}) ELSE Min({i, n})
    IN  Max({0, at(b) - at(a)})

\* LivePortrait shrinks the square to what the image holds and centres it on
\* the face again, which may put it over an edge: over the left or upper one it
\* is empty and resizing raises, over the others it is a part of itself.
LivePortraitCrop(img, found) ==
    LET sq  == Square(img, found)
        x   == CutOff(sq.cx, sq.size, img.w)
        y   == CutOff(sq.cy, sq.size, img.h)
        side == Min({x[2] - x[1], y[2] - y[1]})
        x1  == sq.cx - side \div 2
        y1  == sq.cy - side \div 2
    IN  <<Sliced(x1, x1 + side, img.w), Sliced(y1, y1 + side, img.h)>>

\* MuseTalk crops what the image holds of the square.
MuseTalkCrop(img, found) ==
    LET sq == Square(img, found)
        x  == CutOff(sq.cx, sq.size, img.w)
        y  == CutOff(sq.cy, sq.size, img.h)
    IN  <<Max({0, x[2] - x[1]}), Max({0, y[2] - y[1]})>>

Empty(crop) == crop[1] <= 0 \/ crop[2] <= 0

\* A pack: its maker, whether in real mode, and its crop.
PacksMade == [kind : Kinds, real : BOOLEAN, crop : Nat \X Nat]

MockPack(kind) == [kind |-> kind, real |-> FALSE, crop |-> <<0, 0>>]

\* The cascade of LivePortrait: MediaPipe, else Haar, else the centre.
LivePortraitPack(img, found) ==
    [kind |-> "liveportrait", real |-> TRUE, crop |-> LivePortraitCrop(img, found)]

\* MuseTalk: MediaPipe, else the centre; the centre, too, when the crop of the
\* face found is empty.  An upstream detector that crops by itself is left out.
MuseTalkPack(img, found) ==
    LET crop == MuseTalkCrop(img, found) IN
    [kind |-> "musetalk", real |-> TRUE,
     crop |-> IF Empty(crop) THEN MuseTalkCrop(img, FALSE) ELSE crop]

\* The packs an engine may make of an image; none when it can only raise.
Prepared(engine, img) ==
    IF engine.mock THEN {MockPack(engine.kind)}
    ELSE LET make(f) == IF engine.kind = "musetalk" THEN MuseTalkPack(img, f)
                                                    ELSE LivePortraitPack(img, f)
         IN  {p \in {make(f) : f \in BOOLEAN} : ~Empty(p.crop)}

-----------------------------------------------------------------------------
(* What a real engine reads from a pack, by the size of its entries.        *)

\* source_features.bin, of float16 in real packs and float32 in mock ones.
LivePortraitMock == [features |-> 64 * 4, keypoints |-> 68 * 2 * 4, latent |-> 4 * 16 * 16 * 4]
LivePortraitReal == [features |-> 32 * 16 * 64 * 64 * 2, keypoints |-> 2 * 63 * 4, latent |-> 32 * 2]

\* Variant: mock latents are of float16, too.
MuseTalkMockHalf == [features |-> 0, keypoints |-> 0, latent |-> 4 * 64 * 64 * 2]

MuseTalkMock     == [features |-> 0, keypoints |-> 0, latent |-> 4 * 64 * 64 * 4]
MuseTalkReal     == [features |-> 0, keypoints |-> 0, latent |-> 4 * 64 * 64 * 2]

Bytes(pack) ==
    IF pack.kind = "liveportrait" THEN IF pack.real THEN LivePortraitReal ELSE LivePortraitMock
                                  ELSE IF pack.real THEN MuseTalkReal ELSE MuseTalkMock

\* The features must fill a volume of 32 channels of 64 x 64, in as many layers
\* as their number implies; the keypoints may be short.
LoadsSource(pack) ==
    LET floats == Bytes(pack).features \div 2 IN
    /\ Bytes(pack).features > 0 /\ Bytes(pack).keypoints > 0
    /\ floats = 32 * Max({1, floats \div (32 * 64 * 64)}) * 64 * 64

\* The latent must be 4 x 64 x 64 values of float16.
LoadsLatent(pack) == Bytes(pack).latent > 0 /\ Bytes(pack).latent = 2 * 4 * 64 * 64

-----------------------------------------------------------------------------
(* Clips.                                                                   *)

Upto(n, m) == [k \in 1 .. Max({0, m - n}) |-> n + k - 1]    \* <<n, ..., m - 1>>

\* Frames 0 .. n - 1 are made in batches, one after the other: where each begins
\* and ends.
Batches(n, size) ==
    [i \in 1 .. (n + size - 1) \div size |->
        [from |-> (i - 1) * size, to |-> Min({i * size, n})]]

\* A row of signals moves a set of keypoints: lips, eyes, brows and head, by
\* amounts that are left out.  Fewer rows than promised do not fit the shape.
FitsKeypoints(signals) == signals.rows = signals.frames

\* LivePortrait puts a batch of keypoints, a row of signals each, through
\* stitching and warping.
LivePortraitFrames(signals, size) ==
    LET batch == Batches(signals.frames, size)
    IN  FlattenSeq([i \in DOMAIN batch |-> Upto(batch[i].from, batch[i].to)])

\* MuseTalk's UNet takes a batch of rows; a batch that fails is done again row
\* by row.
OneByOne(from, to) == FlattenSeq([k \in 1 .. to - from |-> <<from + k - 1>>])

UNet(signals, size, failing) ==
    LET batch == Batches(signals.rows, size)
    IN  FlattenSeq([i \in DOMAIN batch |-> IF i - 1 \in failing
                                          THEN OneByOne(batch[i].from, batch[i].to)
                                          ELSE Upto(batch[i].from, batch[i].to)])

\* The VAE decodes the latents in batches, in their order; when a batch fails in
\* real mode the render raises.
Decode(latents, size) ==
    LET batch == Batches(Len(latents), size)
    IN  FlattenSeq([i \in DOMAIN batch |-> SubSeq(latents, batch[i].from + 1, batch[i].to)])

\* An engine asked for less than half a second answers for half a second.
Duration(from, to) == Max({500, to - from})

Clips == [fps : Nat, voice : Nat, first : Nat, bin : Nat, per : Nat \ {0}, rows : Seq(Int),
          shows : {"nothing", "face", "crop", "person"}]

NoClip == [fps |-> 0, voice |-> 0, first |-> 0, bin |-> 0, per |-> 1, rows |-> <<>>,
           shows |-> "nothing"]

\* A clip of frames that show nothing.
Blank(ms, fps) ==
    [fps |-> fps, voice |-> 0, first |-> 0, bin |-> 0, per |-> 1,
     rows |-> [k \in 1 .. (ms * fps + 999) \div 1000 |-> -1], shows |-> "nothing"]

MockClip(from, to, fps) == Blank(Duration(from, to), fps)

\* Encoding no frames makes a blank clip of half a second.
RealClip(signals, frames, fps, shows) ==
    IF frames = <<>> THEN Blank(500, fps)
    ELSE [fps |-> fps, voice |-> signals.voice, first |-> signals.first, bin |-> signals.bin,
          per |-> signals.per, rows |-> frames, shows |-> shows]
=============================================================================
