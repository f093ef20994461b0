--------------------------- MODULE MCCachedRender ---------------------------
(* Constant values for checking CachedRender with TLC.                      *)
EXTENDS CachedRenderProps

Engine(kind, mock, backend, rate) ==
    [kind |-> kind, mock |-> mock, backend |-> backend, rate |-> rate]

SomeEngines == { Engine("liveportrait", FALSE, "dsp", 25),
                 Engine("liveportrait", FALSE, "neural", 25),
                 Engine("liveportrait", TRUE, "dsp", 25),
                 Engine("musetalk", FALSE, "dsp", 25),
                 Engine("musetalk", FALSE, "dsp", 50),
                 Engine("musetalk", TRUE, "dsp", 25) }

\* A window and 10 ms; less than a window; two windows and 20 ms, which is asked
\* for at another rate; and a file that is not a WAV.
SomeTakes == [slice |-> {[voice |-> 1, ms |-> 3510, wav |-> TRUE],
                         [voice |-> 2, ms |-> 1010, wav |-> TRUE]},
              other |-> {[voice |-> 3, ms |-> 7020, wav |-> TRUE]},
              mp3   |-> {[voice |-> 4, ms |-> 900, wav |-> FALSE]}]

Image(w, h, box) == [w |-> w, h |-> h, box |-> box]
NoImage == Image(0, 0, <<0, 0, 0, 0>>)
Middle  == Image(200, 160, <<80, 50, 40, 60>>)
AtLeft  == Image(200, 160, <<0, 40, 60, 80>>)
AtRight == Image(200, 160, <<150, 90, 50, 70>>)

Template(fps, body, mask, neck, boxes) ==
    [fps |-> fps, body |-> body, mask |-> mask, neck |-> neck, boxes |-> boxes,
     flat |-> {}, nan |-> {}, look |-> "plain"]

\* As recorded at 25, looped, with a box of no area now and then.
Recorded == [Template(25, 25, 25, 25, 25) EXCEPT !.flat = {3, 4, 5}]

\* Other rates, streams that do not fit, boxes that are not numbers, and what
\* the quality control refuses.
Odd == { Template(24, 30, 30, 30, 30), Template(30, 40, 40, 40, 40),
         Template(25, 25, 10, 25, 7), Template(25, 88, 60, 88, 88),
         Template(25, 0, 9, 9, 9), Template(25, 20, 0, 20, 20),
         [Recorded EXCEPT !.nan = {2}],
         [Recorded EXCEPT !.look = "green"], [Recorded EXCEPT !.look = "black"] }

Made(kind, real) ==
    IF real THEN [kind |-> kind, real |-> TRUE, crop |-> <<84, 84>>] ELSE MockPack(kind)

Cached(path, template, image, p) ==
    [kind |-> "cached", path |-> path, fps |-> 25, template |-> template,
     image |-> image, pack |-> p]

SomeRequests ==
    {Cached(path, Recorded, Middle, NoPack) : path \in {"slice", "mp3"}}
    \cup {Cached("slice", Recorded, image, NoPack) : image \in {NoImage, AtLeft, AtRight}}
    \cup {Cached("slice", Recorded, NoImage, Made(kind, real)) :
             kind \in Kinds, real \in BOOLEAN}
    \cup {Cached("slice", t, Middle, NoPack) : t \in Odd}
    \cup {[Cached("slice", Recorded, NoImage, Made(kind, TRUE)) EXCEPT !.kind = "windows"] :
             kind \in Kinds}
    \cup {[Cached("other", Template(30, 40, 40, 40, 40), Middle, NoPack) EXCEPT !.fps = 30]}
    \cup {[Cached("other", Recorded, NoImage, Made(kind, TRUE))
              EXCEPT !.kind = "windows", !.fps = 30] : kind \in Kinds}
=============================================================================
