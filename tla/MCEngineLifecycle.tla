------------------------- MODULE MCEngineLifecycle -------------------------
(* Constant values for checking EngineLifecycle with TLC.                   *)
EXTENDS EngineLifecycleProps

TwoFiles == <<"appearance", "motion">>
OneFile  == <<"appearance">>

\* As in CHECKPOINT_MANIFEST and as in MUSETALK_CHECKPOINT_MANIFEST.
Pinned   == [f \in Names |-> "v1"]
Unpinned == [f \in Names |-> "TBD"]
\* A manifest somebody has begun to pin.
HalfPinned == [f \in Names |-> IF f = "motion" THEN "v1" ELSE "TBD"]

LivePortrait == [kind |-> "liveportrait", pin |-> Pinned, gpu |-> Workers,
                 skip |-> {}, network |-> Workers]
MuseTalk     == [LivePortrait EXCEPT !.kind = "musetalk", !.pin = Unpinned]

\* The repository's two adapters, and what an operator may have changed: a
\* machine without a GPU or without downloads, missing pins skipped or filled in.
AnyDeployment ==
    {LivePortrait, MuseTalk, [LivePortrait EXCEPT !.network = {}],
     [MuseTalk EXCEPT !.gpu = {}], [MuseTalk EXCEPT !.skip = Workers],
     [MuseTalk EXCEPT !.pin = HalfPinned, !.skip = Workers],
     [MuseTalk EXCEPT !.pin = HalfPinned]}

TwoWorkersOneVolume == {LivePortrait}
=============================================================================
