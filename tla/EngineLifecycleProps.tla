------------------------ MODULE EngineLifecycleProps ------------------------
(* What EngineLifecycle must guarantee.                                     *)
EXTENDS EngineLifecycle

Serving(w) == wk[w].pc = "serving" /\ wk[w].state = "idle"

\* The variables keep their types, at most as many temporary files are left
\* as there were faults, an engine state other than "unloaded" or "loading" is
\* one load() has returned with, and MuseTalk answers nothing with its mock.
TypeOK ==
    /\ served \in [Names -> Versions]
    /\ cached \in [Names -> Versions \cup {"absent"}]
    /\ disk \in [Names -> Contents]
    /\ strays \in 0 .. used.faults
    /\ wk \in [Workers -> Processes]
    /\ \A w \in Workers : (wk[w].pc = "serving") <=> (wk[w].state \in {"idle", "degraded"})
    /\ \A a \in answers : deploy.kind = "musetalk" => a[3] # "mock"
    /\ used.rolls <= MaxRolls /\ used.faults <= MaxFaults

\* No engine is IDLE with weights other than those its manifest pins: whatever
\* the directory held, the upstream rolled and downloads or copies failed, the
\* bytes in VRAM are the verified ones (checkpoint_manager/__init__.py).
OnlyPinnedWeights ==
    \A w \in Workers, f \in Names :
        deploy.kind = "liveportrait" /\ Serving(w) /\ deploy.pin[f] # "TBD" => wk[w].weights[f] = deploy.pin[f]

\* An engine of either adapter that came up has every file of its manifest, and
\* none of them unverified: each has its pinned bytes, or has no pin yet and the
\* operator has said that it may be used ("has no SHA256 pin; refusing to mark
\* verified", manager.py:98).  For MuseTalk this is all there is, since its weights are
\* read by the upstream package.
ServesVerifiedFiles ==
    \A w \in Workers : Serving(w) => \A f \in Names :
        /\ disk[f] # "absent"
        /\ deploy.pin[f] = "TBD" => w \in deploy.skip
        /\ deploy.pin[f] # "TBD" => disk[f] = deploy.pin[f]

\* A file that matches its pin is never replaced by one that does not, nor
\* removed: a failed or rolled download cannot spoil a good cache.
GoodFileKept ==
    [][\A f \in Names : disk[f] = deploy.pin[f] => disk'[f] = deploy.pin[f]]_disk

\* load() always returns, or its process is killed.
LoadEnds ==
    \A w \in Workers : wk[w].pc \in {"look", "fetch"} ~> wk[w].pc \in {"serving", "off"}

\* As long as nothing fails, a LivePortrait worker with a GPU and network comes
\* up when the upstream serves the pinned files, however bad the files it finds.
Healthy(w) == /\ wk[w].state = "loading" /\ w \in deploy.network
              /\ deploy.kind = "liveportrait" /\ served = deploy.pin

BadCacheHeals ==
    \A w \in Workers :
        Healthy(w) ~> wk[w].state = "idle" \/ used.faults > 0 \/ used.rolls > 0
=============================================================================
