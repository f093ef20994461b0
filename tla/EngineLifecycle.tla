--------------------------- MODULE EngineLifecycle ---------------------------
(***************************************************************************)
(* How a GPU worker brings its engine up: load() of the LivePortrait and    *)
(* MuseTalk adapters makes every checkpoint of the manifest present and     *)
(* verified (CheckpointManager.ensure_present), imports the upstream        *)
(* package and, for LivePortrait, loads the weights from the files.  Every  *)
(* failure ends in DEGRADED, and the worker serves jobs all the same.       *)
(*                                                                         *)
(* The workers are processes that share one checkpoint directory (the       *)
(* checkpoint-data volume); each file operation is a step of its own.       *)
(***************************************************************************)
EXTENDS Naturals, Sequences

CONSTANTS
    Workers,
    Files,          \* the manifest, in its order
    FromHub,        \* files with a HuggingFace URL; the others are fetched by urllib
    Versions,       \* contents the upstream ever served
    FirstServed,    \* what it may serve at the start
    FirstOnDisk,    \* what the directory may hold at the start
    Deployments     \* how the workers may have been set up

\* Bounds of the model.
CONSTANTS
    MaxStarts,      \* times each worker is started
    MaxRolls,       \* times the upstream replaces a file
    MaxFaults       \* failed downloads, copies and imports, and killed workers

Names == {Files[i] : i \in 1 .. Len(Files)}

\* What a checkpoint file may hold; "cut" is the beginning of some version.
Contents == Versions \cup {"cut", "absent"}

\* A deployment: the adapter, the SHA256 pins of its manifest, and the workers
\* with PyTorch and CUDA, with HEYAVATAR_SKIP_SHA256_VERIFY=1 and without
\* HEYAVATAR_LIVE_PORTRAIT_MOCK_DOWNLOAD=1.
SetUps == [kind : {"liveportrait", "musetalk"}, pin : [Names -> Versions \cup {"TBD"}],
           gpu : SUBSET Workers, skip : SUBSET Workers, network : SUBSET Workers]

ASSUME EngineAssumption ==
    /\ Files \in Seq(STRING) \ {<<>>}
    /\ FromHub \subseteq Names
    /\ Versions \cap {"cut", "absent", "TBD"} = {}
    /\ FirstServed \subseteq Versions
    /\ FirstOnDisk \subseteq Contents
    /\ Deployments \subseteq SetUps
    /\ {MaxStarts, MaxRolls, MaxFaults} \subseteq Nat

Steps == {"off", "look", "verify", "fetch", "install", "recheck", "import",
          "weights", "serving"}

\* A worker process: step of load(), position in the manifest, content of its
\* temporary file, engine state and the weights in VRAM.
Processes == [pc : Steps, at : 0 .. Len(Files), temp : Contents,
              state : {"unloaded", "loading", "idle", "degraded"},
              weights : [Names -> Contents]]

NoWeights == [f \in Names |-> "absent"]

Down == [pc |-> "off", at |-> 0, temp |-> "absent", state |-> "unloaded",
         weights |-> NoWeights]

VARIABLES
    deploy,     \* the deployment
    served,     \* what the upstream serves under each URL
    cached,     \* the hub's own cache on the volume
    disk,       \* the checkpoint directory
    strays,     \* temporary files nobody will remove
    wk,         \* the worker processes
    answers,    \* what compile and render jobs have been answered
    used        \* faults, rolls and starts so far

vars == <<deploy, served, cached, disk, strays, wk, answers, used>>

Init ==
    /\ deploy \in Deployments
    /\ served \in [Names -> FirstServed]
    /\ cached = [f \in Names |-> "absent"]
    /\ disk \in [Names -> FirstOnDisk]
    /\ strays = 0
    /\ wk = [w \in Workers |-> Down]
    /\ answers = {}
    /\ used = [starts |-> [w \in Workers |-> 0], rolls |-> 0, faults |-> 0]

-----------------------------------------------------------------------------
\* The file the worker is at.
File(w) == Files[wk[w].at]

At(w, pc) == wk[w].pc = pc

Goto(w, pc) == wk' = [wk EXCEPT ![w].pc = pc]

\* _fail(): the engine is DEGRADED and load() returns.
Fail(w) == wk' = [wk EXCEPT ![w].pc = "serving", ![w].state = "degraded",
                            ![w].temp = "absent"]

Fault == /\ used.faults < MaxFaults
         /\ used' = [used EXCEPT !.faults = @ + 1]

\* On to the next file, or from the last one to the import.
NextFile(w) ==
    wk' = IF wk[w].at < Len(Files)
          THEN [wk EXCEPT ![w].pc = "look", ![w].at = @ + 1]
          ELSE [wk EXCEPT ![w].pc = "import", ![w].at = 1]

\* Variant: a pin nobody filled in counts as a match.
AcceptsUnpinned(w, f, content) ==
    content # "absent" /\ deploy.pin[f] \in {"TBD", content}

\* CheckpointManager.verify of one file.
Accepts(w, f, content) ==
    /\ content # "absent"
    /\ IF deploy.pin[f] = "TBD" THEN w \in deploy.skip ELSE content = deploy.pin[f]

-----------------------------------------------------------------------------
(* load()                                                                   *)

Start(w) ==
    /\ At(w, "off")
    /\ used.starts[w] < MaxStarts
    /\ used' = [used EXCEPT !.starts[w] = @ + 1]
    /\ wk' = [wk EXCEPT ![w] =
                IF w \in deploy.gpu THEN [@ EXCEPT !.pc = "look", !.at = 1, !.state = "loading"]
                ELSE [@ EXCEPT !.pc = "serving", !.state = "degraded"]]
    /\ UNCHANGED <<deploy, served, cached, disk, strays, answers>>

\* Where a worker without a good copy goes.
Download(w) == IF w \in deploy.network THEN Goto(w, "fetch") ELSE Fail(w)

\* Variant: every file is downloaded anew.
LookNowhere(w) ==
    /\ At(w, "look")
    /\ Download(w)
    /\ UNCHANGED <<deploy, served, cached, disk, strays, answers, used>>

Look(w) ==
    /\ At(w, "look")
    /\ IF disk[File(w)] # "absent" THEN Goto(w, "verify") ELSE Download(w)
    /\ UNCHANGED <<deploy, served, cached, disk, strays, answers, used>>

\* Variants: a file that is there is trusted; a bad one is final.
VerifyNothing(w) ==
    /\ At(w, "verify")
    /\ NextFile(w)
    /\ UNCHANGED <<deploy, served, cached, disk, strays, answers, used>>

VerifyOrFail(w) ==
    /\ At(w, "verify")
    /\ IF Accepts(w, File(w), disk[File(w)]) THEN NextFile(w) ELSE Fail(w)
    /\ UNCHANGED <<deploy, served, cached, disk, strays, answers, used>>

Verify(w) ==
    /\ At(w, "verify")
    /\ IF Accepts(w, File(w), disk[File(w)]) THEN NextFile(w) ELSE Download(w)
    /\ UNCHANGED <<deploy, served, cached, disk, strays, answers, used>>

Fetched(w, content) == wk' = [wk EXCEPT ![w].pc = "install", ![w].temp = content]

\* hf_hub_download: the current revision; when the hub cannot be reached, the
\* revision in its cache; without either an exception.
FetchFromHub(w) ==
    LET f == File(w) IN
    /\ At(w, "fetch")
    /\ f \in FromHub
    /\ \/ /\ cached' = [cached EXCEPT ![f] = served[f]]
          /\ Fetched(w, served[f])
          /\ UNCHANGED used
       \/ /\ Fault
          /\ IF cached[f] # "absent" THEN Fetched(w, cached[f]) ELSE Fail(w)
          /\ UNCHANGED cached
    /\ UNCHANGED <<deploy, served, disk, strays, answers>>

\* urllib: a body that ends early is no error; an OSError removes the temporary
\* file, any other exception (http.client's) leaves it behind.
FetchByUrllib(w) ==
    LET f == File(w) IN
    /\ At(w, "fetch")
    /\ f \notin FromHub
    /\ \/ Fetched(w, served[f]) /\ UNCHANGED <<strays, used>>
       \/ Fault /\ Fetched(w, "cut") /\ UNCHANGED strays
       \/ Fault /\ Fail(w) /\ strays' \in {strays, strays + 1}
    /\ UNCHANGED <<deploy, served, cached, disk, answers>>

\* Variant: a copy that fails is tried again with another temporary file.
InstallTwice(w) ==
    /\ At(w, "install")
    /\ \/ /\ disk' = [disk EXCEPT ![File(w)] = wk[w].temp]
          /\ wk' = [wk EXCEPT ![w].pc = "recheck", ![w].temp = "absent"]
          /\ UNCHANGED strays
       \/ strays' = strays + 1 /\ UNCHANGED <<disk, wk>>
    /\ UNCHANGED <<deploy, served, cached, answers, used>>

\* os.replace of the temporary file; an OSError (of the copy, too) removes it.
Install(w) ==
    /\ At(w, "install")
    /\ \/ /\ disk' = [disk EXCEPT ![File(w)] = wk[w].temp]
          /\ wk' = [wk EXCEPT ![w].pc = "recheck", ![w].temp = "absent"]
          /\ UNCHANGED used
       \/ Fault /\ Fail(w) /\ UNCHANGED disk
    /\ UNCHANGED <<deploy, served, cached, strays, answers>>

\* Variant: downloaded until it matches.
RecheckRetries(w) ==
    /\ At(w, "recheck")
    /\ IF Accepts(w, File(w), disk[File(w)]) THEN NextFile(w) ELSE Download(w)
    /\ UNCHANGED <<deploy, served, cached, disk, strays, answers, used>>

\* "upstream may have rolled. Aborting."
Recheck(w) ==
    /\ At(w, "recheck")
    /\ IF Accepts(w, File(w), disk[File(w)]) THEN NextFile(w) ELSE Fail(w)
    /\ UNCHANGED <<deploy, served, cached, disk, strays, answers, used>>

\* The upstream package: MuseTalk is ready with it.
Import(w) ==
    /\ At(w, "import")
    /\ \/ /\ wk' = [wk EXCEPT ![w] =
                IF deploy.kind = "musetalk" THEN [@ EXCEPT !.pc = "serving", !.state = "idle"]
                ELSE [@ EXCEPT !.pc = "weights"]]
          /\ UNCHANGED used
       \/ Fault /\ Fail(w)
    /\ UNCHANGED <<deploy, served, cached, disk, strays, answers>>

\* LivePortraitWrapper reads the files of the managed directory one by one; one
\* it cannot read raises.  The warm-up after it cannot fail the load.
LoadWeights(w) ==
    LET f == File(w) IN
    /\ At(w, "weights")
    /\ IF disk[f] \notin Versions THEN Fail(w)
       ELSE wk' = [wk EXCEPT ![w] =
                IF @.at < Len(Files) THEN [@ EXCEPT !.weights[f] = disk[f], !.at = wk[w].at + 1]
                ELSE [@ EXCEPT !.weights[f] = disk[f], !.pc = "serving", !.state = "idle"]]
    /\ UNCHANGED <<deploy, served, cached, disk, strays, answers, used>>

-----------------------------------------------------------------------------
(* Jobs, the end of the worker, and the upstream.                           *)

\* prepare_identity(), in real mode.
Prepared(state) ==
    CASE state = "idle"               -> "real"
      [] deploy.kind = "liveportrait" -> "mock"
      [] OTHER                        -> "raised"

\* render_chunk(), in real mode.
Rendered(state) ==
    CASE state = "idle"                                         -> "real"
      [] deploy.kind = "liveportrait" /\ state = "unloaded"     -> "mock"
      [] OTHER                                                  -> "raised"

Answer(job, state, outcome) == answers' = answers \cup {<<job, state, outcome>>}

Compile(w) ==
    /\ At(w, "serving")
    /\ Answer("compile", wk[w].state, Prepared(wk[w].state))
    /\ UNCHANGED <<deploy, served, cached, disk, strays, wk, used>>

Render(w) ==
    /\ At(w, "serving")
    /\ Answer("render", wk[w].state, Rendered(wk[w].state))
    /\ UNCHANGED <<deploy, served, cached, disk, strays, wk, used>>

\* unload() at the end of run(), and the process ends.
Unload(w) ==
    /\ At(w, "serving")
    /\ wk' = [wk EXCEPT ![w] = Down]
    /\ UNCHANGED <<deploy, served, cached, disk, strays, answers, used>>

\* urllib writes to the temporary file, the hub's download is copied to it.
HasTemp(w) == \/ wk[w].temp # "absent"
              \/ At(w, "fetch") /\ File(w) \notin FromHub

\* The process is killed; a temporary file stays.
Kill(w) ==
    /\ ~At(w, "off")
    /\ Fault
    /\ wk' = [wk EXCEPT ![w] = Down]
    /\ strays' = IF HasTemp(w) THEN strays + 1 ELSE strays
    /\ UNCHANGED <<deploy, served, cached, disk, answers>>

Roll(f) ==
    /\ used.rolls < MaxRolls
    /\ used' = [used EXCEPT !.rolls = @ + 1]
    /\ \E v \in Versions \ {served[f]} : served' = [served EXCEPT ![f] = v]
    /\ UNCHANGED <<deploy, cached, disk, strays, wk, answers>>

LoadStep(w) == \/ Look(w) \/ Verify(w) \/ FetchFromHub(w) \/ FetchByUrllib(w)
               \/ Install(w) \/ Recheck(w) \/ Import(w) \/ LoadWeights(w)

Next ==
    \/ \E w \in Workers : \/ Start(w) \/ LoadStep(w) \/ Compile(w) \/ Render(w)
                          \/ Unload(w) \/ Kill(w)
    \/ \E f \in Names : Roll(f)

Spec == Init /\ [][Next]_vars

\* load() runs on as long as its process does.
FairSpec == Spec /\ \A w \in Workers : WF_vars(LoadStep(w))
=============================================================================
