----------------------------- MODULE AvatarPacks -----------------------------
(***************************************************************************)
(* Avatar Packs: one tar archive per identity on the pack-data volume,      *)
(* written by AvatarCompiler / write_pack in any GPU worker, read through   *)
(* the AvatarPackRepository of each process, which caches what it has read  *)
(* for good.  A compile job compiles and saves; a text job looks its        *)
(* identity up, compiles when it misses, and resolves the identity again    *)
(* for each segment it renders (_resolve_identity).                         *)
(*                                                                         *)
(* One source image is enough: the identity id is a digest of its path and  *)
(* name, not of its content.  A job names that id ("known"), or an id the   *)
(* client made up, which no digest produces ("unknown").                    *)
(***************************************************************************)
EXTENDS Naturals, FiniteSets

CONSTANTS
    Workers,        \* GPU worker processes, each with a repository
    Pid,            \* their process ids; containers may share one
    Engine,         \* the engine of each
    JobKinds        \* the jobs clients ask for

\* Bounds of the model.
CONSTANTS
    MaxJobs,        \* jobs taken
    MaxFaults       \* exceptions of the engine or the disk, killed workers

ASSUME PackAssumption ==
    /\ Engine \in [Workers -> {"liveportrait", "musetalk"}]
    /\ "api" \notin Workers
    /\ JobKinds \subseteq {"compile", "known", "unknown"}
    /\ {MaxJobs, MaxFaults} \subseteq Nat

Pids  == {Pid[w] : w \in Workers}
Repos == Workers \cup {"api"}

\* A job, and the compile it makes if it makes one, is known by its number; 0 is
\* none.  An archive holds the manifest and the assets of the compile that wrote
\* each; it is known by the number of the compile that created the file.
Numbers  == 0 .. MaxJobs
Archives == [manifest : Numbers, assets : Numbers]
Empty    == [manifest |-> 0, assets |-> 0]

Procs == [pc : {"idle", "lookup", "prepare", "open", "manifest", "assets", "replace",
                "digest", "save", "resolve", "render"},
          job : {"none", "compile", "known", "unknown"},
          build : Numbers, file : Numbers, digest : Archives]

Idle == [pc |-> "idle", job |-> "none", build |-> 0, file |-> 0, digest |-> Empty]

NoResult == [job |-> "none", outcome |-> "none", digest |-> Empty]

VARIABLES
    builds,     \* the engine of each compile
    files,      \* the archives on the volume
    temp,       \* {pack}.{pid}.tmp: the archive under each temporary name
    pack,       \* {identity}.tar
    cache,      \* each repository's cached manifest
    wk,         \* the workers
    published,  \* archives that were ever moved to the pack's name, as then
    result,     \* what the last job has ended with
    used        \* jobs and faults so far

vars == <<builds, files, temp, pack, cache, wk, published, result, used>>

Init ==
    /\ builds = [k \in Numbers |-> "none"]
    /\ files = [k \in Numbers |-> Empty]
    /\ temp = [p \in Pids |-> 0]
    /\ pack = 0
    /\ cache = [r \in Repos |-> 0]
    /\ wk = [w \in Workers |-> Idle]
    /\ published = {}
    /\ result = NoResult
    /\ used = [jobs |-> 0, faults |-> 0]

-----------------------------------------------------------------------------
At(w, pc) == wk[w].pc = pc

Goto(w, pc) == wk' = [wk EXCEPT ![w].pc = pc]

\* The job ends; the worker keeps nothing of it but its repository.
End(w, r) == /\ wk' = [wk EXCEPT ![w] = Idle]
             /\ result' = r

Failed(w, why) == [job |-> wk[w].job, outcome |-> why, digest |-> Empty]

Fault == /\ used.faults < MaxFaults
         /\ used' = [used EXCEPT !.faults = @ + 1]

Take(w, job) ==
    /\ At(w, "idle")
    /\ used.jobs < MaxJobs
    /\ used' = [used EXCEPT !.jobs = @ + 1]
    /\ wk' = [wk EXCEPT ![w].job = job, ![w].build = used.jobs + 1,
                        ![w].pc = IF job = "compile" THEN "prepare" ELSE "lookup"]
    /\ UNCHANGED <<builds, files, temp, pack, cache, published, result>>

\* AvatarPackRepository.get: the cache, then the manifest on disk.
\* 0 is a miss.  Variant: the manifest of the newest compile, published or not.
GetNewest(r) ==
    IF cache[r] # 0 THEN cache[r]
    ELSE CHOOSE k \in Numbers : /\ k = 0 \/ builds[k] # "none"
                                /\ \A i \in Numbers : i > k => builds[i] = "none"

Get(r) == IF cache[r] # 0 THEN cache[r] ELSE files[pack].manifest

\* The render job's repo.get().  A read of an archive without a manifest raises.
Lookup(w) ==
    /\ At(w, "lookup")
    /\ \/ /\ wk[w].job = "unknown" \/ {cache[w], pack} = {0}
          /\ Goto(w, "prepare")
          /\ UNCHANGED <<cache, result>>
       \/ /\ wk[w].job = "known" /\ Get(w) # 0
          /\ cache' = [cache EXCEPT ![w] = Get(w)]
          /\ Goto(w, "resolve")
          /\ UNCHANGED result
       \/ /\ wk[w].job = "known" /\ pack # 0 /\ Get(w) = 0
          /\ End(w, Failed(w, "unreadable"))
          /\ UNCHANGED cache
    /\ UNCHANGED <<builds, files, temp, pack, published, used>>

-----------------------------------------------------------------------------
(* AvatarCompiler.compile and write_pack.                                   *)

\* prepare_identity and the source image's hash; the required entries are
\* checked before a file is touched.
Prepare(w) ==
    /\ At(w, "prepare")
    /\ \/ /\ builds' = [builds EXCEPT ![wk[w].build] = Engine[w]]
          /\ Goto(w, "open")
          /\ UNCHANGED <<result, used>>
       \/ /\ Fault
          /\ End(w, Failed(w, "raised"))
          /\ UNCHANGED builds
    /\ UNCHANGED <<files, temp, pack, cache, published>>

\* tarfile.open(tmp, "w") creates the file or cuts the one that is there.
Open(w) ==
    LET k == IF temp[Pid[w]] = 0 THEN wk[w].build ELSE temp[Pid[w]] IN
    /\ At(w, "open")
    /\ files' = [files EXCEPT ![k] = Empty]
    /\ temp' = [temp EXCEPT ![Pid[w]] = k]
    /\ wk' = [wk EXCEPT ![w].pc = "manifest", ![w].file = k]
    /\ UNCHANGED <<builds, pack, cache, published, result, used>>

\* The entries are written to the open file, whatever its name is by now.
WriteManifest(w) ==
    /\ At(w, "manifest")
    /\ files' = [files EXCEPT ![wk[w].file].manifest = wk[w].build]
    /\ Goto(w, "assets")
    /\ UNCHANGED <<builds, temp, pack, cache, published, result, used>>

WriteAssets(w) ==
    /\ At(w, "assets")
    /\ files' = [files EXCEPT ![wk[w].file].assets = wk[w].build]
    /\ Goto(w, "replace")
    /\ UNCHANGED <<builds, temp, pack, cache, published, result, used>>

\* The disk is full: the exception leaves the temporary file.
WriteFails(w) ==
    /\ wk[w].pc \in {"manifest", "assets"}
    /\ Fault
    /\ End(w, Failed(w, "raised"))
    /\ UNCHANGED <<builds, files, temp, pack, cache, published>>

\* Variant: moved before the assets are written.
ReplaceEarly(w) ==
    /\ wk[w].pc \in {"assets", "replace"}
    /\ IF temp[Pid[w]] = 0
       THEN /\ Goto(w, IF At(w, "replace") THEN "digest" ELSE "assets")
            /\ UNCHANGED <<temp, pack, published>>
       ELSE /\ pack' = temp[Pid[w]]
            /\ temp' = [temp EXCEPT ![Pid[w]] = 0]
            /\ published' = published \cup {files[pack']}
            /\ UNCHANGED wk
    /\ UNCHANGED <<builds, files, cache, result, used>>

\* Variant: copied instead of moved.
ReplaceKeepsTemp(w) ==
    /\ At(w, "replace")
    /\ temp[Pid[w]] # 0
    /\ pack' = temp[Pid[w]]
    /\ published' = published \cup {files[pack']}
    /\ Goto(w, "digest")
    /\ UNCHANGED <<builds, files, temp, cache, result, used>>

\* os.replace(tmp, archive_path): of whatever the temporary name names now.
Replace(w) ==
    /\ At(w, "replace")
    /\ IF temp[Pid[w]] = 0
       THEN /\ End(w, Failed(w, "raised"))
            /\ UNCHANGED <<temp, pack, published>>
       ELSE /\ pack' = temp[Pid[w]]
            /\ temp' = [temp EXCEPT ![Pid[w]] = 0]
            /\ published' = published \cup {files[pack']}
            /\ Goto(w, "digest")
            /\ UNCHANGED result
    /\ UNCHANGED <<builds, files, cache, used>>

\* The handle's pack_digest: the bytes under the pack's name by now.
Digest(w) ==
    /\ At(w, "digest")
    /\ wk' = [wk EXCEPT ![w].pc = "save", ![w].digest = files[pack]]
    /\ UNCHANGED <<builds, files, temp, pack, cache, published, result, used>>

\* repo.save(read_pack(path)): the manifest on disk goes to the cache.  A
\* compile job is done; a text job has the handle it wants.
Save(w) ==
    /\ At(w, "save")
    /\ IF files[pack].manifest = 0
       THEN End(w, Failed(w, "unreadable")) /\ UNCHANGED cache
       ELSE /\ cache' = [cache EXCEPT ![w] = files[pack].manifest]
            /\ IF wk[w].job = "compile"
               THEN End(w, [job |-> "compile", outcome |-> "compiled",
                            digest |-> wk[w].digest])
               ELSE Goto(w, "resolve") /\ UNCHANGED result
    /\ UNCHANGED <<builds, files, temp, pack, published, used>>

-----------------------------------------------------------------------------
(* Rendering a segment, the API and the world.                              *)

\* _resolve_identity asks the repository for the id of the job; the source
\* image is not handed on when there is a repository.
Resolve(w) ==
    /\ At(w, "resolve")
    /\ IF wk[w].job = "known"
       THEN /\ wk' = [wk EXCEPT ![w].pc = "render", ![w].digest = files[pack]]
            /\ UNCHANGED result
       ELSE End(w, Failed(w, "unidentified"))
    /\ UNCHANGED <<builds, files, temp, pack, cache, published, used>>

\* render_chunk reads the entries it needs from the path of the handle; those
\* of another engine are missing or have another shape.
Render(w) ==
    LET k == files[pack].assets IN
    /\ At(w, "render")
    /\ End(w, IF k # 0 /\ builds[k] = Engine[w]
              THEN [job |-> "known", outcome |-> "rendered", digest |-> wk[w].digest]
              ELSE Failed(w, "raised"))
    /\ UNCHANGED <<builds, files, temp, pack, cache, published, used>>

\* GET /avatars/{identity_id}.
ApiGet ==
    /\ Get("api") # 0
    /\ cache' = [cache EXCEPT !["api"] = Get("api")]
    /\ UNCHANGED <<builds, files, temp, pack, wk, published, result, used>>

\* The process is killed and started again: its temporary file stays.
Kill(w) ==
    /\ Fault
    /\ wk' = [wk EXCEPT ![w] = Idle]
    /\ cache' = [cache EXCEPT ![w] = 0]
    /\ UNCHANGED <<builds, files, temp, pack, published, result>>

Step(w) == \/ Lookup(w) \/ Prepare(w) \/ Open(w) \/ WriteManifest(w) \/ WriteAssets(w)
           \/ Replace(w) \/ Digest(w) \/ Save(w) \/ Resolve(w) \/ Render(w)

Next ==
    \/ \E w \in Workers, job \in JobKinds : Take(w, job)
    \/ \E w \in Workers : Step(w) \/ WriteFails(w) \/ Kill(w)
    \/ ApiGet

Spec == Init /\ [][Next]_vars

-----------------------------------------------------------------------------
Torn(a) == a.assets = 0 \/ a.assets # a.manifest

\* The variables keep their types, every temporary name and the pack's name an
\* archive of their own.
TypeOK ==
    /\ builds \in [Numbers -> {"none", "liveportrait", "musetalk"}]
    /\ files \in [Numbers -> Archives]
    /\ temp \in [Pids -> Numbers]
    /\ pack \in Numbers
    /\ cache \in [Repos -> Numbers]
    /\ wk \in [Workers -> Procs]
    /\ \A p \in Pids : temp[p] # 0 => temp[p] # pack

\* Whoever opens the pack finds the manifest and the assets of one compile,
\* with several workers compiling it, full disks and killed workers.  Needs
\* process ids that differ, which containers do not guarantee.
PackWhole == pack # 0 => ~Torn(files[pack])

\* What a repository has cached and what a job reports was once the pack on
\* disk, as a whole.  Needs process ids that differ.
ReportsTrue ==
    /\ \A r \in Repos : cache[r] # 0 =>
            \E a \in published : ~Torn(a) /\ a.manifest = cache[r]
    /\ result.outcome \in {"compiled", "rendered"} => result.digest \in published
=============================================================================
