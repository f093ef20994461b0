-------------------------- MODULE AvatarPacksProofs --------------------------
(***************************************************************************)
(* The pack on disk is whole, and repositories and jobs report packs that    *)
(* were, for every number of workers, jobs, faults and kills, when no two    *)
(* workers have the same process id.                                        *)
(*                                                                         *)
(* An archive is written by one worker at a time because its temporary name  *)
(* holds the process id, and by none once it has the pack's name because     *)
(* os.replace takes the temporary name away.  Both need that a compile       *)
(* creates its file under a number nobody else has (NumbersTaken) and that   *)
(* no two names are of one file (FilesApart).                               *)
(***************************************************************************)
EXTENDS AvatarPacks, TLAPS

Early   == {"lookup", "prepare", "open"}        \* before the file is created
Writing == {"manifest", "assets", "replace"}

Types ==
    /\ builds \in [Numbers -> {"none", "liveportrait", "musetalk"}]
    /\ files \in [Numbers -> Archives]
    /\ temp \in [Pids -> Numbers]
    /\ pack \in Numbers
    /\ cache \in [Repos -> Numbers]
    /\ wk \in [Workers -> Procs]
    /\ used \in [jobs : 0 .. MaxJobs, faults : Nat]

\* Every number in use is of a job that was taken, and a job has one worker.
NumbersTaken ==
    /\ \A w \in Workers : wk[w].build <= used.jobs /\ wk[w].file <= used.jobs
    /\ \A p \in Pids : temp[p] <= used.jobs
    /\ pack <= used.jobs
    /\ \A w \in Workers : wk[w].pc # "idle" => wk[w].build # 0
    /\ \A v, w \in Workers : v # w /\ wk[v].pc # "idle" => wk[v].build # wk[w].build

\* No two names are of one file; a worker that has not opened its file yet has
\* a number that no file has.
FilesApart ==
    /\ \A p \in Pids : temp[p] # 0 => temp[p] # pack
    /\ \A p, q \in Pids : p # q /\ temp[p] # 0 => temp[p] # temp[q]
    /\ \A w \in Workers : wk[w].pc \in Early =>
          /\ wk[w].build # pack
          /\ \A p \in Pids : temp[p] # wk[w].build

TypeInv == Types /\ NumbersTaken /\ FilesApart

-----------------------------------------------------------------------------
LEMMA GotoType ==
    ASSUME wk \in [Workers -> Procs], NEW w \in Workers,
           NEW pc \in {"prepare", "open", "manifest", "assets", "replace", "digest", "save",
                       "resolve", "render"},
           Goto(w, pc)
    PROVE  /\ wk' \in [Workers -> Procs]
           /\ wk'[w].pc = pc /\ wk'[w].build = wk[w].build /\ wk'[w].file = wk[w].file
           /\ wk'[w].digest = wk[w].digest
           /\ \A v \in Workers : v # w => wk'[v] = wk[v]
  BY DEF Goto, Procs

LEMMA DigestType ==
    ASSUME wk \in [Workers -> Procs], NEW w \in Workers, NEW a \in Archives,
           NEW pc \in {"save", "render"},
           wk' = [wk EXCEPT ![w].pc = pc, ![w].digest = a]
    PROVE  /\ wk' \in [Workers -> Procs]
           /\ wk'[w].pc = pc /\ wk'[w].build = wk[w].build /\ wk'[w].file = wk[w].file
           /\ wk'[w].digest = a /\ wk'[w].job = wk[w].job
           /\ \A v \in Workers : v # w => wk'[v] = wk[v]
  BY DEF Procs

LEMMA OpenType ==
    ASSUME wk \in [Workers -> Procs], NEW w \in Workers, NEW k \in Numbers,
           wk' = [wk EXCEPT ![w].pc = "manifest", ![w].file = k]
    PROVE  /\ wk' \in [Workers -> Procs]
           /\ wk'[w].pc = "manifest" /\ wk'[w].build = wk[w].build /\ wk'[w].file = k
           /\ wk'[w].digest = wk[w].digest
           /\ \A v \in Workers : v # w => wk'[v] = wk[v]
  BY DEF Procs

LEMMA TakeType ==
    ASSUME wk \in [Workers -> Procs], NEW w \in Workers, NEW k \in Numbers,
           NEW job \in {"compile", "known", "unknown"}, NEW pc \in {"lookup", "prepare"},
           wk' = [wk EXCEPT ![w].job = job, ![w].build = k, ![w].pc = pc]
    PROVE  /\ wk' \in [Workers -> Procs]
           /\ wk'[w].pc = pc /\ wk'[w].build = k /\ wk'[w].file = wk[w].file
           /\ \A v \in Workers : v # w => wk'[v] = wk[v]
<1>. DEFINE p == [wk[w] EXCEPT !.job = job, !.build = k, !.pc = pc]
<1>1. p \in Procs /\ p.pc = pc /\ p.build = k /\ p.file = wk[w].file
  BY DEF Procs
<1>2. wk' = [wk EXCEPT ![w] = p]
  BY Zenon
<1>. QED
  BY <1>1, <1>2

LEMMA EndType ==
    ASSUME PackAssumption, wk \in [Workers -> Procs], NEW w \in Workers,
           wk' = [wk EXCEPT ![w] = Idle]
    PROVE  /\ wk' \in [Workers -> Procs]
           /\ wk'[w] = Idle
           /\ \A v \in Workers : v # w => wk'[v] = wk[v]
<1>1. Idle \in Procs
  BY DEF Idle, Procs, PackAssumption, Numbers, Empty, Archives
<1>. QED
  BY <1>1

LEMMA TypeInvInit == PackAssumption /\ Init => TypeInv
<1>. SUFFICES ASSUME PackAssumption, Init PROVE TypeInv
  OBVIOUS
<1>1. MaxJobs \in Nat /\ 0 \in Numbers
  BY DEF PackAssumption, Numbers
<1>2. Empty \in Archives
  BY <1>1 DEF Empty, Archives
<1>3. Idle \in Procs
  BY <1>1, <1>2 DEF Idle, Procs
<1>4. Types
  BY <1>1, <1>2, <1>3 DEF Init, Types
<1>5. NumbersTaken /\ FilesApart
  BY <1>1 DEF Init, Idle, NumbersTaken, FilesApart, Early
<1>. QED
  BY <1>4, <1>5 DEF TypeInv

\* A worker that only goes on to a later step, or to the next job.
LEMMA MovesOn ==
    ASSUME PackAssumption, TypeInv, NEW w \in Workers,
           wk' \in [Workers -> Procs],
           \A v \in Workers : v # w => wk'[v] = wk[v],
           \/ wk'[w] = Idle
           \/ /\ wk[w].pc # "idle" /\ wk'[w].build = wk[w].build /\ wk'[w].file = wk[w].file
              /\ wk'[w].pc \in Early => wk[w].pc \in Early,
           UNCHANGED <<temp, pack>>, used'.jobs = used.jobs
    PROVE  NumbersTaken' /\ FilesApart'
<1>1. used.jobs \in Nat /\ MaxJobs \in Nat
  BY DEF PackAssumption, TypeInv, Types
<1>2. Idle.pc = "idle" /\ Idle.build = 0 /\ Idle.file = 0 /\ "idle" \notin Early
  BY DEF Idle, Early
<1>3. NumbersTaken'
  BY <1>1, <1>2 DEF TypeInv, NumbersTaken
<1>4. FilesApart'
  BY <1>2 DEF TypeInv, FilesApart
<1>. QED
  BY <1>3, <1>4

LEMMA TypeInvNext == PackAssumption /\ TypeInv /\ [Next]_vars => TypeInv'
<1>. SUFFICES ASSUME PackAssumption, TypeInv, [Next]_vars PROVE TypeInv'
  OBVIOUS
<1>1. MaxJobs \in Nat /\ MaxFaults \in Nat /\ 0 \in Numbers /\ Numbers \subseteq Nat
      /\ Empty \in Archives
  BY DEF PackAssumption, Numbers, Empty, Archives
<1>2. Idle \in Procs
  BY <1>1 DEF Idle, Procs
<1>3. Types
  BY DEF TypeInv
<1>4. ASSUME NEW w \in Workers, NEW job \in JobKinds, Take(w, job) PROVE TypeInv'
  <2>1. used.jobs + 1 \in Numbers /\ job \in {"compile", "known", "unknown"}
    BY <1>1, <1>3, <1>4 DEF Take, Types, Numbers, PackAssumption
  <2>2. Types'
    <3>1. used' \in [jobs : 0 .. MaxJobs, faults : Nat]
      BY <1>1, <1>3, <1>4 DEF Take, Types
    <3>2. wk' \in [Workers -> Procs]
      <4>1. PICK pc \in {"lookup", "prepare"} :
               wk' = [wk EXCEPT ![w].job = job, ![w].build = used.jobs + 1, ![w].pc = pc]
        BY <1>4 DEF Take
      <4>. QED
        BY <1>3, <2>1, <4>1, TakeType DEF Types
    <3>. QED
      BY <1>3, <1>4, <3>1, <3>2 DEF Take, Types
  <2>3. /\ used'.jobs = used.jobs + 1 /\ used.jobs \in Nat
        /\ wk'[w].build = used.jobs + 1 /\ wk'[w].file = wk[w].file
        /\ \A v \in Workers : v # w => wk'[v] = wk[v]
        /\ UNCHANGED <<temp, pack>>
    BY <1>1, <1>3, <1>4, <2>1 DEF Take, Types, Procs
  <2>4. /\ \A p \in Pids : temp[p] \in Nat
        /\ pack \in Nat
        /\ \A v \in Workers : wk[v].build \in Nat /\ wk[v].file \in Nat
    BY <1>1, <1>3 DEF Types, Procs
  <2>5. NumbersTaken'
    BY <2>3, <2>4 DEF NumbersTaken, TypeInv
  <2>6. FilesApart'
    BY <2>3, <2>4 DEF NumbersTaken, FilesApart, TypeInv
  <2>. QED
    BY <2>2, <2>5, <2>6 DEF TypeInv
<1>5. ASSUME NEW w \in Workers, Lookup(w) PROVE TypeInv'
  <2>1. Get(w) \in Numbers
    BY <1>1, <1>3 DEF Types, Get, Archives, Repos
  <2>2. /\ Goto(w, "prepare") \/ Goto(w, "resolve") \/ wk' = [wk EXCEPT ![w] = Idle]
        /\ cache' = cache \/ cache' = [cache EXCEPT ![w] = Get(w)]
        /\ wk[w].pc = "lookup"
        /\ UNCHANGED <<builds, files, temp, pack, used>>
    BY <1>5 DEF Lookup, At, End
  <2>3. Types'
    BY <1>3, <2>1, <2>2, GotoType, EndType DEF Types, Repos
  <2>4. NumbersTaken' /\ FilesApart'
    BY <1>3, <2>2, GotoType, EndType, MovesOn DEF Types, Early
  <2>. QED
    BY <2>3, <2>4 DEF TypeInv
<1>6. ASSUME NEW w \in Workers, Prepare(w) PROVE TypeInv'
  <2>1. /\ Goto(w, "open") \/ wk' = [wk EXCEPT ![w] = Idle]
        /\ builds' = builds \/ builds' = [builds EXCEPT ![wk[w].build] = Engine[w]]
        /\ wk[w].pc = "prepare"
        /\ used' = used \/ used' = [used EXCEPT !.faults = @ + 1]
        /\ UNCHANGED <<files, temp, pack, cache>>
    BY <1>6 DEF Prepare, At, End, Fault
  <2>2. used' \in [jobs : 0 .. MaxJobs, faults : Nat] /\ used'.jobs = used.jobs
    BY <1>3, <2>1 DEF Types
  <2>3. builds' \in [Numbers -> {"none", "liveportrait", "musetalk"}]
    BY <1>3, <2>1 DEF Types, PackAssumption
  <2>4. wk' \in [Workers -> Procs]
    BY <1>3, <2>1, GotoType, EndType DEF Types
  <2>5. Types'
    BY <1>3, <2>1, <2>2, <2>3, <2>4 DEF Types
  <2>6. NumbersTaken' /\ FilesApart'
    BY <1>3, <2>1, <2>2, GotoType, EndType, MovesOn DEF Types, Early
  <2>. QED
    BY <2>5, <2>6 DEF TypeInv
<1>7. ASSUME NEW w \in Workers, Open(w) PROVE TypeInv'
  <2>. DEFINE k == IF temp[Pid[w]] = 0 THEN wk[w].build ELSE temp[Pid[w]]
  <2>1. /\ Pid[w] \in Pids
        /\ wk[w].pc = "open" /\ k \in Numbers /\ k # 0 /\ k # pack
        /\ \A p \in Pids : p # Pid[w] => temp[p] # k
        /\ k <= used.jobs
        /\ temp[Pid[w]] # 0 => k = temp[Pid[w]]
        /\ temp[Pid[w]] = 0 => k = wk[w].build
    BY <1>1, <1>3, <1>7 DEF Open, At, Pids, Types, Procs, TypeInv, FilesApart, NumbersTaken, Early
  <2>2. /\ files' = [files EXCEPT ![k] = Empty]
        /\ temp' = [temp EXCEPT ![Pid[w]] = k]
        /\ wk' = [wk EXCEPT ![w].pc = "manifest", ![w].file = k]
        /\ UNCHANGED <<builds, pack, cache, used>>
    BY <1>7 DEF Open
  <2>. HIDE DEF k
  <2>3. Types'
    <3>1. wk' \in [Workers -> Procs]
      BY <1>3, <2>1, <2>2, OpenType DEF Types
    <3>2. files' \in [Numbers -> Archives]
      BY <1>1, <1>3, <2>2 DEF Types
    <3>3. temp' \in [Pids -> Numbers]
      BY <1>3, <2>1, <2>2 DEF Types
    <3>. QED
      BY <1>3, <2>2, <3>1, <3>2, <3>3 DEF Types
  <2>4. /\ wk'[w].pc = "manifest" /\ wk'[w].build = wk[w].build /\ wk'[w].file = k
        /\ \A v \in Workers : v # w => wk'[v] = wk[v]
        /\ temp'[Pid[w]] = k
        /\ \A p \in Pids : p # Pid[w] => temp'[p] = temp[p]
    BY <1>3, <2>1, <2>2 DEF Types, Procs
  <2>5. NumbersTaken'
    <3>1. \A v \in Workers :
             wk'[v].build = wk[v].build /\ (wk'[v].pc # "idle" <=> wk[v].pc # "idle")
      BY <2>1, <2>4
    <3>2. (\A v \in Workers : wk'[v].file <= used.jobs) /\ \A p \in Pids : temp'[p] <= used.jobs
      BY <2>1, <2>4 DEF NumbersTaken, TypeInv
    <3>3. used' = used /\ pack' = pack
      BY <2>2
    <3>. QED
      BY <3>1, <3>2, <3>3 DEF NumbersTaken, TypeInv
  <2>6. FilesApart'
    <3>1. \A p \in Pids : temp'[p] # 0 => temp'[p] # pack'
      BY <2>1, <2>2, <2>4 DEF FilesApart, TypeInv
    <3>2. \A p, q \in Pids : p # q /\ temp'[p] # 0 => temp'[p] # temp'[q]
      BY <2>1, <2>2, <2>4 DEF FilesApart, TypeInv
    <3>3. ASSUME NEW v \in Workers, wk'[v].pc \in Early
          PROVE  wk'[v].build # pack' /\ \A p \in Pids : temp'[p] # wk'[v].build
      <4>1. v # w /\ wk'[v] = wk[v] /\ wk[v].pc \in Early
        BY <2>4, <3>3 DEF Early
      <4>2. wk[v].build # wk[w].build
        BY <2>1, <4>1 DEF TypeInv, NumbersTaken
      <4>3. wk[v].build # k
        BY <2>1, <4>1, <4>2 DEF TypeInv, FilesApart
      <4>4. wk[v].build # pack /\ \A p \in Pids : temp[p] # wk[v].build
        BY <4>1 DEF TypeInv, FilesApart
      <4>. QED
        BY <2>2, <2>4, <4>1, <4>3, <4>4
    <3>. QED
      BY <3>1, <3>2, <3>3 DEF FilesApart
  <2>. QED
    BY <2>3, <2>5, <2>6 DEF TypeInv
<1>8. ASSUME NEW w \in Workers,
             WriteManifest(w) \/ WriteAssets(w) \/ WriteFails(w)
      PROVE TypeInv'
  <2>1. /\ Goto(w, "assets") \/ Goto(w, "replace") \/ wk' = [wk EXCEPT ![w] = Idle]
        /\ \/ files' = files
           \/ files' = [files EXCEPT ![wk[w].file].manifest = wk[w].build]
           \/ files' = [files EXCEPT ![wk[w].file].assets = wk[w].build]
        /\ wk[w].pc \in {"manifest", "assets"}
        /\ used' = used \/ used' = [used EXCEPT !.faults = @ + 1]
        /\ UNCHANGED <<builds, temp, pack, cache>>
    BY <1>8 DEF WriteManifest, WriteAssets, WriteFails, At, End, Fault
  <2>2. used' \in [jobs : 0 .. MaxJobs, faults : Nat] /\ used'.jobs = used.jobs
    BY <1>3, <2>1 DEF Types
  <2>3. files' \in [Numbers -> Archives]
    <3>1. wk[w].build \in Numbers
      BY <1>3 DEF Types, Procs
    <3>. QED
      BY <1>3, <2>1, <3>1 DEF Types, Archives
  <2>4. wk' \in [Workers -> Procs]
    BY <1>3, <2>1, GotoType, EndType DEF Types
  <2>5. Types'
    BY <1>3, <2>1, <2>2, <2>3, <2>4 DEF Types
  <2>6. NumbersTaken' /\ FilesApart'
    BY <1>3, <2>1, <2>2, GotoType, EndType, MovesOn DEF Types, Early
  <2>. QED
    BY <2>5, <2>6 DEF TypeInv
<1>9. ASSUME NEW w \in Workers, Replace(w) PROVE TypeInv'
  <2>1. CASE temp[Pid[w]] = 0
    <3>1. Types'
      BY <1>1, <1>2, <1>3, <1>9, <2>1 DEF Replace, Types, End
    <3>2. NumbersTaken' /\ FilesApart'
      BY <1>1, <1>3, <1>9, <2>1, <3>1, MovesOn DEF Replace, End, Types
    <3>. QED
      BY <3>1, <3>2 DEF TypeInv
  <2>2. CASE temp[Pid[w]] # 0
    <3>1. /\ Pid[w] \in Pids /\ pack' = temp[Pid[w]]
          /\ temp' = [temp EXCEPT ![Pid[w]] = 0]
          /\ wk' = [wk EXCEPT ![w].pc = "digest"]
          /\ UNCHANGED <<builds, files, cache, used>>
      BY <1>9, <2>2 DEF Replace, Goto, Pids
    <3>2. Types'
      BY <1>1, <1>3, <3>1 DEF Types, Procs
    <3>3. /\ \A v \in Workers : wk'[v].build = wk[v].build /\ wk'[v].file = wk[v].file
          /\ \A v \in Workers : v # w => wk'[v].pc = wk[v].pc
          /\ wk'[w].pc = "digest" /\ wk[w].pc = "replace"
          /\ temp'[Pid[w]] = 0
          /\ \A p \in Pids : p # Pid[w] => temp'[p] = temp[p]
      BY <1>3, <1>9, <3>1 DEF Types, Procs, Replace, At
    <3>4. NumbersTaken'
      BY <1>3, <3>1, <3>3 DEF NumbersTaken, TypeInv, Types
    <3>5. FilesApart'
      <4>1. \A p \in Pids : temp'[p] # 0 => temp'[p] # pack'
        BY <2>2, <3>1, <3>3 DEF FilesApart, TypeInv
      <4>2. \A p, q \in Pids : p # q /\ temp'[p] # 0 => temp'[p] # temp'[q]
        BY <3>1, <3>3 DEF FilesApart, TypeInv
      <4>3. ASSUME NEW v \in Workers, wk'[v].pc \in Early
            PROVE  wk'[v].build # pack' /\ \A p \in Pids : temp'[p] # wk'[v].build
        <5>1. wk[v].pc \in Early /\ wk'[v].build = wk[v].build /\ wk[v].pc # "idle"
          BY <3>3, <4>3 DEF Early
        <5>2. wk[v].build # 0 /\ \A p \in Pids : temp[p] # wk[v].build
          BY <5>1 DEF FilesApart, NumbersTaken, TypeInv
        <5>. QED
          BY <3>1, <3>3, <5>1, <5>2
      <4>. QED
        BY <4>1, <4>2, <4>3 DEF FilesApart
    <3>. QED
      BY <3>2, <3>4, <3>5 DEF TypeInv
  <2>. QED
    BY <2>1, <2>2
<1>10. ASSUME NEW w \in Workers, Digest(w) \/ Save(w) \/ Resolve(w) \/ Render(w)
       PROVE TypeInv'
  <2>1. files[pack] \in Archives /\ files[pack].manifest \in Numbers
    BY <1>3 DEF Types, Archives
  <2>2. /\ wk' \in [Workers -> Procs]
        /\ wk'[w] = Idle \/ (wk'[w].pc \notin Early /\ wk'[w].build = wk[w].build
                              /\ wk'[w].file = wk[w].file)
        /\ \A v \in Workers : v # w => wk'[v] = wk[v]
    <3>1. CASE wk' = [wk EXCEPT ![w] = Idle]
      BY <1>3, <3>1, EndType DEF Types
    <3>2. CASE Goto(w, "resolve")
      BY <1>3, <3>2, GotoType DEF Types, Early
    <3>3. CASE wk' = [wk EXCEPT ![w].pc = "save", ![w].digest = files[pack]]
      BY <1>3, <2>1, <3>3, DigestType DEF Types, Early
    <3>4. CASE wk' = [wk EXCEPT ![w].pc = "render", ![w].digest = files[pack]]
      BY <1>3, <2>1, <3>4, DigestType DEF Types, Early
    <3>. QED
      BY <1>10, <3>1, <3>2, <3>3, <3>4 DEF Digest, Save, Resolve, Render, End
  <2>3. /\ cache' = cache \/ cache' = [cache EXCEPT ![w] = files[pack].manifest]
        /\ wk[w].pc \in {"digest", "save", "resolve", "render"}
        /\ UNCHANGED <<builds, files, temp, pack, used>>
    BY <1>10 DEF Digest, Save, Resolve, Render, At
  <2>4. Types'
    BY <1>3, <2>1, <2>2, <2>3 DEF Types, Repos
  <2>5. NumbersTaken' /\ FilesApart'
    BY <2>2, <2>3, MovesOn
  <2>. QED
    BY <2>4, <2>5 DEF TypeInv
<1>11. ASSUME ApiGet PROVE TypeInv'
  <2>1. Get("api") \in Numbers
    BY <1>3 DEF Types, Get, Archives, Repos
  <2>. QED
    BY <1>11, <2>1 DEF ApiGet, TypeInv, Types, NumbersTaken, FilesApart
<1>12. ASSUME NEW w \in Workers, Kill(w) PROVE TypeInv'
  <2>1. Types'
    BY <1>1, <1>2, <1>3, <1>12 DEF Kill, Fault, Types, Repos
  <2>2. NumbersTaken' /\ FilesApart'
    BY <1>1, <1>3, <1>12, <2>1, MovesOn DEF Kill, Fault, Types
  <2>. QED
    BY <2>1, <2>2 DEF TypeInv
<1>13. CASE UNCHANGED vars
  BY <1>13 DEF vars, TypeInv, Types, NumbersTaken, FilesApart
<1>. QED
  BY <1>4, <1>5, <1>6, <1>7, <1>8, <1>9, <1>10, <1>11, <1>12, <1>13 DEF Next, Step

\* Every variable keeps its type and no file has two names, with any process
\* ids.
THEOREM PacksTypeCorrect == Spec => []TypeOK
<1>1. Init => TypeInv
  BY TypeInvInit, PackAssumption
<1>2. TypeInv /\ [Next]_vars => TypeInv'
  BY TypeInvNext, PackAssumption
<1>3. TypeInv => TypeOK
  BY DEF TypeInv, Types, FilesApart, TypeOK
<1>. QED
  BY <1>1, <1>2, <1>3, PTL DEF Spec

-----------------------------------------------------------------------------
(* With process ids that differ.                                            *)

ProcessIdsDiffer == \A v, w \in Workers : Pid[v] = Pid[w] => v = w

\* A worker that writes has the file its temporary name is of.
OwnFile ==
    \A w \in Workers : wk[w].pc \in Writing => wk[w].file # 0 /\ temp[Pid[w]] = wk[w].file

\* What a worker has written is in its file, and the pack is whole.
Contents ==
    /\ files[0] = Empty
    /\ \A w \in Workers :
          /\ wk[w].pc \in {"assets", "replace"} => files[wk[w].file].manifest = wk[w].build
          /\ wk[w].pc = "replace" => files[wk[w].file].assets = wk[w].build
    /\ PackWhole

Has(pc) == pc \in {"digest", "save", "resolve", "render"}

\* There is a pack from the first on, and handles are of packs that were.
History ==
    /\ pack # 0 => files[pack] \in published
    /\ published # {} => pack # 0
    /\ \A w \in Workers :
          /\ Has(wk[w].pc) => pack # 0
          /\ wk[w].pc \in {"save", "render"} => wk[w].digest \in published

Whole == OwnFile /\ Contents /\ History

LEMMA WholeInit == PackAssumption /\ Init => Whole /\ ReportsTrue
<1>. SUFFICES ASSUME PackAssumption, Init PROVE Whole /\ ReportsTrue
  OBVIOUS
<1>1. files[0] = Empty
  BY DEF Init, Numbers, PackAssumption
<1>2. \A w \in Workers : wk[w].pc = "idle"
  BY DEF Init, Idle
<1>3. pack = 0 /\ published = {} /\ \A r \in Repos : cache[r] = 0
  BY DEF Init
<1>4. result.outcome = "none"
  BY DEF Init, NoResult
<1>5. Whole
  BY <1>1, <1>2, <1>3 DEF Whole, OwnFile, Contents, History, Has, Writing, PackWhole
<1>. QED
  BY <1>3, <1>4, <1>5 DEF ReportsTrue

\* A worker that writes nothing any more, or not yet.
LEMMA WholeMovesOn ==
    ASSUME Whole, NEW w \in Workers,
           \A v \in Workers : v # w => wk'[v] = wk[v],
           UNCHANGED <<files, temp, pack, published>>,
           wk'[w].pc \notin Writing,
           Has(wk'[w].pc) => pack # 0,
           wk'[w].pc \in {"save", "render"} => wk'[w].digest \in published
    PROVE  Whole'
<1>1. OwnFile'
  BY DEF Whole, OwnFile
<1>2. Contents'
  BY DEF Whole, Contents, PackWhole, Writing
<1>3. History'
  BY DEF Whole, History
<1>. QED
  BY <1>1, <1>2, <1>3 DEF Whole

\* The temporary files of two writers are two.
LEMMA WritersApart ==
    ASSUME ProcessIdsDiffer, TypeInv, Whole, NEW v \in Workers, NEW w \in Workers, v # w,
           wk[v].pc \in Writing
    PROVE  /\ temp[Pid[w]] # wk[v].file
           /\ wk[v].file # pack /\ wk[v].file # 0 /\ wk[v].file = temp[Pid[v]]
<1>1. Pid[v] \in Pids /\ Pid[w] \in Pids /\ Pid[v] # Pid[w]
  BY DEF Pids, ProcessIdsDiffer
<1>. QED
  BY <1>1 DEF TypeInv, FilesApart, Whole, OwnFile

LEMMA OpenWhole ==
    ASSUME PackAssumption, ProcessIdsDiffer, TypeInv, Whole, NEW w \in Workers, Open(w)
    PROVE  Whole'
<1>. DEFINE k == IF temp[Pid[w]] = 0 THEN wk[w].build ELSE temp[Pid[w]]
<1>1. /\ wk \in [Workers -> Procs] /\ files \in [Numbers -> Archives]
      /\ temp \in [Pids -> Numbers] /\ wk[w].build \in Numbers /\ Pid[w] \in Pids
  BY DEF TypeInv, Types, Procs, Pids
<1>2. k \in Numbers /\ k # 0 /\ k # pack /\ \A p \in Pids : p # Pid[w] => temp[p] # k
  BY <1>1 DEF Open, At, TypeInv, FilesApart, NumbersTaken, Early
<1>3. /\ files' = [files EXCEPT ![k] = Empty]
      /\ temp' = [temp EXCEPT ![Pid[w]] = k]
      /\ wk' = [wk EXCEPT ![w].pc = "manifest", ![w].file = k]
      /\ UNCHANGED <<pack, published>>
  BY DEF Open
<1>. HIDE DEF k
<1>4. /\ wk'[w].pc = "manifest" /\ wk'[w].file = k
      /\ \A v \in Workers : v # w => wk'[v] = wk[v]
  BY <1>1, <1>2, <1>3, OpenType
<1>5. /\ temp'[Pid[w]] = k /\ \A p \in Pids : p # Pid[w] => temp'[p] = temp[p]
      /\ \A i \in Numbers : i # k => files'[i] = files[i]
  BY <1>1, <1>2, <1>3
<1>6. ASSUME NEW v \in Workers, v # w, wk[v].pc \in Writing
      PROVE  wk[v].file # k /\ Pid[v] # Pid[w] /\ Pid[v] \in Pids /\ wk[v].file \in Numbers
  BY <1>1, <1>2, <1>6, WritersApart DEF Pids, ProcessIdsDiffer
<1>7. OwnFile'
  BY <1>2, <1>4, <1>5, <1>6 DEF Whole, OwnFile
<1>8. Contents'
  <2>1. 0 \in Numbers /\ pack \in Numbers
    BY DEF TypeInv, Types, PackAssumption, Numbers
  <2>2. files'[0] = files[0] /\ files'[pack] = files[pack] /\ pack' = pack
    BY <1>2, <1>3, <1>5, <2>1
  <2>3. ASSUME NEW v \in Workers, wk'[v].pc \in {"assets", "replace"}
        PROVE  wk'[v] = wk[v] /\ files'[wk[v].file] = files[wk[v].file]
    BY <1>4, <1>5, <1>6, <2>3 DEF Writing
  <2>. QED
    BY <2>2, <2>3 DEF Whole, Contents, PackWhole
<1>9. History'
  <2>1. files'[pack] = files[pack]
    BY <1>2, <1>5 DEF TypeInv, Types
  <2>2. \A v \in Workers : v = w \/ wk'[v] = wk[v]
    BY <1>4
  <2>3. ~Has(wk'[w].pc) /\ wk'[w].pc \notin {"save", "render"}
    BY <1>4 DEF Has
  <2>4. pack' = pack /\ published' = published
    BY <1>3
  <2>. QED
    BY <2>1, <2>2, <2>3, <2>4 DEF Whole, History
<1>. QED
  BY <1>7, <1>8, <1>9 DEF Whole

LEMMA WriteWhole ==
    ASSUME PackAssumption, ProcessIdsDiffer, TypeInv, Whole, NEW w \in Workers,
           WriteManifest(w) \/ WriteAssets(w)
    PROVE  Whole'
<1>. DEFINE f == wk[w].file
<1>1. /\ wk \in [Workers -> Procs] /\ files \in [Numbers -> Archives]
      /\ f \in Numbers /\ wk[w].build \in Numbers /\ Pid[w] \in Pids
  BY DEF TypeInv, Types, Procs, Pids
<1>2. wk[w].pc \in Writing /\ f # 0 /\ f = temp[Pid[w]] /\ f # pack
  BY <1>1 DEF WriteManifest, WriteAssets, At, Writing, Whole, OwnFile, TypeInv, FilesApart
<1>3. UNCHANGED <<temp, pack, published>>
  BY DEF WriteManifest, WriteAssets
<1>4. /\ wk'[w].file = f /\ wk'[w].build = wk[w].build
      /\ wk'[w].pc \in Writing
      /\ \A v \in Workers : v # w => wk'[v] = wk[v]
  BY <1>1, GotoType DEF WriteManifest, WriteAssets, Writing
<1>5. /\ \A i \in Numbers : i # f => files'[i] = files[i]
      /\ wk'[w].pc = "assets" => files'[f].manifest = wk[w].build
      /\ wk'[w].pc = "replace" => /\ files'[f].manifest = files[f].manifest
                                  /\ files'[f].assets = wk[w].build
                                  /\ wk[w].pc = "assets"
      /\ wk'[w].pc # "manifest"
  <2>1. CASE WriteManifest(w)
    <3>1. wk'[w].pc = "assets" /\ files' = [files EXCEPT ![f].manifest = wk[w].build]
      BY <1>1, <2>1, GotoType DEF WriteManifest
    <3>. QED
      BY <1>1, <3>1 DEF Archives
  <2>2. CASE WriteAssets(w)
    <3>1. wk'[w].pc = "replace" /\ files' = [files EXCEPT ![f].assets = wk[w].build]
          /\ wk[w].pc = "assets"
      BY <1>1, <2>2, GotoType DEF WriteAssets, At
    <3>. QED
      BY <1>1, <3>1 DEF Archives
  <2>. QED
    BY <2>1, <2>2
<1>6. ASSUME NEW v \in Workers, v # w, wk[v].pc \in Writing
      PROVE  files'[wk[v].file] = files[wk[v].file]
  BY <1>1, <1>2, <1>5, <1>6, WritersApart DEF TypeInv, Types, Procs
<1>7. OwnFile'
  BY <1>2, <1>3, <1>4 DEF Whole, OwnFile
<1>8. files'[0] = files[0] /\ files'[pack] = files[pack] /\ pack' = pack
  BY <1>2, <1>3, <1>5 DEF TypeInv, Types, PackAssumption, Numbers
<1>9. Contents'
  BY <1>4, <1>5, <1>6, <1>8 DEF Whole, Contents, PackWhole, Writing
<1>10. History'
  BY <1>3, <1>4, <1>8 DEF Whole, History, Has, Writing
<1>. QED
  BY <1>7, <1>9, <1>10 DEF Whole

LEMMA ReplaceWhole ==
    ASSUME PackAssumption, ProcessIdsDiffer, TypeInv, Whole, NEW w \in Workers, Replace(w)
    PROVE  Whole' /\ result' = result /\ published \subseteq published'
<1>1. /\ wk \in [Workers -> Procs] /\ temp \in [Pids -> Numbers] /\ Pid[w] \in Pids
      /\ wk[w].pc = "replace" /\ wk[w].file # 0 /\ temp[Pid[w]] = wk[w].file
  BY DEF Replace, At, TypeInv, Types, Pids, Whole, OwnFile, Writing
<1>2. /\ pack' = wk[w].file /\ temp' = [temp EXCEPT ![Pid[w]] = 0]
      /\ published' = published \cup {files[pack']}
      /\ Goto(w, "digest") /\ UNCHANGED <<files, result>>
  BY <1>1 DEF Replace
<1>3. /\ wk'[w].pc = "digest"
      /\ \A v \in Workers : v # w => wk'[v] = wk[v]
      /\ \A p \in Pids : p # Pid[w] => temp'[p] = temp[p]
  BY <1>1, <1>2, GotoType
<1>4. OwnFile'
  BY <1>2, <1>3, WritersApart DEF Whole, OwnFile, Pids, ProcessIdsDiffer, Writing
<1>5. ~Torn(files[wk[w].file])
  BY <1>1 DEF Whole, Contents, Torn, TypeInv, NumbersTaken
<1>6. Contents'
  BY <1>2, <1>3, <1>5 DEF Whole, Contents, PackWhole, Torn
<1>7. History'
  BY <1>1, <1>2, <1>3 DEF Whole, History, Has
<1>. QED
  BY <1>2, <1>4, <1>6, <1>7 DEF Whole

\* What a repository answers was once the pack.
LEMMA GetReports ==
    ASSUME Whole, ReportsTrue, NEW r \in Repos, Get(r) # 0
    PROVE  pack # 0 /\ \E a \in published : ~Torn(a) /\ a.manifest = Get(r)
<1>1. CASE cache[r] # 0
  BY <1>1 DEF Get, ReportsTrue, Whole, History
<1>2. CASE cache[r] = 0
  <2>1. Get(r) = files[pack].manifest
    BY <1>2 DEF Get
  <2>2. pack # 0
    BY <2>1 DEF Whole, Contents, Empty
  <2>. QED
    BY <2>1, <2>2 DEF Whole, Contents, History, PackWhole
<1>. QED
  BY <1>1, <1>2

LEMMA PackReports ==
    ASSUME Whole, pack # 0
    PROVE  files[pack] \in published /\ ~Torn(files[pack])
  BY DEF Whole, Contents, History, PackWhole

LEMMA WholeNext ==
    ASSUME PackAssumption, ProcessIdsDiffer, TypeInv, Whole, ReportsTrue, [Next]_vars
    PROVE  Whole' /\ ReportsTrue'
<1>1. /\ wk \in [Workers -> Procs] /\ cache \in [Repos -> Numbers]
      /\ files \in [Numbers -> Archives] /\ pack \in Numbers
  BY DEF TypeInv, Types
<1>2. Idle.pc = "idle" /\ "idle" \notin Writing /\ ~Has("idle")
  BY DEF Idle, Writing, Has
<1>3. ASSUME NEW w \in Workers, NEW job \in JobKinds, Take(w, job) PROVE Whole' /\ ReportsTrue'
  <2>1. used.jobs + 1 \in Numbers /\ job \in {"compile", "known", "unknown"}
    BY <1>3 DEF Take, TypeInv, Types, Numbers, PackAssumption
  <2>2. PICK pc \in {"lookup", "prepare"} :
            wk' = [wk EXCEPT ![w].job = job, ![w].build = used.jobs + 1, ![w].pc = pc]
    BY <1>3 DEF Take
  <2>3. wk'[w].pc \in {"lookup", "prepare"} /\ \A v \in Workers : v # w => wk'[v] = wk[v]
    BY <1>1, <2>1, <2>2, TakeType
  <2>4. UNCHANGED <<files, temp, pack, cache, published, result>>
    BY <1>3 DEF Take
  <2>. QED
    BY <2>3, <2>4, WholeMovesOn DEF Writing, Has, ReportsTrue
<1>4. ASSUME NEW w \in Workers, Lookup(w) PROVE Whole' /\ ReportsTrue'
  <2>1. UNCHANGED <<files, temp, pack, published>>
    BY <1>4 DEF Lookup
  <2>2. CASE Goto(w, "prepare") /\ UNCHANGED <<cache, result>>
    BY <1>1, <2>1, <2>2, GotoType, WholeMovesOn DEF Writing, Has, ReportsTrue
  <2>3. CASE /\ Get(w) # 0 /\ cache' = [cache EXCEPT ![w] = Get(w)]
             /\ Goto(w, "resolve") /\ UNCHANGED result
    <3>1. w \in Repos
      BY DEF Repos
    <3>2. Whole'
      BY <1>1, <2>1, <2>3, <3>1, GotoType, GetReports, WholeMovesOn DEF Writing, Has
    <3>3. ReportsTrue'
      BY <1>1, <2>1, <2>3, <3>1, GetReports DEF ReportsTrue
    <3>. QED
      BY <3>2, <3>3
  <2>4. CASE End(w, Failed(w, "unreadable")) /\ UNCHANGED cache
    BY <1>1, <1>2, <2>1, <2>4, EndType, WholeMovesOn DEF End, Failed, ReportsTrue
  <2>. QED
    BY <1>4, <2>2, <2>3, <2>4 DEF Lookup
<1>5. ASSUME NEW w \in Workers, Prepare(w) PROVE Whole' /\ ReportsTrue'
  <2>1. UNCHANGED <<files, temp, pack, cache, published>>
    BY <1>5 DEF Prepare
  <2>2. CASE Goto(w, "open") /\ UNCHANGED result
    BY <1>1, <2>1, <2>2, GotoType, WholeMovesOn DEF Writing, Has, ReportsTrue
  <2>3. CASE End(w, Failed(w, "raised"))
    BY <1>1, <1>2, <2>1, <2>3, EndType, WholeMovesOn DEF End, Failed, ReportsTrue
  <2>. QED
    BY <1>5, <2>2, <2>3 DEF Prepare
<1>6. ASSUME NEW w \in Workers, Open(w) \/ WriteManifest(w) \/ WriteAssets(w) \/ Replace(w)
      PROVE  Whole' /\ ReportsTrue'
  <2>1. Whole'
    BY <1>6, OpenWhole, WriteWhole, ReplaceWhole
  <2>2. UNCHANGED <<cache, result>> /\ published \subseteq published'
    BY <1>6, ReplaceWhole DEF Open, WriteManifest, WriteAssets, Replace
  <2>. QED
    BY <2>1, <2>2 DEF ReportsTrue
<1>7. ASSUME NEW w \in Workers, WriteFails(w) PROVE Whole' /\ ReportsTrue'
  <2>1. UNCHANGED <<files, temp, pack, cache, published>> /\ End(w, Failed(w, "raised"))
    BY <1>7 DEF WriteFails
  <2>. QED
    BY <1>1, <1>2, <2>1, EndType, WholeMovesOn DEF End, Failed, ReportsTrue
<1>8. ASSUME NEW w \in Workers, Digest(w) PROVE Whole' /\ ReportsTrue'
  <2>1. /\ UNCHANGED <<files, temp, pack, cache, published, result>>
        /\ wk' = [wk EXCEPT ![w].pc = "save", ![w].digest = files[pack]]
        /\ wk[w].pc = "digest"
    BY <1>8 DEF Digest, At
  <2>2. pack # 0
    BY <2>1 DEF Whole, History, Has
  <2>3. /\ wk'[w].pc = "save" /\ wk'[w].digest = files[pack]
        /\ \A v \in Workers : v # w => wk'[v] = wk[v]
    BY <1>1, <2>1, DigestType
  <2>4. Whole'
    BY <2>1, <2>2, <2>3, PackReports, WholeMovesOn DEF Writing
  <2>. QED
    BY <2>1, <2>4 DEF ReportsTrue
<1>9. ASSUME NEW w \in Workers, Save(w) PROVE Whole' /\ ReportsTrue'
  <2>1. UNCHANGED <<files, temp, pack, published>> /\ wk[w].pc = "save"
    BY <1>9 DEF Save, At
  <2>2. pack # 0 /\ wk[w].digest \in published
    BY <2>1 DEF Whole, History, Has
  <2>3. Whole'
    BY <1>1, <1>2, <1>9, <2>1, <2>2, EndType, GotoType, WholeMovesOn DEF Save, End, Writing
  <2>4. \A r \in Repos : cache'[r] = cache[r] \/ cache'[r] = files[pack].manifest
    BY <1>1, <1>9 DEF Save
  <2>5. result' = result \/ result'.outcome = "unreadable" \/ result'.digest = wk[w].digest
    BY <1>9 DEF Save, End, Failed
  <2>. QED
    BY <2>1, <2>2, <2>3, <2>4, <2>5, PackReports DEF ReportsTrue
<1>10. ASSUME NEW w \in Workers, Resolve(w) PROVE Whole' /\ ReportsTrue'
  <2>1. UNCHANGED <<files, temp, pack, cache, published>> /\ wk[w].pc = "resolve"
    BY <1>10 DEF Resolve, At
  <2>2. CASE wk' = [wk EXCEPT ![w].pc = "render", ![w].digest = files[pack]]
             /\ UNCHANGED result
    <3>1. pack # 0
      BY <2>1 DEF Whole, History, Has
    <3>2. /\ wk'[w].pc = "render" /\ wk'[w].digest = files[pack]
          /\ \A v \in Workers : v # w => wk'[v] = wk[v]
      BY <1>1, <2>2, DigestType
    <3>3. Whole'
      BY <2>1, <3>1, <3>2, PackReports, WholeMovesOn DEF Writing
    <3>. QED
      BY <2>1, <2>2, <3>3 DEF ReportsTrue
  <2>3. CASE End(w, Failed(w, "unidentified"))
    BY <1>1, <1>2, <2>1, <2>3, EndType, WholeMovesOn DEF End, Failed, ReportsTrue
  <2>. QED
    BY <1>10, <2>2, <2>3 DEF Resolve
<1>11. ASSUME NEW w \in Workers, Render(w) PROVE Whole' /\ ReportsTrue'
  <2>1. /\ UNCHANGED <<files, temp, pack, cache, published>>
        /\ wk[w].pc = "render"
        /\ wk' = [wk EXCEPT ![w] = Idle]
        /\ result'.outcome = "raised" \/ result'.digest = wk[w].digest
    BY <1>11 DEF Render, At, End, Failed
  <2>2. wk[w].digest \in published
    BY <2>1 DEF Whole, History
  <2>3. Whole'
    BY <1>1, <1>2, <2>1, EndType, WholeMovesOn
  <2>4. result'.outcome \in {"compiled", "rendered"} => result'.digest \in published'
    BY <2>1, <2>2
  <2>. QED
    BY <2>1, <2>3, <2>4 DEF ReportsTrue
<1>12. ASSUME ApiGet PROVE Whole' /\ ReportsTrue'
  <2>1. "api" \in Repos
    BY DEF Repos
  <2>2. Whole'
    BY <1>12 DEF ApiGet, Whole, OwnFile, Contents, History, PackWhole
  <2>3. ReportsTrue'
    BY <1>1, <1>12, <2>1, GetReports DEF ApiGet, ReportsTrue
  <2>. QED
    BY <2>2, <2>3
<1>13. ASSUME NEW w \in Workers, Kill(w) PROVE Whole' /\ ReportsTrue'
  <2>1. UNCHANGED <<files, temp, pack, published, result>>
        /\ wk' = [wk EXCEPT ![w] = Idle] /\ cache' = [cache EXCEPT ![w] = 0]
    BY <1>13 DEF Kill
  <2>2. Whole'
    BY <1>1, <1>2, <2>1, EndType, WholeMovesOn
  <2>3. ReportsTrue'
    BY <1>1, <2>1 DEF ReportsTrue
  <2>. QED
    BY <2>2, <2>3
<1>14. CASE UNCHANGED vars
  BY <1>14 DEF vars, Whole, OwnFile, Contents, History, PackWhole, ReportsTrue
<1>. QED
  BY <1>3, <1>4, <1>5, <1>6, <1>7, <1>8, <1>9, <1>10, <1>11, <1>12, <1>13, <1>14 DEF Next, Step

LEMMA WholeAlways == ASSUME ProcessIdsDiffer PROVE Spec => [](TypeInv /\ Whole /\ ReportsTrue)
<1>1. Init => TypeInv /\ Whole /\ ReportsTrue
  BY TypeInvInit, WholeInit, PackAssumption
<1>2. TypeInv /\ Whole /\ ReportsTrue /\ [Next]_vars => (TypeInv /\ Whole /\ ReportsTrue)'
  BY TypeInvNext, WholeNext, PackAssumption
<1>. QED
  BY <1>1, <1>2, PTL DEF Spec

\* Whoever opens the pack finds the manifest and the assets of one compile
\* (write_pack's temporary name and os.replace), whatever fails and is killed.
THEOREM PackAlwaysWhole == ASSUME ProcessIdsDiffer PROVE Spec => []PackWhole
<1>1. Whole => PackWhole
  BY DEF Whole, Contents
<1>. QED
  BY <1>1, WholeAlways, PTL

\* What repositories have cached and jobs report was once the pack on disk.
THEOREM ReportsAlwaysTrue == ASSUME ProcessIdsDiffer PROVE Spec => []ReportsTrue
  BY WholeAlways, PTL
=============================================================================
