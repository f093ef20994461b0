----------------------------- MODULE JobPlatform -----------------------------
(***************************************************************************)
(* The Redis-backed job path of the platform, one Redis command per step:   *)
(*                                                                         *)
(*   - API request handlers (api/routes/jobs.py), each run by a thread of   *)
(*     some API replica: submit_job and cancel_job;                          *)
(*   - GPU worker processes (workers/gpu_worker/worker.py): the run loop     *)
(*     with reserve, mark RUNNING, process, acknowledge or fail, final mark; *)
(*   - RedisJobQueue and RedisJobRepository, which both write the hash of    *)
(*     the job, with the once-per-process housekeeping of the queue.         *)
(*                                                                         *)
(* Nothing in the program makes two commands atomic together, so every       *)
(* command of every process interleaves with every other one.                *)
(***************************************************************************)
EXTENDS JobRecord, RedisStream

CONSTANTS
    Jobs,              \* job ids
    NoJob,             \* no job id
    Kind,              \* what a job's payload asks for, per job id
    Requests,          \* HTTP requests the API gets (each handled once)
    Workers,           \* GPU worker processes
    ClientReferences,  \* may clients choose job ids (client_reference)?
    LongRenders,       \* may a job outlast the visibility timeout?
    ReclaimCount,      \* COUNT of XAUTOCLAIM (100 in the code)
    StreamMaxLen       \* MAXLEN of XTRIM (10 000 in the code)

\* Bounds of the model: how many faults of each kind a behaviour has.
CONSTANTS
    MaxCrashes,        \* worker processes killed
    MaxErrors,         \* Redis commands that raise
    MaxEvictions       \* job hashes evicted by maxmemory-policy allkeys-lru

JobKinds == {"compile", "text", "render"}

ASSUME ConstantsAssumption ==
    /\ NoJob \notin Jobs
    /\ Kind \in [Jobs -> JobKinds]
    /\ ClientReferences \in BOOLEAN
    /\ LongRenders \in BOOLEAN
    /\ ReclaimCount \in Nat \ {0}
    /\ StreamMaxLen \in Nat
    /\ MaxCrashes \in Nat
    /\ MaxErrors \in Nat
    /\ MaxEvictions \in Nat

-----------------------------------------------------------------------------
VARIABLES
    hash,           \* heyavatar:job:{id}, per job id
    stream,         \* heyavatar:jobs: the job ids added, in order
    lastDelivered,  \* last entry delivered to the consumer group
    trimmed,        \* entries 1 .. trimmed were cut off by XTRIM
    pending,        \* the group's pending entries list
    stale,          \* pending entries idle longer than the visibility timeout
    rq,             \* the API request handlers
    wk,             \* the worker processes
    judged,         \* history: entries whose job got a verdict for them
    crashes, errors, evictions  \* faults so far

streamVars == <<stream, lastDelivered, trimmed, pending, stale>>
faultVars  == <<crashes, errors, evictions>>
vars == <<hash, streamVars, rq, wk, judged, faultVars>>

Entries == 1 .. Len(stream)

RequestSteps == {"idle", "xadd", "upsert", "markGet", "markUpsert", "done", "error"}

\* A request handler: what it was asked, where it is, the hash mark() read.
Handlers == [op : {"none", "submit", "cancel"}, pc : RequestSteps,
             job : Jobs \cup {NoJob}, snap : Hashes]

HousekeepingSteps == {"autoclaim", "reclaimHset", "reclaimXack", "reclaimHdel", "trim"}
JobSteps == {"hgetPayload", "hsetReserved", "runGet", "runUpsert", "process",
             "settleHget", "settleHset", "settleXack", "settleHdel",
             "finalGet", "finalUpsert"}
WorkerSteps == {"down", "reserve"} \cup HousekeepingSteps \cup JobSteps

\* What _process returns, or "failed" when it raises.
Outcomes == {"completed", "completed_degraded", "failed"}

\* A worker process and its local variables: the job and stream entry it
\* reserved, the payload it was given, the outcome, the entry marker that
\* acknowledge() or fail() read, the hash mark() read; and the reclaimed page
\* and cursor of _reclaim().
Processes == [pc : WorkerSteps, job : Jobs \cup {NoJob}, entry : Nat,
              payload : Payloads, outcome : Outcomes, marker : Nat,
              snap : Hashes, batch : SUBSET Nat, start : Nat, next : Nat]

NewHandler == [op |-> "none", pc |-> "idle", job |-> NoJob, snap |-> NoHash]

ProcessAt(step) == [pc |-> step, job |-> NoJob, entry |-> 0, payload |-> Missing,
                    outcome |-> "failed", marker |-> 0, snap |-> NoHash,
                    batch |-> {}, start |-> 0, next |-> 0]

Init ==
    /\ hash = [j \in Jobs |-> NoHash]
    /\ stream = <<>>
    /\ lastDelivered = 0
    /\ trimmed = 0
    /\ pending = {}
    /\ stale = {}
    /\ rq = [r \in Requests |-> NewHandler]
    /\ wk = [w \in Workers |-> ProcessAt("down")]
    /\ judged = {}
    /\ crashes = 0
    /\ errors = 0
    /\ evictions = 0

-----------------------------------------------------------------------------
(* The API: submit_job and cancel_job.                                      *)

\* Variant: ids are not unique even when clients do not choose them.
NewIdUnchecked(j) == TRUE

\* _new_job_id: job-{client_reference}, or a uuid nobody has used.
NewId(j) == ClientReferences \/ \A r \in Requests : rq[r].job # j

\* An id a client may ask to cancel: with uuids, one that a response has told
\* it, or one that no submit uses, then or later.
KnownId(j) == ClientReferences
                  \/ \A r \in Requests : (rq[r].op = "submit" /\ rq[r].job = j)
                                             => rq[r].pc = "done"

\* queue.publish, first command: HSET of payload and state.
SubmitHset(r, j) ==
    /\ rq[r].pc = "idle"
    /\ NewId(j)
    /\ hash' = [hash EXCEPT ![j] = [@ EXCEPT !.payload = Full, !.state = "pending"]]
    /\ rq' = [rq EXCEPT ![r] = [NewHandler EXCEPT !.op = "submit", !.pc = "xadd",
                                                  !.job = j]]
    /\ UNCHANGED <<streamVars, wk, judged, faultVars>>

\* queue.publish, second command: XADD.
SubmitXadd(r) ==
    /\ rq[r].pc = "xadd"
    /\ stream' = Append(stream, rq[r].job)
    /\ rq' = [rq EXCEPT ![r].pc = "upsert"]
    /\ UNCHANGED <<hash, lastDelivered, trimmed, pending, stale, wk, judged, faultVars>>

\* job_repo.upsert of the PENDING job, after it was published.
SubmitUpsert(r) ==
    /\ rq[r].pc = "upsert"
    /\ hash' = [hash EXCEPT ![rq[r].job] = Upsert(@, "pending", Full, Missing)]
    /\ rq' = [rq EXCEPT ![r].pc = "done"]
    /\ UNCHANGED <<streamVars, wk, judged, faultVars>>

\* queue.cancel: HSET of the state, whether or not the key exists.
CancelHset(r, j) ==
    /\ rq[r].pc = "idle"
    /\ KnownId(j)
    /\ hash' = [hash EXCEPT ![j].state = "cancelled"]
    /\ rq' = [rq EXCEPT ![r] = [NewHandler EXCEPT !.op = "cancel", !.pc = "markGet",
                                                  !.job = j]]
    /\ UNCHANGED <<streamVars, wk, judged, faultVars>>

\* job_repo.mark(CANCELLED), the HGETALL: nothing more to do for a missing job.
CancelGet(r) ==
    /\ rq[r].pc = "markGet"
    /\ LET h == hash[rq[r].job]
       IN  rq' = [rq EXCEPT ![r].pc = IF h.state = Absent THEN "done" ELSE "markUpsert",
                            ![r].snap = h]
    /\ UNCHANGED <<hash, streamVars, wk, judged, faultVars>>

\* job_repo.mark(CANCELLED), the HSET.
CancelUpsert(r) ==
    /\ rq[r].pc = "markUpsert"
    /\ hash' = [hash EXCEPT ![rq[r].job] = MarkFrom(rq[r].snap, @, "cancelled", Missing)]
    /\ rq' = [rq EXCEPT ![r].pc = "done", ![r].snap = NoHash]
    /\ UNCHANGED <<streamVars, wk, judged, faultVars>>

\* A Redis command of a handler raises (or the replica dies): HTTP 500, and
\* what was written before stays written.
RequestFails(r) ==
    /\ rq[r].pc \in {"xadd", "upsert", "markGet", "markUpsert"}
    /\ errors < MaxErrors
    /\ errors' = errors + 1
    /\ rq' = [rq EXCEPT ![r].pc = "error", ![r].snap = NoHash]
    /\ UNCHANGED <<hash, streamVars, wk, judged, crashes, evictions>>

-----------------------------------------------------------------------------
(* A worker process: housekeeping on its first reserve, then the run loop.  *)

\* Move worker w to step, its local variables unchanged.
Goto(w, step) == wk' = [wk EXCEPT ![w].pc = step]

Start(w) ==
    /\ wk[w].pc = "down"
    /\ wk' = [wk EXCEPT ![w] = ProcessAt("autoclaim")]
    /\ UNCHANGED <<hash, streamVars, rq, judged, faultVars>>

\* Variant: the timeout is passed in seconds instead of milliseconds.
AutoClaimTooEarly(w) ==
    /\ wk[w].pc = "autoclaim"
    /\ LET page == AutoClaimPage(pending, pending, trimmed, wk[w].start, ReclaimCount)
           got  == AutoClaimed(page, trimmed)
       IN  /\ pending' = pending \ AutoDropped(page, trimmed)
           /\ stale' = stale \ page
           /\ wk' = [wk EXCEPT ![w] =
                IF got = {} THEN ProcessAt("trim")
                ELSE [@ EXCEPT !.pc = "reclaimHset", !.batch = got,
                               !.next = AutoClaimCursor(pending, page, ReclaimCount)]]
    /\ UNCHANGED <<hash, stream, lastDelivered, trimmed, rq, judged, faultVars>>

\* _reclaim: XAUTOCLAIM of one page.
AutoClaim(w) ==
    /\ wk[w].pc = "autoclaim"
    /\ LET page == AutoClaimPage(pending, stale, trimmed, wk[w].start, ReclaimCount)
           got  == AutoClaimed(page, trimmed)
       IN  /\ pending' = pending \ AutoDropped(page, trimmed)
           /\ stale' = stale \ page
           /\ wk' = [wk EXCEPT ![w] =
                IF got = {} THEN ProcessAt("trim")
                ELSE [@ EXCEPT !.pc = "reclaimHset", !.batch = got,
                               !.next = AutoClaimCursor(pending, page, ReclaimCount)]]
    /\ UNCHANGED <<hash, stream, lastDelivered, trimmed, rq, judged, faultVars>>

\* _reclaim, per message: HSET of FAILED, XACK, HDEL of the marker.
ReclaimHset(w) ==
    LET e == First(wk[w].batch) IN
    /\ wk[w].pc = "reclaimHset"
    /\ hash' = [hash EXCEPT ![stream[e]].state = "failed"]
    /\ judged' = judged \cup {e}
    /\ Goto(w, "reclaimXack")
    /\ UNCHANGED <<streamVars, rq, faultVars>>

ReclaimXack(w) ==
    LET e == First(wk[w].batch) IN
    /\ wk[w].pc = "reclaimXack"
    /\ pending' = pending \ {e}
    /\ stale' = stale \ {e}
    /\ Goto(w, "reclaimHdel")
    /\ UNCHANGED <<hash, stream, lastDelivered, trimmed, rq, judged, faultVars>>

\* Variant: one page and no more.
ReclaimHdelOnePage(w) ==
    LET e    == First(wk[w].batch)
        rest == wk[w].batch \ {e}
    IN
    /\ wk[w].pc = "reclaimHdel"
    /\ hash' = [hash EXCEPT ![stream[e]].entry = 0]
    /\ wk' = [wk EXCEPT ![w] = IF rest = {} THEN ProcessAt("trim")
                               ELSE [@ EXCEPT !.pc = "reclaimHset", !.batch = rest]]
    /\ UNCHANGED <<streamVars, rq, judged, faultVars>>

\* The HDEL, and where the loops go from there.
ReclaimHdel(w) ==
    LET e    == First(wk[w].batch)
        rest == wk[w].batch \ {e}
    IN
    /\ wk[w].pc = "reclaimHdel"
    /\ hash' = [hash EXCEPT ![stream[e]].entry = 0]
    /\ \/ /\ rest # {}
          /\ wk' = [wk EXCEPT ![w].pc = "reclaimHset", ![w].batch = rest]
       \/ /\ rest = {}
          /\ wk[w].next = wk[w].start
          /\ wk' = [wk EXCEPT ![w] = ProcessAt("trim")]
       \/ /\ rest = {}
          /\ wk[w].next # wk[w].start
          /\ wk' = [wk EXCEPT ![w] = [ProcessAt("autoclaim") EXCEPT !.start = wk[w].next]]
    /\ UNCHANGED <<streamVars, rq, judged, faultVars>>

\* _trim: XTRIM, once per process.
Trim(w) ==
    /\ wk[w].pc = "trim"
    /\ trimmed' \in TrimPoints(Len(stream), trimmed, StreamMaxLen)
    /\ Goto(w, "reserve")
    /\ UNCHANGED <<hash, stream, lastDelivered, pending, stale, rq, judged, faultVars>>

\* Variant: XREADGROUP from "0" instead of ">": what is pending, again.
ReadGroupPendingAgain(w) ==
    LET e == IF pending = {} THEN NextUnread(lastDelivered, trimmed) ELSE First(pending) IN
    /\ wk[w].pc = "reserve"
    /\ e <= Len(stream)
    /\ lastDelivered' = Larger(e, lastDelivered)
    /\ pending' = pending \cup {e}
    /\ wk' = [wk EXCEPT ![w].pc = "hgetPayload", ![w].entry = e, ![w].job = stream[e]]
    /\ UNCHANGED <<hash, stream, trimmed, stale, rq, judged, faultVars>>

\* reserve: XREADGROUP delivers the next entry to this worker.
ReadGroup(w) ==
    LET e == NextUnread(lastDelivered, trimmed) IN
    /\ wk[w].pc = "reserve"
    /\ e <= Len(stream)
    /\ lastDelivered' = e
    /\ pending' = pending \cup {e}
    /\ wk' = [wk EXCEPT ![w].pc = "hgetPayload", ![w].entry = e, ![w].job = stream[e]]
    /\ UNCHANGED <<hash, stream, trimmed, stale, rq, judged, faultVars>>

\* reserve finds nothing to read: the loop sleeps and polls again.
PollEmpty(w) ==
    /\ wk[w].pc = "reserve"
    /\ NextUnread(lastDelivered, trimmed) > Len(stream)
    /\ UNCHANGED vars

\* reserve: HGET of the payload; a missing one becomes {}.
HgetPayload(w) ==
    /\ wk[w].pc = "hgetPayload"
    /\ wk' = [wk EXCEPT ![w].pc = "hsetReserved",
                        ![w].payload = ReadPayload(hash[wk[w].job])]
    /\ UNCHANGED <<hash, streamVars, rq, judged, faultVars>>

\* Variant: the marker is taken from the group's cursor, not from the reply.
HsetReservedGroupCursor(w) ==
    /\ wk[w].pc = "hsetReserved"
    /\ hash' = [hash EXCEPT ![wk[w].job] = [@ EXCEPT !.entry = lastDelivered,
                                                     !.state = "reserved"]]
    /\ Goto(w, "runGet")
    /\ UNCHANGED <<streamVars, rq, judged, faultVars>>

\* reserve: HSET of the entry marker and the state.
HsetReserved(w) ==
    /\ wk[w].pc = "hsetReserved"
    /\ hash' = [hash EXCEPT ![wk[w].job] = [@ EXCEPT !.entry = wk[w].entry,
                                                     !.state = "reserved"]]
    /\ Goto(w, "runGet")
    /\ UNCHANGED <<streamVars, rq, judged, faultVars>>

\* _update_job_state(RUNNING): the HGETALL and the HSET of mark().
RunGet(w) ==
    LET h == hash[wk[w].job] IN
    /\ wk[w].pc = "runGet"
    /\ wk' = [wk EXCEPT ![w].pc = IF h.state = Absent THEN "process" ELSE "runUpsert",
                        ![w].snap = h]
    /\ UNCHANGED <<hash, streamVars, rq, judged, faultVars>>

RunUpsert(w) ==
    /\ wk[w].pc = "runUpsert"
    /\ hash' = [hash EXCEPT ![wk[w].job] = MarkFrom(wk[w].snap, @, "running", Missing)]
    /\ Goto(w, "process")
    /\ UNCHANGED <<streamVars, rq, judged, faultVars>>

\* What _process can come to ("failed": it raised).  A job without payload
\* has no identity_id; RenderVideo.run raises for every job that takes that
\* path, because the repository hands it an AvatarPack, which has no
\* identity_id attribute.
PossibleOutcomes(j, payload) ==
    IF payload # Full THEN {"failed"}
    ELSE CASE Kind[j] = "compile" -> {"completed", "failed"}
           [] Kind[j] = "text"    -> {"completed", "completed_degraded", "failed"}
           [] Kind[j] = "render"  -> {"failed"}

Process(w) ==
    /\ wk[w].pc = "process"
    /\ \E o \in PossibleOutcomes(wk[w].job, wk[w].payload) :
           wk' = [wk EXCEPT ![w].pc = "settleHget", ![w].outcome = o, ![w].snap = NoHash]
    /\ UNCHANGED <<hash, streamVars, rq, judged, faultVars>>

\* Variants of the next actions: XACK before the state is written; no XACK of a
\* failed job; the marker stays in the hash.
SettleHgetAckFirst(w) ==
    LET marker == hash[wk[w].job].entry IN
    /\ wk[w].pc = "settleHget"
    /\ wk' = [wk EXCEPT ![w].pc = IF marker = 0 THEN "settleHset" ELSE "settleXack",
                        ![w].marker = marker]
    /\ UNCHANGED <<hash, streamVars, rq, judged, faultVars>>

SettleHsetNoAckOnFailure(w) ==
    /\ wk[w].pc = "settleHset"
    /\ hash' = [hash EXCEPT ![wk[w].job].state =
                   IF wk[w].outcome = "failed" THEN "failed" ELSE "completed"]
    /\ judged' = judged \cup {wk[w].entry}
    /\ Goto(w, IF wk[w].marker = 0 \/ wk[w].outcome = "failed" THEN "finalGet"
               ELSE "settleXack")
    /\ UNCHANGED <<streamVars, rq, faultVars>>

SettleHdelKeepsMarker(w) ==
    /\ wk[w].pc = "settleHdel"
    /\ Goto(w, "finalGet")
    /\ UNCHANGED <<hash, streamVars, rq, judged, faultVars>>

\* queue.acknowledge, or queue.fail after an exception: HGET of the marker,
\* HSET of the state and, if there was a marker, XACK of it and HDEL.
SettleHget(w) ==
    /\ wk[w].pc = "settleHget"
    /\ wk' = [wk EXCEPT ![w].pc = "settleHset", ![w].marker = hash[wk[w].job].entry]
    /\ UNCHANGED <<hash, streamVars, rq, judged, faultVars>>

\* Variant: the reason is written where the state belongs.
SettledStateReason(outcome) == IF outcome = "failed" THEN "error" ELSE "completed"

SettledState(outcome) == IF outcome = "failed" THEN "failed" ELSE "completed"

SettleHset(w) ==
    /\ wk[w].pc = "settleHset"
    /\ hash' = [hash EXCEPT ![wk[w].job].state = SettledState(wk[w].outcome)]
    /\ judged' = judged \cup {wk[w].entry}
    /\ Goto(w, IF wk[w].marker = 0 THEN "finalGet" ELSE "settleXack")
    /\ UNCHANGED <<streamVars, rq, faultVars>>

SettleXack(w) ==
    /\ wk[w].pc = "settleXack"
    /\ pending' = pending \ {wk[w].marker}
    /\ stale' = stale \ {wk[w].marker}
    /\ Goto(w, "settleHdel")
    /\ UNCHANGED <<hash, stream, lastDelivered, trimmed, rq, judged, faultVars>>

SettleHdel(w) ==
    /\ wk[w].pc = "settleHdel"
    /\ hash' = [hash EXCEPT ![wk[w].job].entry = 0]
    /\ Goto(w, "finalGet")
    /\ UNCHANGED <<streamVars, rq, judged, faultVars>>

\* _update_job_state(final_state, result=...), and back to the loop's head.
FinalGet(w) ==
    LET h == hash[wk[w].job] IN
    /\ wk[w].pc = "finalGet"
    /\ wk' = [wk EXCEPT ![w] = IF h.state = Absent THEN ProcessAt("reserve")
                               ELSE [@ EXCEPT !.pc = "finalUpsert", !.snap = h]]
    /\ UNCHANGED <<hash, streamVars, rq, judged, faultVars>>

FinalUpsert(w) ==
    /\ wk[w].pc = "finalUpsert"
    /\ hash' = [hash EXCEPT ![wk[w].job] =
                   MarkFrom(wk[w].snap, @, wk[w].outcome,
                            IF wk[w].outcome = "failed" THEN "error" ELSE "ok")]
    /\ wk' = [wk EXCEPT ![w] = ProcessAt("reserve")]
    /\ UNCHANGED <<streamVars, rq, judged, faultVars>>

-----------------------------------------------------------------------------
(* Faults and time.                                                         *)

\* The process dies, at any point.
Crash(w) ==
    /\ wk[w].pc # "down"
    /\ crashes < MaxCrashes
    /\ crashes' = crashes + 1
    /\ wk' = [wk EXCEPT ![w] = ProcessAt("down")]
    /\ UNCHANGED <<hash, streamVars, rq, judged, errors, evictions>>

\* Where an exception from a Redis command takes the worker: _reclaim and
\* _trim catch those of XAUTOCLAIM and XTRIM, _update_job_state all; one out of
\* acknowledge() makes run() fail the job; any other ends the process.
AfterError(p) ==
    CASE p.pc = "autoclaim" -> ProcessAt("trim")
      [] p.pc = "trim" -> ProcessAt("reserve")
      [] p.pc \in {"runGet", "runUpsert"} -> [p EXCEPT !.pc = "process"]
      [] p.pc \in {"settleHget", "settleHset", "settleXack", "settleHdel"}
             /\ p.outcome # "failed"
           -> [p EXCEPT !.pc = "settleHget", !.outcome = "failed", !.marker = 0]
      [] p.pc \in {"finalGet", "finalUpsert"} -> ProcessAt("reserve")
      [] OTHER -> ProcessAt("down")

RedisError(w) ==
    /\ wk[w].pc \notin {"down", "process"}
    /\ errors < MaxErrors
    /\ errors' = errors + 1
    /\ wk' = [wk EXCEPT ![w] = AfterError(wk[w])]
    /\ UNCHANGED <<hash, streamVars, rq, judged, crashes, evictions>>

\* Some live process is working on entry e: rendering it, or reclaiming it.
InHand(e) == \E w \in Workers : wk[w].entry = e \/ e \in wk[w].batch

\* A pending entry's idle time passes visibility_timeout_seconds.  Nothing
\* refreshes it while its worker renders.
EntryAges(e) ==
    /\ e \in pending \ stale
    /\ LongRenders \/ ~InHand(e)
    /\ stale' = stale \cup {e}
    /\ UNCHANGED <<hash, stream, lastDelivered, trimmed, pending, rq, wk, judged, faultVars>>

EvictHash(j) ==
    /\ hash[j].state # Absent
    /\ evictions < MaxEvictions
    /\ evictions' = evictions + 1
    /\ hash' = [hash EXCEPT ![j] = NoHash]
    /\ UNCHANGED <<streamVars, rq, wk, judged, crashes, errors>>

-----------------------------------------------------------------------------
\* A handler that has begun goes on with its next command.
HandlerStep(r) == \/ SubmitXadd(r) \/ SubmitUpsert(r)
                  \/ CancelGet(r) \/ CancelUpsert(r)

Housekeeping(w) == \/ AutoClaim(w) \/ Trim(w)
                   \/ ReclaimHset(w) \/ ReclaimXack(w) \/ ReclaimHdel(w)

Reserve(w) == ReadGroup(w) \/ HgetPayload(w) \/ HsetReserved(w)

Settle(w) == \/ SettleHget(w) \/ SettleHset(w) \/ SettleXack(w) \/ SettleHdel(w)
             \/ FinalGet(w) \/ FinalUpsert(w)

WorkerStep(w) == \/ Housekeeping(w) \/ Reserve(w)
                 \/ RunGet(w) \/ RunUpsert(w) \/ Process(w) \/ Settle(w)

Next ==
    \/ \E r \in Requests, j \in Jobs : SubmitHset(r, j) \/ CancelHset(r, j)
    \/ \E r \in Requests : HandlerStep(r) \/ RequestFails(r)
    \/ \E w \in Workers : Start(w) \/ WorkerStep(w) \/ PollEmpty(w)
    \/ \E w \in Workers : Crash(w) \/ RedisError(w)
    \/ \E e \in pending : EntryAges(e)
    \/ \E j \in Jobs : EvictHash(j)

Spec == Init /\ [][Next]_vars

\* A handler or a live process keeps issuing its next command, the container's
\* restart policy starts a worker that is down, and time passes.  Requests need not come, and
\* nothing is assumed of faults.
Fairness ==
    /\ \A r \in Requests : WF_vars(HandlerStep(r))
    /\ \A w \in Workers : WF_vars(Start(w)) /\ WF_vars(WorkerStep(w))
    /\ WF_vars(\E e \in pending : EntryAges(e))

FairSpec == Spec /\ Fairness
=============================================================================
