--------------------------- MODULE JobPlatformProps ---------------------------
(***************************************************************************)
(* What is asked of JobPlatform.  Where a property needs an assumption on   *)
(* the deployment (uuid job ids, no fault, no job longer than the            *)
(* visibility timeout), its comment names it and the run's cfg states it.   *)
(***************************************************************************)
EXTENDS JobPlatform

\* Every variable has its type, and the positions kept in the consumer group
\* are positions of the stream: pending entries have been delivered, idle ones
\* are pending.
TypeOK ==
    /\ hash \in [Jobs -> Hashes]
    /\ stream \in Seq(Jobs)
    /\ lastDelivered \in 0 .. Len(stream)
    /\ trimmed \in 0 .. Len(stream)
    /\ pending \subseteq 1 .. lastDelivered
    /\ stale \subseteq pending
    /\ rq \in [Requests -> Handlers]
    /\ wk \in [Workers -> Processes]
    /\ judged \subseteq 1 .. lastDelivered
    /\ crashes \in 0 .. MaxCrashes
    /\ errors \in 0 .. MaxErrors
    /\ evictions \in 0 .. MaxEvictions

-----------------------------------------------------------------------------
(* Deliveries.                                                              *)

\* reserve() hands an entry of the stream to one process only, whatever
\* crashes, restarts and exceptions there are: two live workers never work on
\* the same entry.
DeliveredOnce ==
    \A v, w \in Workers :
        v # w /\ wk[v].entry # 0 => wk[v].entry # wk[w].entry

\* RedisJobRepository.mark calls its read-modify-write benign because of "the
\* current single-worker-per-job model": no two live workers have the same
\* job.  Needs uuid job ids.
SingleWorkerPerJob ==
    \A v, w \in Workers : v # w /\ wk[v].job # NoJob => wk[v].job # wk[w].job

\* The marker _stream_entry that acknowledge() or fail() reads back from the
\* hash is the entry this worker was given, or none: XACK never takes another
\* delivery off the books.  Needs uuid job ids.
OwnMarker ==
    \A w \in Workers : wk[w].marker \in {0, wk[w].entry}

\* An entry leaves the pending list only after the state COMPLETED or FAILED
\* was written for it, so a process that dies between the two commands leaves
\* a job that the reclaimer still finds.  Needs uuid job ids.
JudgedBeforeClosed ==
    \A e \in (trimmed + 1) .. lastDelivered : e \in pending \cup judged

-----------------------------------------------------------------------------
(* What GET /jobs/{id} shows.                                               *)

\* A job shown as completed has its result, or its worker is about to write it
\* (acknowledge() writes the state first, mark() the result afterwards).
\* Holds until the first fault.
CompletedHasResult ==
    crashes + errors + evictions = 0 =>
        \A j \in Jobs :
            hash[j].state \in {"completed", "completed_degraded"} /\ hash[j].result = Missing
                => \E w \in Workers : wk[w].job = j /\ wk[w].outcome # "failed"

\* A finished job is reopened by nothing but the upsert with which its own
\* submit handler ends.  Needs uuid job ids and jobs shorter than the
\* visibility timeout.
FinishedNotReopened ==
    [][\A j \in Jobs :
          hash[j].state \in Finished /\ hash'[j].state \in JobStates \ Terminal
              => \E r \in Requests : /\ rq[r].job = j
                                     /\ rq[r].pc = "upsert"
                                     /\ rq'[r].pc = "done"]_vars

\* When everything has come to rest without a fault, every delivery is off the
\* books and no hash keeps an entry marker.  Needs uuid job ids.
AtRest ==
    /\ \A r \in Requests : rq[r].pc \in {"idle", "done", "error"}
    /\ \A w \in Workers : wk[w].pc \in {"down", "reserve"}
    /\ lastDelivered = Len(stream)

NothingLeftBehind ==
    AtRest /\ crashes + errors + evictions = 0
        => pending = {} /\ \A j \in Jobs : hash[j].entry = 0

Closed(e) == e <= lastDelivered /\ e \notin pending

\* src/storage/jobs/redis.py:4 "GET /jobs/{job_id} returns up-to-date state
\* even after the worker completes a job in another process": once everything
\* is at rest, a job whose delivery is off the books reads as finished or
\* cancelled.  It does not hold, with one worker, one request and no fault.
ClosedJobReadsTerminal ==
    AtRest => \A e \in Entries : Closed(e) => hash[stream[e]].state \in Terminal

-----------------------------------------------------------------------------
(* The queue implements the ledger of deliveries.  Needs uuid job ids.      *)

DeliveryStatus(e) ==
    IF e > lastDelivered THEN IF e <= trimmed THEN "closed" ELSE "waiting"
    ELSE IF e \notin pending THEN "closed"
    ELSE IF e \in judged THEN "judged" ELSE "handedOut"

Ledger == INSTANCE JobLedger WITH
    Keep   <- StreamMaxLen,
    log    <- stream,
    status <- [e \in Entries |-> DeliveryStatus(e)],
    hands  <- [w \in Workers |-> wk[w].entry],
    cutoff <- trimmed

\* Every behaviour of the platform is one of the ledger.
ImplementsLedger == Ledger!LedgerSpec

-----------------------------------------------------------------------------
(* Liveness, under FairSpec.                                                *)

\* As long as nothing crashes or raises and no job hash is evicted, in the end
\* (the requests are finitely many) every published job has been delivered,
\* pronounced on and taken off the books, and stays so.
EveryEntryClosed ==
    <>[](crashes + errors + evictions = 0 => \A e \in Entries : Closed(e))

\* Once the faults have stopped, a worker that starts its housekeeping when a
\* delivery has been idle for too long sees to it that it is taken off the
\* books, however many pages of messages XAUTOCLAIM returns: unless the pending
\* deliveries whose message was trimmed away fill a page.  They are the oldest,
\* so they come first, and _reclaim ends at a page without a message.  (One
\* worker: the XTRIM of another may fill such a page meanwhile.)
GonePending == {e \in pending : e <= trimmed}

OrphansReclaimed ==
    \A e \in 1 .. Cardinality(Requests) :
        (/\ e \in stale
         /\ crashes = MaxCrashes /\ errors = MaxErrors
         /\ \E w \in Workers : wk[w].pc = "autoclaim" /\ wk[w].start = 0
         /\ Cardinality(GonePending) < ReclaimCount)
            ~> Closed(e)
=============================================================================
