----------------------------- MODULE MemoryQueue -----------------------------
(***************************************************************************)
(* The job path of a single process: the request handlers of the API and    *)
(* GPU workers are threads that share an InMemoryJobQueue (or a              *)
(* NullJobQueue) and an InMemoryJobRepository.  The methods of both hold      *)
(* their object's lock, so each is one step here; everything between two of  *)
(* them interleaves.  Nothing is persisted: a restart begins at Init.        *)
(*                                                                         *)
(* The deque _pending is what follows position `head' in the log of all      *)
(* deliveries, since publish appends to it and reserve pops from its front.  *)
(***************************************************************************)
EXTENDS Naturals, Sequences

CONSTANTS
    Jobs,              \* job ids
    NoJob,             \* no job id
    Requests,          \* HTTP requests the API gets (each handled once)
    Workers,           \* GpuWorker threads
    Backends,          \* the queue backends a process may be configured with
    ClientReferences   \* may clients choose job ids (client_reference)?

\* What _build_queue makes, the Redis queue apart.
QueueBackends == {"memory", "null"}

ASSUME MemoryAssumption ==
    /\ NoJob \notin Jobs
    /\ Backends \subseteq QueueBackends
    /\ ClientReferences \in BOOLEAN

VARIABLES
    backend,    \* which queue _build_queue has made
    log,        \* the job of every delivery ever published
    head,       \* deliveries 1 .. head have been popped
    known,      \* _by_id: the state the queue keeps of a job, "none" if unknown
    cancelled,  \* _cancelled
    rows,       \* the repository's state of a job, "none" if there is no row
    rq,         \* the request handlers
    wk,         \* the worker threads
    judged      \* history: deliveries acknowledge() or fail() was called for

queueVars == <<log, head, known, cancelled>>
vars == <<backend, queueVars, rows, rq, wk, judged>>

Outcomes    == {"completed", "completed_degraded", "failed"}
QueueStates == {"none", "pending", "reserved", "completed", "failed", "cancelled"}
RowStates   == {"none", "pending", "running", "cancelled"} \cup Outcomes

Handlers == [op : {"none", "submit", "cancel"}, pc : {"idle", "upsert", "mark", "done"},
             job : Jobs \cup {NoJob}]

\* A worker thread: its step, the job and delivery it has, and the outcome.
Threads == [pc : {"reserve", "markRunning", "process", "settle", "finalMark"},
            job : Jobs \cup {NoJob}, delivery : Nat, outcome : Outcomes]

NewHandler == [op |-> "none", pc |-> "idle", job |-> NoJob]
IdleThread == [pc |-> "reserve", job |-> NoJob, delivery |-> 0, outcome |-> "failed"]

Deliveries == 1 .. Len(log)

\* NullJobQueue: publish and cancel do nothing, reserve returns None.
Dropping == backend = "null"

Init ==
    /\ backend \in Backends
    /\ log = <<>>
    /\ head = 0
    /\ known = [j \in Jobs |-> "none"]
    /\ cancelled = {}
    /\ rows = [j \in Jobs |-> "none"]
    /\ rq = [r \in Requests |-> NewHandler]
    /\ wk = [w \in Workers |-> IdleThread]
    /\ judged = {}

-----------------------------------------------------------------------------
(* InMemoryJobRepository.mark: an unknown job is left alone.                *)
Mark(j, state) == IF rows[j] = "none" THEN rows ELSE [rows EXCEPT ![j] = state]

(* submit_job and cancel_job.                                               *)

NewId(j)   == ClientReferences \/ \A r \in Requests : rq[r].job # j
KnownId(j) == ClientReferences
                  \/ \A r \in Requests : rq[r].op = "submit" /\ rq[r].job = j
                                             => rq[r].pc = "done"

\* queue.publish; the null queue drops the job.
SubmitPublish(r, j) ==
    /\ rq[r].pc = "idle"
    /\ NewId(j)
    /\ IF Dropping THEN UNCHANGED <<log, known>>
       ELSE log' = Append(log, j) /\ known' = [known EXCEPT ![j] = "pending"]
    /\ rq' = [rq EXCEPT ![r] = [op |-> "submit", pc |-> "upsert", job |-> j]]
    /\ UNCHANGED <<backend, head, cancelled, rows, wk, judged>>

\* job_repo.upsert, after publish.
SubmitUpsert(r) ==
    /\ rq[r].pc = "upsert"
    /\ rows' = [rows EXCEPT ![rq[r].job] = "pending"]
    /\ rq' = [rq EXCEPT ![r].pc = "done"]
    /\ UNCHANGED <<backend, queueVars, wk, judged>>

\* Variant: a cancel that only writes the state.
CancelQueueStateOnly(r, j) ==
    /\ rq[r].pc = "idle"
    /\ KnownId(j)
    /\ known' = IF known[j] = "none" THEN known ELSE [known EXCEPT ![j] = "cancelled"]
    /\ rq' = [rq EXCEPT ![r] = [op |-> "cancel", pc |-> "mark", job |-> j]]
    /\ UNCHANGED <<backend, log, head, cancelled, rows, wk, judged>>

\* queue.cancel
CancelQueue(r, j) ==
    /\ rq[r].pc = "idle"
    /\ KnownId(j)
    /\ IF Dropping THEN UNCHANGED <<cancelled, known>>
       ELSE /\ cancelled' = cancelled \cup {j}
            /\ known' = IF known[j] = "none" THEN known
                        ELSE [known EXCEPT ![j] = "cancelled"]
    /\ rq' = [rq EXCEPT ![r] = [op |-> "cancel", pc |-> "mark", job |-> j]]
    /\ UNCHANGED <<backend, log, head, rows, wk, judged>>

\* job_repo.mark(CANCELLED)
CancelMark(r) ==
    /\ rq[r].pc = "mark"
    /\ rows' = Mark(rq[r].job, "cancelled")
    /\ rq' = [rq EXCEPT ![r].pc = "done"]
    /\ UNCHANGED <<backend, queueVars, wk, judged>>

-----------------------------------------------------------------------------
(* GpuWorker.run on the queue of its process.                               *)

\* The deliveries reserve() may return: those not popped yet, of jobs nobody
\* cancelled.
Offered == {d \in head + 1 .. Len(log) : log[d] \notin cancelled}

\* Variant: the front of the deque is looked at but not popped.
ReservePeeks(w, d) ==
    /\ wk[w].pc = "reserve"
    /\ d \in Offered /\ \A b \in Offered : d <= b
    /\ known' = [known EXCEPT ![log[d]] = "reserved"]
    /\ wk' = [wk EXCEPT ![w] = [IdleThread EXCEPT !.pc = "markRunning",
                                                  !.job = log[d], !.delivery = d]]
    /\ UNCHANGED <<backend, log, head, cancelled, rows, rq, judged>>

\* reserve() pops until it finds a job that was not cancelled...
Reserve(w, d) ==
    /\ wk[w].pc = "reserve"
    /\ d \in Offered /\ \A b \in Offered : d <= b
    /\ head' = d
    /\ known' = [known EXCEPT ![log[d]] = "reserved"]
    /\ wk' = [wk EXCEPT ![w] = [IdleThread EXCEPT !.pc = "markRunning",
                                                  !.job = log[d], !.delivery = d]]
    /\ UNCHANGED <<backend, log, cancelled, rows, rq, judged>>

\* ... or the deque is empty; then the worker sleeps and asks again.
ReserveNone(w) ==
    /\ wk[w].pc = "reserve"
    /\ Offered = {}
    /\ head' = Len(log)
    /\ UNCHANGED <<backend, log, known, cancelled, rows, rq, wk, judged>>

MarkRunning(w) ==
    /\ wk[w].pc = "markRunning"
    /\ rows' = Mark(wk[w].job, "running")
    /\ wk' = [wk EXCEPT ![w].pc = "process"]
    /\ UNCHANGED <<backend, queueVars, rq, judged>>

Process(w, outcome) ==
    /\ wk[w].pc = "process"
    /\ wk' = [wk EXCEPT ![w].pc = "settle", ![w].outcome = outcome]
    /\ UNCHANGED <<backend, queueVars, rows, rq, judged>>

\* Variant: a job that failed is not told to the queue.
SettleOnlySuccess(w) ==
    /\ wk[w].pc = "settle"
    /\ wk[w].outcome # "failed"
    /\ known' = [known EXCEPT ![wk[w].job] = "completed"]
    /\ judged' = judged \cup {wk[w].delivery}
    /\ wk' = [wk EXCEPT ![w].pc = "finalMark"]
    /\ UNCHANGED <<backend, log, head, cancelled, rows, rq>>

\* queue.acknowledge, or queue.fail when _process has raised: a job the queue
\* knows gets its verdict, one that was cancelled meanwhile too.
Settle(w) ==
    LET j == wk[w].job IN
    /\ wk[w].pc = "settle"
    /\ known' = IF known[j] = "none" THEN known
                ELSE [known EXCEPT ![j] = IF wk[w].outcome = "failed" THEN "failed"
                                          ELSE "completed"]
    /\ judged' = judged \cup {wk[w].delivery}
    /\ wk' = [wk EXCEPT ![w].pc = "finalMark"]
    /\ UNCHANGED <<backend, log, head, cancelled, rows, rq>>

\* The last _update_job_state, and the next round of the loop.
FinalMark(w) ==
    /\ wk[w].pc = "finalMark"
    /\ rows' = Mark(wk[w].job, wk[w].outcome)
    /\ wk' = [wk EXCEPT ![w] = IdleThread]
    /\ UNCHANGED <<backend, queueVars, rq, judged>>

-----------------------------------------------------------------------------
HandlerStep(r) == SubmitUpsert(r) \/ CancelMark(r)

WorkerStep(w) ==
    \/ \E d \in Deliveries : Reserve(w, d)
    \/ ReserveNone(w)
    \/ MarkRunning(w)
    \/ \E outcome \in Outcomes : Process(w, outcome)
    \/ Settle(w)
    \/ FinalMark(w)

Next ==
    \/ \E r \in Requests, j \in Jobs : SubmitPublish(r, j) \/ CancelQueue(r, j)
    \/ \E r \in Requests : HandlerStep(r)
    \/ \E w \in Workers : WorkerStep(w)

Spec == Init /\ [][Next]_vars

\* Threads of a live process go on, and _process ends.
FairSpec ==
    /\ Spec
    /\ \A r \in Requests : WF_vars(HandlerStep(r))
    /\ \A w \in Workers : WF_vars(WorkerStep(w))

-----------------------------------------------------------------------------
(* Properties.                                                              *)

\* Every variable has its type; what a worker has was popped, and nothing is
\* known to the null queue.
TypeOK ==
    /\ backend \in Backends
    /\ log \in Seq(Jobs)
    /\ head \in 0 .. Len(log)
    /\ known \in [Jobs -> QueueStates]
    /\ cancelled \subseteq Jobs
    /\ rows \in [Jobs -> RowStates]
    /\ rq \in [Requests -> Handlers]
    /\ wk \in [Workers -> Threads]
    /\ \A w \in Workers : wk[w].delivery \in 0 .. head
    /\ judged \subseteq 1 .. head

NeverRun(j) == /\ \A w \in Workers : wk[w].job # j
               /\ \A d \in judged : log[d] # j

CancelledInTime(r) ==
    /\ rq[r].op = "cancel" /\ rq[r].pc = "done"
    /\ NeverRun(rq[r].job)
    /\ \E s \in Requests : rq[s].op = "submit" /\ rq[s].job = rq[r].job

\* "Set a cancel flag so that workers stop processing this job"
\* (contracts/job_queue.py:96): a job whose DELETE has come back before a
\* worker was given it reads as cancelled and is never given to one, although
\* it is still in the deque.  Needs uuid job ids.
CancelSticks ==
    [][\A r \in Requests :
          ~Dropping /\ CancelledInTime(r)
              => rows'[rq[r].job] = "cancelled" /\ NeverRun(rq[r].job)']_vars

DeliveryStatus(d) ==
    IF d \in judged THEN "judged"
    ELSE IF \E w \in Workers : wk[w].delivery = d THEN "handedOut"
    ELSE IF d > head /\ log[d] \notin cancelled THEN "waiting" ELSE "closed"

Ledger == INSTANCE JobLedger WITH
    Keep   <- 0,
    status <- [d \in Deliveries |-> DeliveryStatus(d)],
    hands  <- [w \in Workers |-> wk[w].delivery],
    cutoff <- 0

\* The in-memory queue keeps the same ledger of deliveries as the Redis queue:
\* in order, each to one worker at most, a cancelled one to none.  Needs uuid
\* job ids.
KeepsLedger == Ledger!LedgerSpec

\* Under FairSpec every job the queue has taken gets a verdict or is cancelled:
\* nothing is stuck behind a cancelled job at the front.
EveryJobSettled ==
    \A j \in Jobs : known[j] = "pending" ~> known[j] \in {"completed", "failed", "cancelled"}
=============================================================================
