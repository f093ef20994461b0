----------------------------- MODULE WorkerFleet -----------------------------
(***************************************************************************)
(* How the API knows which engines are alive: every GPU worker has a        *)
(* heartbeat thread that SETs heyavatar:worker:{id}:health with a TTL; a    *)
(* gatherer thread of the API replica copies those keys into its WorkerPool *)
(* (sync_from_redis), which TierRouter.pick_available reads.  A worker that *)
(* runs as a thread of the API process (Local) also writes the pool itself. *)
(*                                                                         *)
(* The pool's methods hold its lock, so each is one step; everything between *)
(* two of them, and every Redis command, interleaves.  Worker ids are       *)
(* distinct: a worker stands for its id.                                    *)
(***************************************************************************)
EXTENDS Naturals, FiniteSets, Sequences

CONSTANTS
    Workers,        \* worker ids
    Local,          \* those that run inside the API process, with its pool
    Engines,        \* engine ids
    Tiers,
    Route,          \* per tier, the primary engine and its fallbacks
    SlotsAccepted,  \* may AppState get an attribute it does not declare?
    SlowRedis       \* may a SET block for longer than join(timeout=2.0)?

\* The bound of the model: what may happen in a behaviour, one budget of these.
\* A budget gives the runs of each worker, the exceptions out of reserve() or
\* fail() and KeyboardInterrupts, the worker or API processes killed, and the
\* Redis commands of the two background threads that raise.
CONSTANT Budgets

ASSUME FleetAssumption ==
    /\ Local \subseteq Workers
    /\ Route \in [Tiers -> Seq(Engines)]
    /\ SlotsAccepted \in BOOLEAN
    /\ SlowRedis \in BOOLEAN
    /\ Budgets \subseteq [starts : [Workers -> Nat], raises : Nat, crashes : Nat, errors : Nat]

NoKey    == [engine |-> "none", state |-> "none"]
NoRecord == [engine |-> "none", state |-> "none", inFlight |-> 0]

\* The engine states a worker's health() can report from load() on.
HealthStates == {"idle", "degraded", "unloaded"}

Keys    == [engine : Engines, state : HealthStates] \cup {NoKey}
Records == [engine : Engines, state : HealthStates, inFlight : Nat] \cup {NoRecord}

RunSteps == {"down", "load", "register", "startHeartbeat", "loop", "take", "busy",
             "beat", "join", "unload", "unregister", "delete", "exit"}

\* A worker: step of its main thread, engine and its state, the flag _stop,
\* whether an exception is on its way out of run(), and the heartbeat thread
\* with the health it has read.
Runs == [pc : RunSteps, engine : Engines \cup {"none"},
         state : HealthStates \cup {"none"}, stop : BOOLEAN, raised : BOOLEAN,
         hb : {"none", "top", "publish", "ended"}, beat : HealthStates \cup {"none"}]

NotRunning == [pc |-> "down", engine |-> "none", state |-> "none", stop |-> FALSE,
               raised |-> FALSE, hb |-> "none", beat |-> "none"]

\* The gatherer thread: ids still to be read in this pass, the key value it has
\* read with its worker, and whether the pool knew that worker.
Syncs == [pc : {"off", "scan", "get", "check", "apply"}, todo : SUBSET Workers,
          raw : [worker : Workers \cup {"none"}, key : Keys], known : BOOLEAN]

NoRead  == [worker |-> "none", key |-> NoKey]
SyncOff == [pc |-> "off", todo |-> {}, raw |-> NoRead, known |-> FALSE]

VARIABLES
    api,    \* the API process: "boot", "gather" (lifespan still running), "serving"
    pool,   \* WorkerPool.records
    sync,   \* the gatherer thread of the API process
    keys,   \* heyavatar:worker:{id}:health in Redis
    wk,     \* the workers
    left    \* of the budget

vars == <<api, pool, sync, keys, wk, left>>

EmptyPool == [w \in Workers |-> NoRecord]

Init ==
    /\ api = "boot"
    /\ pool = EmptyPool
    /\ sync = SyncOff
    /\ keys = [w \in Workers |-> NoKey]
    /\ wk = [w \in Workers |-> NotRunning]
    /\ left \in Budgets

-----------------------------------------------------------------------------
(* WorkerPool.                                                              *)

Register(p, w, engine, state) ==
    [p EXCEPT ![w] = [engine |-> engine, state |-> state, inFlight |-> 0]]

\* Variants: the count of running jobs is lost; the old health is kept.
HeartbeatForgets(p, w, state) ==
    IF p[w] = NoRecord THEN p ELSE [p EXCEPT ![w].state = state, ![w].inFlight = 0]

HeartbeatKeepsHealth(p, w, state) == p

\* A heartbeat of an unknown worker is ignored; the engine id is never changed.
Heartbeat(p, w, state) ==
    IF p[w] = NoRecord THEN p ELSE [p EXCEPT ![w].state = state]

MarkInFlight(p, w, up) ==
    IF p[w] = NoRecord THEN p
    ELSE [p EXCEPT ![w].inFlight = IF up THEN @ + 1 ELSE IF @ = 0 THEN 0 ELSE @ - 1]

Unregister(p, w) == [p EXCEPT ![w] = NoRecord]

\* find_idle
IdleWorkers(e) == {w \in Workers : /\ pool[w].engine = e
                                   /\ pool[w].inFlight = 0
                                   /\ pool[w].state = "idle"}

\* TierRouter.pick_available: the first engine on the route with an idle worker.
PickAvailable(tier) ==
    LET route == Route[tier]
        open  == {i \in 1 .. Len(route) : IdleWorkers(route[i]) # {}}
    IN  IF open = {} THEN "none"
        ELSE route[CHOOSE i \in open : \A j \in open : i <= j]

-----------------------------------------------------------------------------
(* The main thread of a worker: GpuWorker.run.                              *)

\* main(), or a thread of the API process, builds a worker and calls run().
Start(w, e) ==
    /\ wk[w].pc = "down"
    /\ wk[w].hb \in {"none", "ended"}
    /\ left.starts[w] > 0
    /\ w \in Local => api = "serving"
    /\ left' = [left EXCEPT !.starts[w] = @ - 1]
    /\ wk' = [wk EXCEPT ![w] = [NotRunning EXCEPT !.pc = "load", !.engine = e]]
    /\ UNCHANGED <<api, pool, sync, keys>>

\* engine.load(): a failure leaves the engine DEGRADED, and run() goes on.
Load(w) ==
    /\ wk[w].pc = "load"
    /\ \E state \in {"idle", "degraded"} :
           wk' = [wk EXCEPT ![w].state = state, ![w].pc = "register"]
    /\ UNCHANGED <<api, pool, sync, keys, left>>

RegisterWithPool(w) ==
    /\ wk[w].pc = "register"
    /\ pool' = IF w \in Local THEN Register(pool, w, wk[w].engine, wk[w].state) ELSE pool
    /\ wk' = [wk EXCEPT ![w].pc = "startHeartbeat"]
    /\ UNCHANGED <<api, sync, keys, left>>

StartHeartbeat(w) ==
    /\ wk[w].pc = "startHeartbeat"
    /\ wk' = [wk EXCEPT ![w].pc = "loop", ![w].hb = "top"]
    /\ UNCHANGED <<api, pool, sync, keys, left>>

\* reserve() returns a job; when it returns None the loop goes round.
Reserve(w) ==
    /\ wk[w].pc = "loop"
    /\ ~wk[w].stop
    /\ wk' = [wk EXCEPT ![w].pc = "take"]
    /\ UNCHANGED <<api, pool, sync, keys, left>>

Take(w) ==
    /\ wk[w].pc = "take"
    /\ pool' = IF w \in Local THEN MarkInFlight(pool, w, TRUE) ELSE pool
    /\ wk' = [wk EXCEPT ![w].pc = "busy"]
    /\ UNCHANGED <<api, sync, keys, left>>

\* Variant: the finally clause does not take the job off the count.
FinishKeepsCount(w) ==
    /\ wk[w].pc = "busy"
    /\ wk' = [wk EXCEPT ![w].pc = "beat"]
    /\ UNCHANGED <<api, pool, sync, keys, left>>

\* The job is over, the finally clause of the loop begins.
Finish(w) ==
    /\ wk[w].pc = "busy"
    /\ pool' = IF w \in Local THEN MarkInFlight(pool, w, FALSE) ELSE pool
    /\ wk' = [wk EXCEPT ![w].pc = "beat"]
    /\ UNCHANGED <<api, sync, keys, left>>

Beat(w) ==
    /\ wk[w].pc = "beat"
    /\ pool' = IF w \in Local THEN Heartbeat(pool, w, wk[w].state) ELSE pool
    /\ wk' = [wk EXCEPT ![w].pc = IF wk[w].raised THEN "join" ELSE "loop"]
    /\ UNCHANGED <<api, sync, keys, left>>

\* An exception out of reserve() or queue.fail(), or a KeyboardInterrupt.
Raise(w) ==
    /\ left.raises > 0
    /\ left' = [left EXCEPT !.raises = @ - 1]
    /\ \/ /\ wk[w].pc = "loop"
          /\ wk' = [wk EXCEPT ![w].pc = "join", ![w].raised = TRUE]
          /\ UNCHANGED pool
       \/ /\ wk[w].pc = "busy"
          /\ pool' = IF w \in Local THEN MarkInFlight(pool, w, FALSE) ELSE pool
          /\ wk' = [wk EXCEPT ![w].pc = "beat", ![w].raised = TRUE]
    /\ UNCHANGED <<api, sync, keys>>

\* stop() from another thread.  main() calls it too, but only after run() ended.
Stop(w) ==
    /\ w \in Local
    /\ wk[w].pc \in {"loop", "take", "busy", "beat"}
    /\ ~wk[w].stop
    /\ wk' = [wk EXCEPT ![w].stop = TRUE]
    /\ UNCHANGED <<api, pool, sync, keys, left>>

LeaveLoop(w) ==
    /\ wk[w].pc = "loop"
    /\ wk[w].stop
    /\ wk' = [wk EXCEPT ![w].pc = "join"]
    /\ UNCHANGED <<api, pool, sync, keys, left>>

\* Variant: the thread is not waited for.
JoinSkipped(w) ==
    /\ wk[w].pc = "join"
    /\ wk' = [wk EXCEPT ![w].pc = "unload"]
    /\ UNCHANGED <<api, pool, sync, keys, left>>

\* _stop_redis_heartbeat: join(timeout=2.0) returns when the thread has ended;
\* it times out when nothing has set _stop, or the thread's SET blocks.
Join(w) ==
    /\ wk[w].pc = "join"
    /\ wk[w].hb \in {"none", "ended"} \/ ~wk[w].stop \/ (SlowRedis /\ wk[w].hb = "publish")
    /\ wk' = [wk EXCEPT ![w].pc = "unload"]
    /\ UNCHANGED <<api, pool, sync, keys, left>>

Unload(w) ==
    /\ wk[w].pc = "unload"
    /\ wk' = [wk EXCEPT ![w].pc = "unregister", ![w].state = "unloaded"]
    /\ UNCHANGED <<api, pool, sync, keys, left>>

UnregisterFromPool(w) ==
    /\ wk[w].pc = "unregister"
    /\ pool' = IF w \in Local THEN Unregister(pool, w) ELSE pool
    /\ wk' = [wk EXCEPT ![w].pc = "delete"]
    /\ UNCHANGED <<api, sync, keys, left>>

DeleteKey(w) ==
    /\ wk[w].pc = "delete"
    /\ keys' = [keys EXCEPT ![w] = NoKey]
    /\ wk' = [wk EXCEPT ![w].pc = "exit"]
    /\ UNCHANGED <<api, pool, sync, left>>

\* run() is over: the process ends and takes its daemon thread with it.  In
\* the API process the heartbeat thread stays.
Exit(w) ==
    /\ wk[w].pc = "exit"
    /\ wk' = [wk EXCEPT ![w] = IF w \in Local THEN [@ EXCEPT !.pc = "down"] ELSE NotRunning]
    /\ UNCHANGED <<api, pool, sync, keys, left>>

\* A worker process is killed: no finally clause runs.
Kill(w) ==
    /\ w \notin Local
    /\ wk[w].pc # "down"
    /\ left.crashes > 0
    /\ left' = [left EXCEPT !.crashes = @ - 1]
    /\ wk' = [wk EXCEPT ![w] = NotRunning]
    /\ UNCHANGED <<api, pool, sync, keys>>

-----------------------------------------------------------------------------
(* The heartbeat thread.                                                    *)

BeatTop(w) ==
    /\ wk[w].hb = "top"
    /\ wk' = [wk EXCEPT ![w] = IF @.stop THEN [@ EXCEPT !.hb = "ended"]
                               ELSE [@ EXCEPT !.hb = "publish", !.beat = wk[w].state]]
    /\ UNCHANGED <<api, pool, sync, keys, left>>

\* _publish_health: SET with a TTL.
BeatPublish(w) ==
    /\ wk[w].hb = "publish"
    /\ keys' = [keys EXCEPT ![w] = [engine |-> wk[w].engine, state |-> wk[w].beat]]
    /\ wk' = [wk EXCEPT ![w].hb = "top"]
    /\ UNCHANGED <<api, pool, sync, left>>

\* An exception of the SET is swallowed.
BeatFails(w) ==
    /\ wk[w].hb = "publish"
    /\ left.errors > 0
    /\ left' = [left EXCEPT !.errors = @ - 1]
    /\ wk' = [wk EXCEPT ![w].hb = "top"]
    /\ UNCHANGED <<api, pool, sync, keys>>

\* The TTL (15 s) outlives the publish period (3 s), so a key expires only when
\* its publisher is gone.
KeyExpires(w) ==
    /\ keys[w] # NoKey
    /\ wk[w].hb \notin {"top", "publish"}
    /\ keys' = [keys EXCEPT ![w] = NoKey]
    /\ UNCHANGED <<api, pool, sync, wk, left>>

-----------------------------------------------------------------------------
(* The API process: lifespan and gatherer thread.                           *)

\* Variant: no gatherer is started.
BootWithoutGatherer ==
    /\ api = "boot"
    /\ api' = "gather"
    /\ pool' = EmptyPool
    /\ UNCHANGED <<sync, keys, wk, left>>

\* lifespan builds AppState with an empty pool and starts the gatherer.
Boot ==
    /\ api = "boot"
    /\ api' = "gather"
    /\ pool' = EmptyPool
    /\ sync' = [SyncOff EXCEPT !.pc = "scan"]
    /\ UNCHANGED <<keys, wk, left>>

ApiProcessEnds ==
    /\ api' = "boot"
    /\ pool' = EmptyPool
    /\ sync' = SyncOff
    /\ wk' = [w \in Workers |-> IF w \in Local THEN NotRunning ELSE wk[w]]

\* state._wp_sync_thread = thread: AppState is a dataclass with slots and has
\* none of that name, so lifespan ends with an AttributeError.
StoreThread ==
    /\ api = "gather"
    /\ IF SlotsAccepted
       THEN api' = "serving" /\ UNCHANGED <<pool, sync, wk>>
       ELSE ApiProcessEnds
    /\ UNCHANGED <<keys, left>>

KillApi ==
    /\ api # "boot"
    /\ left.crashes > 0
    /\ left' = [left EXCEPT !.crashes = @ - 1]
    /\ ApiProcessEnds
    /\ UNCHANGED keys

\* sync_from_redis: SCAN of the keys, then per key GET, the test whether the
\* pool knows the worker, and heartbeat() or register().
SyncScan ==
    /\ sync.pc = "scan"
    /\ sync' = [sync EXCEPT !.pc = "get", !.todo = {w \in Workers : keys[w] # NoKey}]
    /\ UNCHANGED <<api, pool, keys, wk, left>>

SyncGet(w) ==
    /\ sync.pc = "get"
    /\ w \in sync.todo
    /\ sync' = IF keys[w] = NoKey THEN [sync EXCEPT !.todo = @ \ {w}]
               ELSE [sync EXCEPT !.pc = "check", !.todo = @ \ {w},
                                 !.raw = [worker |-> w, key |-> keys[w]]]
    /\ UNCHANGED <<api, pool, keys, wk, left>>

SyncCheck ==
    /\ sync.pc = "check"
    /\ sync' = [sync EXCEPT !.pc = "apply", !.known = pool[sync.raw.worker] # NoRecord]
    /\ UNCHANGED <<api, pool, keys, wk, left>>

\* Variant: every key is taken for one of a known worker.
SyncApplyHeartbeatOnly ==
    /\ sync.pc = "apply"
    /\ pool' = Heartbeat(pool, sync.raw.worker, sync.raw.key.state)
    /\ sync' = [sync EXCEPT !.pc = "get", !.raw = NoRead, !.known = FALSE]
    /\ UNCHANGED <<api, keys, wk, left>>

SyncApply ==
    LET w == sync.raw.worker
        k == sync.raw.key
    IN
    /\ sync.pc = "apply"
    /\ pool' = IF sync.known THEN Heartbeat(pool, w, k.state)
               ELSE Register(pool, w, k.engine, k.state)
    /\ sync' = [sync EXCEPT !.pc = "get", !.raw = NoRead, !.known = FALSE]
    /\ UNCHANGED <<api, keys, wk, left>>

\* The pass is over; the thread sleeps and starts the next one.
SyncRest ==
    /\ sync.pc = "get"
    /\ sync.todo = {}
    /\ sync' = [sync EXCEPT !.pc = "scan"]
    /\ UNCHANGED <<api, pool, keys, wk, left>>

\* SCAN or GET raises: the pass is given up.
SyncFails ==
    /\ sync.pc \in {"scan", "get"}
    /\ left.errors > 0
    /\ left' = [left EXCEPT !.errors = @ - 1]
    /\ sync' = [SyncOff EXCEPT !.pc = "scan"]
    /\ UNCHANGED <<api, pool, keys, wk>>

-----------------------------------------------------------------------------
\* What run() does next when nothing raises and no job comes.
RunStep(w) == \/ Load(w) \/ RegisterWithPool(w) \/ StartHeartbeat(w)
              \/ Take(w) \/ Finish(w) \/ Beat(w) \/ LeaveLoop(w) \/ Join(w)
              \/ Unload(w) \/ UnregisterFromPool(w) \/ DeleteKey(w) \/ Exit(w)

BeatStep(w) == BeatTop(w) \/ BeatPublish(w)

SyncStep == \/ SyncScan \/ SyncCheck \/ SyncApply \/ SyncRest
            \/ \E w \in Workers : SyncGet(w)

Next ==
    \/ \E w \in Workers, e \in Engines : Start(w, e)
    \/ \E w \in Workers : RunStep(w) \/ Reserve(w) \/ Raise(w) \/ Stop(w) \/ Kill(w)
    \/ \E w \in Workers : BeatStep(w) \/ BeatFails(w) \/ KeyExpires(w)
    \/ Boot \/ StoreThread \/ KillApi
    \/ SyncStep \/ SyncFails

Spec == Init /\ [][Next]_vars

\* Threads that can go on do, keys whose time has come expire, the restart
\* policy boots the API.  Jobs need not come, workers need not be started.
FairSpec ==
    /\ Spec
    /\ \A w \in Workers : WF_vars(RunStep(w)) /\ WF_vars(BeatStep(w)) /\ WF_vars(KeyExpires(w))
    /\ WF_vars(Boot) /\ WF_vars(StoreThread) /\ WF_vars(SyncStep)
=============================================================================
