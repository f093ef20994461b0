--------------------------- MODULE WorkerFleetProps ---------------------------
(***************************************************************************)
(* What is asked of WorkerFleet.                                             *)
(***************************************************************************)
EXTENDS WorkerFleet

\* Every variable has its type; the gatherer runs iff the API does.
TypeOK ==
    /\ api \in {"boot", "gather", "serving"}
    /\ pool \in [Workers -> Records]
    /\ sync \in Syncs
    /\ sync.pc = "off" <=> api = "boot"
    /\ keys \in [Workers -> Keys]
    /\ wk \in [Workers -> Runs]
    /\ left \in [starts : [Workers -> Nat], raises : Nat, crashes : Nat, errors : Nat]

\* A worker is registered from register() to unregister().
Registered(w) == wk[w].pc \in {"startHeartbeat", "loop", "take", "busy", "beat", "join",
                               "unload", "unregister"}

Jobs(w) == IF wk[w].pc = "busy" THEN 1 ELSE 0

\* While a worker of the API process is registered, the pool has a record of it
\* that never counts more jobs than it runs ("so capacity tracking is honest",
\* worker.py:72): no slot is lost to a run that raised, or to one that the API
\* or the worker was restarted after.
InFlightHonest ==
    \A w \in Local : Registered(w) =>
        pool[w] # NoRecord /\ pool[w].inFlight <= Jobs(w)

\* The count never stops being the number of jobs the worker runs, but where
\* the gatherer registers it anew on a test of the records that is no longer
\* true (worker_pool.py:154 tests outside the lock): with a key that an earlier
\* run under the same id left behind.
CountRight(w) == Registered(w) => pool[w].inFlight = Jobs(w)

RegistersAnew(w) == sync.pc = "apply" /\ sync.raw.worker = w /\ ~sync.known

CountLostToOldTest ==
    [][\A w \in Local : CountRight(w) /\ ~CountRight(w)' => RegistersAnew(w)]_vars

\* "Stop the heartbeat thread first so we don't keep writing to Redis after the
\* engine is unloaded" (worker.py:121).  Needs a run that stop() ended, and a
\* Redis that answers within the join's two seconds.
HeartbeatStopsFirst ==
    [][\A w \in Workers :
          wk[w].hb = "publish" /\ wk'[w].hb = "top" /\ ~wk[w].raised
              => wk[w].state # "unloaded"]_vars

-----------------------------------------------------------------------------
(* Liveness, under FairSpec.                                                *)

\* A worker on another machine that is up and whose engine is IDLE becomes
\* visible to pick_available (state.py:159), through the key, the gatherer and
\* the pool, whatever an earlier run of it reported and whoever else is there.
RemoteWorkerVisible ==
    \A w \in Workers \ Local :
        wk[w].pc = "loop" /\ wk[w].state = "idle"
            ~> \/ /\ api = "serving"
                  /\ \E e \in Engines : w \in IdleWorkers(e)
                  /\ \A t \in Tiers : PickAvailable(t) # "none"
               \/ wk[w].pc = "down"

\* When a worker's engine came up DEGRADED, no tier is routed to it for ever,
\* whatever an earlier run of it reported.
DegradedNotRouted ==
    \A w \in Workers \ Local :
        wk[w].pc = "loop" /\ wk[w].state = "degraded"
            ~> (\A e \in Engines : w \notin IdleWorkers(e)) \/ wk[w].pc = "down"
=============================================================================
