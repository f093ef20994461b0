-------------------------- MODULE WorkerFleetProofs --------------------------
(***************************************************************************)
(* Proofs about the fleet, for every number of workers, engines, routes and  *)
(* faults: its states are well typed; the pool never counts more jobs of a    *)
(* worker of the API process than it runs, and loses count only to a test of  *)
(* the gatherer that is out of date; and an orderly stop silences the         *)
(* heartbeat before the engine is unloaded, where Redis answers within the    *)
(* join.                                                                     *)
(***************************************************************************)
EXTENDS WorkerFleetProps, TLAPS

HasRead == sync.pc \in {"check", "apply"}

\* What the gatherer holds is a key it has read.
ReadOK == HasRead => sync.raw.worker \in Workers /\ sync.raw.key \in Keys \ {NoKey}

\* What a worker has when it writes it: the engine it was started with, the
\* health that load() left, the health the heartbeat thread read.
HealthOK ==
    \A w \in Workers :
        /\ wk[w].pc # "down" => wk[w].engine \in Engines
        /\ wk[w].pc \notin {"down", "load"} => wk[w].state \in HealthStates
        /\ wk[w].hb \in {"top", "publish"}
              => wk[w].engine \in Engines /\ wk[w].state \in HealthStates
        /\ wk[w].hb = "publish" => wk[w].beat \in HealthStates

TypeInv == TypeOK /\ ReadOK /\ HealthOK

-----------------------------------------------------------------------------
(* The heartbeat and the end of a run.                                      *)

\* A run that nothing raised in leaves its loop because of stop(), and has
\* joined the heartbeat thread when it unloads the engine.
StopOrder ==
    \A w \in Workers :
        /\ wk[w].state = "unloaded" => wk[w].pc \in {"unregister", "delete", "exit", "down"}
        /\ wk[w].pc = "join" /\ ~wk[w].raised => wk[w].stop
        /\ (wk[w].pc \in {"unload", "unregister", "delete", "exit"} \/ wk[w].state = "unloaded")
              /\ ~wk[w].raised => wk[w].hb \in {"none", "ended"}

-----------------------------------------------------------------------------
(* The count of running jobs.                                               *)

\* A worker of the API process lives no longer than it.
LocalServed == \A w \in Local : wk[w].pc # "down" => api = "serving"

CountInv == LocalServed /\ InFlightHonest

\* What a step does to the count of worker w: it stays at most the number of
\* its jobs, and stays equal to it unless the gatherer registers w anew.
CountStep(w) ==
    Registered(w)' =>
        /\ pool'[w] # NoRecord
        /\ pool'[w].inFlight <= Jobs(w)'
        /\ CountRight(w) /\ ~RegistersAnew(w) => pool'[w].inFlight = Jobs(w)'

Counted == LocalServed' /\ \A v \in Local : CountStep(v)

-----------------------------------------------------------------------------
LEMMA InitTypeInv == Init => TypeInv
<1> SUFFICES ASSUME Init PROVE TypeInv
  OBVIOUS
<1>1. left \in [starts : [Workers -> Nat], raises : Nat, crashes : Nat, errors : Nat]
  BY FleetAssumption DEF FleetAssumption, Init
<1>2. NotRunning \in Runs /\ SyncOff \in Syncs /\ NoRecord \in Records /\ NoKey \in Keys
  BY DEF NotRunning, Runs, RunSteps, SyncOff, Syncs, NoRead, Records, Keys
<1>3. TypeOK
  BY <1>1, <1>2 DEF Init, TypeOK, EmptyPool, SyncOff
<1>4. ReadOK /\ HealthOK
  BY DEF Init, ReadOK, HasRead, SyncOff, HealthOK, NotRunning
<1>. QED
  BY <1>3, <1>4 DEF TypeInv

LEMMA InitCountInv == Init => CountInv
<1>1. Init => \A w \in Local : w \in Workers /\ wk[w].pc = "down"
  BY FleetAssumption DEF FleetAssumption, Init, NotRunning
<1>. QED
  BY <1>1 DEF CountInv, LocalServed, InFlightHonest, Registered

LEMMA InitStopOrder == Init => StopOrder
  BY DEF Init, StopOrder, NotRunning
-----------------------------------------------------------------------------
(* Types of what the actions write.                                         *)

\* A worker's record with some of its fields written.
LEMMA RunTypes ==
    ASSUME NEW r \in Runs
    PROVE  /\ [r EXCEPT !.stop = TRUE] \in Runs
           /\ \A pc \in RunSteps :
                 /\ [r EXCEPT !.pc = pc] \in Runs
                 /\ [r EXCEPT !.pc = pc, !.raised = TRUE] \in Runs
                 /\ [r EXCEPT !.pc = pc, !.hb = "top"] \in Runs
           /\ \A pc \in RunSteps, state \in HealthStates :
                 /\ [r EXCEPT !.state = state, !.pc = pc] \in Runs
                 /\ [r EXCEPT !.pc = pc, !.state = state] \in Runs
           /\ \A hb \in {"top", "ended"} : [r EXCEPT !.hb = hb] \in Runs
           /\ \A beat \in HealthStates : [r EXCEPT !.hb = "publish", !.beat = beat] \in Runs
<1>1. [r EXCEPT !.stop = TRUE] \in Runs
  BY DEF Runs
<1>2. ASSUME NEW pc \in RunSteps
      PROVE  /\ [r EXCEPT !.pc = pc] \in Runs
             /\ [r EXCEPT !.pc = pc, !.raised = TRUE] \in Runs
             /\ [r EXCEPT !.pc = pc, !.hb = "top"] \in Runs
  BY DEF Runs
<1>3. ASSUME NEW pc \in RunSteps, NEW state \in HealthStates
      PROVE  /\ [r EXCEPT !.state = state, !.pc = pc] \in Runs
             /\ [r EXCEPT !.pc = pc, !.state = state] \in Runs
  BY DEF Runs
<1>4. ASSUME NEW hb \in {"top", "ended"}
      PROVE  [r EXCEPT !.hb = hb] \in Runs
  BY DEF Runs
<1>5. ASSUME NEW beat \in HealthStates
      PROVE  [r EXCEPT !.hb = "publish", !.beat = beat] \in Runs
  BY DEF Runs
<1>. QED
  BY <1>1, <1>2, <1>3, <1>4, <1>5

\* The record of a worker that does not run, or has just been started.
LEMMA NewRunTypes ==
    /\ NotRunning \in Runs
    /\ \A e \in Engines : [NotRunning EXCEPT !.pc = "load", !.engine = e] \in Runs
<1>1. NotRunning \in Runs
  BY DEF Runs, NotRunning, RunSteps
<1>2. "load" \in RunSteps
  BY DEF RunSteps
<1>. QED
  BY <1>1, <1>2 DEF Runs

\* The methods of the pool keep it a pool.
LEMMA PoolTypes ==
    ASSUME NEW p \in [Workers -> Records], NEW w \in Workers, NEW e \in Engines,
           NEW state \in HealthStates, NEW up \in BOOLEAN
    PROVE  /\ Register(p, w, e, state) \in [Workers -> Records]
           /\ Heartbeat(p, w, state) \in [Workers -> Records]
           /\ MarkInFlight(p, w, up) \in [Workers -> Records]
           /\ Unregister(p, w) \in [Workers -> Records]
<1>1. Register(p, w, e, state) \in [Workers -> Records]
  BY DEF Register, Records
<1>2. Heartbeat(p, w, state) \in [Workers -> Records]
  BY DEF Heartbeat, Records, NoRecord
<1>3. MarkInFlight(p, w, up) \in [Workers -> Records]
  BY DEF MarkInFlight, Records, NoRecord
<1>4. Unregister(p, w) \in [Workers -> Records]
  BY DEF Unregister, Records
<1>. QED
  BY <1>1, <1>2, <1>3, <1>4

LEMMA StepTypeInv == TypeInv /\ [Next]_vars => TypeInv'
<1> SUFFICES ASSUME TypeInv, [Next]_vars PROVE TypeInv'
  OBVIOUS
<1>0. TypeOK /\ ReadOK /\ HealthOK
  BY DEF TypeInv
<1>1. ASSUME NEW w \in Workers, NEW e \in Engines, Start(w, e)
      PROVE  TypeInv'
  <2>1. wk' \in [Workers -> Runs]
    BY <1>0, <1>1, NewRunTypes DEF TypeOK, Start
  <2>2. left' \in [starts : [Workers -> Nat], raises : Nat, crashes : Nat, errors : Nat]
    BY <1>0, <1>1 DEF TypeOK, Start
  <2>3. HealthOK'
    BY <1>0, <1>1 DEF TypeOK, HealthOK, Start, NotRunning
  <2>. QED
    BY <1>0, <1>1, <2>1, <2>2, <2>3 DEF TypeInv, TypeOK, ReadOK, HasRead, Start
<1>2. ASSUME NEW w \in Workers, Load(w)
      PROVE  TypeInv'
  <2>1. wk' \in [Workers -> Runs]
    <3>1. PICK state \in {"idle", "degraded"} :
              wk' = [wk EXCEPT ![w].state = state, ![w].pc = "register"]
      BY <1>2 DEF Load
    <3>2. "register" \in RunSteps /\ state \in HealthStates
      BY DEF RunSteps, HealthStates
    <3>3. [wk[w] EXCEPT !.state = state, !.pc = "register"] \in Runs
      BY <1>0, <3>2, RunTypes DEF TypeOK
    <3>. QED
      BY <1>0, <3>1, <3>3 DEF TypeOK
  <2>5. HealthOK'
    BY <1>0, <1>2 DEF TypeOK, Runs, HealthOK, HealthStates, Load
  <2>. QED
    BY <1>0, <1>2, <2>1, <2>5 DEF TypeInv, TypeOK, ReadOK, HasRead, Load
<1>3. ASSUME NEW w \in Workers, RegisterWithPool(w)
      PROVE  TypeInv'
  <2>1. wk' \in [Workers -> Runs]
    <3>1. "startHeartbeat" \in RunSteps
      BY DEF RunSteps
    <3>. QED
      BY <1>0, <1>3, <3>1, RunTypes DEF TypeOK, RegisterWithPool
  <2>2. pool' \in [Workers -> Records]
    BY <1>0, <1>3, PoolTypes DEF TypeOK, HealthOK, RegisterWithPool
  <2>5. HealthOK'
    BY <1>0, <1>3 DEF TypeOK, Runs, HealthOK, RegisterWithPool
  <2>. QED
    BY <1>0, <1>3, <2>1, <2>2, <2>5 DEF TypeInv, TypeOK, ReadOK, HasRead, RegisterWithPool
<1>4. ASSUME NEW w \in Workers, StartHeartbeat(w)
      PROVE  TypeInv'
  <2>1. wk' \in [Workers -> Runs]
    <3>1. "loop" \in RunSteps
      BY DEF RunSteps
    <3>. QED
      BY <1>0, <1>4, <3>1, RunTypes DEF TypeOK, StartHeartbeat
  <2>5. HealthOK'
    BY <1>0, <1>4 DEF TypeOK, Runs, HealthOK, StartHeartbeat
  <2>. QED
    BY <1>0, <1>4, <2>1, <2>5 DEF TypeInv, TypeOK, ReadOK, HasRead, StartHeartbeat
<1>5. ASSUME NEW w \in Workers, Reserve(w)
      PROVE  TypeInv'
  <2>1. wk' \in [Workers -> Runs]
    <3>1. "take" \in RunSteps
      BY DEF RunSteps
    <3>. QED
      BY <1>0, <1>5, <3>1, RunTypes DEF TypeOK, Reserve
  <2>5. HealthOK'
    BY <1>0, <1>5 DEF TypeOK, Runs, HealthOK, Reserve
  <2>. QED
    BY <1>0, <1>5, <2>1, <2>5 DEF TypeInv, TypeOK, ReadOK, HasRead, Reserve
<1>6. ASSUME NEW w \in Workers, Take(w)
      PROVE  TypeInv'
  <2>1. wk' \in [Workers -> Runs]
    <3>1. "busy" \in RunSteps
      BY DEF RunSteps
    <3>. QED
      BY <1>0, <1>6, <3>1, RunTypes DEF TypeOK, Take
  <2>2. pool' \in [Workers -> Records]
    BY <1>0, <1>6, PoolTypes DEF TypeOK, HealthOK, Take
  <2>5. HealthOK'
    BY <1>0, <1>6 DEF TypeOK, Runs, HealthOK, Take
  <2>. QED
    BY <1>0, <1>6, <2>1, <2>2, <2>5 DEF TypeInv, TypeOK, ReadOK, HasRead, Take
<1>7. ASSUME NEW w \in Workers, Finish(w)
      PROVE  TypeInv'
  <2>1. wk' \in [Workers -> Runs]
    <3>1. "beat" \in RunSteps
      BY DEF RunSteps
    <3>. QED
      BY <1>0, <1>7, <3>1, RunTypes DEF TypeOK, Finish
  <2>2. pool' \in [Workers -> Records]
    BY <1>0, <1>7, PoolTypes DEF TypeOK, HealthOK, Finish
  <2>5. HealthOK'
    BY <1>0, <1>7 DEF TypeOK, Runs, HealthOK, Finish
  <2>. QED
    BY <1>0, <1>7, <2>1, <2>2, <2>5 DEF TypeInv, TypeOK, ReadOK, HasRead, Finish
<1>8. ASSUME NEW w \in Workers, Beat(w)
      PROVE  TypeInv'
  <2>1. wk' \in [Workers -> Runs]
    <3>1. "join" \in RunSteps /\ "loop" \in RunSteps
      BY DEF RunSteps
    <3>. QED
      BY <1>0, <1>8, <3>1, RunTypes DEF TypeOK, Beat
  <2>2. pool' \in [Workers -> Records]
    BY <1>0, <1>8, PoolTypes DEF TypeOK, HealthOK, Beat
  <2>5. HealthOK'
    BY <1>0, <1>8 DEF TypeOK, Runs, HealthOK, Beat
  <2>. QED
    BY <1>0, <1>8, <2>1, <2>2, <2>5 DEF TypeInv, TypeOK, ReadOK, HasRead, Beat
<1>9. ASSUME NEW w \in Workers, LeaveLoop(w)
      PROVE  TypeInv'
  <2>1. wk' \in [Workers -> Runs]
    <3>1. "join" \in RunSteps
      BY DEF RunSteps
    <3>. QED
      BY <1>0, <1>9, <3>1, RunTypes DEF TypeOK, LeaveLoop
  <2>5. HealthOK'
    BY <1>0, <1>9 DEF TypeOK, Runs, HealthOK, LeaveLoop
  <2>. QED
    BY <1>0, <1>9, <2>1, <2>5 DEF TypeInv, TypeOK, ReadOK, HasRead, LeaveLoop
<1>10. ASSUME NEW w \in Workers, Join(w)
      PROVE  TypeInv'
  <2>1. wk' \in [Workers -> Runs]
    <3>1. "unload" \in RunSteps
      BY DEF RunSteps
    <3>. QED
      BY <1>0, <1>10, <3>1, RunTypes DEF TypeOK, Join
  <2>5. HealthOK'
    BY <1>0, <1>10 DEF TypeOK, Runs, HealthOK, Join
  <2>. QED
    BY <1>0, <1>10, <2>1, <2>5 DEF TypeInv, TypeOK, ReadOK, HasRead, Join
<1>11. ASSUME NEW w \in Workers, Unload(w)
      PROVE  TypeInv'
  <2>1. wk' \in [Workers -> Runs]
    <3>1. "unregister" \in RunSteps
      BY DEF RunSteps
    <3>. QED
      BY <1>0, <1>11, <3>1, RunTypes DEF TypeOK, Unload, HealthStates
  <2>5. HealthOK'
    BY <1>0, <1>11 DEF TypeOK, Runs, HealthOK, HealthStates, Unload
  <2>. QED
    BY <1>0, <1>11, <2>1, <2>5 DEF TypeInv, TypeOK, ReadOK, HasRead, Unload
<1>12. ASSUME NEW w \in Workers, UnregisterFromPool(w)
      PROVE  TypeInv'
  <2>1. wk' \in [Workers -> Runs]
    <3>1. "delete" \in RunSteps
      BY DEF RunSteps
    <3>. QED
      BY <1>0, <1>12, <3>1, RunTypes DEF TypeOK, UnregisterFromPool
  <2>2. pool' \in [Workers -> Records]
    BY <1>0, <1>12, PoolTypes DEF TypeOK, HealthOK, UnregisterFromPool
  <2>5. HealthOK'
    BY <1>0, <1>12 DEF TypeOK, Runs, HealthOK, UnregisterFromPool
  <2>. QED
    BY <1>0, <1>12, <2>1, <2>2, <2>5 DEF TypeInv, TypeOK, ReadOK, HasRead, UnregisterFromPool
<1>13. ASSUME NEW w \in Workers, DeleteKey(w)
      PROVE  TypeInv'
  <2>1. wk' \in [Workers -> Runs]
    <3>1. "exit" \in RunSteps
      BY DEF RunSteps
    <3>. QED
      BY <1>0, <1>13, <3>1, RunTypes DEF TypeOK, DeleteKey
  <2>4. keys' \in [Workers -> Keys]
    BY <1>0, <1>13 DEF TypeOK, HealthOK, Keys, DeleteKey
  <2>5. HealthOK'
    BY <1>0, <1>13 DEF TypeOK, Runs, HealthOK, DeleteKey
  <2>. QED
    BY <1>0, <1>13, <2>1, <2>4, <2>5 DEF TypeInv, TypeOK, ReadOK, HasRead, DeleteKey
<1>14. ASSUME NEW w \in Workers, Exit(w)
      PROVE  TypeInv'
  <2>1. wk' \in [Workers -> Runs]
    <3>1. "down" \in RunSteps
      BY DEF RunSteps
    <3>. QED
      BY <1>0, <1>14, <3>1, RunTypes, NewRunTypes DEF TypeOK, Exit
  <2>5. HealthOK'
    BY <1>0, <1>14 DEF TypeOK, Runs, HealthOK, NotRunning, Exit
  <2>. QED
    BY <1>0, <1>14, <2>1, <2>5 DEF TypeInv, TypeOK, ReadOK, HasRead, Exit
<1>15. ASSUME NEW w \in Workers, Raise(w)
      PROVE  TypeInv'
  <2>1. "join" \in RunSteps /\ "beat" \in RunSteps
    BY DEF RunSteps
  <2>2. left' \in [starts : [Workers -> Nat], raises : Nat, crashes : Nat, errors : Nat]
    BY <1>0, <1>15 DEF TypeOK, Raise
  <2>3. CASE wk[w].pc = "loop"
    <3>1. wk' = [wk EXCEPT ![w].pc = "join", ![w].raised = TRUE] /\ pool' = pool
      BY <1>15, <2>3 DEF Raise
    <3>2. wk' \in [Workers -> Runs]
      BY <1>0, <2>1, <3>1, RunTypes DEF TypeOK
    <3>3. HealthOK'
      BY <1>0, <2>3, <3>1 DEF TypeOK, Runs, HealthOK
    <3>. QED
      BY <1>0, <1>15, <2>2, <3>1, <3>2, <3>3 DEF TypeInv, TypeOK, ReadOK, HasRead, Raise
  <2>4. CASE wk[w].pc = "busy"
    <3>1. /\ wk' = [wk EXCEPT ![w].pc = "beat", ![w].raised = TRUE]
          /\ pool' = IF w \in Local THEN MarkInFlight(pool, w, FALSE) ELSE pool
      BY <1>15, <2>4 DEF Raise
    <3>2. wk' \in [Workers -> Runs]
      BY <1>0, <2>1, <3>1, RunTypes DEF TypeOK
    <3>3. pool' \in [Workers -> Records]
      BY <1>0, <2>4, <3>1, PoolTypes DEF TypeOK, HealthOK
    <3>4. HealthOK'
      BY <1>0, <2>4, <3>1 DEF TypeOK, Runs, HealthOK
    <3>. QED
      BY <1>0, <1>15, <2>2, <3>2, <3>3, <3>4 DEF TypeInv, TypeOK, ReadOK, HasRead, Raise
  <2>. QED
    BY <1>15, <2>3, <2>4 DEF Raise
<1>16. ASSUME NEW w \in Workers, Stop(w)
      PROVE  TypeInv'
  <2>1. wk' \in [Workers -> Runs]
    BY <1>0, <1>16, RunTypes DEF TypeOK, Stop
  <2>5. HealthOK'
    BY <1>0, <1>16 DEF TypeOK, Runs, HealthOK, Stop
  <2>. QED
    BY <1>0, <1>16, <2>1, <2>5 DEF TypeInv, TypeOK, ReadOK, HasRead, Stop
<1>17. ASSUME NEW w \in Workers, Kill(w)
      PROVE  TypeInv'
  <2>1. wk' \in [Workers -> Runs]
    BY <1>0, <1>17, RunTypes, NewRunTypes DEF TypeOK, Kill
  <2>3. left' \in [starts : [Workers -> Nat], raises : Nat, crashes : Nat, errors : Nat]
    BY <1>0, <1>17 DEF TypeOK, Kill
  <2>5. HealthOK'
    BY <1>0, <1>17 DEF TypeOK, Runs, HealthOK, NotRunning, Kill
  <2>. QED
    BY <1>0, <1>17, <2>1, <2>3, <2>5 DEF TypeInv, TypeOK, ReadOK, HasRead, Kill
<1>18. ASSUME NEW w \in Workers, BeatTop(w)
      PROVE  TypeInv'
  <2>1. wk' \in [Workers -> Runs]
    BY <1>0, <1>18, RunTypes DEF TypeOK, HealthOK, BeatTop
  <2>5. HealthOK'
    BY <1>0, <1>18 DEF TypeOK, Runs, HealthOK, BeatTop
  <2>. QED
    BY <1>0, <1>18, <2>1, <2>5 DEF TypeInv, TypeOK, ReadOK, HasRead, BeatTop
<1>19. ASSUME NEW w \in Workers, BeatPublish(w)
      PROVE  TypeInv'
  <2>1. wk' \in [Workers -> Runs]
    BY <1>0, <1>19, RunTypes DEF TypeOK, BeatPublish
  <2>4. keys' \in [Workers -> Keys]
    BY <1>0, <1>19 DEF TypeOK, HealthOK, Keys, BeatPublish
  <2>5. HealthOK'
    BY <1>0, <1>19 DEF TypeOK, Runs, HealthOK, BeatPublish
  <2>. QED
    BY <1>0, <1>19, <2>1, <2>4, <2>5 DEF TypeInv, TypeOK, ReadOK, HasRead, BeatPublish
<1>20. ASSUME NEW w \in Workers, BeatFails(w)
      PROVE  TypeInv'
  <2>1. wk' \in [Workers -> Runs]
    BY <1>0, <1>20, RunTypes DEF TypeOK, BeatFails
  <2>3. left' \in [starts : [Workers -> Nat], raises : Nat, crashes : Nat, errors : Nat]
    BY <1>0, <1>20 DEF TypeOK, BeatFails
  <2>5. HealthOK'
    BY <1>0, <1>20 DEF TypeOK, Runs, HealthOK, BeatFails
  <2>. QED
    BY <1>0, <1>20, <2>1, <2>3, <2>5 DEF TypeInv, TypeOK, ReadOK, HasRead, BeatFails
<1>21. ASSUME NEW w \in Workers, KeyExpires(w)
      PROVE  TypeInv'
  <2>4. keys' \in [Workers -> Keys]
    BY <1>0, <1>21 DEF TypeOK, HealthOK, Keys, KeyExpires
  <2>. QED
    BY <1>0, <1>21, <2>4 DEF TypeInv, TypeOK, ReadOK, HasRead, HealthOK, KeyExpires
<1>22. CASE Boot
  BY <1>0, <1>22 DEF Boot, TypeInv, TypeOK, ReadOK, HasRead, HealthOK, EmptyPool, Records, Syncs,
     SyncOff, NoRead, Keys
<1>23. ASSUME ApiProcessEnds, UNCHANGED keys,
             left' \in [starts : [Workers -> Nat], raises : Nat, crashes : Nat, errors : Nat]
      PROVE  TypeInv'
  <2>1. wk' \in [Workers -> Runs]
    BY <1>0, <1>23 DEF TypeOK, ApiProcessEnds, NotRunning, Runs, RunSteps
  <2>2. HealthOK'
    BY <1>0, <1>23 DEF TypeOK, HealthOK, ApiProcessEnds, NotRunning
  <2>. QED
    BY <1>0, <1>23, <2>1, <2>2 DEF ApiProcessEnds, TypeInv, TypeOK, ReadOK, HasRead, EmptyPool,
       Records, Syncs, SyncOff, NoRead, Keys
<1>24. CASE StoreThread
  BY <1>0, <1>23, <1>24 DEF StoreThread, TypeInv, TypeOK, ReadOK, HasRead, HealthOK
<1>25. CASE KillApi
  <2>1. left' \in [starts : [Workers -> Nat], raises : Nat, crashes : Nat, errors : Nat]
    BY <1>0, <1>25 DEF TypeOK, KillApi
  <2>. QED
    BY <1>23, <1>25, <2>1 DEF KillApi
<1>26. CASE SyncScan
  BY <1>0, <1>26 DEF SyncScan, TypeInv, TypeOK, ReadOK, HasRead, HealthOK, Syncs
<1>27. CASE SyncCheck
  BY <1>0, <1>27 DEF SyncCheck, TypeInv, TypeOK, ReadOK, HasRead, HealthOK, Syncs
<1>28. CASE SyncRest
  BY <1>0, <1>28 DEF SyncRest, TypeInv, TypeOK, ReadOK, HasRead, HealthOK, Syncs
<1>29. ASSUME NEW w \in Workers, SyncGet(w)
      PROVE  TypeInv'
  BY <1>0, <1>29 DEF SyncGet, TypeInv, TypeOK, ReadOK, HasRead, HealthOK, Syncs
<1>30. CASE SyncApply
  <2>1. /\ sync.raw.worker \in Workers
        /\ sync.raw.key.engine \in Engines /\ sync.raw.key.state \in HealthStates
    BY <1>0, <1>30 DEF SyncApply, ReadOK, HasRead, Keys
  <2>2. pool' \in [Workers -> Records]
    BY <1>0, <1>30, <2>1, PoolTypes DEF SyncApply, TypeOK
  <2>3. sync' \in Syncs /\ sync'.pc = "get"
    BY <1>0, <1>30 DEF SyncApply, TypeOK, Syncs, NoRead, Keys
  <2>. QED
    BY <1>0, <1>30, <2>2, <2>3 DEF SyncApply, TypeInv, TypeOK, ReadOK, HasRead, HealthOK
<1>31. CASE SyncFails
  <2>1. left' \in [starts : [Workers -> Nat], raises : Nat, crashes : Nat, errors : Nat]
    BY <1>0, <1>31 DEF TypeOK, SyncFails
  <2>2. sync' \in Syncs /\ sync'.pc = "scan" /\ sync.pc # "off"
    BY <1>0, <1>31 DEF SyncFails, SyncOff, Syncs, NoRead, Keys
  <2>. QED
    BY <1>0, <1>31, <2>1, <2>2 DEF SyncFails, TypeInv, TypeOK, ReadOK, HasRead, HealthOK
<1>32. CASE UNCHANGED vars
  BY <1>0, <1>32 DEF vars, TypeInv, TypeOK, ReadOK, HasRead, HealthOK
<1>. QED
  BY <1>1, <1>2, <1>3, <1>4, <1>5, <1>6, <1>7, <1>8, <1>9, <1>10, <1>11, <1>12, <1>13,
     <1>14, <1>15, <1>16, <1>17, <1>18, <1>19, <1>20, <1>21, <1>22, <1>24, <1>25, <1>26,
     <1>27, <1>28, <1>29, <1>30, <1>31, <1>32
     DEF Next, RunStep, BeatStep, SyncStep

-----------------------------------------------------------------------------
\* What a step of a worker does.
LEMMA RaiseEffect ==
    ASSUME wk \in [Workers -> Runs],
           left \in [starts : [Workers -> Nat], raises : Nat, crashes : Nat, errors : Nat],
           NEW w \in Workers, Raise(w)
    PROVE  /\ wk[w].pc \in {"loop", "busy"}
           /\ wk'[w].pc = IF wk[w].pc = "loop" THEN "join" ELSE "beat"
           /\ wk'[w].raised
           /\ wk'[w].hb = wk[w].hb /\ wk'[w].state = wk[w].state
           /\ \A v \in Workers : v # w => wk'[v] = wk[v]
           /\ pool' = IF wk[w].pc = "busy" /\ w \in Local THEN MarkInFlight(pool, w, FALSE)
                      ELSE pool
           /\ left'.starts = left.starts /\ UNCHANGED <<api, sync, keys>>
<1>1. left'.starts = left.starts /\ UNCHANGED <<api, sync, keys>>
  BY DEF Raise
<1>2. CASE wk[w].pc = "loop"
  <2>1. wk' = [wk EXCEPT ![w].pc = "join", ![w].raised = TRUE] /\ pool' = pool
    BY <1>2 DEF Raise
  <2>. QED
    BY <1>1, <1>2, <2>1 DEF Runs
<1>3. CASE wk[w].pc = "busy"
  <2>1. /\ wk' = [wk EXCEPT ![w].pc = "beat", ![w].raised = TRUE]
        /\ pool' = IF w \in Local THEN MarkInFlight(pool, w, FALSE) ELSE pool
    BY <1>3 DEF Raise
  <2>. QED
    BY <1>1, <1>3, <2>1 DEF Runs
<1>. QED
  BY <1>2, <1>3 DEF Raise

\* A job taken counts one more, a job finished one less; a heartbeat none.
LEMMA PoolEffect ==
    ASSUME NEW p \in [Workers -> Records], NEW w \in Workers, p[w] # NoRecord
    PROVE  /\ MarkInFlight(p, w, TRUE)[w] # NoRecord
           /\ MarkInFlight(p, w, TRUE)[w].inFlight = p[w].inFlight + 1
           /\ \A v \in Workers : v # w => MarkInFlight(p, w, TRUE)[v] = p[v]
           /\ MarkInFlight(p, w, FALSE)[w] # NoRecord
           /\ p[w].inFlight \in {0, 1} => MarkInFlight(p, w, FALSE)[w].inFlight = 0
           /\ \A v \in Workers : v # w => MarkInFlight(p, w, FALSE)[v] = p[v]
           /\ \A state \in HealthStates :
                 /\ Heartbeat(p, w, state)[w] # NoRecord
                 /\ Heartbeat(p, w, state)[w].inFlight = p[w].inFlight
                 /\ \A v \in Workers : v # w => Heartbeat(p, w, state)[v] = p[v]
<1>1. p[w] \in [engine : Engines, state : HealthStates, inFlight : Nat]
  BY DEF Records
<1>2. ASSUME NEW n
      PROVE  /\ [p[w] EXCEPT !.inFlight = n] # NoRecord
             /\ [p[w] EXCEPT !.inFlight = n].inFlight = n
  BY <1>1 DEF NoRecord, HealthStates
<1>3. MarkInFlight(p, w, TRUE) = [p EXCEPT ![w] = [p[w] EXCEPT !.inFlight = p[w].inFlight + 1]]
  BY DEF MarkInFlight
<1>4. /\ MarkInFlight(p, w, TRUE)[w] # NoRecord
      /\ MarkInFlight(p, w, TRUE)[w].inFlight = p[w].inFlight + 1
      /\ \A v \in Workers : v # w => MarkInFlight(p, w, TRUE)[v] = p[v]
  BY <1>2, <1>3
<1>5. PICK n : /\ MarkInFlight(p, w, FALSE) = [p EXCEPT ![w] = [p[w] EXCEPT !.inFlight = n]]
               /\ p[w].inFlight \in {0, 1} => n = 0
  <2> DEFINE m == IF p[w].inFlight = 0 THEN 0 ELSE p[w].inFlight - 1
  <2>1. MarkInFlight(p, w, FALSE) = [p EXCEPT ![w] = [p[w] EXCEPT !.inFlight = m]]
    BY DEF MarkInFlight
  <2>2. p[w].inFlight \in {0, 1} => m = 0
    OBVIOUS
  <2> HIDE DEF m
  <2>. QED
    BY <2>1, <2>2
<1>6. /\ MarkInFlight(p, w, FALSE)[w] # NoRecord
      /\ p[w].inFlight \in {0, 1} => MarkInFlight(p, w, FALSE)[w].inFlight = 0
      /\ \A v \in Workers : v # w => MarkInFlight(p, w, FALSE)[v] = p[v]
  BY <1>2, <1>5
<1>7. ASSUME NEW state \in HealthStates
      PROVE  /\ Heartbeat(p, w, state)[w] # NoRecord
             /\ Heartbeat(p, w, state)[w].inFlight = p[w].inFlight
             /\ \A v \in Workers : v # w => Heartbeat(p, w, state)[v] = p[v]
  <2>1. Heartbeat(p, w, state) = [p EXCEPT ![w] = [p[w] EXCEPT !.state = state]]
    BY DEF Heartbeat
  <2>2. /\ [p[w] EXCEPT !.state = state] # NoRecord
        /\ [p[w] EXCEPT !.state = state].inFlight = p[w].inFlight
    BY <1>1 DEF NoRecord, HealthStates
  <2>. QED
    BY <2>1, <2>2
<1>. QED
  BY <1>4, <1>6, <1>7


LEMMA StepStopOrder == ~SlowRedis /\ TypeInv /\ StopOrder /\ [Next]_vars => StopOrder'
<1> SUFFICES ASSUME ~SlowRedis, TypeInv, StopOrder, [Next]_vars PROVE StopOrder'
  OBVIOUS
<1>0. wk \in [Workers -> Runs]
  BY DEF TypeInv, TypeOK
<1>1. ASSUME NEW w \in Workers, NEW e \in Engines, Start(w, e)
      PROVE  StopOrder'
  BY <1>0, <1>1 DEF Start, StopOrder, NotRunning
<1>2. ASSUME NEW w \in Workers, Load(w)
      PROVE  StopOrder'
  BY <1>0, <1>2 DEF Load, StopOrder, Runs
<1>3. ASSUME NEW w \in Workers, RegisterWithPool(w)
      PROVE  StopOrder'
  BY <1>0, <1>3 DEF RegisterWithPool, StopOrder, Runs
<1>4. ASSUME NEW w \in Workers, StartHeartbeat(w)
      PROVE  StopOrder'
  BY <1>0, <1>4 DEF StartHeartbeat, StopOrder, Runs
<1>5. ASSUME NEW w \in Workers, Reserve(w)
      PROVE  StopOrder'
  BY <1>0, <1>5 DEF Reserve, StopOrder, Runs
<1>6. ASSUME NEW w \in Workers, Take(w)
      PROVE  StopOrder'
  BY <1>0, <1>6 DEF Take, StopOrder, Runs
<1>7. ASSUME NEW w \in Workers, Finish(w)
      PROVE  StopOrder'
  BY <1>0, <1>7 DEF Finish, StopOrder, Runs
<1>8. ASSUME NEW w \in Workers, Beat(w)
      PROVE  StopOrder'
  BY <1>0, <1>8 DEF Beat, StopOrder, Runs
<1>9. ASSUME NEW w \in Workers, LeaveLoop(w)
      PROVE  StopOrder'
  BY <1>0, <1>9 DEF LeaveLoop, StopOrder, Runs
<1>10. ASSUME NEW w \in Workers, Join(w)
      PROVE  StopOrder'
  BY <1>0, <1>10 DEF Join, StopOrder, Runs
<1>11. ASSUME NEW w \in Workers, Unload(w)
      PROVE  StopOrder'
  BY <1>0, <1>11 DEF Unload, StopOrder, Runs
<1>12. ASSUME NEW w \in Workers, UnregisterFromPool(w)
      PROVE  StopOrder'
  BY <1>0, <1>12 DEF UnregisterFromPool, StopOrder, Runs
<1>13. ASSUME NEW w \in Workers, DeleteKey(w)
      PROVE  StopOrder'
  BY <1>0, <1>13 DEF DeleteKey, StopOrder, Runs
<1>14. ASSUME NEW w \in Workers, Exit(w)
      PROVE  StopOrder'
  BY <1>0, <1>14 DEF Exit, StopOrder, Runs, NotRunning
<1>15. ASSUME NEW w \in Workers, Raise(w)
      PROVE  StopOrder'
  <2>1. left \in [starts : [Workers -> Nat], raises : Nat, crashes : Nat, errors : Nat]
    BY DEF TypeInv, TypeOK
  <2>2. /\ wk[w].pc \in {"loop", "busy"} /\ wk'[w].pc \in {"join", "beat"}
        /\ wk'[w].raised /\ wk'[w].state = wk[w].state
        /\ \A v \in Workers : v # w => wk'[v] = wk[v]
    BY <1>0, <1>15, <2>1, RaiseEffect
  <2>. QED
    BY <2>2 DEF StopOrder
<1>16. ASSUME NEW w \in Workers, Stop(w)
      PROVE  StopOrder'
  BY <1>0, <1>16 DEF Stop, StopOrder, Runs
<1>17. ASSUME NEW w \in Workers, Kill(w)
      PROVE  StopOrder'
  BY <1>0, <1>17 DEF Kill, StopOrder, Runs, NotRunning
<1>18. ASSUME NEW w \in Workers, BeatTop(w)
      PROVE  StopOrder'
  BY <1>0, <1>18 DEF BeatTop, StopOrder, Runs
<1>19. ASSUME NEW w \in Workers, BeatPublish(w)
      PROVE  StopOrder'
  BY <1>0, <1>19 DEF BeatPublish, StopOrder, Runs
<1>20. ASSUME NEW w \in Workers, BeatFails(w)
      PROVE  StopOrder'
  BY <1>0, <1>20 DEF BeatFails, StopOrder, Runs
<1>21. ASSUME wk' = [w \in Workers |-> IF w \in Local THEN NotRunning ELSE wk[w]]
      PROVE  StopOrder'
  BY <1>0, <1>21 DEF StopOrder, NotRunning
<1>22. ASSUME UNCHANGED wk
      PROVE  StopOrder'
  BY <1>0, <1>22 DEF StopOrder
<1>. QED
  BY <1>1, <1>2, <1>3, <1>4, <1>5, <1>6, <1>7, <1>8, <1>9, <1>10, <1>11, <1>12, <1>13,
     <1>14, <1>15, <1>16, <1>17, <1>18, <1>19, <1>20, <1>21, <1>22
     DEF Next, RunStep, BeatStep, SyncStep, KeyExpires, Boot, StoreThread, KillApi, ApiProcessEnds,
         SyncScan, SyncGet, SyncCheck, SyncApply, SyncRest, SyncFails, vars

\* A step that leaves a worker and its record alone leaves its count right.
LEMMA SameCounted ==
    ASSUME InFlightHonest, NEW v \in Local, pool'[v] = pool[v],
           Registered(v)' => Registered(v) /\ Jobs(v)' = Jobs(v)
    PROVE  CountStep(v)
BY DEF CountStep, InFlightHonest, CountRight

\* The counts are right after a step that counts one worker and leaves the
\* others alone.
LEMMA OthersCounted ==
    ASSUME InFlightHonest, Local \subseteq Workers, NEW w \in Workers,
           \A v \in Workers : v # w => wk'[v] = wk[v] /\ pool'[v] = pool[v],
           pool'[w] # NoRecord, pool'[w].inFlight = Jobs(w)'
    PROVE  \A v \in Local : CountStep(v)
<1> SUFFICES ASSUME NEW v \in Local PROVE CountStep(v)
  OBVIOUS
<1>1. CASE v = w
  BY <1>1 DEF CountStep, Jobs
<1>2. CASE v # w
  BY <1>2, SameCounted DEF Registered, Jobs
<1>. QED
  BY <1>1, <1>2

\* The pool's count of a worker of the API process goes with its job.
LEMMA StepCounted == TypeInv /\ CountInv /\ [Next]_vars => Counted
<1> SUFFICES ASSUME TypeInv, CountInv, [Next]_vars PROVE Counted
  OBVIOUS
<1>0. /\ TypeOK /\ ReadOK /\ HealthOK
      /\ wk \in [Workers -> Runs] /\ pool \in [Workers -> Records] /\ keys \in [Workers -> Keys]
      /\ left.starts \in [Workers -> Nat] /\ sync \in Syncs
      /\ LocalServed /\ InFlightHonest
      /\ Local \subseteq Workers
  BY FleetAssumption DEF TypeInv, TypeOK, CountInv, FleetAssumption
<1>00. \A w \in Local : w \in Workers /\ pool[w].inFlight \in Nat
  BY <1>0 DEF Records, NoRecord
<1> USE DEF Registered, Jobs
<1>1. ASSUME NEW w \in Workers, NEW e \in Engines, Start(w, e)
      PROVE  Counted
  <2>1. /\ left'.starts = [left.starts EXCEPT ![w] = @ - 1]
        /\ left.starts[w] > 0 /\ wk[w].pc = "down"
        /\ w \in Local => api = "serving"
        /\ wk'[w].pc = "load" /\ wk'[w].hb = "none"
        /\ \A v \in Workers : v # w => wk'[v] = wk[v]
        /\ UNCHANGED <<api, pool, sync, keys>>
    BY <1>0, <1>1 DEF Start, NotRunning, TypeOK
  <2>2. LocalServed'
    BY <1>0, <2>1 DEF LocalServed
  <2>3. \A v \in Local : CountStep(v)
    BY <1>0, <2>1 DEF InFlightHonest, CountStep, CountRight
  <2>. QED
    BY <2>2, <2>3 DEF Counted
<1>2. ASSUME NEW w \in Workers, Load(w)
      PROVE  Counted
  <2>1. LocalServed'
    BY <1>0, <1>2 DEF LocalServed, Load, Runs
  <2>2. \A v \in Local : CountStep(v)
    BY <1>0, <1>2 DEF InFlightHonest, CountStep, CountRight, Load, Runs
  <2>. QED
    BY <2>1, <2>2 DEF Counted
<1>3. ASSUME NEW w \in Workers, RegisterWithPool(w)
      PROVE  Counted
  <2>1. LocalServed'
    BY <1>0, <1>3 DEF LocalServed, RegisterWithPool, Runs
  <2>2. \A v \in Local : CountStep(v)
    BY <1>0, <1>3 DEF InFlightHonest, CountStep, CountRight, HealthOK, RegisterWithPool, Runs, Register,
       Records, NoRecord, HealthStates
  <2>. QED
    BY <2>1, <2>2 DEF Counted
<1>4. ASSUME NEW w \in Workers, StartHeartbeat(w)
      PROVE  Counted
  <2>1. LocalServed'
    BY <1>0, <1>4 DEF LocalServed, StartHeartbeat, Runs
  <2>2. \A v \in Local : CountStep(v)
    BY <1>0, <1>4 DEF InFlightHonest, CountStep, CountRight, StartHeartbeat, Runs
  <2>. QED
    BY <2>1, <2>2 DEF Counted
<1>5. ASSUME NEW w \in Workers, Reserve(w)
      PROVE  Counted
  <2>1. LocalServed'
    BY <1>0, <1>5 DEF LocalServed, Reserve, Runs
  <2>2. \A v \in Local : CountStep(v)
    BY <1>0, <1>5 DEF InFlightHonest, CountStep, CountRight, Reserve, Runs
  <2>. QED
    BY <2>1, <2>2 DEF Counted
<1>6. ASSUME NEW w \in Workers, Take(w)
      PROVE  Counted
  <2>1. LocalServed'
    BY <1>0, <1>6 DEF LocalServed, Take, Runs
  <2>2. \A v \in Local : CountStep(v)
    <3>1. /\ wk'[w].pc = "busy" /\ \A v \in Workers : v # w => wk'[v] = wk[v]
          /\ pool' = IF w \in Local THEN MarkInFlight(pool, w, TRUE) ELSE pool
      BY <1>0, <1>6 DEF Take, Runs
    <3>2. CASE w \in Local
      <4>1. pool[w] # NoRecord /\ pool[w].inFlight = 0
        BY <1>0, <1>00, <1>6, <3>2 DEF InFlightHonest, CountStep, CountRight, Take
      <4>2. /\ pool'[w] # NoRecord /\ pool'[w].inFlight = pool[w].inFlight + 1
            /\ \A v \in Workers : v # w => pool'[v] = pool[v]
        BY <1>0, <3>1, <3>2, <4>1, PoolEffect
      <4>3. pool[w].inFlight + 1 = 1
        BY <4>1
      <4>4. pool'[w].inFlight = 1 /\ wk'[w].pc = "busy"
        BY <3>1, <4>2, <4>3
      <4>. QED
        BY <1>0, <3>1, <4>2, <4>4, OthersCounted
    <3>3. CASE w \notin Local
      BY <1>0, <3>1, <3>3 DEF InFlightHonest, CountStep, CountRight
    <3>. QED
      BY <3>2, <3>3
  <2>. QED
    BY <2>1, <2>2 DEF Counted
<1>7. ASSUME NEW w \in Workers, Finish(w)
      PROVE  Counted
  <2>1. LocalServed'
    BY <1>0, <1>7 DEF LocalServed, Finish, Runs
  <2>2. \A v \in Local : CountStep(v)
    <3>1. /\ wk'[w].pc = "beat" /\ \A v \in Workers : v # w => wk'[v] = wk[v]
          /\ pool' = IF w \in Local THEN MarkInFlight(pool, w, FALSE) ELSE pool
      BY <1>0, <1>7 DEF Finish, Runs
    <3>2. CASE w \in Local
      <4>1. pool[w] # NoRecord /\ pool[w].inFlight \in {0, 1}
        BY <1>0, <1>00, <1>7, <3>2 DEF InFlightHonest, CountStep, CountRight, Finish
      <4>2. /\ pool'[w] # NoRecord /\ pool'[w].inFlight = 0
            /\ \A v \in Workers : v # w => pool'[v] = pool[v]
        BY <1>0, <3>1, <3>2, <4>1, PoolEffect
      <4>. QED
        BY <1>0, <3>1, <4>2, OthersCounted
    <3>3. CASE w \notin Local
      BY <1>0, <3>1, <3>3 DEF InFlightHonest, CountStep, CountRight
    <3>. QED
      BY <3>2, <3>3
  <2>. QED
    BY <2>1, <2>2 DEF Counted
<1>8. ASSUME NEW w \in Workers, Beat(w)
      PROVE  Counted
  <2>1. LocalServed'
    BY <1>0, <1>8 DEF LocalServed, Beat, Runs
  <2>2. \A v \in Local : CountStep(v)
    BY <1>0, <1>8 DEF InFlightHonest, CountStep, CountRight, HealthOK, Beat, Runs, Heartbeat, Records,
       NoRecord, HealthStates
  <2>. QED
    BY <2>1, <2>2 DEF Counted
<1>9. ASSUME NEW w \in Workers, LeaveLoop(w)
      PROVE  Counted
  <2>1. LocalServed'
    BY <1>0, <1>9 DEF LocalServed, LeaveLoop, Runs
  <2>2. \A v \in Local : CountStep(v)
    BY <1>0, <1>9 DEF InFlightHonest, CountStep, CountRight, LeaveLoop, Runs
  <2>. QED
    BY <2>1, <2>2 DEF Counted
<1>10. ASSUME NEW w \in Workers, Join(w)
      PROVE  Counted
  <2>1. LocalServed'
    BY <1>0, <1>10 DEF LocalServed, Join, Runs
  <2>2. \A v \in Local : CountStep(v)
    BY <1>0, <1>10 DEF InFlightHonest, CountStep, CountRight, Join, Runs
  <2>. QED
    BY <2>1, <2>2 DEF Counted
<1>11. ASSUME NEW w \in Workers, Unload(w)
      PROVE  Counted
  <2>1. LocalServed'
    BY <1>0, <1>11 DEF LocalServed, Unload, Runs
  <2>2. \A v \in Local : CountStep(v)
    BY <1>0, <1>11 DEF InFlightHonest, CountStep, CountRight, Unload, Runs
  <2>. QED
    BY <2>1, <2>2 DEF Counted
<1>12. ASSUME NEW w \in Workers, UnregisterFromPool(w)
      PROVE  Counted
  <2>1. LocalServed'
    BY <1>0, <1>12 DEF LocalServed, UnregisterFromPool, Runs
  <2>2. \A v \in Local : CountStep(v)
    BY <1>0, <1>12 DEF InFlightHonest, CountStep, CountRight, UnregisterFromPool, Runs, Unregister
  <2>. QED
    BY <2>1, <2>2 DEF Counted
<1>13. ASSUME NEW w \in Workers, DeleteKey(w)
      PROVE  Counted
  <2>1. LocalServed'
    BY <1>0, <1>13 DEF LocalServed, DeleteKey, Runs
  <2>2. \A v \in Local : CountStep(v)
    BY <1>0, <1>13 DEF InFlightHonest, CountStep, CountRight, DeleteKey, Runs
  <2>. QED
    BY <2>1, <2>2 DEF Counted
<1>14. ASSUME NEW w \in Workers, Exit(w)
      PROVE  Counted
  <2>1. LocalServed'
    BY <1>0, <1>14 DEF LocalServed, Exit, Runs, NotRunning
  <2>2. \A v \in Local : CountStep(v)
    BY <1>0, <1>14 DEF InFlightHonest, CountStep, CountRight, Exit, Runs, NotRunning
  <2>. QED
    BY <2>1, <2>2 DEF Counted
<1>15. ASSUME NEW w \in Workers, Raise(w)
      PROVE  Counted
  <2>1. left \in [starts : [Workers -> Nat], raises : Nat, crashes : Nat, errors : Nat]
    BY <1>0 DEF TypeOK
  <2>2. /\ wk[w].pc \in {"loop", "busy"}
        /\ wk'[w].pc = IF wk[w].pc = "loop" THEN "join" ELSE "beat"
        /\ wk'[w].hb = wk[w].hb
        /\ \A v \in Workers : v # w => wk'[v] = wk[v]
        /\ pool' = IF wk[w].pc = "busy" /\ w \in Local THEN MarkInFlight(pool, w, FALSE)
                   ELSE pool
        /\ left'.starts = left.starts /\ UNCHANGED <<api, sync, keys>>
    BY <1>0, <1>15, <2>1, RaiseEffect
  <2>3. LocalServed'
    BY <1>0, <2>2 DEF LocalServed
  <2>4. \A v \in Local : CountStep(v)
    <3>1. CASE wk[w].pc = "busy" /\ w \in Local
      <4>1. pool[w] # NoRecord /\ pool[w].inFlight \in {0, 1}
        BY <1>0, <1>00, <3>1 DEF InFlightHonest, CountStep, CountRight
      <4>2. /\ pool'[w] # NoRecord /\ pool'[w].inFlight = 0
            /\ \A v \in Workers : v # w => pool'[v] = pool[v]
        BY <1>0, <2>2, <3>1, <4>1, PoolEffect
      <4>3. wk'[w].pc = "beat"
        BY <2>2, <3>1
      <4>. QED
        BY <1>0, <2>2, <4>2, <4>3, OthersCounted
    <3>2. CASE ~(wk[w].pc = "busy" /\ w \in Local)
      BY <1>0, <2>2, <3>2 DEF InFlightHonest, CountStep, CountRight
    <3>. QED
      BY <3>1, <3>2
  <2>. QED
    BY <2>3, <2>4 DEF Counted
<1>16. ASSUME NEW w \in Workers, Stop(w)
      PROVE  Counted
  <2>1. LocalServed'
    BY <1>0, <1>16 DEF LocalServed, Stop, Runs
  <2>2. \A v \in Local : CountStep(v)
    BY <1>0, <1>16 DEF InFlightHonest, CountStep, CountRight, Stop, Runs
  <2>. QED
    BY <2>1, <2>2 DEF Counted
<1>17. ASSUME NEW w \in Workers, Kill(w)
      PROVE  Counted
  <2>1. LocalServed'
    BY <1>0, <1>17 DEF LocalServed, Kill, Runs, NotRunning
  <2>2. \A v \in Local : CountStep(v)
    BY <1>0, <1>17 DEF InFlightHonest, CountStep, CountRight, Kill, Runs, NotRunning
  <2>. QED
    BY <2>1, <2>2 DEF Counted
<1>18. ASSUME NEW w \in Workers, BeatTop(w)
      PROVE  Counted
  <2>1. LocalServed'
    BY <1>0, <1>18 DEF LocalServed, BeatTop, Runs
  <2>2. \A v \in Local : CountStep(v)
    BY <1>0, <1>18 DEF InFlightHonest, CountStep, CountRight, BeatTop, Runs
  <2>. QED
    BY <2>1, <2>2 DEF Counted
<1>19. ASSUME NEW w \in Workers, BeatPublish(w)
      PROVE  Counted
  <2>1. LocalServed'
    BY <1>0, <1>19 DEF LocalServed, BeatPublish, Runs
  <2>2. \A v \in Local : CountStep(v)
    BY <1>0, <1>19 DEF InFlightHonest, CountStep, CountRight, BeatPublish, Runs
  <2>. QED
    BY <2>1, <2>2 DEF Counted
<1>20. ASSUME NEW w \in Workers, BeatFails(w)
      PROVE  Counted
  <2>1. LocalServed'
    BY <1>0, <1>20 DEF LocalServed, BeatFails, Runs
  <2>2. \A v \in Local : CountStep(v)
    BY <1>0, <1>20 DEF InFlightHonest, CountStep, CountRight, BeatFails, Runs
  <2>. QED
    BY <2>1, <2>2 DEF Counted
<1>21. ASSUME NEW w \in Workers, KeyExpires(w)
      PROVE  Counted
  BY <1>0, <1>21 DEF KeyExpires, Counted, LocalServed, InFlightHonest, CountStep, CountRight
<1>22. CASE Boot
  BY <1>0, <1>22 DEF Boot, Counted, LocalServed, InFlightHonest, CountStep, CountRight, SyncOff
<1>23. ASSUME ApiProcessEnds, UNCHANGED keys, left'.starts = left.starts
      PROVE  Counted
  <2>1. /\ \A w \in Local : wk'[w].pc = "down" /\ wk'[w].hb = "none"
        /\ sync'.pc = "off"
    BY <1>0, <1>23 DEF ApiProcessEnds, NotRunning, SyncOff
  <2>. QED
    BY <1>0, <1>23, <2>1 DEF Counted, LocalServed, InFlightHonest, CountStep, CountRight
<1>24. CASE StoreThread
  <2>1. CASE SlotsAccepted
    BY <1>0, <1>24, <2>1 DEF StoreThread, Counted, LocalServed, InFlightHonest, CountStep, CountRight
  <2>. QED
    BY <1>23, <1>24, <2>1 DEF StoreThread
<1>25. CASE KillApi
  <2>1. left'.starts = left.starts
    BY <1>0, <1>25 DEF KillApi, TypeOK
  <2>. QED
    BY <1>23, <1>25, <2>1 DEF KillApi
<1>26. CASE SyncScan
  BY <1>0, <1>26 DEF SyncScan, Counted, LocalServed, InFlightHonest, CountStep, CountRight, Syncs
<1>27. CASE SyncCheck
  BY <1>0, <1>27 DEF SyncCheck, Counted, LocalServed, InFlightHonest, CountStep, CountRight, Syncs
<1>28. CASE SyncRest
  BY <1>0, <1>28 DEF SyncRest, Counted, LocalServed, InFlightHonest, CountStep, CountRight, Syncs
<1>29. ASSUME NEW w \in Workers, SyncGet(w)
      PROVE  Counted
  BY <1>0, <1>29 DEF SyncGet, Counted, LocalServed, InFlightHonest, CountStep, CountRight, Syncs
<1>30. CASE SyncApply
  <2>1. /\ sync.pc = "apply" /\ UNCHANGED <<api, keys, wk, left>>
        /\ sync.raw.worker \in Workers
        /\ sync.raw.key.engine \in Engines /\ sync.raw.key.state \in HealthStates
    BY <1>0, <1>30 DEF SyncApply, ReadOK, HasRead, Keys
  <2>2. LocalServed'
    BY <1>0, <2>1 DEF LocalServed
  <2>3. ASSUME NEW w \in Local
        PROVE  CountStep(w)
    <3>1. CASE sync.raw.worker # w
      <4>1. pool'[w] = pool[w]
        BY <1>0, <1>30, <3>1 DEF SyncApply, Heartbeat, Register
      <4>. QED
        BY <1>0, <2>1, <4>1, SameCounted
    <3>2. CASE sync.raw.worker = w /\ sync.known
      <4>1. pool' = Heartbeat(pool, w, sync.raw.key.state)
        BY <1>30, <3>2 DEF SyncApply
      <4>2. ASSUME Registered(w)'
            PROVE  pool'[w] # NoRecord /\ pool'[w].inFlight = pool[w].inFlight
        <5>1. w \in Workers /\ pool[w] # NoRecord /\ pool \in [Workers -> Records]
          BY <1>0, <1>00, <2>1, <4>2 DEF InFlightHonest
        <5>2. \A state \in HealthStates :
                 /\ Heartbeat(pool, w, state)[w] # NoRecord
                 /\ Heartbeat(pool, w, state)[w].inFlight = pool[w].inFlight
          BY <5>1, PoolEffect
        <5>. QED
          BY <2>1, <4>1, <5>2
      <4>. QED
        BY <1>0, <2>1, <4>2 DEF CountStep, CountRight, InFlightHonest
    <3>3. CASE sync.raw.worker = w /\ ~sync.known
      <4>1. pool' = Register(pool, w, sync.raw.key.engine, sync.raw.key.state)
        BY <1>30, <3>3 DEF SyncApply
      <4>2. pool'[w] # NoRecord /\ pool'[w].inFlight = 0
        BY <1>0, <1>00, <2>1, <4>1 DEF Register, NoRecord, HealthStates
      <4>3. RegistersAnew(w)
        BY <2>1, <3>3 DEF RegistersAnew
      <4>. QED
        BY <4>2, <4>3 DEF CountStep
    <3>. QED
      BY <3>1, <3>2, <3>3
  <2>. QED
    BY <2>2, <2>3 DEF Counted
<1>31. CASE SyncFails
  <2>1. left'.starts = left.starts /\ sync'.pc = "scan" /\ UNCHANGED <<api, pool, keys, wk>>
    BY <1>0, <1>31 DEF SyncFails, TypeOK, SyncOff
  <2>. QED
    BY <1>0, <2>1 DEF Counted, LocalServed, InFlightHonest, CountStep, CountRight
<1>32. CASE UNCHANGED vars
  BY <1>0, <1>32 DEF vars, Counted, LocalServed, InFlightHonest, CountStep, CountRight
<1>. QED
  BY <1>1, <1>2, <1>3, <1>4, <1>5, <1>6, <1>7, <1>8, <1>9, <1>10, <1>11, <1>12, <1>13,
     <1>14, <1>15, <1>16, <1>17, <1>18, <1>19, <1>20, <1>21, <1>22, <1>24, <1>25, <1>26,
     <1>27, <1>28, <1>29, <1>30, <1>31, <1>32
     DEF Next, RunStep, BeatStep, SyncStep

-----------------------------------------------------------------------------
\* The invariants of every behaviour.
THEOREM FleetTypeInvInvariant == Spec => []TypeInv
<1>1. Init => TypeInv
  BY InitTypeInv
<1>2. TypeInv /\ [Next]_vars => TypeInv'
  BY StepTypeInv
<1>. QED
  BY <1>1, <1>2, PTL DEF Spec

\* Pool, keys, gatherer and workers are well typed, and the gatherer runs
\* exactly when the API does, whatever is started, raises or is killed.
THEOREM FleetTypeCorrect == Spec => []TypeOK
<1>1. TypeInv => TypeOK
  BY DEF TypeInv
<1>. QED
  BY <1>1, FleetTypeInvInvariant, PTL

\* The count is kept in every behaviour.
LEMMA CountInvariant == Spec => []CountInv
<1>1. Init => CountInv
  BY InitCountInv
<1>2. TypeInv /\ CountInv /\ [Next]_vars => CountInv'
  BY StepCounted DEF Counted, CountStep, CountInv, InFlightHonest
<1>. QED
  BY <1>1, <1>2, FleetTypeInvInvariant, PTL DEF Spec

\* WorkerPool.mark_in_flight against sync_from_redis: whatever the gatherer has
\* read and writes, however often the API is killed and its workers are started
\* again under their ids, the pool's record of a registered worker stays, and
\* counts no more jobs than the worker runs.
THEOREM CountNeverAbove == Spec => []InFlightHonest
<1>1. CountInv => InFlightHonest
  BY DEF CountInv
<1>. QED
  BY <1>1, CountInvariant, PTL

\* The only step after which a count that was right is not is the gatherer's
\* register() on a test of the records that an earlier run had made true.
THEOREM OnlyOldTestsLoseCount == Spec => CountLostToOldTest
<1>1. TypeInv /\ CountInv /\ [Next]_vars
          => \A w \in Local : CountRight(w) /\ ~CountRight(w)' => RegistersAnew(w)
  BY StepCounted DEF Counted, CountStep, CountRight
<1>. QED
  BY <1>1, CountInvariant, FleetTypeInvInvariant, PTL DEF Spec, CountLostToOldTest

\* GpuWorker.run's finally clause: a run that stop() ends has no heartbeat
\* published after its engine is unloaded, where the SET does not outlast the
\* join's two seconds.
THEOREM HeartbeatSilencedFirst ==
    ASSUME ~SlowRedis
    PROVE  Spec => HeartbeatStopsFirst
<1>1. Init => StopOrder
  BY InitStopOrder
<1>2. TypeInv /\ StopOrder /\ [Next]_vars => StopOrder'
  BY StepStopOrder
<1>3. StopOrder => \A w \in Workers :
          wk[w].hb = "publish" /\ wk'[w].hb = "top" /\ ~wk[w].raised => wk[w].state # "unloaded"
  BY DEF StopOrder
<1>. QED
  BY <1>1, <1>2, <1>3, FleetTypeInvInvariant, PTL DEF Spec, HeartbeatStopsFirst
=============================================================================
