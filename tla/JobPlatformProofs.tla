------------------------- MODULE JobPlatformProofs -------------------------
(***************************************************************************)
(* Proofs about JobPlatform, for every value of the constants.  First what   *)
(* holds whatever fails: type correctness; that a delivery has one worker    *)
(* and a job has one worker; that XACK takes only the worker's own delivery  *)
(* off the books, and only after a verdict.  Then what follows from the      *)
(* deliveries: the queue on Redis, with its workers, keeps the ledger of     *)
(* deliveries, command by command; and what clients and operators find when  *)
(* nothing fails: a job that reads as completed has its result, and when     *)
(* everything has come to rest no delivery is open and no marker is left.    *)
(* Last, what no fault can do: reopen a job that has finished, or take a      *)
(* delivery back.  Where job ids are concerned they are the uuid ids of       *)
(* clients that choose none.                                                 *)
(***************************************************************************)
EXTENDS JobPlatformProps, TLAPS, WellFoundedInduction, SequenceTheorems

-----------------------------------------------------------------------------
(* The inductive strengthening of TypeOK: what a handler or a worker that   *)
(* is at a given step has in its local variables.                            *)

\* A handler that has begun has a job.
HandlersOK == \A r \in Requests : rq[r].pc # "idle" => rq[r].job \in Jobs

\* A worker at a job step has a delivered entry and its job, and at any other
\* step none; a worker that reclaims has a page of delivered entries to go
\* through.
WorkerOK(p, log, last) ==
    /\ p.pc \in JobSteps => p.entry \in 1 .. last /\ p.job = log[p.entry]
    /\ p.pc \notin JobSteps => p.entry = 0 /\ p.job = NoJob
    /\ p.batch \subseteq 1 .. last
    /\ p.pc \in {"reclaimHset", "reclaimXack", "reclaimHdel"} => p.batch # {}

WorkersOK == \A w \in Workers : WorkerOK(wk[w], stream, lastDelivered)

TypeInv == TypeOK /\ HandlersOK /\ WorkersOK

\* The least entry id of a non-empty set is an element of it.
LEMMA FirstIsIn ==
    ASSUME NEW S \in SUBSET Nat, S # {}
    PROVE  First(S) \in S /\ \A e \in S : First(S) <= e
<1>. DEFINE R == OpToRel(<, Nat)
<1>1. PICK x \in S : \A y \in S : ~(<<y, x>> \in R)
  <2>1. IsWellFoundedOn(R, Nat)
    BY NatLessThanWellFounded
  <2>. HIDE DEF R
  <2>. QED
    BY <2>1, WFMin
<1>2. R = {ss \in Nat \X Nat : ss[1] < ss[2]}
  BY DEF OpToRel
<1>3. ASSUME NEW y \in S PROVE x <= y
  <2>. HIDE DEF R
  <2>1. ~(<<y, x>> \in {ss \in Nat \X Nat : ss[1] < ss[2]})
    BY <1>1, <1>2
  <2>. QED
    BY <2>1
<1>. QED
  BY <1>3 DEF First

LEMMA InitTypeInv == ASSUME ConstantsAssumption PROVE Init => TypeInv
  BY DEF Init, TypeInv, TypeOK, HandlersOK, WorkersOK, WorkerOK, ConstantsAssumption,
         NewHandler, ProcessAt, NoHash, Hashes, Handlers, Processes,
         RequestSteps, WorkerSteps, HousekeepingSteps, JobSteps, Outcomes,
         JobStates, Payloads, Results, Absent, Missing, Empty, Full

\* The writes to a job hash keep its type.
LEMMA UpsertType ==
    ASSUME NEW h \in Hashes, NEW state \in JobStates,
           NEW payload \in Payloads, NEW result \in Results
    PROVE  Upsert(h, state, payload, result) \in Hashes
  BY DEF Upsert, Hashes

LEMMA MarkFromType ==
    ASSUME NEW snap \in Hashes, NEW h \in Hashes, NEW state \in JobStates,
           NEW result \in Results
    PROVE  MarkFrom(snap, h, state, result) \in Hashes
<1>1. ReadPayload(snap) \in Payloads
  BY DEF ReadPayload, Payloads
<1>2. (IF result = Missing THEN snap.result ELSE result) \in Results
  BY DEF Hashes
<1>. QED
  BY <1>1, <1>2, UpsertType DEF MarkFrom

LEMMA ProcessAtType ==
    ASSUME NEW step \in WorkerSteps
    PROVE  ProcessAt(step) \in Processes
  BY DEF ProcessAt, Processes, Outcomes, Payloads, NoHash, Hashes, Results

\* What a worker knows stays true while the stream and the deliveries grow.
LEMMA WorkerOKGrows ==
    ASSUME NEW p \in Processes, NEW log \in Seq(Jobs), NEW last \in 0 .. Len(log),
           NEW more \in Seq(Jobs), NEW later \in Nat, last <= later,
           \A e \in 1 .. last : more[e] = log[e],
           WorkerOK(p, log, last)
    PROVE  WorkerOK(p, more, later)
  BY DEF WorkerOK, Processes

LEMMA FieldTypes ==
    ASSUME NEW h \in Hashes
    PROVE  /\ \A s \in JobStates : [h EXCEPT !.state = s] \in Hashes
           /\ \A s \in JobStates, q \in Payloads :
                 [h EXCEPT !.payload = q, !.state = s] \in Hashes
           /\ \A n \in Nat : [h EXCEPT !.entry = n] \in Hashes
  BY DEF Hashes

LEMMA HashUpdate ==
    ASSUME hash \in [Jobs -> Hashes], NEW j \in Jobs, NEW h \in Hashes,
           hash' = [hash EXCEPT ![j] = h]
    PROVE  hash' \in [Jobs -> Hashes]
  OBVIOUS

LEMMA NoHashType == NoHash \in Hashes
  BY DEF NoHash, Hashes, Payloads, Results

LEMMA HandlerFields ==
    ASSUME NEW h \in Handlers, NEW pc \in RequestSteps, NEW snap \in Hashes
    PROVE  /\ [h EXCEPT !.pc = pc] \in Handlers
           /\ [h EXCEPT !.pc = pc].job = h.job
           /\ [h EXCEPT !.pc = pc, !.snap = snap] \in Handlers
           /\ [h EXCEPT !.pc = pc, !.snap = snap].job = h.job
  BY DEF Handlers

-----------------------------------------------------------------------------
(* Every step of a handler keeps TypeInv.                                   *)

\* A step that gives request r the handler record q.
LEMMA HandlerUpdate ==
    ASSUME rq \in [Requests -> Handlers], HandlersOK, NEW r \in Requests,
           NEW q \in Handlers, q.pc # "idle" => q.job \in Jobs,
           rq' = [rq EXCEPT ![r] = q]
    PROVE  rq' \in [Requests -> Handlers] /\ HandlersOK'
  BY DEF HandlersOK

LEMMA HandlerTypeInv ==
    ASSUME ConstantsAssumption, TypeInv, NEW r \in Requests, NEW j \in Jobs,
           \/ SubmitHset(r, j) \/ CancelHset(r, j)
           \/ SubmitXadd(r) \/ SubmitUpsert(r)
           \/ CancelGet(r) \/ CancelUpsert(r) \/ RequestFails(r)
    PROVE  TypeInv'
<1>. USE DEF TypeInv, TypeOK, HandlersOK, streamVars, faultVars
<1>1. CASE SubmitHset(r, j)
  <2>1. hash' \in [Jobs -> Hashes]
    <3>. DEFINE h == [hash[j] EXCEPT !.payload = Full, !.state = "pending"]
    <3>1. hash' = [hash EXCEPT ![j] = h]
      BY <1>1 DEF SubmitHset
    <3>2. hash[j] \in Hashes /\ "pending" \in JobStates /\ Full \in Payloads
      BY DEF JobStates, Payloads
    <3>3. h \in Hashes
      BY <3>2, FieldTypes
    <3>. HIDE DEF h
    <3>. QED
      BY <3>1, <3>3, HashUpdate
  <2>2. rq' \in [Requests -> Handlers] /\ HandlersOK'
    <3>. DEFINE q == [NewHandler EXCEPT !.op = "submit", !.pc = "xadd", !.job = j]
    <3>1. rq' = [rq EXCEPT ![r] = q]
      BY <1>1 DEF SubmitHset
    <3>2. q \in Handlers /\ q.job \in Jobs
      BY <1>1, NoHashType DEF SubmitHset, Handlers, NewHandler, RequestSteps
    <3>. HIDE DEF q
    <3>. QED
      BY <3>1, <3>2, HandlerUpdate
  <2>. QED
    BY <1>1, <2>1, <2>2 DEF SubmitHset, WorkersOK
<1>2. CASE SubmitXadd(r)
  <2>1. /\ stream' \in Seq(Jobs) /\ Len(stream') = Len(stream) + 1
        /\ \A e \in 1 .. Len(stream) : stream'[e] = stream[e]
    BY <1>2 DEF SubmitXadd, RequestSteps
  <2>2. rq' \in [Requests -> Handlers] /\ HandlersOK'
    <3>. DEFINE q == [rq[r] EXCEPT !.pc = "upsert"]
    <3>1. rq' = [rq EXCEPT ![r] = q]
      BY <1>2 DEF SubmitXadd
    <3>2. q \in Handlers /\ q.job \in Jobs
      <4>1. rq[r] \in Handlers /\ rq[r].job \in Jobs
        BY <1>2 DEF SubmitXadd
      <4>2. "upsert" \in RequestSteps
        BY DEF RequestSteps
      <4>. QED
        BY <4>1, <4>2, NoHashType, HandlerFields
    <3>. HIDE DEF q
    <3>. QED
      BY <3>1, <3>2, HandlerUpdate
  <2>3. WorkersOK'
    <3>1. wk' = wk /\ lastDelivered' = lastDelivered
      BY <1>2 DEF SubmitXadd
    <3>2. \A e \in 1 .. lastDelivered : stream'[e] = stream[e]
      BY <2>1
    <3>3. ASSUME NEW w \in Workers PROVE WorkerOK(wk[w], stream', lastDelivered)
      <4>1. wk[w] \in Processes /\ WorkerOK(wk[w], stream, lastDelivered)
        BY DEF WorkersOK
      <4>. QED
        BY <2>1, <3>2, <4>1, WorkerOKGrows
    <3>. QED
      BY <3>1, <3>3 DEF WorkersOK
  <2>. QED
    BY <1>2, <2>1, <2>2, <2>3 DEF SubmitXadd
<1>3. CASE SubmitUpsert(r)
  <2>1. hash' \in [Jobs -> Hashes]
    <3>1. rq[r].job \in Jobs
      BY <1>3 DEF SubmitUpsert
    <3>. QED
      BY <1>3, <3>1, UpsertType DEF SubmitUpsert, Payloads, JobStates, Results
  <2>2. rq' \in [Requests -> Handlers] /\ HandlersOK'
    <3>. DEFINE q == [rq[r] EXCEPT !.pc = "done"]
    <3>1. rq' = [rq EXCEPT ![r] = q]
      BY <1>3 DEF SubmitUpsert
    <3>2. q \in Handlers /\ q.job \in Jobs
      <4>1. rq[r] \in Handlers /\ rq[r].job \in Jobs
        BY <1>3 DEF SubmitUpsert
      <4>2. "done" \in RequestSteps
        BY DEF RequestSteps
      <4>. QED
        BY <4>1, <4>2, NoHashType, HandlerFields
    <3>. HIDE DEF q
    <3>. QED
      BY <3>1, <3>2, HandlerUpdate
  <2>. QED
    BY <1>3, <2>1, <2>2 DEF SubmitUpsert, WorkersOK
<1>4. CASE CancelHset(r, j)
  <2>1. hash' \in [Jobs -> Hashes]
    <3>. DEFINE h == [hash[j] EXCEPT !.state = "cancelled"]
    <3>1. hash' = [hash EXCEPT ![j] = h]
      BY <1>4 DEF CancelHset
    <3>2. hash[j] \in Hashes /\ "cancelled" \in JobStates
      BY DEF JobStates
    <3>3. h \in Hashes
      BY <3>2, FieldTypes
    <3>. HIDE DEF h
    <3>. QED
      BY <3>1, <3>3, HashUpdate
  <2>2. rq' \in [Requests -> Handlers] /\ HandlersOK'
    <3>. DEFINE q == [NewHandler EXCEPT !.op = "cancel", !.pc = "markGet", !.job = j]
    <3>1. rq' = [rq EXCEPT ![r] = q]
      BY <1>4 DEF CancelHset
    <3>2. q \in Handlers /\ q.job \in Jobs
      BY <1>4, NoHashType DEF CancelHset, Handlers, NewHandler, RequestSteps
    <3>. HIDE DEF q
    <3>. QED
      BY <3>1, <3>2, HandlerUpdate
  <2>. QED
    BY <1>4, <2>1, <2>2 DEF CancelHset, WorkersOK
<1>5. CASE CancelGet(r)
  <2>1. rq' \in [Requests -> Handlers] /\ HandlersOK'
    <3>. DEFINE q == [rq[r] EXCEPT
                      !.pc = IF hash[rq[r].job].state = Absent THEN "done" ELSE "markUpsert",
                      !.snap = hash[rq[r].job]]
    <3>1. rq' = [rq EXCEPT ![r] = q]
      BY <1>5 DEF CancelGet
    <3>2. q \in Handlers /\ q.job \in Jobs
      BY <1>5, NoHashType DEF CancelGet, Handlers, NewHandler, RequestSteps
    <3>. HIDE DEF q
    <3>. QED
      BY <3>1, <3>2, HandlerUpdate
  <2>. QED
    BY <1>5, <2>1 DEF CancelGet, WorkersOK
<1>6. CASE CancelUpsert(r)
  <2>1. hash' \in [Jobs -> Hashes]
    <3>1. rq[r].job \in Jobs /\ rq[r].snap \in Hashes
      BY <1>6 DEF CancelUpsert, Handlers
    <3>. QED
      BY <1>6, <3>1, MarkFromType DEF CancelUpsert, Payloads, JobStates, Results
  <2>2. rq' \in [Requests -> Handlers] /\ HandlersOK'
    <3>. DEFINE q == [rq[r] EXCEPT !.pc = "done", !.snap = NoHash]
    <3>1. rq' = [rq EXCEPT ![r] = q]
      BY <1>6 DEF CancelUpsert
    <3>2. q \in Handlers /\ q.job \in Jobs
      <4>1. rq[r] \in Handlers /\ rq[r].job \in Jobs
        BY <1>6 DEF CancelUpsert
      <4>2. "done" \in RequestSteps
        BY DEF RequestSteps
      <4>. HIDE DEF TypeInv, TypeOK, HandlersOK
      <4>3. q \in Handlers
        BY <4>1, <4>2, NoHashType, HandlerFields
      <4>4. q.job = rq[r].job
        BY <4>1 DEF Handlers
      <4>. QED
        BY <4>1, <4>3, <4>4
    <3>. HIDE DEF q
    <3>. QED
      BY <3>1, <3>2, HandlerUpdate
  <2>. QED
    BY <1>6, <2>1, <2>2 DEF CancelUpsert, WorkersOK
<1>7. CASE RequestFails(r)
  <2>1. rq' \in [Requests -> Handlers] /\ HandlersOK'
    <3>. DEFINE q == [rq[r] EXCEPT !.pc = "error", !.snap = NoHash]
    <3>1. rq' = [rq EXCEPT ![r] = q]
      BY <1>7 DEF RequestFails
    <3>2. q \in Handlers /\ q.job \in Jobs
      <4>1. rq[r] \in Handlers /\ rq[r].job \in Jobs
        BY <1>7 DEF RequestFails
      <4>2. "error" \in RequestSteps
        BY DEF RequestSteps
      <4>. HIDE DEF TypeInv, TypeOK, HandlersOK
      <4>3. q \in Handlers
        BY <4>1, <4>2, NoHashType, HandlerFields
      <4>4. q.job = rq[r].job
        BY <4>1 DEF Handlers
      <4>. QED
        BY <4>1, <4>3, <4>4
    <3>. HIDE DEF q
    <3>. QED
      BY <3>1, <3>2, HandlerUpdate
  <2>2. errors' \in 0 .. MaxErrors
    BY <1>7, ConstantsAssumption DEF RequestFails
  <2>. QED
    BY <1>7, <2>1, <2>2 DEF RequestFails, WorkersOK
<1>. QED
  BY <1>1, <1>2, <1>3, <1>4, <1>5, <1>6, <1>7

-----------------------------------------------------------------------------
(* Every step of a worker keeps TypeInv.                                    *)

\* A step that gives worker w the process record p and leaves the stream and
\* the deliveries alone keeps the workers' part of TypeInv if p fits.
LEMMA WorkerUpdate ==
    ASSUME TypeInv, stream' = stream, lastDelivered' = lastDelivered,
           NEW w \in Workers, NEW p \in Processes, wk' = [wk EXCEPT ![w] = p],
           WorkerOK(p, stream, lastDelivered)
    PROVE  wk' \in [Workers -> Processes] /\ WorkersOK'
<1>1. wk \in [Workers -> Processes] /\ WorkersOK
  BY DEF TypeInv, TypeOK
<1>2. ASSUME NEW v \in Workers PROVE WorkerOK(wk'[v], stream, lastDelivered)
  BY <1>1 DEF WorkersOK
<1>. QED
  BY <1>1, <1>2 DEF WorkersOK

\* A worker at none of the job steps has nothing in hand.
LEMMA ProcessAtOK ==
    ASSUME NEW step \in {"down", "reserve", "autoclaim", "trim"},
           NEW log, NEW last \in Nat
    PROVE  ProcessAt(step) \in Processes /\ WorkerOK(ProcessAt(step), log, last)
  BY ProcessAtType DEF ProcessAt, WorkerOK, JobSteps, WorkerSteps, HousekeepingSteps

\* XAUTOCLAIM looks at pending entries, and hands out or drops each of them.
LEMMA AutoClaimPageIsPending ==
    ASSUME NEW pend \in SUBSET Nat, NEW idle, NEW cut, NEW start, NEW count
    PROVE  AutoClaimPage(pend, idle, cut, start, count) \subseteq pend
  BY DEF AutoClaimPage

LEMMA AutoClaimSplitsPage ==
    ASSUME NEW page \in SUBSET Nat, NEW cut \in Nat
    PROVE  /\ AutoClaimed(page, cut) \subseteq page
           /\ AutoDropped(page, cut) \subseteq page
           /\ \A e \in AutoClaimed(page, cut) : e \notin AutoDropped(page, cut)
           /\ \A e \in page : e \in AutoClaimed(page, cut) \/ e \in AutoDropped(page, cut)
  BY DEF AutoDropped, AutoClaimed

LEMMA AutoClaimCursorType ==
    ASSUME NEW pend \in SUBSET Nat, NEW page, NEW count
    PROVE  AutoClaimCursor(pend, page, count) \in Nat
<1>. DEFINE beyond == {e \in pend : e > Last(page)}
<1>1. beyond \in SUBSET Nat
  OBVIOUS
<1>. HIDE DEF beyond
<1>2. beyond # {} => First(beyond) \in Nat
  BY <1>1, FirstIsIn
<1>. QED
  BY <1>2 DEF AutoClaimCursor, beyond

LEMMA HousekeepingTypeInv ==
    ASSUME ConstantsAssumption, TypeInv, NEW w \in Workers, Housekeeping(w)
    PROVE  TypeInv'
<1>. USE DEF TypeInv, TypeOK, streamVars, faultVars
<1>0. rq' = rq => HandlersOK'
  BY DEF HandlersOK
<1>01. wk[w] \in Processes /\ WorkerOK(wk[w], stream, lastDelivered)
  BY DEF WorkersOK
<1>02. wk[w].pc \in {"reclaimHset", "reclaimXack", "reclaimHdel"}
           => First(wk[w].batch) \in 1 .. lastDelivered
  BY <1>01, FirstIsIn DEF WorkerOK
<1>03. lastDelivered \in Nat /\ trimmed \in Nat /\ pending \in SUBSET Nat
  OBVIOUS
<1>1. CASE AutoClaim(w)
  <2>. DEFINE page == AutoClaimPage(pending, stale, trimmed, wk[w].start, ReclaimCount)
              got  == AutoClaimed(page, trimmed)
              next == AutoClaimCursor(pending, page, ReclaimCount)
              p    == [wk[w] EXCEPT !.pc = "reclaimHset", !.batch = got, !.next = next]
  <2>1. page \in SUBSET (1 .. lastDelivered) /\ page \in SUBSET Nat
    <3>1. page \in SUBSET pending
      BY <1>03, AutoClaimPageIsPending
    <3>. HIDE DEF page
    <3>. QED
      BY <1>03, <3>1
  <2>. HIDE DEF page
  <2>2. got \in SUBSET (1 .. lastDelivered) /\ got \in SUBSET Nat
    <3>1. got \in SUBSET page
      BY <1>03, <2>1, AutoClaimSplitsPage
    <3>. HIDE DEF got
    <3>. QED
      BY <2>1, <3>1
  <2>3. next \in Nat
    BY <1>03, AutoClaimCursorType
  <2>4. pending' \subseteq 1 .. lastDelivered /\ stale' \subseteq pending'
    <3>1. AutoDropped(page, trimmed) \subseteq page
      BY <1>03, <2>1, AutoClaimSplitsPage
    <3>2. /\ pending' = pending \ AutoDropped(page, trimmed)
          /\ stale' = stale \ page
      BY <1>1 DEF AutoClaim, page
    <3>. QED
      BY <3>1, <3>2
  <2>5. wk' = [wk EXCEPT ![w] = IF got = {} THEN ProcessAt("trim") ELSE p]
    BY <1>1 DEF AutoClaim, page
  <2>6. p \in Processes /\ (got # {} => WorkerOK(p, stream, lastDelivered))
    <3>2. wk[w].pc \notin JobSteps
      BY <1>1 DEF AutoClaim, JobSteps
    <3>. HIDE DEF got, next
    <3>3. p \in Processes
      BY <1>01, <2>2, <2>3 DEF Processes, WorkerSteps, HousekeepingSteps
    <3>. QED
      BY <1>01, <2>2, <3>2, <3>3 DEF WorkerOK, JobSteps, Processes
  <2>7. wk' \in [Workers -> Processes] /\ WorkersOK'
    <3>. HIDE DEF got, p
    <3>1. stream' = stream /\ lastDelivered' = lastDelivered
      BY <1>1 DEF AutoClaim
    <3>2. CASE got = {}
      BY <1>03, <2>5, <3>1, <3>2, ProcessAtOK, WorkerUpdate
    <3>3. CASE got # {}
      BY <2>5, <2>6, <3>1, <3>3, WorkerUpdate
    <3>. QED
      BY <3>2, <3>3
  <2>. QED
    BY <1>0, <1>1, <2>4, <2>7 DEF AutoClaim
<1>2. CASE Trim(w)
  <2>. DEFINE p == [wk[w] EXCEPT !.pc = "reserve"]
  <2>1. trimmed' \in 0 .. Len(stream)
    BY <1>2 DEF Trim, TrimPoints
  <2>2. wk' = [wk EXCEPT ![w] = p]
    BY <1>2 DEF Trim, Goto
  <2>3. p \in Processes /\ WorkerOK(p, stream, lastDelivered)
    BY <1>01, <1>2 DEF Trim, Processes, WorkerOK, JobSteps, WorkerSteps
  <2>4. wk' \in [Workers -> Processes] /\ WorkersOK'
    <3>. HIDE DEF p
    <3>1. stream' = stream /\ lastDelivered' = lastDelivered
      BY <1>2 DEF Trim
    <3>. HIDE DEF TypeInv
    <3>. QED
      BY <2>2, <2>3, <3>1, WorkerUpdate
  <2>. QED
    BY <1>0, <1>2, <2>1, <2>4 DEF Trim
<1>3. CASE ReclaimHset(w)
  <2>. DEFINE p == [wk[w] EXCEPT !.pc = "reclaimXack"]
              e == First(wk[w].batch)
  <2>1. e \in 1 .. lastDelivered /\ stream[e] \in Jobs
    BY <1>02, <1>3 DEF ReclaimHset
  <2>2. wk' = [wk EXCEPT ![w] = p]
    BY <1>3 DEF ReclaimHset, Goto
  <2>3. p \in Processes /\ WorkerOK(p, stream, lastDelivered)
    BY <1>01, <1>3 DEF ReclaimHset, Processes, WorkerOK, JobSteps, WorkerSteps,
       HousekeepingSteps
  <2>4. wk' \in [Workers -> Processes] /\ WorkersOK'
    <3>. HIDE DEF p
    <3>1. stream' = stream /\ lastDelivered' = lastDelivered
      BY <1>3 DEF ReclaimHset
    <3>. HIDE DEF TypeInv
    <3>. QED
      BY <2>2, <2>3, <3>1, WorkerUpdate
  <2>5. hash' \in [Jobs -> Hashes]
    <3>. DEFINE h == [hash[stream[e]] EXCEPT !.state = "failed"]
    <3>1. hash' = [hash EXCEPT ![stream[e]] = h]
      BY <1>3 DEF ReclaimHset
    <3>2. hash[stream[e]] \in Hashes /\ "failed" \in JobStates
      BY <2>1 DEF JobStates
    <3>3. h \in Hashes
      BY <3>2, FieldTypes
    <3>. HIDE DEF h, e
    <3>. QED
      BY <2>1, <3>1, <3>3, HashUpdate
  <2>6. judged' \subseteq 1 .. lastDelivered
    BY <1>3, <2>1 DEF ReclaimHset
  <2>. QED
    BY <1>0, <1>3, <2>4, <2>5, <2>6 DEF ReclaimHset
<1>4. CASE ReclaimXack(w)
  <2>. DEFINE p == [wk[w] EXCEPT !.pc = "reclaimHdel"]
  <2>1. wk' = [wk EXCEPT ![w] = p]
    BY <1>4 DEF ReclaimXack, Goto
  <2>2. p \in Processes /\ WorkerOK(p, stream, lastDelivered)
    BY <1>01, <1>4 DEF ReclaimXack, Processes, WorkerOK, JobSteps, WorkerSteps,
       HousekeepingSteps
  <2>3. wk' \in [Workers -> Processes] /\ WorkersOK'
    <3>. HIDE DEF p
    <3>1. stream' = stream /\ lastDelivered' = lastDelivered
      BY <1>4 DEF ReclaimXack
    <3>. HIDE DEF TypeInv
    <3>. QED
      BY <2>1, <2>2, <3>1, WorkerUpdate
  <2>. QED
    BY <1>0, <1>4, <2>3 DEF ReclaimXack
<1>5. CASE ReclaimHdel(w)
  <2>. DEFINE e    == First(wk[w].batch)
              rest == wk[w].batch \ {e}
              more == [wk[w] EXCEPT !.pc = "reclaimHset", !.batch = rest]
              page == [ProcessAt("autoclaim") EXCEPT !.start = wk[w].next]
  <2>1. e \in 1 .. lastDelivered /\ stream[e] \in Jobs
    BY <1>02, <1>5 DEF ReclaimHdel
  <2>2. \/ wk' = [wk EXCEPT ![w] = more] /\ rest # {}
        \/ wk' = [wk EXCEPT ![w] = ProcessAt("trim")]
        \/ wk' = [wk EXCEPT ![w] = page]
    BY <1>5 DEF ReclaimHdel
  <2>3. more \in Processes /\ (rest # {} => WorkerOK(more, stream, lastDelivered))
    <3>1. rest \in SUBSET Nat /\ rest \subseteq 1 .. lastDelivered
      BY <1>01 DEF WorkerOK
    <3>. HIDE DEF rest
    <3>2. more \in Processes
      BY <1>01, <3>1 DEF Processes, WorkerSteps, HousekeepingSteps
    <3>. QED
      BY <1>01, <1>5, <3>1, <3>2 DEF ReclaimHdel, WorkerOK, JobSteps, Processes
  <2>4. page \in Processes /\ WorkerOK(page, stream, lastDelivered)
    <3>1. ProcessAt("autoclaim") \in Processes /\ wk[w].next \in Nat
      BY <1>01, ProcessAtType DEF Processes, WorkerSteps, HousekeepingSteps
    <3>2. page \in Processes
      BY <3>1 DEF Processes
    <3>. QED
      BY <3>2 DEF ProcessAt, WorkerOK, JobSteps
  <2>5. wk' \in [Workers -> Processes] /\ WorkersOK'
    <3>. HIDE DEF more, page, rest
    <3>1. stream' = stream /\ lastDelivered' = lastDelivered
      BY <1>5 DEF ReclaimHdel
    <3>2. CASE wk' = [wk EXCEPT ![w] = more] /\ rest # {}
      BY <2>3, <3>1, <3>2, WorkerUpdate
    <3>3. CASE wk' = [wk EXCEPT ![w] = ProcessAt("trim")]
      BY <1>03, <3>1, <3>3, ProcessAtOK, WorkerUpdate
    <3>4. CASE wk' = [wk EXCEPT ![w] = page]
      BY <2>4, <3>1, <3>4, WorkerUpdate
    <3>. QED
      BY <2>2, <3>2, <3>3, <3>4
  <2>6. hash' \in [Jobs -> Hashes]
    <3>. DEFINE h == [hash[stream[e]] EXCEPT !.entry = 0]
    <3>1. hash' = [hash EXCEPT ![stream[e]] = h]
      BY <1>5 DEF ReclaimHdel
    <3>2. h \in Hashes
      BY <2>1, FieldTypes
    <3>. HIDE DEF h, e
    <3>. QED
      BY <2>1, <3>1, <3>2, HashUpdate
  <2>. QED
    BY <1>0, <1>5, <2>5, <2>6 DEF ReclaimHdel
<1>. QED
  BY <1>1, <1>2, <1>3, <1>4, <1>5 DEF Housekeeping

\* Reading the next entry: the worker has a delivered entry and its job.
LEMMA ReadGroupTypeInv ==
    ASSUME TypeInv, NEW w \in Workers, ReadGroup(w)
    PROVE  TypeInv'
<1>. DEFINE e == NextUnread(lastDelivered, trimmed)
            p == [wk[w] EXCEPT !.pc = "hgetPayload", !.entry = e, !.job = stream[e]]
<1>1. lastDelivered \in Nat /\ trimmed \in Nat /\ Len(stream) \in Nat
  BY DEF TypeInv, TypeOK
<1>2. e \in Nat /\ e <= Len(stream) /\ lastDelivered < e
  BY <1>1 DEF ReadGroup, NextUnread, Larger
<1>3. /\ wk' = [wk EXCEPT ![w] = p]
      /\ lastDelivered' = e
      /\ pending' = pending \cup {e}
      /\ UNCHANGED <<hash, stream, trimmed, stale, rq, judged, faultVars>>
  BY DEF ReadGroup
<1>. HIDE DEF e
<1>4. stream[e] \in Jobs
  BY <1>1, <1>2 DEF TypeInv, TypeOK
<1>5. wk[w] \in Processes /\ WorkerOK(wk[w], stream, lastDelivered)
  BY DEF TypeInv, TypeOK, WorkersOK
<1>6. p \in Processes /\ WorkerOK(p, stream, e)
  <2>1. p \in Processes
    BY <1>2, <1>4, <1>5 DEF Processes, WorkerSteps, JobSteps
  <2>2. wk[w].batch \subseteq 1 .. e
    BY <1>1, <1>2, <1>5 DEF WorkerOK
  <2>3. /\ p.entry = e /\ p.job = stream[e] /\ p.batch = wk[w].batch
        /\ p.pc = "hgetPayload"
    BY <1>5 DEF Processes
  <2>. HIDE DEF p
  <2>. QED
    BY <1>1, <1>2, <2>1, <2>2, <2>3 DEF WorkerOK, JobSteps
<1>. HIDE DEF p
<1>7. ASSUME NEW v \in Workers PROVE WorkerOK(wk'[v], stream, e)
  <2>1. wk \in [Workers -> Processes]
    BY DEF TypeInv, TypeOK
  <2>2. CASE v = w
    BY <1>3, <1>6, <2>1, <2>2
  <2>3. CASE v # w
    <3>1. wk'[v] = wk[v] /\ wk[v] \in Processes /\ WorkerOK(wk[v], stream, lastDelivered)
      BY <1>3, <2>1, <2>3 DEF TypeInv, WorkersOK
    <3>2. /\ stream \in Seq(Jobs) /\ lastDelivered \in 0 .. Len(stream)
          /\ lastDelivered <= e /\ \A f \in 1 .. lastDelivered : stream[f] = stream[f]
      BY <1>1, <1>2 DEF TypeInv, TypeOK
    <3>. QED
      BY <1>2, <3>1, <3>2, WorkerOKGrows
  <2>. QED
    BY <2>2, <2>3
<1>8. WorkersOK' /\ HandlersOK'
  BY <1>3, <1>7 DEF WorkersOK, HandlersOK, TypeInv
<1>. QED
  BY <1>1, <1>2, <1>3, <1>6, <1>8 DEF TypeInv, TypeOK, faultVars

\* Every step of a worker that has a job, up to the end of the loop's body.
LEMMA JobStepTypeInv ==
    ASSUME TypeInv, NEW w \in Workers,
           \/ HgetPayload(w) \/ HsetReserved(w) \/ RunGet(w) \/ RunUpsert(w)
           \/ Process(w) \/ Settle(w)
    PROVE  TypeInv'
<1>0. wk[w] \in Processes /\ WorkerOK(wk[w], stream, lastDelivered)
  BY DEF TypeInv, TypeOK, WorkersOK
<1>1. /\ wk[w].pc \in JobSteps
      /\ wk[w].entry \in 1 .. lastDelivered
      /\ wk[w].job = stream[wk[w].entry]
      /\ wk[w].job \in Jobs
  <2>1. wk[w].pc \in JobSteps
    BY DEF HgetPayload, HsetReserved, RunGet, RunUpsert, Process, Settle, SettleHget,
       SettleHset, SettleXack, SettleHdel, FinalGet, FinalUpsert, JobSteps
  <2>. QED
    BY <1>0, <2>1 DEF WorkerOK, TypeInv, TypeOK
<1>2. /\ hash \in [Jobs -> Hashes] /\ hash[wk[w].job] \in Hashes
      /\ lastDelivered \in Nat
  BY <1>1 DEF TypeInv, TypeOK
\* A step that stays among the job steps and keeps the delivery.
<1>3. ASSUME NEW p \in Processes, p.pc \in JobSteps, p.entry = wk[w].entry,
             p.job = wk[w].job, p.batch = wk[w].batch
      PROVE  WorkerOK(p, stream, lastDelivered)
  BY <1>0, <1>1, <1>3 DEF WorkerOK, JobSteps
<1>4. ASSUME NEW step \in JobSteps
      PROVE  /\ [wk[w] EXCEPT !.pc = step] \in Processes
             /\ WorkerOK([wk[w] EXCEPT !.pc = step], stream, lastDelivered)
  <2>1. [wk[w] EXCEPT !.pc = step] \in Processes
    BY <1>0 DEF Processes, WorkerSteps
  <2>. QED
    BY <1>0, <1>3, <2>1 DEF Processes
\* What is left to show of a step that leaves the rest of the stream alone.
<1>5. ASSUME NEW p \in Processes, WorkerOK(p, stream, lastDelivered),
             wk' = [wk EXCEPT ![w] = p],
             hash' \in [Jobs -> Hashes],
             pending' \subseteq pending, stale' \subseteq pending',
             judged' \subseteq 1 .. lastDelivered,
             UNCHANGED <<stream, lastDelivered, trimmed, rq, faultVars>>
      PROVE  TypeInv'
  <2>1. wk' \in [Workers -> Processes] /\ WorkersOK'
    BY <1>5, WorkerUpdate
  <2>2. HandlersOK'
    BY <1>5 DEF TypeInv, HandlersOK
  <2>3. TypeOK'
    BY <1>5, <2>1 DEF TypeInv, TypeOK, faultVars
  <2>. QED
    BY <2>1, <2>2, <2>3 DEF TypeInv
<1>6. pending \subseteq pending /\ stale \subseteq pending /\ judged \subseteq 1 .. lastDelivered
  BY DEF TypeInv, TypeOK
<1>7. CASE HgetPayload(w)
  <2>. DEFINE p == [wk[w] EXCEPT !.pc = "hsetReserved",
                                 !.payload = ReadPayload(hash[wk[w].job])]
  <2>1. wk' = [wk EXCEPT ![w] = p] /\ UNCHANGED <<hash, streamVars, rq, judged, faultVars>>
    BY <1>7 DEF HgetPayload
  <2>2. p \in Processes
    BY <1>0 DEF Processes, WorkerSteps, JobSteps, ReadPayload, Payloads
  <2>3. WorkerOK(p, stream, lastDelivered)
    BY <1>0, <1>3, <2>2 DEF Processes, JobSteps
  <2>. HIDE DEF p
  <2>. QED
    BY <1>2, <1>5, <1>6, <2>1, <2>2, <2>3 DEF streamVars
<1>8. CASE HsetReserved(w)
  <2>1. /\ wk' = [wk EXCEPT ![w] = [wk[w] EXCEPT !.pc = "runGet"]]
        /\ UNCHANGED <<streamVars, rq, judged, faultVars>>
    BY <1>8 DEF HsetReserved, Goto
  <2>2. hash' \in [Jobs -> Hashes]
    BY <1>0, <1>1, <1>2, <1>8 DEF HsetReserved, Hashes, JobStates, Processes
  <2>. QED
    BY <1>4, <1>5, <1>6, <2>1, <2>2 DEF streamVars, JobSteps
<1>9. CASE RunGet(w)
  <2>. DEFINE next == IF hash[wk[w].job].state = Absent THEN "process" ELSE "runUpsert"
              p == [wk[w] EXCEPT !.pc = next, !.snap = hash[wk[w].job]]
  <2>1. wk' = [wk EXCEPT ![w] = p] /\ UNCHANGED <<hash, streamVars, rq, judged, faultVars>>
    BY <1>9 DEF RunGet
  <2>2. next \in JobSteps
    BY DEF JobSteps
  <2>. HIDE DEF next
  <2>3. p \in Processes
    BY <1>0, <1>2, <2>2 DEF Processes, WorkerSteps
  <2>4. WorkerOK(p, stream, lastDelivered)
    BY <1>0, <1>3, <2>2, <2>3 DEF Processes
  <2>. HIDE DEF p
  <2>. QED
    BY <1>2, <1>5, <1>6, <2>1, <2>3, <2>4 DEF streamVars
<1>10. CASE RunUpsert(w)
  <2>1. /\ wk' = [wk EXCEPT ![w] = [wk[w] EXCEPT !.pc = "process"]]
        /\ UNCHANGED <<streamVars, rq, judged, faultVars>>
    BY <1>10 DEF RunUpsert, Goto
  <2>2. hash' \in [Jobs -> Hashes]
    <3>1. MarkFrom(wk[w].snap, hash[wk[w].job], "running", Missing) \in Hashes
      BY <1>0, <1>2, MarkFromType DEF Processes, JobStates, Results
    <3>. QED
      BY <1>1, <1>2, <1>10, <3>1 DEF RunUpsert
  <2>. QED
    BY <1>4, <1>5, <1>6, <2>1, <2>2 DEF streamVars, JobSteps
<1>11. CASE Process(w)
  <2>1. PICK o \in PossibleOutcomes(wk[w].job, wk[w].payload) :
            wk' = [wk EXCEPT ![w] = [wk[w] EXCEPT !.pc = "settleHget", !.outcome = o,
                                                  !.snap = NoHash]]
    BY <1>11 DEF Process
  <2>. DEFINE p == [wk[w] EXCEPT !.pc = "settleHget", !.outcome = o, !.snap = NoHash]
  <2>2. o \in Outcomes
    BY <1>1, <2>1, ConstantsAssumption DEF PossibleOutcomes, Outcomes, JobKinds
  <2>3. p \in Processes
    BY <1>0, <2>2, NoHashType DEF Processes, WorkerSteps, JobSteps
  <2>4. WorkerOK(p, stream, lastDelivered)
    BY <1>0, <1>3, <2>3 DEF Processes, JobSteps
  <2>5. wk' = [wk EXCEPT ![w] = p] /\ UNCHANGED <<hash, streamVars, rq, judged, faultVars>>
    BY <1>11, <2>1 DEF Process
  <2>. HIDE DEF p
  <2>. QED
    BY <1>2, <1>5, <1>6, <2>3, <2>4, <2>5 DEF streamVars
<1>12. CASE SettleHget(w)
  <2>. DEFINE p == [wk[w] EXCEPT !.pc = "settleHset", !.marker = hash[wk[w].job].entry]
  <2>1. wk' = [wk EXCEPT ![w] = p] /\ UNCHANGED <<hash, streamVars, rq, judged, faultVars>>
    BY <1>12 DEF SettleHget
  <2>2. p \in Processes
    BY <1>0, <1>2 DEF Processes, Hashes, WorkerSteps, JobSteps
  <2>3. WorkerOK(p, stream, lastDelivered)
    BY <1>0, <1>3, <2>2 DEF Processes, JobSteps
  <2>. HIDE DEF p
  <2>. QED
    BY <1>2, <1>5, <1>6, <2>1, <2>2, <2>3 DEF streamVars
<1>13. CASE SettleHset(w)
  <2>. DEFINE next == IF wk[w].marker = 0 THEN "finalGet" ELSE "settleXack"
  <2>1. /\ wk' = [wk EXCEPT ![w] = [wk[w] EXCEPT !.pc = next]]
        /\ judged' = judged \cup {wk[w].entry}
        /\ UNCHANGED <<streamVars, rq, faultVars>>
    BY <1>13 DEF SettleHset, Goto
  <2>2. next \in JobSteps
    BY DEF JobSteps
  <2>3. hash' \in [Jobs -> Hashes]
    BY <1>1, <1>2, <1>13 DEF SettleHset, SettledState, Hashes, JobStates
  <2>4. judged' \subseteq 1 .. lastDelivered
    BY <1>1, <1>6, <2>1
  <2>. HIDE DEF next
  <2>. QED
    BY <1>4, <1>5, <1>6, <2>1, <2>2, <2>3, <2>4 DEF streamVars
<1>14. CASE SettleXack(w)
  <2>1. /\ wk' = [wk EXCEPT ![w] = [wk[w] EXCEPT !.pc = "settleHdel"]]
        /\ pending' = pending \ {wk[w].marker}
        /\ stale' = stale \ {wk[w].marker}
        /\ UNCHANGED <<hash, stream, lastDelivered, trimmed, rq, judged, faultVars>>
    BY <1>14 DEF SettleXack, Goto
  <2>2. pending' \subseteq pending /\ stale' \subseteq pending'
    BY <1>6, <2>1
  <2>3. hash' \in [Jobs -> Hashes] /\ judged' \subseteq 1 .. lastDelivered
    BY <1>2, <1>6, <2>1
  <2>4. UNCHANGED <<stream, lastDelivered, trimmed, rq, faultVars>>
    BY <2>1
  <2>. QED
    BY <1>4, <1>5, <2>1, <2>2, <2>3, <2>4 DEF JobSteps
<1>15. CASE SettleHdel(w)
  <2>1. /\ wk' = [wk EXCEPT ![w] = [wk[w] EXCEPT !.pc = "finalGet"]]
        /\ UNCHANGED <<streamVars, rq, judged, faultVars>>
    BY <1>15 DEF SettleHdel, Goto
  <2>2. hash' \in [Jobs -> Hashes]
    BY <1>1, <1>2, <1>15 DEF SettleHdel, Hashes
  <2>. QED
    BY <1>4, <1>5, <1>6, <2>1, <2>2 DEF streamVars, JobSteps
<1>16. CASE FinalGet(w)
  <2>. DEFINE p == [wk[w] EXCEPT !.pc = "finalUpsert", !.snap = hash[wk[w].job]]
  <2>1. /\ \/ wk' = [wk EXCEPT ![w] = p]
           \/ wk' = [wk EXCEPT ![w] = ProcessAt("reserve")]
        /\ UNCHANGED <<hash, streamVars, rq, judged, faultVars>>
    BY <1>16 DEF FinalGet
  <2>2. p \in Processes
    BY <1>0, <1>2 DEF Processes, WorkerSteps, JobSteps
  <2>3. WorkerOK(p, stream, lastDelivered)
    BY <1>0, <1>3, <2>2 DEF Processes, JobSteps
  <2>. HIDE DEF p
  <2>4. CASE wk' = [wk EXCEPT ![w] = p]
    BY <1>2, <1>5, <1>6, <2>1, <2>2, <2>3, <2>4 DEF streamVars
  <2>5. CASE wk' = [wk EXCEPT ![w] = ProcessAt("reserve")]
    BY <1>2, <1>5, <1>6, <2>1, <2>5, ProcessAtOK DEF streamVars
  <2>. QED
    BY <2>1, <2>4, <2>5
<1>17. CASE FinalUpsert(w)
  <2>. DEFINE res == IF wk[w].outcome = "failed" THEN "error" ELSE "ok"
  <2>1. /\ wk' = [wk EXCEPT ![w] = ProcessAt("reserve")]
        /\ hash' = [hash EXCEPT ![wk[w].job] =
                       MarkFrom(wk[w].snap, hash[wk[w].job], wk[w].outcome, res)]
        /\ UNCHANGED <<streamVars, rq, judged, faultVars>>
    BY <1>17 DEF FinalUpsert
  <2>2. res \in Results
    BY DEF Results
  <2>. HIDE DEF res
  <2>3. MarkFrom(wk[w].snap, hash[wk[w].job], wk[w].outcome, res) \in Hashes
    BY <1>0, <1>2, <2>2, MarkFromType DEF Processes, Outcomes, JobStates
  <2>4. hash' \in [Jobs -> Hashes]
    BY <1>1, <1>2, <2>1, <2>3
  <2>. QED
    BY <1>2, <1>5, <1>6, <2>1, <2>4, ProcessAtOK DEF streamVars
<1>. QED
  BY <1>7, <1>8, <1>9, <1>10, <1>11, <1>12, <1>13, <1>14, <1>15, <1>16, <1>17 DEF Settle

\* A start, a crash, or an exception out of a Redis command.
LEMMA RestartTypeInv ==
    ASSUME ConstantsAssumption, TypeInv, NEW w \in Workers,
           Start(w) \/ Crash(w) \/ RedisError(w)
    PROVE  TypeInv'
<1>0. wk[w] \in Processes /\ WorkerOK(wk[w], stream, lastDelivered) /\ lastDelivered \in Nat
  BY DEF TypeInv, TypeOK, WorkersOK
<1>1. /\ UNCHANGED <<hash, streamVars, rq, judged, evictions>>
      /\ crashes' \in 0 .. MaxCrashes /\ errors' \in 0 .. MaxErrors
  BY DEF Start, Crash, RedisError, faultVars, TypeInv, TypeOK, ConstantsAssumption
<1>2. PICK p \in Processes : /\ wk' = [wk EXCEPT ![w] = p]
                             /\ WorkerOK(p, stream, lastDelivered)
  <2>1. CASE Start(w)
    BY <1>0, <2>1, ProcessAtOK DEF Start
  <2>2. CASE Crash(w)
    BY <1>0, <2>2, ProcessAtOK DEF Crash
  <2>3. CASE RedisError(w)
    <3>1. wk' = [wk EXCEPT ![w] = AfterError(wk[w])]
      BY <2>3 DEF RedisError
    <3>2. AfterError(wk[w]) \in Processes /\ WorkerOK(AfterError(wk[w]), stream, lastDelivered)
      <4>1. CASE wk[w].pc \in {"runGet", "runUpsert"}
        <5>. DEFINE p == [wk[w] EXCEPT !.pc = "process"]
        <5>1. AfterError(wk[w]) = p
          BY <4>1 DEF AfterError
        <5>2. p \in Processes /\ WorkerOK(p, stream, lastDelivered)
          BY <1>0, <4>1 DEF Processes, WorkerSteps, JobSteps, WorkerOK
        <5>. QED
          BY <5>1, <5>2
      <4>2. CASE /\ wk[w].pc \in {"settleHget", "settleHset", "settleXack", "settleHdel"}
                 /\ wk[w].outcome # "failed"
        <5>. DEFINE p == [wk[w] EXCEPT !.pc = "settleHget", !.outcome = "failed", !.marker = 0]
        <5>1. AfterError(wk[w]) = p
          BY <4>2 DEF AfterError
        <5>2. p \in Processes /\ WorkerOK(p, stream, lastDelivered)
          BY <1>0, <4>2 DEF Processes, WorkerSteps, JobSteps, WorkerOK, Outcomes
        <5>. QED
          BY <5>1, <5>2
      <4>3. CASE ~(\/ wk[w].pc \in {"runGet", "runUpsert"}
                   \/ /\ wk[w].pc \in {"settleHget", "settleHset", "settleXack", "settleHdel"}
                      /\ wk[w].outcome # "failed")
        <5>1. AfterError(wk[w]) \in {ProcessAt("trim"), ProcessAt("reserve"), ProcessAt("down")}
          BY <4>3 DEF AfterError
        <5>. QED
          BY <1>0, <5>1, ProcessAtOK
      <4>. QED
        BY <4>1, <4>2, <4>3
    <3>. QED
      BY <3>1, <3>2
  <2>. QED
    BY <2>1, <2>2, <2>3
<1>3. wk' \in [Workers -> Processes] /\ WorkersOK'
  BY <1>1, <1>2, WorkerUpdate DEF streamVars
<1>4. HandlersOK'
  BY <1>1 DEF HandlersOK, TypeInv
<1>. QED
  BY <1>1, <1>3, <1>4 DEF TypeInv, TypeOK, streamVars

\* The passing of time, and the eviction of a hash.
LEMMA EnvironmentTypeInv ==
    ASSUME ConstantsAssumption, TypeInv,
           \/ \E e \in pending : EntryAges(e)
           \/ \E j \in Jobs : EvictHash(j)
    PROVE  TypeInv'
<1>1. CASE \E e \in pending : EntryAges(e)
  <2>1. /\ stale' \subseteq pending
        /\ UNCHANGED <<hash, stream, lastDelivered, trimmed, pending, rq, wk, judged, faultVars>>
    BY <1>1 DEF EntryAges, TypeInv, TypeOK
  <2>. QED
    BY <2>1 DEF TypeInv, TypeOK, HandlersOK, WorkersOK, faultVars
<1>2. CASE \E j \in Jobs : EvictHash(j)
  <2>1. /\ hash' \in [Jobs -> Hashes] /\ evictions' \in 0 .. MaxEvictions
        /\ UNCHANGED <<streamVars, rq, wk, judged, crashes, errors>>
    BY <1>2, NoHashType, ConstantsAssumption DEF EvictHash, TypeInv, TypeOK
  <2>. QED
    BY <2>1 DEF TypeInv, TypeOK, HandlersOK, WorkersOK, streamVars
<1>. QED
  BY <1>1, <1>2

LEMMA NextTypeInv ==
    ASSUME ConstantsAssumption, TypeInv, [Next]_vars
    PROVE  TypeInv'
<1>1. ASSUME NEW r \in Requests, NEW j \in Jobs, SubmitHset(r, j) \/ CancelHset(r, j)
      PROVE  TypeInv'
  BY <1>1, HandlerTypeInv
<1>2. ASSUME NEW r \in Requests, HandlerStep(r) \/ RequestFails(r)
      PROVE  TypeInv'
  <2>1. rq[r].job \in Jobs
    BY <1>2 DEF TypeInv, HandlersOK, HandlerStep, SubmitXadd, SubmitUpsert, CancelGet,
       CancelUpsert, RequestFails
  <2>. QED
    BY <1>2, <2>1, HandlerTypeInv DEF HandlerStep
<1>3. ASSUME NEW w \in Workers, WorkerStep(w)
      PROVE  TypeInv'
  BY <1>3, HousekeepingTypeInv, ReadGroupTypeInv, JobStepTypeInv DEF WorkerStep, Reserve
<1>4. ASSUME UNCHANGED vars
      PROVE  TypeInv'
  BY <1>4 DEF vars, streamVars, faultVars, TypeInv, TypeOK, HandlersOK, WorkersOK
<1>5. ASSUME NEW w \in Workers, PollEmpty(w)
      PROVE  TypeInv'
  BY <1>4, <1>5 DEF PollEmpty
<1>. QED
  BY <1>1, <1>2, <1>3, <1>4, <1>5, RestartTypeInv, EnvironmentTypeInv DEF Next

-----------------------------------------------------------------------------
(* Theorems.                                                                *)

\* TypeInv is an invariant of the platform.
THEOREM TypeInvInvariant == Spec => []TypeInv
<1>1. Init => TypeInv
  BY InitTypeInv, ConstantsAssumption
<1>2. TypeInv /\ [Next]_vars => TypeInv'
  BY NextTypeInv, ConstantsAssumption
<1>. QED
  BY <1>1, <1>2, PTL DEF Spec

\* Whatever crashes, exceptions, evictions and long renders there are, every
\* variable keeps its type and the consumer group its book-keeping: pending and
\* judged entries have been delivered, delivered ones are in the stream, and
\* idle ones are pending.
THEOREM TypeCorrect == Spec => []TypeOK
<1>1. TypeInv => TypeOK
  BY DEF TypeInv
<1>. QED
  BY <1>1, TypeInvInvariant, PTL

-----------------------------------------------------------------------------
(* The inductive invariants.                                                *)

\* A uuid job id belongs to one submit, and to one entry of the stream at most,
\* which that submit added.
UniqueIds ==
    /\ \A r \in Requests : rq[r].pc \in {"xadd", "upsert"} => rq[r].op = "submit"
    /\ \A r, s \in Requests :
          r # s /\ rq[r].op = "submit" /\ rq[s].op = "submit" => rq[r].job # rq[s].job
    /\ \A e \in Entries : \E r \in Requests :
          rq[r].op = "submit" /\ rq[r].pc \notin {"idle", "xadd"} /\ rq[r].job = stream[e]
    /\ \A d, e \in Entries : stream[d] = stream[e] => d = e

\* The marker in a job's hash is an entry of that job.
MarkersOfJob ==
    \A j \in Jobs : hash[j].entry # 0
        => hash[j].entry \in 1 .. lastDelivered /\ stream[hash[j].entry] = j

\* Beyond the HSET of its state, a delivery has a verdict.
VerdictsWritten ==
    \A w \in Workers :
        /\ wk[w].pc \in {"settleXack", "settleHdel", "finalGet", "finalUpsert"}
               => wk[w].entry \in judged
        /\ wk[w].pc \in {"reclaimXack", "reclaimHdel"} => First(wk[w].batch) \in judged

-----------------------------------------------------------------------------
(* What a step leaves alone.                                                *)

\* The steps of process w.
ProcessStep(w) == Start(w) \/ WorkerStep(w) \/ PollEmpty(w) \/ Crash(w) \/ RedisError(w)

\* The steps of the API and of the environment.
OtherStep ==
    \/ \E r \in Requests, j \in Jobs : SubmitHset(r, j) \/ CancelHset(r, j)
    \/ \E r \in Requests : HandlerStep(r) \/ RequestFails(r)
    \/ \E e \in pending : EntryAges(e)
    \/ \E j \in Jobs : EvictHash(j)

LEMMA NextCases ==
    ASSUME [Next]_vars
    PROVE  (\E w \in Workers : ProcessStep(w)) \/ OtherStep \/ UNCHANGED vars
  BY DEF Next, ProcessStep, OtherStep

\* A process changes nothing of the requests, of the other processes and of
\* the jobs in the stream, and takes no verdict back.
LEMMA ProcessFrame ==
    ASSUME TypeInv, NEW w \in Workers, ProcessStep(w)
    PROVE  /\ UNCHANGED <<stream, rq>>
           /\ \A v \in Workers : v # w => wk'[v] = wk[v]
           /\ judged \subseteq judged'
<1>1. wk \in [Workers -> Processes]
  BY DEF TypeInv, TypeOK
<1>2. CASE Start(w) \/ Crash(w) \/ RedisError(w) \/ PollEmpty(w)
  BY <1>1, <1>2 DEF Start, Crash, RedisError, PollEmpty, vars, streamVars
<1>3. CASE Housekeeping(w)
  BY <1>1, <1>3 DEF Housekeeping, AutoClaim, Trim, ReclaimHset, ReclaimXack, ReclaimHdel,
     Goto, streamVars
<1>4. CASE Reserve(w) \/ RunGet(w) \/ RunUpsert(w) \/ Process(w)
  BY <1>1, <1>4 DEF Reserve, ReadGroup, HgetPayload, HsetReserved, RunGet, RunUpsert,
     Process, Goto, streamVars
<1>5. CASE Settle(w)
  BY <1>1, <1>5 DEF Settle, SettleHget, SettleHset, SettleXack, SettleHdel, FinalGet,
     FinalUpsert, Goto, streamVars
<1>. QED
  BY <1>2, <1>3, <1>4, <1>5 DEF ProcessStep, WorkerStep

\* The API and the environment change nothing of the processes, and of the
\* stream only its end.
LEMMA OtherFrame ==
    ASSUME TypeInv, OtherStep
    PROVE  /\ UNCHANGED <<wk, lastDelivered, trimmed, pending, judged>>
           /\ Len(stream') \in Nat /\ Len(stream) <= Len(stream')
           /\ \A e \in 1 .. Len(stream) : stream'[e] = stream[e]
<1>0. stream \in Seq(Jobs)
  BY DEF TypeInv, TypeOK
<1>1. CASE \E r \in Requests : SubmitXadd(r)
  <2>1. PICK r \in Requests : SubmitXadd(r)
    BY <1>1
  <2>2. rq[r].job \in Jobs
    BY <2>1 DEF SubmitXadd, TypeInv, HandlersOK
  <2>. QED
    BY <1>0, <2>1, <2>2 DEF SubmitXadd
<1>2. CASE ~\E r \in Requests : SubmitXadd(r)
  <2>1. UNCHANGED <<wk, lastDelivered, trimmed, pending, judged, stream>>
    BY <1>2 DEF OtherStep, HandlerStep, SubmitHset, CancelHset, SubmitUpsert, CancelGet,
       CancelUpsert, RequestFails, EntryAges, EvictHash, streamVars
  <2>. QED
    BY <1>0, <2>1
<1>. QED
  BY <1>1, <1>2

\* A process keeps its delivery or lets go of it, unless it reads a new one.
LEMMA EntryKept ==
    ASSUME TypeInv, NEW w \in Workers, ProcessStep(w), ~ReadGroup(w)
    PROVE  /\ wk'[w].entry \in {0, wk[w].entry}
           /\ lastDelivered' = lastDelivered
<1>1. wk \in [Workers -> Processes] /\ wk[w] \in Processes
  BY DEF TypeInv, TypeOK
<1>2. CASE Start(w) \/ Crash(w) \/ PollEmpty(w)
  BY <1>1, <1>2 DEF Start, Crash, PollEmpty, ProcessAt, vars, streamVars
<1>3. CASE RedisError(w)
  <2>1. AfterError(wk[w]).entry \in {0, wk[w].entry}
    BY <1>1 DEF AfterError, ProcessAt, Processes
  <2>. QED
    BY <1>1, <1>3, <2>1 DEF RedisError, streamVars
<1>4. CASE Housekeeping(w)
  <2>1. CASE AutoClaim(w)
    BY <1>1, <2>1 DEF AutoClaim, Goto, streamVars, ProcessAt, Processes
  <2>2. CASE Trim(w)
    BY <1>1, <2>2 DEF Trim, Goto, streamVars, ProcessAt, Processes
  <2>3. CASE ReclaimHset(w)
    BY <1>1, <2>3 DEF ReclaimHset, Goto, streamVars, ProcessAt, Processes
  <2>4. CASE ReclaimXack(w)
    BY <1>1, <2>4 DEF ReclaimXack, Goto, streamVars, ProcessAt, Processes
  <2>5. CASE ReclaimHdel(w)
    BY <1>1, <2>5 DEF ReclaimHdel, Goto, streamVars, ProcessAt, Processes
  <2>. QED
    BY <1>4, <2>1, <2>2, <2>3, <2>4, <2>5 DEF Housekeeping
<1>5. CASE Reserve(w) \/ RunGet(w) \/ RunUpsert(w) \/ Process(w)
  <2>1. CASE HgetPayload(w)
    BY <1>1, <2>1 DEF HgetPayload, Goto, streamVars, Processes
  <2>2. CASE HsetReserved(w)
    BY <1>1, <2>2 DEF HsetReserved, Goto, streamVars, Processes
  <2>3. CASE RunGet(w)
    BY <1>1, <2>3 DEF RunGet, Goto, streamVars, Processes
  <2>4. CASE RunUpsert(w)
    BY <1>1, <2>4 DEF RunUpsert, Goto, streamVars, Processes
  <2>5. CASE Process(w)
    BY <1>1, <2>5 DEF Process, Goto, streamVars, Processes
  <2>. QED
    BY <1>5, <2>1, <2>2, <2>3, <2>4, <2>5 DEF Reserve
<1>6. CASE Settle(w)
  <2>1. CASE SettleHget(w)
    BY <1>1, <2>1 DEF SettleHget, Goto, streamVars, ProcessAt, Processes
  <2>2. CASE SettleHset(w)
    BY <1>1, <2>2 DEF SettleHset, Goto, streamVars, ProcessAt, Processes
  <2>3. CASE SettleXack(w)
    BY <1>1, <2>3 DEF SettleXack, Goto, streamVars, ProcessAt, Processes
  <2>4. CASE SettleHdel(w)
    BY <1>1, <2>4 DEF SettleHdel, Goto, streamVars, ProcessAt, Processes
  <2>5. CASE FinalGet(w)
    BY <1>1, <2>5 DEF FinalGet, Goto, streamVars, ProcessAt, Processes
  <2>6. CASE FinalUpsert(w)
    BY <1>1, <2>6 DEF FinalUpsert, Goto, streamVars, ProcessAt, Processes
  <2>. QED
    BY <1>6, <2>1, <2>2, <2>3, <2>4, <2>5, <2>6 DEF Settle
<1>. QED
  BY <1>2, <1>3, <1>4, <1>5, <1>6 DEF ProcessStep, WorkerStep

\* The entry that XREADGROUP delivers is later than all before it.
LEMMA ReadGroupEntry ==
    ASSUME TypeInv, NEW w \in Workers, ReadGroup(w)
    PROVE  /\ wk'[w].entry = NextUnread(lastDelivered, trimmed)
           /\ lastDelivered' = NextUnread(lastDelivered, trimmed)
           /\ NextUnread(lastDelivered, trimmed) \in Nat
           /\ lastDelivered < NextUnread(lastDelivered, trimmed)
<1>1. wk \in [Workers -> Processes] /\ lastDelivered \in Nat /\ trimmed \in Nat
  BY DEF TypeInv, TypeOK
<1>. QED
  BY <1>1 DEF ReadGroup, NextUnread, Larger, Processes

-----------------------------------------------------------------------------
(* One worker per delivery.                                                 *)

LEMMA DeliveredOnceStep ==
    ASSUME TypeInv, DeliveredOnce, [Next]_vars
    PROVE  DeliveredOnce'
<1>0. \A w \in Workers : wk[w].entry \in Nat /\ wk[w].entry <= lastDelivered
  BY DEF TypeInv, TypeOK, WorkersOK, WorkerOK
<1>1. ASSUME NEW w \in Workers, ProcessStep(w)
      PROVE  DeliveredOnce'
  <2>1. \A v \in Workers : v # w => wk'[v].entry = wk[v].entry
    BY <1>1, ProcessFrame
  <2>2. CASE ReadGroup(w)
    <3>1. wk'[w].entry \in Nat /\ lastDelivered < wk'[w].entry
      BY <2>2, ReadGroupEntry
    <3>2. \A v \in Workers : v # w => wk'[v].entry # wk'[w].entry
      BY <1>0, <2>1, <3>1 DEF TypeInv, TypeOK
    <3>. QED
      BY <2>1, <3>2 DEF DeliveredOnce
  <2>3. CASE ~ReadGroup(w)
    <3>1. wk'[w].entry \in {0, wk[w].entry}
      BY <1>1, <2>3, EntryKept
    <3>. QED
      BY <2>1, <3>1 DEF DeliveredOnce
  <2>. QED
    BY <2>2, <2>3
<1>2. CASE UNCHANGED wk
  BY <1>2 DEF DeliveredOnce
<1>. QED
  BY <1>1, <1>2, NextCases, OtherFrame DEF vars

\* An entry of the stream is never in the hands of two live workers, whatever
\* crashes, restarts, exceptions and reclaiming there are.
THEOREM OneWorkerPerDelivery == Spec => []DeliveredOnce
<1>1. Init => DeliveredOnce
  BY DEF Init, DeliveredOnce, ProcessAt
<1>2. TypeInv /\ DeliveredOnce /\ [Next]_vars => DeliveredOnce'
  BY DeliveredOnceStep
<1>. QED
  BY <1>1, <1>2, TypeInvInvariant, PTL DEF Spec

-----------------------------------------------------------------------------
(* One worker per job, when job ids are uuids.                              *)

\* A step that keeps every request's submission, and lets none add to the
\* stream, keeps the ids unique.
LEMMA UniqueIdsKept ==
    ASSUME UniqueIds, stream' = stream,
           \A r \in Requests :
               /\ rq'[r].op = rq[r].op
               /\ rq'[r].job = rq[r].job
               /\ rq'[r].pc \in {"xadd", "upsert"} => rq[r].pc \in {"xadd", "upsert"}
               /\ rq'[r].pc \in {"idle", "xadd"} => rq[r].pc \in {"idle", "xadd"}
    PROVE  UniqueIds'
  BY DEF UniqueIds, Entries

LEMMA UniqueIdsStep ==
    ASSUME ~ClientReferences, TypeInv, UniqueIds, [Next]_vars
    PROVE  UniqueIds'
<1>0. rq \in [Requests -> Handlers] /\ stream \in Seq(Jobs)
  BY DEF TypeInv, TypeOK
<1>1. ASSUME NEW r \in Requests, NEW j \in Jobs, SubmitHset(r, j) \/ CancelHset(r, j)
      PROVE  UniqueIds'
  <2>1. /\ rq[r].pc = "idle" /\ stream' = stream
        /\ \A s \in Requests : s # r => rq'[s] = rq[s]
        /\ rq'[r].job = j
        /\ \/ /\ rq'[r].op = "submit" /\ rq'[r].pc = "xadd"
              /\ \A s \in Requests : rq[s].job # j
           \/ rq'[r].op = "cancel" /\ rq'[r].pc = "markGet"
    <3>1. CASE SubmitHset(r, j)
      BY <1>0, <3>1 DEF SubmitHset, NewId, NewHandler, streamVars
    <3>2. CASE CancelHset(r, j)
      BY <1>0, <3>2 DEF CancelHset, NewHandler, streamVars
    <3>. QED
      BY <1>1, <3>1, <3>2
  <2>2. \A e \in Entries : \E s \in Requests :
            s # r /\ rq[s].op = "submit" /\ rq[s].pc \notin {"idle", "xadd"}
                  /\ rq[s].job = stream[e]
    BY <2>1 DEF UniqueIds
  <2>3. \A e \in Entries : \E s \in Requests :
            rq'[s].op = "submit" /\ rq'[s].pc \notin {"idle", "xadd"}
                  /\ rq'[s].job = stream[e]
    BY <2>1, <2>2
  <2>. QED
    BY <2>1, <2>3 DEF UniqueIds, Entries
<1>2. ASSUME NEW r \in Requests, SubmitXadd(r)
      PROVE  UniqueIds'
  <2>1. /\ rq[r].pc = "xadd" /\ rq[r].op = "submit" /\ rq[r].job \in Jobs
        /\ \A s \in Requests : s # r => rq'[s] = rq[s]
        /\ rq'[r].op = "submit" /\ rq'[r].pc = "upsert" /\ rq'[r].job = rq[r].job
    BY <1>0, <1>2 DEF SubmitXadd, UniqueIds, Handlers, TypeInv, HandlersOK
  <2>2. /\ Entries' = Entries \cup {Len(stream) + 1}
        /\ \A e \in Entries : stream'[e] = stream[e]
        /\ stream'[Len(stream) + 1] = rq[r].job
    BY <1>0, <1>2, <2>1 DEF SubmitXadd, Entries
  <2>3. \A e \in Entries : stream[e] # rq[r].job
    BY <2>1 DEF UniqueIds
  <2>4. \A s \in Requests : rq'[s].op = rq[s].op /\ rq'[s].job = rq[s].job
    BY <2>1
  <2>5. \A e \in Entries' : \E s \in Requests :
            rq'[s].op = "submit" /\ rq'[s].pc \notin {"idle", "xadd"}
                  /\ rq'[s].job = stream'[e]
    <3>1. ASSUME NEW e \in Entries
          PROVE  \E s \in Requests : rq'[s].op = "submit" /\ rq'[s].pc \notin {"idle", "xadd"}
                                         /\ rq'[s].job = stream'[e]
      BY <2>1, <2>2 DEF UniqueIds
    <3>. QED
      BY <2>1, <2>2, <3>1
  <2>6. \A d, e \in Entries' : stream'[d] = stream'[e] => d = e
    BY <2>2, <2>3 DEF UniqueIds
  <2>. QED
    BY <2>1, <2>4, <2>5, <2>6 DEF UniqueIds
<1>3. ASSUME NEW r \in Requests,
             SubmitUpsert(r) \/ CancelGet(r) \/ CancelUpsert(r) \/ RequestFails(r)
      PROVE  UniqueIds'
  <2>1. /\ stream' = stream
        /\ \A s \in Requests : s # r => rq'[s] = rq[s]
        /\ rq'[r].op = rq[r].op /\ rq'[r].job = rq[r].job
        /\ rq'[r].pc \notin {"idle", "xadd", "upsert"}
    BY <1>0, <1>3 DEF SubmitUpsert, CancelGet, CancelUpsert, RequestFails, Handlers, streamVars
  <2>. QED
    BY <2>1, UniqueIdsKept
<1>4. ASSUME UNCHANGED <<stream, rq>>
      PROVE  UniqueIds'
  BY <1>4, UniqueIdsKept
<1>5. ASSUME (\E e \in pending : EntryAges(e)) \/ (\E j \in Jobs : EvictHash(j))
      PROVE  UniqueIds'
  BY <1>4, <1>5 DEF EntryAges, EvictHash, streamVars
<1>6. ASSUME NEW w \in Workers, ProcessStep(w)
      PROVE  UniqueIds'
  BY <1>4, <1>6, ProcessFrame
<1>. QED
  BY <1>1, <1>2, <1>3, <1>4, <1>5, <1>6, NextCases DEF OtherStep, HandlerStep, vars, streamVars

\* Two workers with the same job have the same delivery.
LEMMA JobOfDelivery ==
    ASSUME TypeInv, UniqueIds, DeliveredOnce
    PROVE  SingleWorkerPerJob
<1>. SUFFICES ASSUME NEW v \in Workers, NEW w \in Workers, v # w, wk[v].job # NoJob,
                     wk[v].job = wk[w].job
              PROVE  FALSE
  BY DEF SingleWorkerPerJob
<1>1. \A u \in {v, w} : wk[u].entry \in Entries /\ wk[u].job = stream[wk[u].entry]
  BY DEF TypeInv, TypeOK, WorkersOK, WorkerOK, Entries
<1>2. wk[v].entry = wk[w].entry
  BY <1>1 DEF UniqueIds
<1>3. wk[v].entry # 0
  BY <1>1 DEF Entries
<1>. QED
  BY <1>2, <1>3 DEF DeliveredOnce

LEMMA UniqueIdsInvariant == ASSUME ~ClientReferences PROVE Spec => []UniqueIds
<1>1. Init => UniqueIds
  BY DEF Init, UniqueIds, NewHandler, Entries
<1>2. TypeInv /\ UniqueIds /\ [Next]_vars => UniqueIds'
  BY UniqueIdsStep
<1>. QED
  BY <1>1, <1>2, TypeInvInvariant, PTL DEF Spec

\* With uuid job ids, "the current single-worker-per-job model" that
\* RedisJobRepository.mark relies on is the case: no two live workers ever have
\* the same job, whatever crashes, restarts, exceptions, evictions and
\* reclaiming there are.
THEOREM OneWorkerPerJob == ASSUME ~ClientReferences PROVE Spec => []SingleWorkerPerJob
  BY JobOfDelivery, TypeInvInvariant, UniqueIdsInvariant, OneWorkerPerDelivery, PTL

-----------------------------------------------------------------------------
(* XACK takes the worker's own delivery off the books.                      *)

\* mark() and upsert() leave the marker alone.
LEMMA UpsertKeepsEntry ==
    ASSUME NEW h \in Hashes, NEW state, NEW payload, NEW result, NEW snap
    PROVE  /\ Upsert(h, state, payload, result).entry = h.entry
           /\ MarkFrom(snap, h, state, result).entry = h.entry
  BY DEF MarkFrom, Upsert, Hashes

\* A marker is written by reserve() only, and otherwise kept or removed.
LEMMA MarkerKept ==
    ASSUME TypeInv, [Next]_vars, NEW j \in Jobs
    PROVE  \/ hash'[j].entry \in {0, hash[j].entry}
           \/ \E w \in Workers : /\ HsetReserved(w)
                                 /\ wk[w].job = j
                                 /\ hash'[j].entry = wk[w].entry
<1>0. /\ hash \in [Jobs -> Hashes] /\ \A i \in Jobs : hash[i] \in Hashes
      /\ rq \in [Requests -> Handlers]
      /\ wk \in [Workers -> Processes]
  BY DEF TypeInv, TypeOK
<1>1. ASSUME NEW r \in Requests, NEW i \in Jobs, SubmitHset(r, i) \/ CancelHset(r, i)
      PROVE  hash'[j].entry = hash[j].entry
  <2>1. CASE SubmitHset(r, i)
    BY <1>0, <2>1 DEF SubmitHset, Hashes
  <2>2. CASE CancelHset(r, i)
    BY <1>0, <2>2 DEF CancelHset, Hashes
  <2>. QED
    BY <1>1, <2>1, <2>2
<1>2. ASSUME NEW r \in Requests, HandlerStep(r) \/ RequestFails(r)
      PROVE  hash'[j].entry = hash[j].entry
  <2>1. CASE SubmitUpsert(r)
    BY <1>0, <2>1, UpsertKeepsEntry DEF SubmitUpsert
  <2>2. CASE CancelUpsert(r)
    BY <1>0, <2>2, UpsertKeepsEntry DEF CancelUpsert
  <2>3. CASE SubmitXadd(r) \/ CancelGet(r) \/ RequestFails(r)
    BY <2>3 DEF SubmitXadd, CancelGet, RequestFails
  <2>. QED
    BY <1>2, <2>1, <2>2, <2>3 DEF HandlerStep
<1>3. ASSUME NEW i \in Jobs, EvictHash(i)
      PROVE  hash'[j].entry \in {0, hash[j].entry}
  BY <1>0, <1>3 DEF EvictHash, NoHash
<1>4. ASSUME NEW w \in Workers, ProcessStep(w), ~HsetReserved(w)
      PROVE  hash'[j].entry \in {0, hash[j].entry}
  <2>1. CASE RunUpsert(w)
    BY <1>0, <2>1, UpsertKeepsEntry DEF RunUpsert
  <2>2. CASE FinalUpsert(w)
    BY <1>0, <2>2, UpsertKeepsEntry DEF FinalUpsert
  <2>3. CASE ReclaimHset(w)
    BY <1>0, <2>3 DEF ReclaimHset, Hashes
  <2>4. CASE ReclaimHdel(w)
    BY <1>0, <2>4 DEF ReclaimHdel, Hashes
  <2>5. CASE SettleHset(w)
    BY <1>0, <2>5 DEF SettleHset, Hashes
  <2>6. CASE SettleHdel(w)
    BY <1>0, <2>6 DEF SettleHdel, Hashes
  <2>7. CASE UNCHANGED hash
    BY <2>7
  <2>8. \/ RunUpsert(w) \/ FinalUpsert(w) \/ ReclaimHset(w) \/ ReclaimHdel(w)
        \/ SettleHset(w) \/ SettleHdel(w) \/ UNCHANGED hash
    BY <1>4 DEF ProcessStep, WorkerStep, Start, PollEmpty, Crash, RedisError, vars,
       Housekeeping, AutoClaim, ReclaimXack, Trim, Reserve, ReadGroup, HgetPayload, RunGet,
       Process, Settle, SettleHget, SettleXack, FinalGet
  <2>. QED
    BY <2>1, <2>2, <2>3, <2>4, <2>5, <2>6, <2>7, <2>8
<1>5. ASSUME NEW w \in Workers, HsetReserved(w)
      PROVE  \/ hash'[j].entry = hash[j].entry
             \/ wk[w].job = j /\ hash'[j].entry = wk[w].entry
  BY <1>0, <1>5 DEF HsetReserved, Hashes
<1>6. CASE UNCHANGED hash
  BY <1>6
<1>. QED
  BY <1>1, <1>2, <1>3, <1>4, <1>5, <1>6, NextCases DEF OtherStep, EntryAges, vars

LEMMA MarkersOfJobStep ==
    ASSUME TypeInv, MarkersOfJob, [Next]_vars
    PROVE  MarkersOfJob'
<1>0. lastDelivered \in Nat /\ stream \in Seq(Jobs) /\ lastDelivered <= Len(stream)
  BY DEF TypeInv, TypeOK
<1>1. /\ lastDelivered' \in Nat /\ lastDelivered <= lastDelivered'
      /\ \A e \in 1 .. lastDelivered : stream'[e] = stream[e]
  <2>1. ASSUME NEW w \in Workers, ProcessStep(w)
        PROVE  /\ lastDelivered' \in Nat /\ lastDelivered <= lastDelivered'
               /\ stream' = stream
    BY <1>0, <2>1, ProcessFrame, EntryKept, ReadGroupEntry
  <2>2. CASE OtherStep
    BY <1>0, <2>2, OtherFrame
  <2>3. CASE UNCHANGED vars
    BY <1>0, <2>3 DEF vars, streamVars
  <2>. QED
    BY <2>1, <2>2, <2>3, NextCases
<1>2. ASSUME NEW j \in Jobs, hash'[j].entry # 0
      PROVE  hash'[j].entry \in 1 .. lastDelivered /\ stream[hash'[j].entry] = j
  <2>1. CASE hash'[j].entry = hash[j].entry
    BY <1>2, <2>1 DEF MarkersOfJob
  <2>2. ASSUME NEW w \in Workers, HsetReserved(w), wk[w].job = j,
               hash'[j].entry = wk[w].entry
        PROVE  hash'[j].entry \in 1 .. lastDelivered /\ stream[hash'[j].entry] = j
    BY <2>2 DEF HsetReserved, JobSteps, TypeInv, WorkersOK, WorkerOK
  <2>. QED
    BY <1>2, <2>1, <2>2, MarkerKept
<1>. QED
  BY <1>0, <1>1, <1>2 DEF MarkersOfJob

\* Only acknowledge() and fail() read a marker into a worker, and a worker that
\* reads a new delivery has none.
LEMMA OwnMarkerStep ==
    ASSUME TypeInv, UniqueIds, MarkersOfJob, OwnMarker, [Next]_vars
    PROVE  OwnMarker'
<1>0. wk \in [Workers -> Processes] /\ \A w \in Workers : wk[w] \in Processes
  BY DEF TypeInv, TypeOK
<1>1. ASSUME NEW w \in Workers, ProcessStep(w)
      PROVE  wk'[w].marker \in {0, wk'[w].entry}
  <2>0. wk[w].marker \in {0, wk[w].entry} /\ wk[w] \in Processes
    BY <1>0 DEF OwnMarker
  <2>1. CASE SettleHget(w)
    <3>1. /\ wk[w].entry \in 1 .. lastDelivered /\ wk[w].job = stream[wk[w].entry]
          /\ wk[w].job \in Jobs
      BY <2>1 DEF SettleHget, JobSteps, TypeInv, TypeOK, WorkersOK, WorkerOK
    <3>2. wk'[w].marker = hash[wk[w].job].entry /\ wk'[w].entry = wk[w].entry
      BY <1>0, <2>1 DEF SettleHget, Processes
    <3>3. CASE hash[wk[w].job].entry # 0
      <4>1. /\ hash[wk[w].job].entry \in Entries /\ wk[w].entry \in Entries
            /\ stream[hash[wk[w].job].entry] = stream[wk[w].entry]
        BY <3>1, <3>3 DEF MarkersOfJob, Entries, TypeInv, TypeOK
      <4>. QED
        BY <3>2, <4>1 DEF UniqueIds
    <3>. QED
      BY <3>2, <3>3
  <2>2. CASE ReadGroup(w)
    <3>1. wk[w].entry = 0
      BY <2>2 DEF ReadGroup, JobSteps, TypeInv, WorkersOK, WorkerOK
    <3>2. wk'[w].marker = wk[w].marker
      BY <1>0, <2>2 DEF ReadGroup, Processes
    <3>. QED
      BY <2>0, <3>1, <3>2
  <2>3. CASE ~SettleHget(w) /\ ~ReadGroup(w)
    <3>1. CASE Start(w) \/ Crash(w) \/ PollEmpty(w)
      BY <1>0, <2>0, <3>1 DEF Start, Crash, PollEmpty, ProcessAt, vars
    <3>2. CASE RedisError(w)
      <4>1. AfterError(wk[w]).marker \in {0, AfterError(wk[w]).entry}
        BY <2>0 DEF AfterError, ProcessAt, Processes
      <4>. QED
        BY <1>0, <3>2, <4>1 DEF RedisError
    <3>3. CASE AutoClaim(w)
      BY <1>0, <2>0, <3>3 DEF AutoClaim, ProcessAt, Processes
    <3>4. CASE ReclaimHdel(w)
      BY <1>0, <2>0, <3>4 DEF ReclaimHdel, ProcessAt, Processes
    <3>5. CASE ReclaimHset(w) \/ ReclaimXack(w) \/ Trim(w)
      <4>1. PICK step \in WorkerSteps : wk' = [wk EXCEPT ![w].pc = step]
        BY <3>5 DEF ReclaimHset, ReclaimXack, Trim, Goto, WorkerSteps, HousekeepingSteps
      <4>. QED
        BY <1>0, <2>0, <4>1 DEF Processes
    <3>6. CASE HgetPayload(w) \/ RunGet(w)
      BY <1>0, <2>0, <3>6 DEF HgetPayload, RunGet, Processes
    <3>9. CASE HsetReserved(w) \/ RunUpsert(w)
      BY <1>0, <2>0, <3>9 DEF HsetReserved, RunUpsert, Goto, Processes
    <3>10. CASE Process(w)
      BY <1>0, <2>0, <3>10 DEF Process, Processes
    <3>7. CASE SettleHset(w) \/ SettleXack(w) \/ SettleHdel(w)
      <4>1. PICK step \in WorkerSteps : wk' = [wk EXCEPT ![w].pc = step]
        BY <3>7 DEF SettleHset, SettleXack, SettleHdel, Goto, WorkerSteps, JobSteps
      <4>. QED
        BY <1>0, <2>0, <4>1 DEF Processes
    <3>8. CASE FinalGet(w) \/ FinalUpsert(w)
      <4>1. CASE FinalGet(w)
        BY <1>0, <2>0, <4>1 DEF FinalGet, ProcessAt, Processes
      <4>2. CASE FinalUpsert(w)
        <5>1. wk'[w] = ProcessAt("reserve")
          BY <1>0, <4>2 DEF FinalUpsert
        <5>. QED
          BY <5>1 DEF ProcessAt
      <4>. QED
        BY <3>8, <4>1, <4>2
    <3>. QED
      BY <1>1, <2>3, <3>1, <3>2, <3>3, <3>4, <3>5, <3>6, <3>7, <3>8,
         <3>9, <3>10 DEF ProcessStep, WorkerStep, Housekeeping, Reserve, Settle
  <2>. QED
    BY <2>1, <2>2, <2>3
<1>2. ASSUME NEW w \in Workers, ProcessStep(w)
      PROVE  OwnMarker'
  BY <1>1, <1>2, ProcessFrame DEF OwnMarker
<1>3. CASE UNCHANGED wk
  BY <1>3 DEF OwnMarker
<1>. QED
  BY <1>2, <1>3, NextCases, OtherFrame DEF vars

\* With uuid job ids, the marker that acknowledge() or fail() has read from the
\* hash is the worker's own delivery or none, so its XACK never takes another
\* delivery off the books.
THEOREM XackOwnDelivery == ASSUME ~ClientReferences PROVE Spec => []OwnMarker
<1>1. Init => MarkersOfJob /\ OwnMarker
  BY DEF Init, MarkersOfJob, OwnMarker, NoHash, ProcessAt
<1>2. TypeInv /\ UniqueIds /\ MarkersOfJob /\ OwnMarker /\ [Next]_vars
          => MarkersOfJob' /\ OwnMarker'
  BY MarkersOfJobStep, OwnMarkerStep
<1>. QED
  BY <1>1, <1>2, TypeInvInvariant, UniqueIdsInvariant, PTL DEF Spec

-----------------------------------------------------------------------------
(* A verdict before the acknowledgement.                                    *)

LEMMA VerdictsWrittenStep ==
    ASSUME TypeInv, VerdictsWritten, [Next]_vars
    PROVE  VerdictsWritten'
<1>0. wk \in [Workers -> Processes]
  BY DEF TypeInv, TypeOK
<1>. DEFINE Settled == {"settleXack", "settleHdel", "finalGet", "finalUpsert"}
            Claimed == {"reclaimXack", "reclaimHdel"}
<1>1. ASSUME NEW w \in Workers, ProcessStep(w)
      PROVE  /\ wk'[w].pc \in Settled => wk'[w].entry \in judged'
             /\ wk'[w].pc \in Claimed => First(wk'[w].batch) \in judged'
  <2>0. /\ wk[w] \in Processes /\ judged \subseteq judged'
        /\ wk[w].pc \in Settled => wk[w].entry \in judged
        /\ wk[w].pc \in Claimed => First(wk[w].batch) \in judged
    BY <1>0, <1>1, ProcessFrame DEF VerdictsWritten
  <2>1. CASE SettleHset(w)
    <3>1. PICK step \in {"finalGet", "settleXack"} :
              wk'[w] = [wk[w] EXCEPT !.pc = step] /\ wk[w].entry \in judged'
      BY <1>0, <2>1 DEF SettleHset, Goto
    <3>. QED
      BY <2>0, <3>1 DEF Processes
  <2>2. CASE ReclaimHset(w)
    <3>1. wk'[w] = [wk[w] EXCEPT !.pc = "reclaimXack"] /\ First(wk[w].batch) \in judged'
      BY <1>0, <2>2 DEF ReclaimHset, Goto
    <3>. QED
      BY <2>0, <3>1 DEF Processes
  <2>3. CASE ReclaimXack(w)
    <3>1. wk'[w] = [wk[w] EXCEPT !.pc = "reclaimHdel"] /\ wk[w].pc = "reclaimXack"
      BY <1>0, <2>3 DEF ReclaimXack, Goto
    <3>. QED
      BY <2>0, <3>1 DEF Processes
  <2>4. CASE SettleXack(w) \/ SettleHdel(w)
    <3>1. PICK step \in Settled : wk'[w] = [wk[w] EXCEPT !.pc = step] /\ wk[w].pc \in Settled
      BY <1>0, <2>4 DEF SettleXack, SettleHdel, Goto
    <3>. QED
      BY <2>0, <3>1 DEF Processes
  <2>5. CASE FinalGet(w)
    <3>1. \/ wk'[w] = ProcessAt("reserve")
          \/ /\ wk[w].pc \in Settled
             /\ wk'[w] = [wk[w] EXCEPT !.pc = "finalUpsert", !.snap = hash[wk[w].job]]
      BY <1>0, <2>5 DEF FinalGet
    <3>2. CASE wk'[w] = ProcessAt("reserve")
      BY <3>2 DEF ProcessAt
    <3>3. CASE wk'[w] # ProcessAt("reserve")
      BY <2>0, <3>1, <3>3 DEF Processes
    <3>. QED
      BY <3>2, <3>3
  <2>6. CASE FinalUpsert(w) \/ Start(w) \/ Crash(w)
    <3>1. PICK step \in {"reserve", "autoclaim", "down"} : wk'[w] = ProcessAt(step)
      BY <1>0, <2>6 DEF FinalUpsert, Start, Crash
    <3>. QED
      BY <3>1 DEF ProcessAt
  <2>7. CASE RedisError(w)
    <3>1. wk'[w] = AfterError(wk[w])
      BY <1>0, <2>7 DEF RedisError
    <3>2. AfterError(wk[w]).pc \in {"trim", "reserve", "process", "settleHget", "down"}
      BY <2>0 DEF AfterError, ProcessAt, Processes
    <3>. QED
      BY <3>1, <3>2
  <2>8. CASE AutoClaim(w) \/ ReclaimHdel(w)
    <3>1. wk'[w].pc \in {"trim", "reclaimHset", "autoclaim"}
      <4>1. CASE AutoClaim(w)
        BY <1>0, <2>0, <4>1 DEF AutoClaim, ProcessAt, Processes
      <4>2. CASE ReclaimHdel(w)
        BY <1>0, <2>0, <4>2 DEF ReclaimHdel, ProcessAt, Processes
      <4>. QED
        BY <2>8, <4>1, <4>2
    <3>. QED
      BY <3>1
  <2>9. CASE Trim(w) \/ HsetReserved(w) \/ RunUpsert(w)
    <3>1. PICK step \in {"reserve", "runGet", "process"} :
              wk'[w] = [wk[w] EXCEPT !.pc = step]
      BY <1>0, <2>9 DEF Trim, HsetReserved, RunUpsert, Goto
    <3>. QED
      BY <2>0, <3>1 DEF Processes
  <2>10. CASE ReadGroup(w)
    <3>1. wk'[w].pc = "hgetPayload"
      BY <1>0, <2>0, <2>10 DEF ReadGroup, Processes
    <3>. QED
      BY <3>1
  <2>11. CASE HgetPayload(w) \/ RunGet(w)
    <3>1. wk'[w].pc \in {"hsetReserved", "process", "runUpsert"}
      BY <1>0, <2>0, <2>11 DEF HgetPayload, RunGet, Processes
    <3>. QED
      BY <3>1
  <2>12. CASE Process(w)
    <3>1. wk'[w].pc = "settleHget"
      BY <1>0, <2>0, <2>12 DEF Process, Processes
    <3>. QED
      BY <3>1
  <2>13. CASE SettleHget(w)
    <3>1. wk'[w].pc = "settleHset"
      BY <1>0, <2>0, <2>13 DEF SettleHget, Processes
    <3>. QED
      BY <3>1
  <2>14. CASE PollEmpty(w)
    BY <2>0, <2>14 DEF PollEmpty, vars
  <2>. QED
    BY <1>1, <2>1, <2>2, <2>3, <2>4, <2>5, <2>6, <2>7, <2>8, <2>9, <2>10, <2>11, <2>12,
       <2>13, <2>14 DEF ProcessStep, WorkerStep, Housekeeping, Reserve, Settle
<1>2. ASSUME NEW w \in Workers, ProcessStep(w)
      PROVE  VerdictsWritten'
  BY <1>1, <1>2, ProcessFrame DEF VerdictsWritten
<1>3. CASE UNCHANGED <<wk, judged>>
  BY <1>3 DEF VerdictsWritten
<1>. QED
  BY <1>2, <1>3, NextCases, OtherFrame DEF vars

LEMMA JudgedBeforeClosedStep ==
    ASSUME TypeInv, OwnMarker, VerdictsWritten, JudgedBeforeClosed, [Next]_vars
    PROVE  JudgedBeforeClosed'
<1>0. /\ lastDelivered \in Nat /\ trimmed \in Nat /\ wk \in [Workers -> Processes]
      /\ pending \in SUBSET Nat
  BY DEF TypeInv, TypeOK
<1>1. CASE UNCHANGED <<lastDelivered, trimmed, pending, judged>>
  BY <1>1 DEF JudgedBeforeClosed
<1>2. ASSUME NEW w \in Workers, ProcessStep(w)
      PROVE  JudgedBeforeClosed'
  <2>0. judged \subseteq judged'
    BY <1>2, ProcessFrame
  <2>1. CASE ReadGroup(w)
    <3>. DEFINE e == NextUnread(lastDelivered, trimmed)
    <3>1. /\ lastDelivered' = e /\ trimmed' = trimmed /\ pending' = pending \cup {e}
          /\ judged' = judged
      BY <2>1 DEF ReadGroup
    <3>2. \A f \in (trimmed + 1) .. e : f \in (trimmed + 1) .. lastDelivered \/ f = e
      BY <1>0 DEF NextUnread, Larger
    <3>. HIDE DEF e
    <3>. QED
      BY <3>1, <3>2 DEF JudgedBeforeClosed
  <2>2. CASE SettleXack(w)
    <3>1. wk[w].entry \in judged /\ wk[w].marker \in {0, wk[w].entry}
      BY <2>2 DEF SettleXack, OwnMarker, VerdictsWritten
    <3>2. /\ pending' = pending \ {wk[w].marker}
          /\ UNCHANGED <<lastDelivered, trimmed, judged>>
      BY <2>2 DEF SettleXack
    <3>3. \A f \in (trimmed + 1) .. lastDelivered : f # 0
      BY <1>0
    <3>. QED
      BY <3>1, <3>2, <3>3 DEF JudgedBeforeClosed
  <2>3. CASE ReclaimXack(w)
    <3>1. First(wk[w].batch) \in judged
      BY <2>3 DEF ReclaimXack, VerdictsWritten
    <3>2. /\ pending' = pending \ {First(wk[w].batch)}
          /\ UNCHANGED <<lastDelivered, trimmed, judged>>
      BY <2>3 DEF ReclaimXack
    <3>. QED
      BY <3>1, <3>2 DEF JudgedBeforeClosed
  <2>4. CASE AutoClaim(w)
    <3>. DEFINE page == AutoClaimPage(pending, stale, trimmed, wk[w].start, ReclaimCount)
    <3>1. /\ pending' = pending \ AutoDropped(page, trimmed)
          /\ UNCHANGED <<lastDelivered, trimmed, judged>>
      BY <2>4 DEF AutoClaim
    <3>. HIDE DEF page
    <3>2. \A f \in AutoDropped(page, trimmed) : f <= trimmed
      BY DEF AutoDropped
    <3>3. \A f \in (trimmed + 1) .. lastDelivered : f \notin AutoDropped(page, trimmed)
      BY <1>0, <3>2
    <3>. QED
      BY <3>1, <3>3 DEF JudgedBeforeClosed
  <2>5. CASE Trim(w)
    <3>1. /\ trimmed' \in Nat /\ trimmed <= trimmed'
          /\ UNCHANGED <<lastDelivered, pending, judged>>
      BY <1>0, <2>5 DEF Trim, TrimPoints, TypeInv, TypeOK
    <3>2. \A a, b, n \in Nat : a <= b => (b + 1) .. n \subseteq (a + 1) .. n
      OBVIOUS
    <3>3. (trimmed' + 1) .. lastDelivered \subseteq (trimmed + 1) .. lastDelivered
      BY <1>0, <3>1, <3>2
    <3>. QED
      BY <3>1, <3>3 DEF JudgedBeforeClosed
  <2>6. CASE UNCHANGED <<lastDelivered, trimmed, pending>>
    BY <2>0, <2>6 DEF JudgedBeforeClosed
  <2>7. \/ ReadGroup(w) \/ SettleXack(w) \/ ReclaimXack(w) \/ AutoClaim(w) \/ Trim(w)
        \/ UNCHANGED <<lastDelivered, trimmed, pending>>
    BY <1>2 DEF ProcessStep, WorkerStep, Start, PollEmpty, Crash, RedisError, vars, streamVars,
       Housekeeping, ReclaimHset, ReclaimHdel, Reserve, HgetPayload, HsetReserved, RunGet,
       RunUpsert, Process, Settle, SettleHget, SettleHset, SettleHdel, FinalGet, FinalUpsert
  <2>. QED
    BY <2>1, <2>2, <2>3, <2>4, <2>5, <2>6, <2>7
<1>. QED
  BY <1>1, <1>2, NextCases, OtherFrame DEF vars, streamVars

\* With uuid job ids, an entry goes off the pending list only after COMPLETED
\* or FAILED was written for it (or when it was trimmed away): a process that
\* dies at any point leaves no delivery that is off the books without a
\* verdict.
THEOREM VerdictBeforeAcknowledgement ==
    ASSUME ~ClientReferences PROVE Spec => []JudgedBeforeClosed
<1>1. Init => VerdictsWritten /\ JudgedBeforeClosed
  BY DEF Init, VerdictsWritten, JudgedBeforeClosed, ProcessAt
<1>2. TypeInv /\ OwnMarker /\ VerdictsWritten /\ JudgedBeforeClosed /\ [Next]_vars
          => VerdictsWritten' /\ JudgedBeforeClosed'
  BY VerdictsWrittenStep, JudgedBeforeClosedStep
<1>. QED
  BY <1>1, <1>2, TypeInvInvariant, XackOwnDelivery, PTL DEF Spec

-----------------------------------------------------------------------------
(* The ledger.  Nothing is needed of the steps between deliveries but that    *)
(* XACK takes the process's own delivery (OwnMarker), after a verdict         *)
(* (VerdictsWritten).                                                       *)


Status == [e \in Entries |-> DeliveryStatus(e)]
Hands  == [w \in Workers |-> wk[w].entry]

LEMMA PositionTypes ==
    ASSUME TypeInv
    PROVE  /\ stream \in Seq(Jobs) /\ Len(stream) \in Nat
           /\ lastDelivered \in Nat /\ lastDelivered <= Len(stream)
           /\ trimmed \in Nat /\ trimmed <= Len(stream)
           /\ pending \subseteq 1 .. lastDelivered /\ judged \subseteq 1 .. lastDelivered
           /\ \A e \in 1 .. lastDelivered : e \in Entries
           /\ wk \in [Workers -> Processes]
<1>1. /\ stream \in Seq(Jobs) /\ lastDelivered \in 0 .. Len(stream)
      /\ trimmed \in 0 .. Len(stream) /\ wk \in [Workers -> Processes]
      /\ pending \subseteq 1 .. lastDelivered /\ judged \subseteq 1 .. lastDelivered
  BY DEF TypeInv, TypeOK
<1>. QED
  BY <1>1 DEF Entries

\* A worker of which the step is not one of the queue's keeps or drops its
\* delivery, which the ledger lets it do at any time.
LEMMA QuietStep ==
    ASSUME TypeInv, NEW w \in Workers, ProcessStep(w), ~ReadGroup(w),
           UNCHANGED <<trimmed, pending, judged>>
    PROVE  Ledger!LetGo(w) \/ UNCHANGED Ledger!ledgerVars
<1>1. /\ UNCHANGED <<stream, lastDelivered>> /\ wk'[w].entry \in {0, wk[w].entry}
      /\ \A v \in Workers : v # w => wk'[v] = wk[v]
  BY ProcessFrame, EntryKept
<1>2. Status' = Status
  BY <1>1 DEF Status, DeliveryStatus, Entries
<1>3. CASE wk'[w].entry = 0
  <2>1. Hands' = [Hands EXCEPT ![w] = 0]
    BY <1>1, <1>3 DEF Hands
  <2>. QED
    BY <1>1, <1>2, <2>1 DEF Ledger!LetGo, Status, Hands
<1>4. CASE wk'[w].entry = wk[w].entry
  <2>1. Hands' = Hands
    BY <1>1, <1>4 DEF Hands
  <2>. QED
    BY <1>1, <1>2, <2>1 DEF Ledger!ledgerVars, Status, Hands
<1>. QED
  BY <1>1, <1>3, <1>4

\* A step of the queue that leaves every worker what it has.
LEMMA SameHands ==
    ASSUME \A v \in Workers : wk'[v].entry = wk[v].entry
    PROVE  Hands' = Hands
  BY DEF Hands

LEMMA ReadGroupKeepsLedger ==
    ASSUME TypeInv, NEW w \in Workers, ReadGroup(w)
    PROVE  \E d \in Entries : Ledger!HandOut(w, d)
<1>0. PICK e \in Nat : e = NextUnread(lastDelivered, trimmed)
  BY ReadGroupEntry
<1>1. /\ wk'[w].entry = e /\ lastDelivered' = e /\ e \in Nat
      /\ lastDelivered < e /\ trimmed < e /\ e <= Len(stream)
      /\ \A b \in Nat : b < e => b <= lastDelivered \/ b <= trimmed
  <2>1. lastDelivered \in Nat /\ trimmed \in Nat
    BY PositionTypes
  <2>2. /\ e \in Nat /\ lastDelivered < e /\ trimmed < e
        /\ \A b \in Nat : b < e => b <= lastDelivered \/ b <= trimmed
    BY <1>0, <2>1 DEF NextUnread, Larger
  <2>3. wk'[w].entry = e /\ lastDelivered' = e
    BY <1>0, ReadGroupEntry
  <2>4. e <= Len(stream)
    BY <1>0 DEF ReadGroup
  <2>. QED
    BY <2>2, <2>3, <2>4
<1>2. /\ pending' = pending \cup {e} /\ UNCHANGED <<stream, trimmed, judged>>
      /\ \A v \in Workers : v # w => wk'[v] = wk[v]
  BY <1>0, PositionTypes DEF ReadGroup
<1>3. wk[w].entry = 0
  <2>1. WorkerOK(wk[w], stream, lastDelivered) /\ wk[w].pc = "reserve"
    BY DEF ReadGroup, TypeInv, WorkersOK
  <2>. QED
    BY <2>1 DEF WorkerOK, JobSteps
<1>4. e \in Entries /\ e \notin judged
  BY <1>1, PositionTypes DEF Entries
<1>5. DeliveryStatus(e) = "waiting" /\ DeliveryStatus(e)' = "handedOut"
  <2>1. e > lastDelivered /\ ~(e <= trimmed)
    BY <1>1, PositionTypes
  <2>2. DeliveryStatus(e) = "waiting"
    BY <2>1 DEF DeliveryStatus
  <2>3. ~(e > lastDelivered') /\ e \in pending' /\ e \notin judged'
    BY <1>1, <1>2, <1>4
  <2>4. DeliveryStatus(e)' = "handedOut"
    BY <2>3 DEF DeliveryStatus
  <2>. QED
    BY <2>2, <2>4
<1>6. \A b \in 1 .. e - 1 : DeliveryStatus(b) # "waiting"
  <2>. SUFFICES ASSUME NEW b \in 1 .. e - 1 PROVE DeliveryStatus(b) # "waiting"
    OBVIOUS
  <2>1. b \in Nat /\ b < e
    BY <1>1
  <2>2. b <= lastDelivered \/ b <= trimmed
    BY <1>1, <2>1
  <2>. QED
    BY <2>1, <2>2, PositionTypes DEF DeliveryStatus
<1>7. \A b \in Entries \ {e} : DeliveryStatus(b)' = DeliveryStatus(b)
  <2>. SUFFICES ASSUME NEW b \in Entries, b # e
                PROVE  DeliveryStatus(b)' = DeliveryStatus(b)
    OBVIOUS
  <2>1. b \in Nat
    BY PositionTypes DEF Entries
  <2>2. CASE b > e
    BY <1>1, <1>2, <2>1, <2>2, PositionTypes DEF DeliveryStatus
  <2>3. CASE b < e /\ b <= lastDelivered
    BY <1>1, <1>2, <2>1, <2>3, PositionTypes DEF DeliveryStatus
  <2>4. CASE b < e /\ b > lastDelivered
    <3>1. b <= trimmed /\ b \notin pending
      BY <1>1, <2>1, <2>4, PositionTypes
    <3>. QED
      BY <1>1, <1>2, <2>1, <2>4, <3>1, PositionTypes DEF DeliveryStatus
  <2>. QED
    BY <1>1, <2>1, <2>2, <2>3, <2>4, PositionTypes
<1>8. Status' = [Status EXCEPT ![e] = "handedOut"]
  <2>1. Entries' = Entries
    BY <1>2 DEF Entries
  <2>2. Status' = [b \in Entries |-> DeliveryStatus(b)']
    BY <2>1 DEF Status
  <2>3. \A b \in Entries : DeliveryStatus(b)' = IF b = e THEN "handedOut" ELSE Status[b]
    BY <1>5, <1>7 DEF Status
  <2>4. Status' = [b \in Entries |-> IF b = e THEN "handedOut" ELSE Status[b]]
    BY <2>2, <2>3
  <2>5. [Status EXCEPT ![e] = "handedOut"]
            = [b \in Entries |-> IF b = e THEN "handedOut" ELSE Status[b]]
    BY DEF Status
  <2>. QED
    BY <2>4, <2>5
<1>9. Hands' = [Hands EXCEPT ![w] = e]
  BY <1>1, <1>2 DEF Hands
<1>10. /\ Hands[w] = 0 /\ Status[e] = "waiting"
       /\ \A b \in 1 .. e - 1 : Status[b] # "waiting"
  <2>1. 1 .. e - 1 \subseteq Entries
    BY <1>1, PositionTypes DEF Entries
  <2>. QED
    BY <1>3, <1>4, <1>5, <1>6, <2>1 DEF Status, Hands
<1>11. Ledger!HandOut(w, e)
  BY <1>2, <1>8, <1>9, <1>10 DEF Ledger!HandOut, Status, Hands
<1>. QED
  BY <1>4, <1>11

\* The HSET of a verdict, by the worker or a reclaimer, on an entry that was
\* delivered.
LEMMA VerdictKeepsLedger ==
    ASSUME TypeInv, NEW e \in 1 .. lastDelivered, judged' = judged \cup {e},
           UNCHANGED <<stream, lastDelivered, trimmed, pending>>,
           \A v \in Workers : wk'[v].entry = wk[v].entry
    PROVE  Ledger!Judge(e) \/ UNCHANGED Ledger!ledgerVars
<1>1. e \in Entries /\ ~(e > lastDelivered)
  BY PositionTypes
<1>2. Hands' = Hands
  BY SameHands
<1>3. \A b \in Entries \ {e} : DeliveryStatus(b)' = DeliveryStatus(b)
  BY DEF DeliveryStatus
<1>4. CASE DeliveryStatus(e) = "handedOut"
  <2>1. DeliveryStatus(e)' = "judged"
    BY <1>1, <1>4 DEF DeliveryStatus
  <2>2. Status' = [Status EXCEPT ![e] = "judged"]
    BY <1>1, <1>3, <2>1 DEF Status, Entries
  <2>. QED
    BY <1>1, <1>2, <1>4, <2>2 DEF Ledger!Judge, Status, Hands
<1>5. CASE DeliveryStatus(e) # "handedOut"
  <2>1. DeliveryStatus(e)' = DeliveryStatus(e)
    BY <1>1, <1>5 DEF DeliveryStatus
  <2>2. Status' = Status
    BY <1>3, <2>1 DEF Status, Entries
  <2>. QED
    BY <1>2, <2>2 DEF Ledger!ledgerVars, Status, Hands
<1>. QED
  BY <1>4, <1>5

\* XACK of an entry that has its verdict.
LEMMA XackKeepsLedger ==
    ASSUME TypeInv, NEW e \in judged, pending' = pending \ {e},
           UNCHANGED <<stream, lastDelivered, trimmed, judged>>,
           \A v \in Workers : wk'[v].entry = wk[v].entry
    PROVE  Ledger!Close(e) \/ UNCHANGED Ledger!ledgerVars
<1>1. e \in Entries /\ ~(e > lastDelivered)
  BY PositionTypes
<1>2. Hands' = Hands
  BY SameHands
<1>3. \A b \in Entries \ {e} : DeliveryStatus(b)' = DeliveryStatus(b)
  BY DEF DeliveryStatus
<1>4. DeliveryStatus(e)' = "closed"
  BY <1>1 DEF DeliveryStatus
<1>5. CASE e \in pending
  <2>1. DeliveryStatus(e) = "judged"
    BY <1>1, <1>5 DEF DeliveryStatus
  <2>2. Status' = [Status EXCEPT ![e] = "closed"]
    BY <1>1, <1>3, <1>4 DEF Status, Entries
  <2>. QED
    BY <1>1, <1>2, <2>1, <2>2 DEF Ledger!Close, Status, Hands
<1>6. CASE e \notin pending
  <2>1. DeliveryStatus(e)' = DeliveryStatus(e)
    BY <1>1, <1>6 DEF DeliveryStatus
  <2>2. Status' = Status
    BY <1>3, <2>1 DEF Status, Entries
  <2>. QED
    BY <1>2, <2>2 DEF Ledger!ledgerVars, Status, Hands
<1>. QED
  BY <1>5, <1>6

\* XAUTOCLAIM drops pending entries whose message was trimmed away.
LEMMA AutoClaimKeepsLedger ==
    ASSUME TypeInv, NEW w \in Workers, AutoClaim(w)
    PROVE  \E D \in SUBSET Entries : Ledger!Vanish(D)
<1>. DEFINE page == AutoClaimPage(pending, stale, trimmed, wk[w].start, ReclaimCount)
            D    == AutoDropped(page, trimmed)
<1>1. /\ pending' = pending \ D
      /\ UNCHANGED <<stream, lastDelivered, trimmed, judged>>
  BY DEF AutoClaim
<1>2. page \subseteq pending
  BY DEF AutoClaimPage
<1>. HIDE DEF page
<1>3. D \subseteq pending /\ \A d \in D : d <= trimmed
  BY <1>2 DEF AutoDropped
<1>. HIDE DEF D
<1>4. \A v \in Workers : wk'[v].entry = wk[v].entry
  <2>1. \A v \in Workers : v # w => wk'[v] = wk[v]
    BY ProcessFrame DEF ProcessStep, WorkerStep, Housekeeping
  <2>2. wk[w].entry = 0
    <3>1. WorkerOK(wk[w], stream, lastDelivered) /\ wk[w].pc = "autoclaim"
      BY DEF AutoClaim, TypeInv, WorkersOK
    <3>. QED
      BY <3>1 DEF WorkerOK, JobSteps
  <2>3. wk'[w].entry \in {0, wk[w].entry}
    <3>1. ProcessStep(w) /\ ~ReadGroup(w)
      BY DEF ProcessStep, WorkerStep, Housekeeping, AutoClaim, ReadGroup
    <3>. QED
      BY <3>1, EntryKept
  <2>. QED
    BY <2>1, <2>2, <2>3
<1>5. Hands' = Hands
  BY <1>4, SameHands
<1>6. \A b \in Entries : DeliveryStatus(b)' = IF b \in D THEN "closed" ELSE DeliveryStatus(b)
  <2>. SUFFICES ASSUME NEW b \in Entries
                PROVE  DeliveryStatus(b)' = IF b \in D THEN "closed" ELSE DeliveryStatus(b)
    OBVIOUS
  <2>1. b \in D => ~(b > lastDelivered)
    BY <1>3, PositionTypes
  <2>. QED
    BY <1>1, <2>1 DEF DeliveryStatus
<1>7. Status' = [b \in Entries |-> IF b \in D THEN "closed" ELSE Status[b]]
  BY <1>1, <1>6 DEF Status, Entries
<1>8. Ledger!Vanish(D)
  BY <1>1, <1>3, <1>5, <1>7 DEF Ledger!Vanish, Ledger!Deliveries, Status, Hands, Entries
<1>9. D \in SUBSET Entries
  BY <1>3, PositionTypes
<1>. QED
  BY <1>8, <1>9

LEMMA TrimKeepsLedger ==
    ASSUME TypeInv, NEW w \in Workers, Trim(w)
    PROVE  (\E d \in Entries : Ledger!Cut(d)) \/ UNCHANGED Ledger!ledgerVars
<1>1. /\ trimmed' \in TrimPoints(Len(stream), trimmed, StreamMaxLen)
      /\ UNCHANGED <<stream, lastDelivered, pending, judged>>
      /\ \A v \in Workers : wk'[v].entry = wk[v].entry
  BY PositionTypes DEF Trim, Goto, Processes
<1>2. Hands' = Hands
  BY <1>1, SameHands
<1>3. CASE trimmed' = trimmed
  BY <1>1, <1>2, <1>3 DEF Ledger!ledgerVars, Hands, DeliveryStatus, Entries
<1>4. CASE trimmed' # trimmed
  <2>. DEFINE c == trimmed'
  <2>1. /\ c \in Nat /\ trimmed < c /\ c <= Len(stream) /\ c + StreamMaxLen <= Len(stream)
        /\ c \in Entries
    BY <1>1, <1>4, PositionTypes DEF TrimPoints, Entries
  <2>. HIDE DEF c
  <2>2. \A b \in Entries : DeliveryStatus(b)' =
            IF b <= c /\ DeliveryStatus(b) = "waiting" THEN "closed" ELSE DeliveryStatus(b)
    <3>. SUFFICES ASSUME NEW b \in Entries
                  PROVE  DeliveryStatus(b)' =
                            IF b <= c /\ DeliveryStatus(b) = "waiting" THEN "closed"
                            ELSE DeliveryStatus(b)
      OBVIOUS
    <3>1. b \in Nat
      BY PositionTypes DEF Entries
    <3>2. CASE b > lastDelivered
      <4>1. DeliveryStatus(b) = IF b <= trimmed THEN "closed" ELSE "waiting"
        BY <3>2 DEF DeliveryStatus
      <4>2. DeliveryStatus(b)' = IF b <= c THEN "closed" ELSE "waiting"
        BY <1>1, <3>2 DEF DeliveryStatus, c
      <4>. QED
        BY <2>1, <3>1, <4>1, <4>2, PositionTypes
    <3>3. CASE ~(b > lastDelivered)
      BY <1>1, <3>3 DEF DeliveryStatus
    <3>. QED
      BY <3>2, <3>3
  <2>3. Status' = [b \in Entries |-> IF b <= c /\ Status[b] = "waiting" THEN "closed"
                                     ELSE Status[b]]
    BY <1>1, <2>2 DEF Status, Entries
  <2>4. Ledger!Cut(c)
    BY <1>1, <1>2, <2>1, <2>3, PositionTypes
       DEF Ledger!Cut, Ledger!Deliveries, Status, Hands, Entries, c
  <2>. QED
    BY <2>1, <2>4
<1>. QED
  BY <1>3, <1>4

\* A sequence with one element more, as a function.
LEMMA AppendedStatus ==
    ASSUME NEW S, NEW s \in Seq(S), NEW x \in S
    PROVE  Append(s, x) = [i \in 1 .. Len(s) + 1 |-> IF i = Len(s) + 1 THEN x ELSE s[i]]
<1>. DEFINE t == Append(s, x)
<1>1. /\ t \in Seq(S) /\ Len(t) = Len(s) + 1 /\ Len(s) \in Nat
      /\ \A i \in 1 .. Len(s) : t[i] = s[i]
      /\ t[Len(s) + 1] = x
  BY AppendProperties, LenProperties
<1>2. t \in [1 .. Len(s) + 1 -> S]
  BY <1>1, LenProperties
<1>3. \A i \in 1 .. Len(s) + 1 : t[i] = IF i = Len(s) + 1 THEN x ELSE s[i]
  BY <1>1
<1>. HIDE DEF t
<1>4. t = [i \in 1 .. Len(s) + 1 |-> t[i]]
  BY <1>2
<1>5. t = [i \in 1 .. Len(s) + 1 |-> IF i = Len(s) + 1 THEN x ELSE s[i]]
  BY <1>3, <1>4
<1>. QED
  BY <1>5 DEF t

LEMMA XaddKeepsLedger ==
    ASSUME TypeInv, NEW r \in Requests, SubmitXadd(r)
    PROVE  \E j \in Jobs : Ledger!Publish(j)
<1>. DEFINE j == rq[r].job
<1>0. PICK n \in Nat : n = Len(stream) + 1
  BY PositionTypes
<1>1. j \in Jobs /\ stream' = Append(stream, j)
      /\ UNCHANGED <<lastDelivered, trimmed, pending, judged, wk>>
  BY DEF SubmitXadd, TypeInv, HandlersOK
<1>. HIDE DEF j
<1>2. Entries' = Entries \cup {n} /\ n \notin Entries /\ Len(stream') = n
  BY <1>0, <1>1, PositionTypes DEF Entries
<1>3. DeliveryStatus(n)' = "waiting"
  BY <1>0, <1>1, PositionTypes DEF DeliveryStatus
<1>4. \A b \in Entries : DeliveryStatus(b)' = DeliveryStatus(b)
  BY <1>1 DEF DeliveryStatus
<1>5. /\ Status \in Seq({"judged", "handedOut", "waiting", "closed"})
      /\ Len(Status) = Len(stream)
  BY PositionTypes DEF Status, DeliveryStatus, Entries
<1>6. Append(Status, "waiting") =
          [i \in 1 .. n |-> IF i = n THEN "waiting" ELSE Status[i]]
  BY <1>0, <1>5, AppendedStatus
<1>7. Status' = [i \in 1 .. n |-> IF i = n THEN "waiting" ELSE Status[i]]
  <2>1. Entries' = 1 .. n /\ Entries = 1 .. n - 1
    BY <1>0, <1>1, <1>2, PositionTypes DEF Entries
  <2>2. Status' = [i \in 1 .. n |-> DeliveryStatus(i)']
    BY <2>1 DEF Status
  <2>3. \A i \in 1 .. n : DeliveryStatus(i)' = IF i = n THEN "waiting" ELSE Status[i]
    <3>. SUFFICES ASSUME NEW i \in 1 .. n, i # n PROVE DeliveryStatus(i)' = Status[i]
      BY <1>3
    <3>1. i \in Entries
      BY <2>1
    <3>. QED
      BY <1>4, <3>1 DEF Status
  <2>. QED
    BY <2>2, <2>3
<1>8. Hands' = Hands
  BY <1>1 DEF Hands
<1>9. Ledger!Publish(j)
  BY <1>1, <1>6, <1>7, <1>8 DEF Ledger!Publish, Status, Hands
<1>. QED
  BY <1>1, <1>9

-----------------------------------------------------------------------------
LEMMA LedgerStart == Init => Ledger!LedgerInit
<1>. SUFFICES ASSUME Init PROVE Ledger!LedgerInit
  OBVIOUS
<1>1. stream = <<>> /\ Entries = {}
  BY DEF Init, Entries
<1>2. Status = <<>>
  BY <1>1 DEF Status
<1>3. Hands = [w \in Workers |-> 0]
  BY DEF Init, Hands, ProcessAt
<1>. QED
  BY <1>1, <1>2, <1>3 DEF Init, Ledger!LedgerInit, Status, Hands

LEMMA ProcessKeepsLedger ==
    ASSUME TypeInv, OwnMarker, VerdictsWritten, NEW w \in Workers, ProcessStep(w)
    PROVE  [Ledger!LedgerNext]_(Ledger!ledgerVars)
<1>0. /\ wk \in [Workers -> Processes] /\ WorkerOK(wk[w], stream, lastDelivered)
      /\ wk[w] \in Processes
  BY DEF TypeInv, TypeOK, WorkersOK
<1>1. CASE ReadGroup(w)
  BY <1>1, ReadGroupKeepsLedger DEF Ledger!LedgerNext, Ledger!Deliveries, Entries
<1>2. CASE SettleHset(w)
  <2>1. wk[w].entry \in 1 .. lastDelivered
    BY <1>0, <1>2 DEF SettleHset, WorkerOK, JobSteps
  <2>2. \A v \in Workers : wk'[v].entry = wk[v].entry
    BY <1>0, <1>2 DEF SettleHset, Goto, Processes
  <2>3. Ledger!Judge(wk[w].entry) \/ UNCHANGED Ledger!ledgerVars
    BY <1>2, <2>1, <2>2, VerdictKeepsLedger DEF SettleHset, streamVars
  <2>. QED
    BY <2>1, <2>3, PositionTypes DEF Ledger!LedgerNext, Ledger!Deliveries, Entries
<1>3. CASE ReclaimHset(w)
  <2>. DEFINE e == First(wk[w].batch)
  <2>1. e \in 1 .. lastDelivered
    <3>1. wk[w].batch \subseteq 1 .. lastDelivered /\ wk[w].batch # {}
      BY <1>0, <1>3 DEF ReclaimHset, WorkerOK
    <3>2. wk[w].batch \in SUBSET Nat
      BY <3>1, PositionTypes
    <3>. QED
      BY <3>1, <3>2, FirstIsIn
  <2>2. \A v \in Workers : wk'[v].entry = wk[v].entry
    BY <1>0, <1>3 DEF ReclaimHset, Goto, Processes
  <2>3. judged' = judged \cup {e} /\ UNCHANGED <<stream, lastDelivered, trimmed, pending>>
    BY <1>3 DEF ReclaimHset, streamVars
  <2>. HIDE DEF e
  <2>4. Ledger!Judge(e) \/ UNCHANGED Ledger!ledgerVars
    BY <2>1, <2>2, <2>3, VerdictKeepsLedger
  <2>. QED
    BY <2>1, <2>4, PositionTypes DEF Ledger!LedgerNext, Ledger!Deliveries, Entries
<1>4. CASE SettleXack(w)
  <2>1. wk[w].entry \in judged /\ wk[w].marker \in {0, wk[w].entry}
    BY <1>4 DEF SettleXack, OwnMarker, VerdictsWritten
  <2>2. \A v \in Workers : wk'[v].entry = wk[v].entry
    BY <1>0, <1>4 DEF SettleXack, Goto, Processes
  <2>3. CASE wk[w].marker = wk[w].entry
    <3>1. Ledger!Close(wk[w].entry) \/ UNCHANGED Ledger!ledgerVars
      BY <1>4, <2>1, <2>2, <2>3, XackKeepsLedger DEF SettleXack
    <3>. QED
      BY <2>1, <3>1, PositionTypes DEF Ledger!LedgerNext, Ledger!Deliveries, Entries
  <2>4. CASE wk[w].marker = 0
    <3>1. pending' = pending
      BY <1>4, <2>4, PositionTypes DEF SettleXack
    <3>2. ~ReadGroup(w) /\ UNCHANGED <<trimmed, judged>>
      BY <1>4 DEF SettleXack, ReadGroup
    <3>3. Ledger!LetGo(w) \/ UNCHANGED Ledger!ledgerVars
      BY <3>1, <3>2, QuietStep
    <3>. QED
      BY <3>3 DEF Ledger!LedgerNext
  <2>. QED
    BY <2>1, <2>3, <2>4
<1>5. CASE ReclaimXack(w)
  <2>. DEFINE e == First(wk[w].batch)
  <2>1. e \in judged
    BY <1>5 DEF ReclaimXack, VerdictsWritten
  <2>2. \A v \in Workers : wk'[v].entry = wk[v].entry
    BY <1>0, <1>5 DEF ReclaimXack, Goto, Processes
  <2>3. pending' = pending \ {e} /\ UNCHANGED <<stream, lastDelivered, trimmed, judged>>
    BY <1>5 DEF ReclaimXack
  <2>. HIDE DEF e
  <2>4. Ledger!Close(e) \/ UNCHANGED Ledger!ledgerVars
    BY <2>1, <2>2, <2>3, XackKeepsLedger
  <2>. QED
    BY <2>1, <2>4, PositionTypes DEF Ledger!LedgerNext, Ledger!Deliveries, Entries
<1>6. CASE AutoClaim(w)
  BY <1>6, AutoClaimKeepsLedger DEF Ledger!LedgerNext, Ledger!Deliveries, Entries
<1>7. CASE Trim(w)
  BY <1>7, TrimKeepsLedger DEF Ledger!LedgerNext, Ledger!Deliveries, Entries
<1>8. CASE ~ReadGroup(w) /\ UNCHANGED <<trimmed, pending, judged>>
  BY <1>8, QuietStep DEF Ledger!LedgerNext
<1>9. \/ ReadGroup(w) \/ SettleHset(w) \/ ReclaimHset(w) \/ SettleXack(w) \/ ReclaimXack(w)
      \/ AutoClaim(w) \/ Trim(w) \/ UNCHANGED <<trimmed, pending, judged>>
  BY DEF ProcessStep, WorkerStep, Start, PollEmpty, Crash, RedisError, vars, streamVars,
     Housekeeping, ReclaimHdel, Reserve, HgetPayload, HsetReserved, RunGet, RunUpsert,
     Process, Settle, SettleHget, SettleHdel, FinalGet, FinalUpsert
<1>. QED
  BY <1>1, <1>2, <1>3, <1>4, <1>5, <1>6, <1>7, <1>8, <1>9

LEMMA LedgerStep ==
    ASSUME TypeInv, OwnMarker, VerdictsWritten, [Next]_vars
    PROVE  [Ledger!LedgerNext]_(Ledger!ledgerVars)
<1>1. CASE \E r \in Requests : SubmitXadd(r)
  BY <1>1, XaddKeepsLedger DEF Ledger!LedgerNext
<1>2. CASE UNCHANGED <<stream, lastDelivered, trimmed, pending, judged, wk>>
  BY <1>2 DEF Ledger!ledgerVars, DeliveryStatus, Entries
<1>3. OtherStep => \/ \E r \in Requests : SubmitXadd(r)
                   \/ UNCHANGED <<stream, lastDelivered, trimmed, pending, judged, wk>>
  BY DEF OtherStep, HandlerStep, SubmitHset, CancelHset, SubmitUpsert, CancelGet,
     CancelUpsert, RequestFails, EntryAges, EvictHash, streamVars
<1>4. CASE UNCHANGED vars
  BY <1>2, <1>4 DEF vars, streamVars
<1>. QED
  BY <1>1, <1>2, <1>3, <1>4, NextCases, ProcessKeepsLedger

\* With uuid job ids every behaviour of API, workers and Redis, with its crashes,
\* exceptions, restarts, evictions, reclaiming and trimming, is one of the
\* ledger: deliveries are handed out in order, once, to one worker, and closed
\* after a verdict or when they are trimmed away.
THEOREM RedisKeepsLedger == ASSUME ~ClientReferences PROVE Spec => ImplementsLedger
<1>1. Init => VerdictsWritten
  BY DEF Init, VerdictsWritten, ProcessAt
<1>2. TypeInv /\ VerdictsWritten /\ [Next]_vars => VerdictsWritten'
  BY VerdictsWrittenStep
<1>3. TypeInv /\ OwnMarker /\ VerdictsWritten /\ [Next]_vars
          => [Ledger!LedgerNext]_(Ledger!ledgerVars)
  BY LedgerStep
<1>. QED
  BY <1>1, <1>2, <1>3, LedgerStart, TypeInvInvariant, XackOwnDelivery, PTL
     DEF Spec, ImplementsLedger, Ledger!LedgerSpec

-----------------------------------------------------------------------------
NoFault == crashes + errors + evictions = 0

\* The steps of a platform in which nothing fails.
SmoothStep ==
    \/ \E r \in Requests, j \in Jobs : SubmitHset(r, j) \/ CancelHset(r, j)
    \/ \E r \in Requests : HandlerStep(r)
    \/ \E w \in Workers : Start(w) \/ WorkerStep(w)
    \/ UNCHANGED <<hash, stream, lastDelivered, trimmed, pending, rq, wk>>

LEMMA NoneOfThree ==
    ASSUME NEW a \in Nat, NEW b \in Nat, NEW c \in Nat, a + b + c = 0
    PROVE  a = 0 /\ b = 0 /\ c = 0
  OBVIOUS

\* Faults are counted and never forgotten.
LEMMA NoFaultBefore ==
    ASSUME ConstantsAssumption, TypeInv, [Next]_vars, NoFault'
    PROVE  NoFault /\ SmoothStep
<1>0. /\ crashes \in Nat /\ errors \in Nat /\ evictions \in Nat
      /\ crashes' \in Nat /\ errors' \in Nat /\ evictions' \in Nat
  <2>1. TypeInv'
    BY NextTypeInv
  <2>. QED
    BY <2>1, ConstantsAssumption DEF TypeInv, TypeOK, ConstantsAssumption
<1>1. crashes' = 0 /\ errors' = 0 /\ evictions' = 0
  <2>1. crashes' + errors' + evictions' = 0
    BY DEF NoFault
  <2>. QED
    BY <1>0, <2>1, NoneOfThree
<1>2. ~(\E w \in Workers : Crash(w) \/ RedisError(w))
  BY <1>0, <1>1 DEF Crash, RedisError
<1>3. ~(\E r \in Requests : RequestFails(r)) /\ ~(\E j \in Jobs : EvictHash(j))
  <2>1. errors' # errors + 1 /\ evictions' # evictions + 1
    BY <1>0, <1>1
  <2>. QED
    BY <2>1 DEF RequestFails, EvictHash
<1>4. SmoothStep
  BY <1>2, <1>3 DEF Next, SmoothStep, PollEmpty, EntryAges, vars, streamVars
<1>5. UNCHANGED faultVars
  BY <1>2, <1>3 DEF Next, vars, faultVars, streamVars, SubmitHset, CancelHset, HandlerStep,
     SubmitXadd, SubmitUpsert, CancelGet, CancelUpsert, Start, PollEmpty, EntryAges,
     WorkerStep, Housekeeping, AutoClaim, Trim, ReclaimHset, ReclaimXack, ReclaimHdel,
     Reserve, ReadGroup, HgetPayload, HsetReserved, RunGet, RunUpsert, Process, Settle,
     SettleHget, SettleHset, SettleXack, SettleHdel, FinalGet, FinalUpsert
<1>. QED
  BY <1>4, <1>5 DEF NoFault, faultVars

-----------------------------------------------------------------------------
(* A completed job has its result, or a worker about to write it.            *)

Bare(j) ==
    hash[j].state \in {"completed", "completed_degraded"} /\ hash[j].result = Missing

\* Worker w has written that j is completed, and not yet how.
Due(w, j) ==
    /\ wk[w].job = j
    /\ wk[w].outcome # "failed"
    /\ wk[w].pc \in {"settleXack", "settleHdel", "finalGet", "finalUpsert"}

ResultsDue == NoFault => \A j \in Jobs : Bare(j) => \E w \in Workers : Due(w, j)

LEMMA UpsertFields ==
    ASSUME NEW h \in Hashes, NEW state, NEW payload, NEW result, NEW snap
    PROVE  /\ Upsert(h, state, payload, result).state = state
           /\ Upsert(h, state, payload, result).result
                  = IF result = Missing THEN h.result ELSE result
           /\ MarkFrom(snap, h, state, result).state = state
           /\ h.result # Missing => MarkFrom(snap, h, state, result).result # Missing
           /\ result # Missing => MarkFrom(snap, h, state, result).result = result
  BY DEF MarkFrom, Upsert, Hashes

\* No handler makes a job bare.
LEMMA HandlersResults ==
    ASSUME TypeInv, NEW j \in Jobs, Bare(j)', NEW r \in Requests,
           (\E i \in Jobs : SubmitHset(r, i) \/ CancelHset(r, i)) \/ HandlerStep(r)
    PROVE  Bare(j) /\ wk' = wk
<1>0. hash \in [Jobs -> Hashes] /\ hash[j] \in Hashes /\ HandlersOK
  BY DEF TypeInv, TypeOK
<1>1. CASE \E i \in Jobs : SubmitHset(r, i) \/ CancelHset(r, i)
  BY <1>0, <1>1 DEF SubmitHset, CancelHset, Bare, Hashes
<1>2. CASE SubmitXadd(r) \/ CancelGet(r)
  BY <1>2 DEF SubmitXadd, CancelGet, Bare
<1>3. CASE SubmitUpsert(r)
  BY <1>0, <1>3, UpsertFields DEF SubmitUpsert, Bare
<1>4. CASE CancelUpsert(r)
  BY <1>0, <1>4, UpsertFields DEF CancelUpsert, Bare
<1>. QED
  BY <1>1, <1>2, <1>3, <1>4 DEF HandlerStep

\* A worker makes a job bare only when it is due to write the result, and stays
\* due until it has.
LEMMA WorkersResults ==
    ASSUME TypeInv, NoFault, ResultsDue, NEW j \in Jobs, Bare(j)', NEW w \in Workers,
           Start(w) \/ WorkerStep(w)
    PROVE  \E v \in Workers : Due(v, j)'
<1>0. /\ hash \in [Jobs -> Hashes] /\ hash[j] \in Hashes
      /\ wk \in [Workers -> Processes] /\ wk[w] \in Processes
      /\ wk[w].pc \in JobSteps => wk[w].job \in Jobs
  BY DEF TypeInv, TypeOK, WorkersOK, WorkerOK
<1>1. \A v \in Workers : v # w => (Due(v, j) => Due(v, j)')
  BY ProcessFrame DEF Due, ProcessStep
<1>. DEFINE Free == {"down", "autoclaim", "trim", "reclaimHset", "reclaimXack", "reclaimHdel",
                     "reserve", "hgetPayload", "hsetReserved", "runGet", "runUpsert",
                     "process", "settleHget", "settleHset"}
<1>2. wk[w].pc \in Free => ~Due(w, j)
  BY DEF Due
<1>3. ASSUME Bare(j), Due(w, j) => Due(w, j)'
      PROVE  \E v \in Workers : Due(v, j)'
  BY <1>1, <1>3 DEF ResultsDue
<1>4. CASE UNCHANGED hash /\ wk[w].pc \in Free
  BY <1>2, <1>3, <1>4 DEF Bare
<1>5. CASE ReclaimHset(w) \/ ReclaimHdel(w) \/ HsetReserved(w)
  <2>1. Bare(j) /\ wk[w].pc \in Free
    <3>1. CASE ReclaimHset(w)
      BY <1>0, <3>1 DEF ReclaimHset, Bare, Hashes
    <3>2. CASE ReclaimHdel(w)
      BY <1>0, <3>2 DEF ReclaimHdel, Bare, Hashes
    <3>3. CASE HsetReserved(w)
      BY <1>0, <3>3 DEF HsetReserved, Bare, Hashes
    <3>. QED
      BY <1>5, <3>1, <3>2, <3>3
  <2>. QED
    BY <1>2, <1>3, <2>1
<1>6. CASE RunUpsert(w)
  <2>1. Bare(j) /\ wk[w].pc \in Free
    BY <1>0, <1>6, UpsertFields DEF RunUpsert, Bare
  <2>. QED
    BY <1>2, <1>3, <2>1
<1>7. CASE SettleHset(w)
  <2>1. CASE j = wk[w].job
    <3>1. hash'[j].state = SettledState(wk[w].outcome)
      BY <1>0, <1>7, <2>1 DEF SettleHset, Hashes
    <3>2. wk[w].outcome # "failed"
      BY <3>1 DEF SettledState, Bare
    <3>3. Due(w, j)'
      BY <1>0, <1>7, <2>1, <3>2 DEF SettleHset, Goto, Due, Processes
    <3>. QED
      BY <3>3
  <2>2. CASE j # wk[w].job
    <3>1. Bare(j) /\ wk[w].pc \in Free
      BY <1>0, <1>7, <2>2 DEF SettleHset, Bare
    <3>. QED
      BY <1>2, <1>3, <3>1
  <2>. QED
    BY <2>1, <2>2
<1>8. CASE SettleXack(w) \/ SettleHdel(w)
  <2>1. Bare(j)
    BY <1>0, <1>8 DEF SettleXack, SettleHdel, Bare, Hashes
  <2>2. Due(w, j) => Due(w, j)'
    BY <1>0, <1>8 DEF SettleXack, SettleHdel, Goto, Due, Processes
  <2>. QED
    BY <1>3, <2>1, <2>2
<1>9. CASE FinalGet(w)
  <2>1. Bare(j)
    BY <1>9 DEF FinalGet, Bare
  <2>2. Due(w, j) => hash[wk[w].job].state # Absent
    BY <2>1 DEF Due, Bare, Absent
  <2>3. Due(w, j) => Due(w, j)'
    BY <1>0, <1>9, <2>2 DEF FinalGet, Due, Processes
  <2>. QED
    BY <1>3, <2>1, <2>3
<1>10. CASE FinalUpsert(w)
  <2>1. j # wk[w].job
    <3>1. CASE j = wk[w].job
      <4>1. hash'[j] = MarkFrom(wk[w].snap, hash[j], wk[w].outcome,
                                IF wk[w].outcome = "failed" THEN "error" ELSE "ok")
        BY <1>0, <1>10, <3>1 DEF FinalUpsert
      <4>2. hash'[j].result # Missing
        BY <1>0, <4>1, UpsertFields DEF Missing
      <4>. QED
        BY <4>2 DEF Bare
    <3>. QED
      BY <3>1
  <2>2. Bare(j) /\ ~Due(w, j)
    BY <1>0, <1>10, <2>1 DEF FinalUpsert, Bare, Due
  <2>. QED
    BY <1>3, <2>2
<1>. QED
  BY <1>4, <1>5, <1>6, <1>7, <1>8, <1>9, <1>10
     DEF WorkerStep, Start, Housekeeping, AutoClaim, Trim, ReclaimXack, Reserve, ReadGroup,
         HgetPayload, RunGet, Process, Settle, SettleHget

LEMMA ResultsDueStep ==
    ASSUME ConstantsAssumption, TypeInv, ResultsDue, [Next]_vars
    PROVE  ResultsDue'
<1>. SUFFICES ASSUME NoFault', NEW j \in Jobs, Bare(j)'
              PROVE  \E w \in Workers : Due(w, j)'
  BY DEF ResultsDue
<1>1. NoFault /\ SmoothStep
  BY NoFaultBefore
<1>2. CASE Bare(j) /\ wk' = wk
  BY <1>1, <1>2 DEF ResultsDue, Due
<1>3. CASE UNCHANGED <<hash, wk>>
  BY <1>2, <1>3 DEF Bare
<1>. QED
  BY <1>1, <1>2, <1>3, HandlersResults, WorkersResults DEF SmoothStep

\* Until something fails, and whatever ids clients choose, a job that reads as
\* completed has its result or is in the hands of the worker that writes it.
THEOREM CompletedNeverBare == Spec => []CompletedHasResult
<1>1. Init => ResultsDue
  BY DEF Init, ResultsDue, Bare, NoHash, Absent
<1>2. TypeInv /\ ResultsDue /\ [Next]_vars => ResultsDue'
  BY ResultsDueStep, ConstantsAssumption
<1>3. ResultsDue => CompletedHasResult
  BY DEF ResultsDue, CompletedHasResult, NoFault, Bare, Due
<1>. QED
  BY <1>1, <1>2, <1>3, TypeInvInvariant, PTL DEF Spec

-----------------------------------------------------------------------------
(* When everything has come to rest, nothing is left behind.                 *)

\* Worker w will acknowledge entry e: before it is reserved for good, with the
\* marker in the hash, or with the marker read.
Holds(w, e) ==
    /\ wk[w].entry = e
    /\ \/ wk[w].pc \in {"hgetPayload", "hsetReserved"}
       \/ /\ wk[w].pc \in {"runGet", "runUpsert", "process", "settleHget"}
          /\ hash[wk[w].job].entry = e
       \/ /\ wk[w].pc \in {"settleHset", "settleXack"}
          /\ wk[w].marker = e

\* Worker w will acknowledge entry e of the page it reclaims.
Claims(w, e) ==
    /\ e \in wk[w].batch
    /\ \/ wk[w].pc \in {"reclaimHset", "reclaimXack"}
       \/ wk[w].pc = "reclaimHdel" /\ e # First(wk[w].batch)

\* Worker w will remove the marker of job j.
Clears(w, j) ==
    /\ wk[w].job = j
    /\ \/ wk[w].pc \in {"runGet", "runUpsert", "process", "settleHget"}
       \/ /\ wk[w].pc \in {"settleHset", "settleXack", "settleHdel"}
          /\ wk[w].marker # 0

OpenHeld == \A e \in pending : \E w \in Workers : Holds(w, e) \/ Claims(w, e)
MarkersHeld == \A j \in Jobs : hash[j].entry # 0 => \E w \in Workers : Clears(w, j)
DropsClosed ==
    \A w \in Workers : wk[w].pc = "reclaimHdel" => First(wk[w].batch) \notin pending

BooksKept == NoFault => OpenHeld /\ MarkersHeld /\ DropsClosed

\* Only reserve() and the two HDELs touch a marker.
LEMMA WorkerMarkers ==
    ASSUME TypeInv, NEW j \in Jobs, NEW w \in Workers, Start(w) \/ WorkerStep(w)
    PROVE  \/ hash'[j].entry = hash[j].entry
           \/ HsetReserved(w) /\ wk[w].job = j
           \/ SettleHdel(w) /\ wk[w].job = j /\ hash'[j].entry = 0
           \/ ReclaimHdel(w) /\ stream[First(wk[w].batch)] = j /\ hash'[j].entry = 0
<1>0. hash \in [Jobs -> Hashes] /\ \A i \in Jobs : hash[i] \in Hashes
  BY DEF TypeInv, TypeOK
<1>1. CASE RunUpsert(w)
  BY <1>0, <1>1, UpsertKeepsEntry DEF RunUpsert
<1>2. CASE FinalUpsert(w)
  BY <1>0, <1>2, UpsertKeepsEntry DEF FinalUpsert
<1>3. CASE ReclaimHset(w)
  BY <1>0, <1>3 DEF ReclaimHset, Hashes
<1>4. CASE ReclaimHdel(w)
  BY <1>0, <1>4 DEF ReclaimHdel, Hashes
<1>5. CASE SettleHset(w)
  BY <1>0, <1>5 DEF SettleHset, Hashes
<1>6. CASE SettleHdel(w)
  BY <1>0, <1>6 DEF SettleHdel, Hashes
<1>7. CASE HsetReserved(w)
  BY <1>0, <1>7 DEF HsetReserved, Hashes
<1>8. CASE UNCHANGED hash
  BY <1>8
<1>. QED
  BY <1>1, <1>2, <1>3, <1>4, <1>5, <1>6, <1>7, <1>8
     DEF WorkerStep, Start, Housekeeping, AutoClaim, ReclaimXack, Trim, Reserve, ReadGroup,
         HgetPayload, RunGet, Process, Settle, SettleHget, SettleXack, FinalGet

LEMMA HandlerMarkers ==
    ASSUME TypeInv, NEW j \in Jobs, NEW r \in Requests,
           (\E i \in Jobs : SubmitHset(r, i) \/ CancelHset(r, i)) \/ HandlerStep(r)
    PROVE  hash'[j].entry = hash[j].entry
<1>0. hash \in [Jobs -> Hashes] /\ hash[j] \in Hashes
  BY DEF TypeInv, TypeOK
<1>1. ASSUME NEW i \in Jobs, SubmitHset(r, i)
      PROVE  hash'[j].entry = hash[j].entry
  BY <1>0, <1>1 DEF SubmitHset, Hashes
<1>2. ASSUME NEW i \in Jobs, CancelHset(r, i)
      PROVE  hash'[j].entry = hash[j].entry
  BY <1>0, <1>2 DEF CancelHset, Hashes
<1>3. CASE SubmitUpsert(r)
  BY <1>0, <1>3, UpsertKeepsEntry DEF SubmitUpsert, streamVars
<1>4. CASE CancelUpsert(r)
  BY <1>0, <1>4, UpsertKeepsEntry DEF CancelUpsert, streamVars
<1>5. CASE SubmitXadd(r) \/ CancelGet(r)
  BY <1>5 DEF SubmitXadd, CancelGet, streamVars
<1>. QED
  BY <1>1, <1>2, <1>3, <1>4, <1>5 DEF HandlerStep

\* What becomes pending by a step of a worker: what it is handed.
LEMMA PendingGrowth ==
    ASSUME TypeInv, NEW w \in Workers, Start(w) \/ WorkerStep(w)
    PROVE  \A e \in pending' : \/ e \in pending
                               \/ ReadGroup(w) /\ wk'[w].entry = e /\ e > lastDelivered
<1>1. CASE ReadGroup(w)
  BY <1>1, ReadGroupEntry DEF ReadGroup
<1>2. CASE AutoClaim(w) \/ ReclaimXack(w) \/ SettleXack(w)
  BY <1>2 DEF AutoClaim, ReclaimXack, SettleXack
<1>3. CASE UNCHANGED pending
  BY <1>3
<1>. QED
  BY <1>1, <1>2, <1>3
     DEF WorkerStep, Start, Housekeeping, ReclaimHset, ReclaimHdel, Trim, Reserve,
         HgetPayload, HsetReserved, RunGet, RunUpsert, Process, Settle, SettleHget,
         SettleHset, SettleHdel, FinalGet, FinalUpsert, streamVars

\* The steps of one worker take nothing from what another is to acknowledge.
LEMMA OthersHold ==
    ASSUME TypeInv, UniqueIds, SingleWorkerPerJob, DropsClosed,
           NEW w \in Workers, Start(w) \/ WorkerStep(w),
           NEW v \in Workers, v # w, NEW e \in pending, Holds(v, e) \/ Claims(v, e)
    PROVE  (Holds(v, e) \/ Claims(v, e))'
<1>1. wk'[v] = wk[v]
  BY ProcessFrame DEF ProcessStep
<1>2. CASE Claims(v, e)
  BY <1>1, <1>2 DEF Claims
<1>3. CASE Holds(v, e)
  <2>0. WorkerOK(wk[v], stream, lastDelivered) /\ WorkerOK(wk[w], stream, lastDelivered)
    BY DEF TypeInv, WorkersOK
  <2>1. /\ stream \in Seq(Jobs) /\ lastDelivered \in 0 .. Len(stream)
        /\ e \in 1 .. lastDelivered /\ e \in Entries
    BY DEF TypeInv, TypeOK, Entries
  <2>2. wk[v].job = stream[e] /\ stream[e] \in Jobs
    BY <1>3, <2>0, <2>1 DEF Holds, WorkerOK, JobSteps
  <2>3. wk[w].job # stream[e]
    BY <2>2, ConstantsAssumption DEF SingleWorkerPerJob, ConstantsAssumption
  <2>4. ReclaimHdel(w) => stream[First(wk[w].batch)] # stream[e]
    <3>. SUFFICES ASSUME ReclaimHdel(w) PROVE stream[First(wk[w].batch)] # stream[e]
      OBVIOUS
    <3>1. wk[w].batch \subseteq 1 .. lastDelivered /\ wk[w].batch # {}
      BY <2>0 DEF WorkerOK, ReclaimHdel
    <3>2. wk[w].batch \in SUBSET Nat
      BY <2>1, <3>1
    <3>3. First(wk[w].batch) \in Entries
      BY <2>1, <3>1, <3>2, FirstIsIn DEF Entries
    <3>4. First(wk[w].batch) # e
      BY DEF DropsClosed, ReclaimHdel
    <3>. QED
      BY <2>1, <3>3, <3>4 DEF UniqueIds
  <2>5. hash'[stream[e]].entry = hash[stream[e]].entry
    BY <2>2, <2>3, <2>4, WorkerMarkers
  <2>. QED
    BY <1>1, <1>3, <2>2, <2>5 DEF Holds
<1>. QED
  BY <1>2, <1>3

\* A worker goes on holding an entry until it has acknowledged it.
LEMMA OwnHolds ==
    ASSUME TypeInv, OwnMarker, NEW w \in Workers, Start(w) \/ WorkerStep(w),
           NEW e \in pending, e \in pending', Holds(w, e)
    PROVE  Holds(w, e)'
<1>0. /\ wk \in [Workers -> Processes] /\ wk[w] \in Processes
      /\ hash \in [Jobs -> Hashes] /\ \A i \in Jobs : hash[i] \in Hashes
      /\ wk[w].pc \in JobSteps => wk[w].job \in Jobs
      /\ lastDelivered \in Nat /\ e \in 1 .. lastDelivered
  BY DEF TypeInv, TypeOK, WorkersOK, WorkerOK
<1>1. CASE HgetPayload(w)
  BY <1>0, <1>1 DEF HgetPayload, Holds, Processes
<1>2. CASE HsetReserved(w)
  <2>1. hash'[wk[w].job].entry = e
    BY <1>0, <1>2 DEF HsetReserved, Holds, Hashes, JobSteps
  <2>2. wk' = [wk EXCEPT ![w].pc = "runGet"]
    BY <1>2 DEF HsetReserved, Goto
  <2>. QED
    BY <1>0, <2>1, <2>2 DEF Holds, Processes
<1>3. CASE RunGet(w)
  BY <1>0, <1>3 DEF RunGet, Holds, Processes
<1>4. CASE RunUpsert(w)
  <2>1. hash'[wk[w].job].entry = hash[wk[w].job].entry
    BY <1>0, <1>4, UpsertKeepsEntry DEF RunUpsert, JobSteps
  <2>2. wk' = [wk EXCEPT ![w].pc = "process"] /\ wk[w].pc = "runUpsert"
    BY <1>4 DEF RunUpsert, Goto
  <2>. QED
    BY <1>0, <2>1, <2>2 DEF Holds, Processes
<1>5. CASE Process(w)
  BY <1>0, <1>5 DEF Process, Holds, Processes
<1>6. CASE SettleHget(w)
  BY <1>0, <1>6 DEF SettleHget, Holds, Processes
<1>7. CASE SettleHset(w)
  <2>1. wk[w].marker = e /\ wk[w].entry = e /\ e # 0
    BY <1>0, <1>7 DEF SettleHset, Holds
  <2>. QED
    BY <1>0, <1>7, <2>1 DEF SettleHset, Goto, Holds, Processes
<1>8. CASE SettleXack(w)
  BY <1>0, <1>8 DEF SettleXack, Holds
<1>. QED
  BY <1>1, <1>2, <1>3, <1>4, <1>5, <1>6, <1>7, <1>8
     DEF WorkerStep, Start, Housekeeping, AutoClaim, ReclaimHset, ReclaimXack, ReclaimHdel,
         Trim, Reserve, ReadGroup, Settle, SettleHdel, FinalGet, FinalUpsert, Holds

\* A reclaimer goes on claiming the entries of its page until it has
\* acknowledged them.
LEMMA OwnClaims ==
    ASSUME TypeInv, NEW w \in Workers, Start(w) \/ WorkerStep(w),
           NEW e \in pending, e \in pending', Claims(w, e)
    PROVE  Claims(w, e)'
<1>0. wk \in [Workers -> Processes] /\ wk[w] \in Processes
  BY DEF TypeInv, TypeOK
<1>1. CASE ReclaimHset(w)
  BY <1>0, <1>1 DEF ReclaimHset, Goto, Claims, Processes
<1>2. CASE ReclaimXack(w)
  BY <1>0, <1>2 DEF ReclaimXack, Goto, Claims, Processes
<1>3. CASE ReclaimHdel(w)
  <2>1. e \in wk[w].batch \ {First(wk[w].batch)}
    BY <1>3 DEF ReclaimHdel, Claims
  <2>2. wk' = [wk EXCEPT ![w].pc = "reclaimHset",
                         ![w].batch = wk[w].batch \ {First(wk[w].batch)}]
    BY <1>3, <2>1 DEF ReclaimHdel
  <2>. QED
    BY <1>0, <2>1, <2>2 DEF Claims, Processes
<1>. QED
  BY <1>1, <1>2, <1>3
     DEF WorkerStep, Start, Housekeeping, AutoClaim, Trim, Reserve, ReadGroup, HgetPayload,
         HsetReserved, RunGet, RunUpsert, Process, Settle, SettleHget, SettleHset,
         SettleXack, SettleHdel, FinalGet, FinalUpsert, Claims

LEMMA OpenHeldStep ==
    ASSUME TypeInv, UniqueIds, SingleWorkerPerJob, OwnMarker, OpenHeld, DropsClosed,
           NEW w \in Workers, Start(w) \/ WorkerStep(w)
    PROVE  OpenHeld'
<1>. SUFFICES ASSUME NEW e \in pending'
              PROVE  \E v \in Workers : (Holds(v, e) \/ Claims(v, e))'
  BY DEF OpenHeld
<1>1. CASE e \in pending
  <2>1. PICK v \in Workers : Holds(v, e) \/ Claims(v, e)
    BY <1>1 DEF OpenHeld
  <2>2. (Holds(v, e) \/ Claims(v, e))'
    BY <1>1, <2>1, OthersHold, OwnHolds, OwnClaims
  <2>. QED
    BY <2>2
<1>2. CASE ReadGroup(w) /\ wk'[w].entry = e
  <2>1. wk \in [Workers -> Processes]
    BY DEF TypeInv, TypeOK
  <2>2. Holds(w, e)'
    BY <1>2, <2>1 DEF ReadGroup, Holds, Processes
  <2>. QED
    BY <2>2
<1>. QED
  BY <1>1, <1>2, PendingGrowth

LEMMA MarkersHeldStep ==
    ASSUME TypeInv, MarkersHeld, NEW w \in Workers, Start(w) \/ WorkerStep(w)
    PROVE  MarkersHeld'
<1>. SUFFICES ASSUME NEW j \in Jobs, hash'[j].entry # 0
              PROVE  \E v \in Workers : Clears(v, j)'
  BY DEF MarkersHeld
<1>0. wk \in [Workers -> Processes] /\ wk[w] \in Processes
  BY DEF TypeInv, TypeOK
<1>1. CASE HsetReserved(w) /\ wk[w].job = j
  <2>1. Clears(w, j)'
    BY <1>0, <1>1 DEF HsetReserved, Goto, Clears, Processes
  <2>. QED
    BY <2>1
<1>2. CASE hash'[j].entry = hash[j].entry
  <2>1. PICK v \in Workers : Clears(v, j)
    BY <1>2 DEF MarkersHeld
  <2>2. CASE v # w
    <3>1. wk'[v] = wk[v]
      BY <2>2, ProcessFrame DEF ProcessStep
    <3>. QED
      BY <2>1, <3>1 DEF Clears
  <2>3. CASE v = w
    <3>0. Clears(w, j)
      BY <2>1, <2>3
    <3>1. CASE RunGet(w)
      BY <1>0, <3>0, <3>1 DEF RunGet, Clears, Processes
    <3>2. CASE RunUpsert(w)
      BY <1>0, <3>0, <3>2 DEF RunUpsert, Goto, Clears, Processes
    <3>3. CASE Process(w)
      BY <1>0, <3>0, <3>3 DEF Process, Clears, Processes
    <3>4. CASE SettleHget(w)
      BY <1>0, <1>2, <3>0, <3>4 DEF SettleHget, Clears, Processes
    <3>5. CASE SettleHset(w)
      BY <1>0, <3>0, <3>5 DEF SettleHset, Goto, Clears, Processes
    <3>6. CASE SettleXack(w)
      BY <1>0, <3>0, <3>6 DEF SettleXack, Goto, Clears, Processes
    <3>7. ~SettleHdel(w)
      <4>1. hash \in [Jobs -> Hashes] /\ hash[j] \in Hashes
        BY DEF TypeInv, TypeOK
      <4>. QED
        BY <3>0, <4>1 DEF SettleHdel, Clears, Hashes
    <3>. QED
      BY <3>0, <3>1, <3>2, <3>3, <3>4, <3>5, <3>6, <3>7
         DEF WorkerStep, Start, Housekeeping, AutoClaim, ReclaimHset, ReclaimXack,
             ReclaimHdel, Trim, Reserve, ReadGroup, HgetPayload, HsetReserved, Settle,
             FinalGet, FinalUpsert, Clears
  <2>. QED
    BY <2>2, <2>3
<1>. QED
  BY <1>1, <1>2, WorkerMarkers

LEMMA DropsClosedStep ==
    ASSUME TypeInv, DropsClosed, NEW w \in Workers, Start(w) \/ WorkerStep(w)
    PROVE  DropsClosed'
<1>. SUFFICES ASSUME NEW v \in Workers, wk'[v].pc = "reclaimHdel",
                     First(wk'[v].batch) \in pending'
              PROVE  FALSE
  BY DEF DropsClosed
<1>0. wk \in [Workers -> Processes] /\ wk[w] \in Processes
  BY DEF TypeInv, TypeOK
<1>1. CASE ReclaimXack(w) /\ v = w
  BY <1>0, <1>1 DEF ReclaimXack, Goto, Processes
<1>2. CASE wk'[v] = wk[v]
  <2>1. First(wk[v].batch) \notin pending
    BY <1>2 DEF DropsClosed
  <2>2. First(wk[v].batch) > lastDelivered
    BY <1>2, <2>1, PendingGrowth
  <2>3. lastDelivered \in Nat /\ wk[v].batch \subseteq 1 .. lastDelivered /\ wk[v].batch # {}
    BY <1>2 DEF TypeInv, TypeOK, WorkersOK, WorkerOK
  <2>4. wk[v].batch \in SUBSET Nat
    BY <2>3
  <2>. QED
    BY <2>2, <2>3, <2>4, FirstIsIn
<1>3. v # w => wk'[v] = wk[v]
  BY ProcessFrame DEF ProcessStep
<1>4. v = w => ReclaimXack(w)
  <2>. SUFFICES ASSUME v = w, ~ReclaimXack(w) PROVE wk'[w].pc # "reclaimHdel"
    OBVIOUS
  <2>1. CASE Start(w)
    BY <1>0, <2>1 DEF Start, ProcessAt
  <2>2. CASE AutoClaim(w)
    BY <1>0, <2>2 DEF AutoClaim, ProcessAt, Processes
  <2>3. CASE ReclaimHset(w) \/ ReclaimHdel(w) \/ Trim(w)
    <3>1. CASE ReclaimHset(w)
      BY <1>0, <3>1 DEF ReclaimHset, Goto, Processes
    <3>2. CASE ReclaimHdel(w)
      <4>1. \/ wk'[w].pc = "reclaimHset"
            \/ wk'[w] = ProcessAt("trim")
            \/ wk'[w] = [ProcessAt("autoclaim") EXCEPT !.start = wk[w].next]
        BY <1>0, <3>2 DEF ReclaimHdel, Processes
      <4>. QED
        BY <4>1 DEF ProcessAt
    <3>3. CASE Trim(w)
      BY <1>0, <3>3 DEF Trim, Goto, ProcessAt, Processes
    <3>. QED
      BY <2>3, <3>1, <3>2, <3>3
  <2>4. CASE Reserve(w) \/ RunGet(w) \/ RunUpsert(w) \/ Process(w)
    <3>1. CASE Reserve(w)
      BY <1>0, <3>1 DEF Reserve, ReadGroup, HgetPayload, HsetReserved, Goto, Processes
    <3>2. CASE RunGet(w) \/ RunUpsert(w)
      BY <1>0, <3>2 DEF RunGet, RunUpsert, Goto, Processes
    <3>3. CASE Process(w)
      BY <1>0, <3>3 DEF Process, Processes
    <3>. QED
      BY <2>4, <3>1, <3>2, <3>3
  <2>5. CASE SettleHget(w) \/ SettleHset(w) \/ SettleXack(w) \/ SettleHdel(w)
    BY <1>0, <2>5 DEF SettleHget, SettleHset, SettleXack, SettleHdel, Goto, Processes
  <2>6. CASE FinalGet(w) \/ FinalUpsert(w)
    <3>1. wk'[w] = ProcessAt("reserve") \/ wk'[w].pc = "finalUpsert"
      BY <1>0, <2>6 DEF FinalGet, FinalUpsert, Processes
    <3>. QED
      BY <3>1 DEF ProcessAt
  <2>. QED
    BY <2>1, <2>2, <2>3, <2>4, <2>5, <2>6 DEF WorkerStep, Housekeeping, Settle
<1>. QED
  BY <1>1, <1>2, <1>3, <1>4

LEMMA BooksKeptStep ==
    ASSUME TypeInv, UniqueIds, SingleWorkerPerJob, OwnMarker, BooksKept, [Next]_vars
    PROVE  BooksKept'
<1>. SUFFICES ASSUME NoFault' PROVE OpenHeld' /\ MarkersHeld' /\ DropsClosed'
  BY DEF BooksKept
<1>1. NoFault /\ SmoothStep /\ OpenHeld /\ MarkersHeld /\ DropsClosed
  BY NoFaultBefore, ConstantsAssumption DEF BooksKept
<1>2. CASE \E w \in Workers : Start(w) \/ WorkerStep(w)
  BY <1>1, <1>2, OpenHeldStep, MarkersHeldStep, DropsClosedStep
<1>3. ASSUME \A j \in Jobs : hash'[j].entry = hash[j].entry, UNCHANGED <<wk, pending>>
      PROVE  OpenHeld' /\ MarkersHeld' /\ DropsClosed'
  <2>1. \A w \in Workers : wk[w].pc \in JobSteps => wk[w].job \in Jobs
    BY DEF TypeInv, TypeOK, WorkersOK, WorkerOK
  <2>2. \A w \in Workers, e \in pending : Holds(w, e) => Holds(w, e)'
    BY <1>3, <2>1 DEF Holds, JobSteps
  <2>3. \A w \in Workers, e \in pending : Claims(w, e) => Claims(w, e)'
    BY <1>3 DEF Claims
  <2>4. \A w \in Workers, j \in Jobs : Clears(w, j) => Clears(w, j)'
    BY <1>3 DEF Clears
  <2>5. OpenHeld'
    BY <1>1, <1>3, <2>2, <2>3 DEF OpenHeld
  <2>6. MarkersHeld'
    BY <1>1, <1>3, <2>4 DEF MarkersHeld
  <2>. QED
    BY <1>1, <1>3, <2>5, <2>6 DEF DropsClosed
<1>4. CASE UNCHANGED <<hash, pending, wk>>
  BY <1>3, <1>4
<1>. QED
  <2>1. ASSUME NEW r \in Requests,
               (\E i \in Jobs : SubmitHset(r, i) \/ CancelHset(r, i)) \/ HandlerStep(r)
        PROVE  OpenHeld' /\ MarkersHeld' /\ DropsClosed'
    <3>1. UNCHANGED <<wk, pending>>
      BY <2>1, OtherFrame DEF OtherStep
    <3>2. \A j \in Jobs : hash'[j].entry = hash[j].entry
      BY <2>1, HandlerMarkers
    <3>. QED
      BY <1>3, <3>1, <3>2
  <2>. QED
    BY <1>1, <1>2, <1>4, <2>1 DEF SmoothStep

\* With uuid job ids and no fault, whatever the order of handlers, workers and
\* reclaimers: once everything is at rest no delivery is open, so the next
\* reclaimer fails nothing, and no hash keeps a marker of an entry.
THEOREM RestLeavesNothing == ASSUME ~ClientReferences PROVE Spec => []NothingLeftBehind
<1>1. Init => BooksKept
  BY DEF Init, BooksKept, OpenHeld, MarkersHeld, DropsClosed, NoHash, ProcessAt
<1>2. TypeInv /\ UniqueIds /\ SingleWorkerPerJob /\ OwnMarker /\ BooksKept /\ [Next]_vars
          => BooksKept'
  BY BooksKeptStep
<1>3. BooksKept => NothingLeftBehind
  BY DEF BooksKept, NoFault, NothingLeftBehind, AtRest, OpenHeld, MarkersHeld, Holds,
     Claims, Clears
<1>. QED
  BY <1>1, <1>2, <1>3, TypeInvInvariant, UniqueIdsInvariant, OneWorkerPerJob,
     XackOwnDelivery, PTL DEF Spec

-----------------------------------------------------------------------------
(* A finished job stays finished.                                           *)

\* An entry that is idle, or being reclaimed, is nobody's delivery.
Abandoned ==
    \A w \in Workers :
        /\ wk[w].entry \notin stale
        /\ \A v \in Workers : wk[w].entry \notin wk[v].batch

\* The steps of a worker before it processes its job.
Beginning == {"hgetPayload", "hsetReserved", "runGet", "runUpsert"}

\* A delivery that is not yet processed has no verdict.
BeginsUnjudged ==
    \A w \in Workers : wk[w].pc \in Beginning => wk[w].entry \notin judged

\* A job has a verdict for one of its entries.
Pronounced(j) == \E e \in judged : stream[e] = j

\* A job reads as finished only after a verdict on one of its entries.
FinishedPronounced == \A j \in Jobs : hash[j].state \in Finished => Pronounced(j)

\* XAUTOCLAIM hands out what is idle.
LEMMA AutoClaimedIdle ==
    ASSUME NEW pend \in SUBSET Nat, NEW idle, NEW cut \in Nat, NEW start, NEW count
    PROVE  AutoClaimed(AutoClaimPage(pend, idle, cut, start, count), cut) \subseteq idle
<1>. DEFINE page == AutoClaimPage(pend, idle, cut, start, count)
<1>1. ASSUME NEW e \in page
      PROVE  e \in pend /\ (e \in idle \/ e <= cut)
  BY <1>1 DEF AutoClaimPage
<1>. HIDE DEF page
<1>2. ASSUME NEW e \in page, e > cut
      PROVE  e \in idle
  <2>1. e \in Nat
    BY <1>1
  <2>2. ~(e <= cut)
    BY <1>2, <2>1
  <2>. QED
    BY <1>1, <2>2
<1>. QED
  BY <1>2 DEF AutoClaimed, page

\* What a process may reclaim was idle before.
LEMMA ReclaimsIdle ==
    ASSUME TypeInv, NEW w \in Workers, ProcessStep(w)
    PROVE  wk'[w].batch \subseteq wk[w].batch \cup stale /\ stale' \subseteq stale
<1>1. wk \in [Workers -> Processes] /\ wk[w] \in Processes
  BY DEF TypeInv, TypeOK
<1>2. CASE AutoClaim(w)
  <2>. DEFINE page == AutoClaimPage(pending, stale, trimmed, wk[w].start, ReclaimCount)
  <2>1. trimmed \in Nat /\ pending \in SUBSET Nat
    BY DEF TypeInv, TypeOK
  <2>2. AutoClaimed(page, trimmed) \subseteq stale
    BY <2>1, AutoClaimedIdle
  <2>3. /\ stale' = stale \ page
        /\ wk'[w].batch \in {{}, AutoClaimed(page, trimmed)}
    BY <1>1, <1>2 DEF AutoClaim, ProcessAt, Processes
  <2>. HIDE DEF page
  <2>. QED
    BY <2>2, <2>3
<1>3. CASE Housekeeping(w) /\ ~AutoClaim(w)
  <2>1. CASE Trim(w)
    BY <1>1, <2>1 DEF Trim, Goto, streamVars, ProcessAt, Processes
  <2>2. CASE ReclaimHset(w)
    BY <1>1, <2>2 DEF ReclaimHset, Goto, streamVars, ProcessAt, Processes
  <2>3. CASE ReclaimXack(w)
    BY <1>1, <2>3 DEF ReclaimXack, Goto, streamVars, ProcessAt, Processes
  <2>4. CASE ReclaimHdel(w)
    BY <1>1, <2>4 DEF ReclaimHdel, Goto, streamVars, ProcessAt, Processes
  <2>. QED
    BY <1>3, <2>1, <2>2, <2>3, <2>4 DEF Housekeeping
<1>4. CASE Reserve(w) \/ RunGet(w) \/ RunUpsert(w) \/ Process(w)
  <2>1. CASE ReadGroup(w)
    BY <1>1, <2>1 DEF ReadGroup, Goto, streamVars, Processes
  <2>2. CASE HgetPayload(w)
    BY <1>1, <2>2 DEF HgetPayload, Goto, streamVars, Processes
  <2>3. CASE HsetReserved(w)
    BY <1>1, <2>3 DEF HsetReserved, Goto, streamVars, Processes
  <2>4. CASE RunGet(w)
    BY <1>1, <2>4 DEF RunGet, Goto, streamVars, Processes
  <2>5. CASE RunUpsert(w)
    BY <1>1, <2>5 DEF RunUpsert, Goto, streamVars, Processes
  <2>6. CASE Process(w)
    BY <1>1, <2>6 DEF Process, Goto, streamVars, Processes
  <2>. QED
    BY <1>4, <2>1, <2>2, <2>3, <2>4, <2>5, <2>6 DEF Reserve
<1>5. CASE Settle(w)
  <2>1. CASE SettleHget(w)
    BY <1>1, <2>1 DEF SettleHget, Goto, streamVars, ProcessAt, Processes
  <2>2. CASE SettleHset(w)
    BY <1>1, <2>2 DEF SettleHset, Goto, streamVars, ProcessAt, Processes
  <2>3. CASE SettleXack(w)
    BY <1>1, <2>3 DEF SettleXack, Goto, streamVars, ProcessAt, Processes
  <2>4. CASE SettleHdel(w)
    BY <1>1, <2>4 DEF SettleHdel, Goto, streamVars, ProcessAt, Processes
  <2>5. CASE FinalGet(w)
    BY <1>1, <2>5 DEF FinalGet, Goto, streamVars, ProcessAt, Processes
  <2>6. CASE FinalUpsert(w)
    BY <1>1, <2>6 DEF FinalUpsert, Goto, streamVars, ProcessAt, Processes
  <2>. QED
    BY <1>5, <2>1, <2>2, <2>3, <2>4, <2>5, <2>6 DEF Settle
<1>6. CASE Start(w) \/ Crash(w) \/ PollEmpty(w)
  BY <1>1, <1>6 DEF Start, Crash, PollEmpty, ProcessAt, vars, streamVars, Processes
<1>7. CASE RedisError(w)
  <2>1. AfterError(wk[w]).batch \subseteq wk[w].batch
    BY <1>1 DEF AfterError, ProcessAt, Processes
  <2>. QED
    BY <1>1, <1>7, <2>1 DEF RedisError, streamVars
<1>. QED
  BY <1>2, <1>3, <1>4, <1>5, <1>6, <1>7 DEF ProcessStep, WorkerStep, Housekeeping

LEMMA AbandonedStep ==
    ASSUME ~LongRenders, TypeInv, Abandoned, [Next]_vars
    PROVE  Abandoned'
<1>0. /\ wk \in [Workers -> Processes] /\ lastDelivered \in Nat
      /\ stale \subseteq 1 .. lastDelivered
      /\ \A v \in Workers : wk[v].batch \subseteq 1 .. lastDelivered
  BY DEF TypeInv, TypeOK, WorkersOK, WorkerOK
<1>1. ASSUME NEW w \in Workers, ProcessStep(w)
      PROVE  Abandoned'
  <2>1. /\ \A v \in Workers : v # w => wk'[v] = wk[v]
        /\ wk'[w].batch \subseteq wk[w].batch \cup stale
        /\ stale' \subseteq stale
    BY <1>1, ProcessFrame, ReclaimsIdle
  <2>2. wk'[w].entry \in {0, wk[w].entry}
            \/ (wk'[w].entry \in Nat /\ lastDelivered < wk'[w].entry)
    BY <1>1, EntryKept, ReadGroupEntry
  <2>. DEFINE idle == stale \cup UNION {wk[v].batch : v \in Workers}
  <2>3. /\ \A v \in Workers : wk[v].batch \subseteq idle
        /\ stale \subseteq idle
        /\ idle \subseteq 1 .. lastDelivered
        /\ \A v \in Workers : wk[v].entry \notin idle
    BY <1>0 DEF Abandoned
  <2>. HIDE DEF idle
  <2>4. \A v \in Workers : wk'[v].batch \subseteq idle
    BY <2>1, <2>3
  <2>5. \A v \in Workers : wk'[v].entry \notin idle
    BY <1>0, <2>1, <2>2, <2>3
  <2>. QED
    BY <2>1, <2>3, <2>4, <2>5 DEF Abandoned
<1>2. ASSUME NEW e \in pending, EntryAges(e)
      PROVE  Abandoned'
  <2>1. \A v \in Workers : wk[v].entry # e
    BY <1>2 DEF EntryAges, InHand
  <2>2. wk' = wk /\ stale' = stale \cup {e}
    BY <1>2 DEF EntryAges
  <2>. QED
    BY <2>1, <2>2 DEF Abandoned
<1>3. CASE UNCHANGED <<wk, stale>>
  BY <1>3 DEF Abandoned
<1>. QED
  BY <1>1, <1>2, <1>3, NextCases DEF OtherStep, SubmitHset, CancelHset, HandlerStep, SubmitXadd,
     SubmitUpsert, CancelGet, CancelUpsert, RequestFails, EvictHash, vars, streamVars

\* A verdict is on the process's own delivery, which it is done with, or on
\* an entry that it reclaims.
LEMMA VerdictOnOwn ==
    ASSUME TypeInv, NEW w \in Workers, ProcessStep(w)
    PROVE  \/ judged' = judged
           \/ judged' = judged \cup {wk[w].entry} /\ wk'[w].pc \notin Beginning
                  /\ wk[w].entry # 0
           \/ wk'[w].entry = 0 /\ \E e \in wk[w].batch : judged' = judged \cup {e}
<1>1. wk \in [Workers -> Processes] /\ wk[w] \in Processes /\ WorkerOK(wk[w], stream, lastDelivered)
  BY DEF TypeInv, TypeOK, WorkersOK
<1>2. CASE SettleHset(w)
  <2>1. judged' = judged \cup {wk[w].entry} /\ wk'[w].pc \in {"finalGet", "settleXack"}
    BY <1>1, <1>2 DEF SettleHset, Goto, Processes
  <2>2. wk[w].entry # 0
    BY <1>1, <1>2 DEF SettleHset, WorkerOK, JobSteps
  <2>. QED
    BY <2>1, <2>2 DEF Beginning
<1>3. CASE ReclaimHset(w)
  <2>1. wk[w].batch # {} /\ wk[w].batch \in SUBSET Nat /\ wk[w].entry = 0
    BY <1>1, <1>3 DEF ReclaimHset, WorkerOK, Processes, JobSteps
  <2>2. First(wk[w].batch) \in wk[w].batch
    BY <2>1, FirstIsIn
  <2>3. judged' = judged \cup {First(wk[w].batch)} /\ wk'[w].entry = 0
    BY <1>1, <1>3, <2>1 DEF ReclaimHset, Goto, Processes
  <2>. QED
    BY <2>2, <2>3
<1>4. CASE UNCHANGED judged
  BY <1>4
<1>. QED
  BY <1>2, <1>3, <1>4 DEF ProcessStep, WorkerStep, Start, PollEmpty, Crash, RedisError, vars,
     Housekeeping, AutoClaim, Trim, ReclaimXack, ReclaimHdel, Reserve, ReadGroup, HgetPayload,
     HsetReserved, RunGet, RunUpsert, Process, Settle, SettleHget, SettleXack, SettleHdel,
     FinalGet, FinalUpsert

\* A worker that begins with a delivery has just read it, or was beginning.
LEMMA BeginsOnce ==
    ASSUME TypeInv, NEW w \in Workers, ProcessStep(w), wk'[w].pc \in Beginning
    PROVE  ReadGroup(w) \/ (wk[w].pc \in Beginning /\ wk'[w].entry = wk[w].entry)
<1>1. wk \in [Workers -> Processes] /\ wk[w] \in Processes
  BY DEF TypeInv, TypeOK
<1>2. CASE HgetPayload(w) \/ HsetReserved(w) \/ RunGet(w) \/ RunUpsert(w)
  BY <1>1, <1>2 DEF HgetPayload, HsetReserved, RunGet, RunUpsert, Goto, Processes, Beginning
<1>3. CASE Housekeeping(w)
  <2>1. CASE AutoClaim(w)
    BY <1>1, <2>1 DEF AutoClaim, Goto, ProcessAt, Processes, Beginning
  <2>2. CASE Trim(w)
    BY <1>1, <2>2 DEF Trim, Goto, ProcessAt, Processes, Beginning
  <2>3. CASE ReclaimHset(w)
    BY <1>1, <2>3 DEF ReclaimHset, Goto, ProcessAt, Processes, Beginning
  <2>4. CASE ReclaimXack(w)
    BY <1>1, <2>4 DEF ReclaimXack, Goto, ProcessAt, Processes, Beginning
  <2>5. CASE ReclaimHdel(w)
    BY <1>1, <2>5 DEF ReclaimHdel, Goto, ProcessAt, Processes, Beginning
  <2>. QED
    BY <1>3, <2>1, <2>2, <2>3, <2>4, <2>5 DEF Housekeeping
<1>4. CASE Process(w) \/ Settle(w)
  <2>1. CASE Process(w)
    BY <1>1, <2>1 DEF Process, Goto, ProcessAt, Processes, Beginning
  <2>2. CASE SettleHget(w)
    BY <1>1, <2>2 DEF SettleHget, Goto, ProcessAt, Processes, Beginning
  <2>3. CASE SettleHset(w)
    BY <1>1, <2>3 DEF SettleHset, Goto, ProcessAt, Processes, Beginning
  <2>4. CASE SettleXack(w)
    BY <1>1, <2>4 DEF SettleXack, Goto, ProcessAt, Processes, Beginning
  <2>5. CASE SettleHdel(w)
    BY <1>1, <2>5 DEF SettleHdel, Goto, ProcessAt, Processes, Beginning
  <2>6. CASE FinalGet(w)
    BY <1>1, <2>6 DEF FinalGet, Goto, ProcessAt, Processes, Beginning
  <2>7. CASE FinalUpsert(w)
    BY <1>1, <2>7 DEF FinalUpsert, Goto, ProcessAt, Processes, Beginning
  <2>. QED
    BY <1>4, <2>1, <2>2, <2>3, <2>4, <2>5, <2>6, <2>7 DEF Settle
<1>5. CASE Start(w) \/ Crash(w) \/ PollEmpty(w)
  BY <1>1, <1>5 DEF Start, Crash, PollEmpty, ProcessAt, vars, Processes, Beginning
<1>6. CASE RedisError(w)
  <2>1. AfterError(wk[w]).pc \notin Beginning
    BY <1>1, <1>6 DEF RedisError, AfterError, ProcessAt, Processes, Beginning
  <2>. QED
    BY <1>1, <1>6, <2>1 DEF RedisError
<1>. QED
  BY <1>2, <1>3, <1>4, <1>5, <1>6 DEF ProcessStep, WorkerStep, Reserve

LEMMA BeginsUnjudgedStep ==
    ASSUME TypeInv, DeliveredOnce, Abandoned, BeginsUnjudged, [Next]_vars
    PROVE  BeginsUnjudged'
<1>0. /\ wk \in [Workers -> Processes] /\ lastDelivered \in Nat
      /\ judged \subseteq 1 .. lastDelivered
  BY DEF TypeInv, TypeOK
<1>1. ASSUME NEW w \in Workers, ProcessStep(w)
      PROVE  BeginsUnjudged'
  <2>. SUFFICES ASSUME NEW v \in Workers, wk'[v].pc \in Beginning
                PROVE  wk'[v].entry \notin judged'
    BY DEF BeginsUnjudged
  <2>0. /\ \A u \in Workers : u # w => wk'[u] = wk[u]
    BY <1>1, ProcessFrame
  <2>1. CASE v = w /\ ReadGroup(w)
    <3>1. judged' = judged /\ wk'[w].entry \in Nat /\ lastDelivered < wk'[w].entry
      BY <2>1, ReadGroupEntry DEF ReadGroup
    <3>. QED
      BY <1>0, <2>1, <3>1
  <2>2. CASE v # w \/ ~ReadGroup(w)
    <3>1. wk[v].pc \in Beginning /\ wk'[v].entry = wk[v].entry
      BY <1>1, <2>0, <2>2, BeginsOnce
    <3>2. wk[v].entry # 0 /\ wk[v].entry \notin judged
      BY <3>1 DEF BeginsUnjudged, TypeInv, WorkersOK, WorkerOK, Beginning, JobSteps
    <3>3. CASE judged' = judged
      BY <3>1, <3>2, <3>3
    <3>4. CASE judged' = judged \cup {wk[w].entry} /\ wk'[w].pc \notin Beginning /\ wk[w].entry # 0
      <4>1. v # w
        BY <3>4
      <4>2. wk[v].entry # wk[w].entry
        BY <3>4, <4>1 DEF DeliveredOnce
      <4>. QED
        BY <3>1, <3>2, <3>4, <4>2
    <3>5. CASE \E e \in wk[w].batch : judged' = judged \cup {e}
      <4>1. wk[v].entry \notin wk[w].batch
        BY DEF Abandoned
      <4>. QED
        BY <3>1, <3>2, <3>5, <4>1
    <3>. QED
      BY <1>1, <3>3, <3>4, <3>5, VerdictOnOwn
  <2>. QED
    BY <2>1, <2>2
<1>2. CASE UNCHANGED <<wk, judged>>
  BY <1>2 DEF BeginsUnjudged
<1>. QED
  BY <1>1, <1>2, NextCases, OtherFrame DEF vars

\* The state that a process writes.
LEMMA StatesWritten ==
    ASSUME TypeInv, VerdictsWritten, NEW w \in Workers, ProcessStep(w), NEW j \in Jobs,
           hash'[j].state # hash[j].state
    PROVE  \/ hash'[j].state \notin Finished /\ wk[w].pc \in Beginning /\ wk[w].job = j
           \/ hash'[j].state \in Finished /\ \E e \in judged' : stream[e] = j
<1>0. /\ hash \in [Jobs -> Hashes] /\ hash[j] \in Hashes
      /\ wk \in [Workers -> Processes] /\ wk[w] \in Processes
      /\ WorkerOK(wk[w], stream, lastDelivered)
  BY DEF TypeInv, TypeOK, WorkersOK
<1>1. CASE HsetReserved(w)
  <2>1. wk[w].pc \in Beginning /\ wk[w].job = j /\ hash'[j].state = "reserved"
    BY <1>0, <1>1 DEF HsetReserved, Hashes, Beginning
  <2>. QED
    BY <2>1 DEF Finished
<1>2. CASE RunUpsert(w)
  <2>1. wk[w].pc \in Beginning /\ wk[w].job = j
    BY <1>0, <1>2 DEF RunUpsert, Beginning
  <2>2. hash'[j] = MarkFrom(wk[w].snap, hash[j], "running", Missing)
    BY <1>0, <1>2, <2>1 DEF RunUpsert
  <2>3. hash'[j].state = "running"
    BY <1>0, <2>2 DEF MarkFrom, Upsert, Hashes
  <2>. QED
    BY <2>1, <2>3 DEF Finished
<1>3. CASE ReclaimHset(w)
  <2>. DEFINE e == First(wk[w].batch)
  <2>1. stream[e] = j /\ hash'[j].state = "failed" /\ e \in judged'
    BY <1>0, <1>3 DEF ReclaimHset, Hashes
  <2>. QED
    BY <2>1 DEF Finished
<1>4. CASE SettleHset(w)
  <2>1. wk[w].job = j /\ wk[w].entry \in judged' /\ stream[wk[w].entry] = j
    BY <1>0, <1>4 DEF SettleHset, Hashes, WorkerOK, JobSteps
  <2>2. hash'[j].state = SettledState(wk[w].outcome)
    BY <1>0, <1>4, <2>1 DEF SettleHset, Hashes
  <2>. QED
    BY <2>1, <2>2 DEF SettledState, Finished
<1>5. CASE FinalUpsert(w)
  <2>1. /\ wk[w].job = j /\ stream[wk[w].entry] = j
        /\ wk[w].entry \in judged /\ judged' = judged
    BY <1>0, <1>5 DEF FinalUpsert, WorkerOK, JobSteps, VerdictsWritten
  <2>2. hash'[j] = MarkFrom(wk[w].snap, hash[j], wk[w].outcome,
                            IF wk[w].outcome = "failed" THEN "error" ELSE "ok")
    BY <1>0, <1>5, <2>1 DEF FinalUpsert
  <2>3. hash'[j].state = wk[w].outcome
    BY <1>0, <2>2 DEF MarkFrom, Upsert, Hashes
  <2>. QED
    BY <1>0, <2>1, <2>3 DEF Processes, Outcomes, Finished
<1>6. CASE ReclaimHdel(w) \/ SettleHdel(w)
  BY <1>0, <1>6 DEF ReclaimHdel, SettleHdel, Hashes
<1>7. CASE UNCHANGED hash
  BY <1>7
<1>. QED
  BY <1>1, <1>2, <1>3, <1>4, <1>5, <1>6, <1>7 DEF ProcessStep, WorkerStep, Start, PollEmpty,
     Crash, RedisError, vars, Housekeeping, AutoClaim, Trim, ReclaimXack, Reserve, ReadGroup,
     HgetPayload, RunGet, Process, Settle, SettleHget, SettleXack, FinalGet

\* The state that the API and the environment write.
LEMMA StatesAsked ==
    ASSUME TypeInv, OtherStep, NEW j \in Jobs, hash'[j].state # hash[j].state
    PROVE  \/ hash'[j].state \in {"cancelled", Absent}
           \/ hash'[j].state = "pending" /\ \E r \in Requests : SubmitHset(r, j)
           \/ /\ hash'[j].state = "pending"
              /\ \E r \in Requests : rq[r].job = j /\ rq[r].pc = "upsert" /\ rq'[r].pc = "done"
<1>0. /\ hash \in [Jobs -> Hashes] /\ hash[j] \in Hashes /\ rq \in [Requests -> Handlers]
      /\ HandlersOK
  BY DEF TypeInv, TypeOK
<1>1. ASSUME NEW r \in Requests, NEW i \in Jobs, SubmitHset(r, i)
      PROVE  hash'[j].state = "pending" /\ SubmitHset(r, j)
  BY <1>0, <1>1 DEF SubmitHset, Hashes
<1>2. ASSUME NEW r \in Requests, NEW i \in Jobs, CancelHset(r, i)
      PROVE  hash'[j].state = "cancelled"
  BY <1>0, <1>2 DEF CancelHset, Hashes
<1>3. ASSUME NEW r \in Requests, SubmitUpsert(r)
      PROVE  /\ hash'[j].state = "pending"
             /\ rq[r].job = j /\ rq[r].pc = "upsert" /\ rq'[r].pc = "done"
  <2>1. rq[r].job = j /\ rq[r].pc = "upsert" /\ rq'[r].pc = "done"
    BY <1>0, <1>3 DEF SubmitUpsert, Handlers
  <2>2. hash'[j] = Upsert(hash[j], "pending", Full, Missing)
    BY <1>0, <1>3, <2>1 DEF SubmitUpsert
  <2>. QED
    BY <1>0, <2>1, <2>2 DEF Upsert, Hashes
<1>4. ASSUME NEW r \in Requests, CancelUpsert(r)
      PROVE  hash'[j].state = "cancelled"
  <2>1. rq[r].job = j
    BY <1>0, <1>4 DEF CancelUpsert
  <2>2. hash'[j] = MarkFrom(rq[r].snap, hash[j], "cancelled", Missing)
    BY <1>0, <1>4, <2>1 DEF CancelUpsert
  <2>. QED
    BY <1>0, <2>2 DEF MarkFrom, Upsert, Hashes
<1>5. ASSUME NEW i \in Jobs, EvictHash(i)
      PROVE  hash'[j].state = Absent
  BY <1>0, <1>5 DEF EvictHash, NoHash
<1>. QED
  BY <1>1, <1>2, <1>3, <1>4, <1>5 DEF OtherStep, HandlerStep, SubmitXadd, CancelGet,
     RequestFails, EntryAges

LEMMA FinishedPronouncedStep ==
    ASSUME TypeInv, VerdictsWritten, FinishedPronounced, [Next]_vars
    PROVE  FinishedPronounced'
<1>. SUFFICES ASSUME NEW j \in Jobs, hash'[j].state \in Finished
              PROVE  Pronounced(j)'
  BY DEF FinishedPronounced
<1>1. ASSUME NEW w \in Workers, ProcessStep(w)
      PROVE  Pronounced(j)'
  <2>1. stream' = stream /\ judged \subseteq judged'
    BY <1>1, ProcessFrame
  <2>2. CASE hash'[j].state = hash[j].state
    BY <2>1, <2>2 DEF FinishedPronounced, Pronounced
  <2>3. CASE hash'[j].state # hash[j].state
    BY <1>1, <2>1, <2>3, StatesWritten DEF Pronounced
  <2>. QED
    BY <2>2, <2>3
<1>2. CASE OtherStep
  <2>1. hash'[j].state = hash[j].state
    BY <1>2, StatesAsked DEF Finished, Absent
  <2>2. PICK e \in judged : stream[e] = j
    BY <2>1 DEF FinishedPronounced, Pronounced
  <2>3. judged' = judged /\ \A d \in 1 .. Len(stream) : stream'[d] = stream[d]
    BY <1>2, OtherFrame
  <2>4. judged \subseteq 1 .. Len(stream)
    BY DEF TypeInv, TypeOK
  <2>. QED
    BY <2>2, <2>3, <2>4 DEF Pronounced
<1>3. CASE UNCHANGED vars
  BY <1>3 DEF vars, streamVars, FinishedPronounced, Pronounced
<1>. QED
  BY <1>1, <1>2, <1>3, NextCases

\* A step that reopens a finished job is the last one of its submit handler.
LEMMA ReopenedBySubmit ==
    ASSUME TypeInv, UniqueIds, VerdictsWritten, BeginsUnjudged, FinishedPronounced,
           ~ClientReferences, [Next]_vars, NEW j \in Jobs,
           hash[j].state \in Finished, hash'[j].state \in JobStates \ Terminal
    PROVE  \E r \in Requests : rq[r].job = j /\ rq[r].pc = "upsert" /\ rq'[r].pc = "done"
<1>0. /\ hash'[j].state \notin Finished \cup {"cancelled", Absent}
      /\ hash'[j].state # hash[j].state
  BY DEF Terminal, JobStates, Finished, Absent
<1>1. PICK e \in judged : stream[e] = j
  BY DEF FinishedPronounced, Pronounced
<1>2. e \in Entries
  BY <1>1 DEF TypeInv, TypeOK, Entries
<1>3. ASSUME NEW w \in Workers, ProcessStep(w)
      PROVE  FALSE
  <2>1. wk[w].pc \in Beginning /\ wk[w].job = j
    BY <1>0, <1>3, StatesWritten
  <2>2. wk[w].entry \in Entries /\ stream[wk[w].entry] = j
    BY <2>1 DEF TypeInv, TypeOK, WorkersOK, WorkerOK, Beginning, JobSteps, Entries
  <2>3. wk[w].entry = e
    BY <1>1, <1>2, <2>2 DEF UniqueIds
  <2>. QED
    BY <1>1, <2>1, <2>3 DEF BeginsUnjudged
<1>4. ASSUME NEW r \in Requests, SubmitHset(r, j)
      PROVE  FALSE
  <2>1. \A s \in Requests : rq[s].job # j
    BY <1>4 DEF SubmitHset, NewId
  <2>. QED
    BY <1>1, <1>2, <2>1 DEF UniqueIds
<1>5. CASE OtherStep
  BY <1>0, <1>4, <1>5, StatesAsked
<1>6. ~UNCHANGED vars
  BY <1>0 DEF vars
<1>. QED
  BY <1>3, <1>5, <1>6, NextCases

\* With uuid job ids, and as long as no job outlasts the visibility timeout, a
\* job that reads as finished is made pending, reserved or running again by no
\* step but the upsert with which its own submit handler ends, whatever
\* crashes, restarts, exceptions, evictions and reclaiming there are.
THEOREM FinishedStaysFinished ==
    ASSUME ~ClientReferences, ~LongRenders PROVE Spec => FinishedNotReopened
<1>1. Init => VerdictsWritten /\ Abandoned /\ BeginsUnjudged /\ FinishedPronounced
  BY DEF Init, VerdictsWritten, Abandoned, BeginsUnjudged, FinishedPronounced, ProcessAt,
         NoHash, Finished, Absent
<1>2. TypeInv /\ VerdictsWritten /\ [Next]_vars => VerdictsWritten'
  BY VerdictsWrittenStep
<1>3. TypeInv /\ Abandoned /\ [Next]_vars => Abandoned'
  BY AbandonedStep
<1>4. TypeInv /\ DeliveredOnce /\ Abandoned /\ BeginsUnjudged /\ [Next]_vars => BeginsUnjudged'
  BY BeginsUnjudgedStep
<1>5. TypeInv /\ VerdictsWritten /\ FinishedPronounced /\ [Next]_vars => FinishedPronounced'
  BY FinishedPronouncedStep
<1>. DEFINE Kept == \A j \in Jobs :
                       hash[j].state \in Finished /\ hash'[j].state \in JobStates \ Terminal
                           => \E r \in Requests : /\ rq[r].job = j
                                                  /\ rq[r].pc = "upsert"
                                                  /\ rq'[r].pc = "done"
<1>6. TypeInv /\ UniqueIds /\ VerdictsWritten /\ BeginsUnjudged /\ FinishedPronounced
          /\ [Next]_vars => [Kept]_vars
  BY ReopenedBySubmit
<1>. QED
  BY <1>1, <1>2, <1>3, <1>4, <1>5, <1>6, TypeInvInvariant, UniqueIdsInvariant,
     OneWorkerPerDelivery, PTL DEF Spec, FinishedNotReopened

-----------------------------------------------------------------------------
(* A delivery goes one way.                                                 *)

\* How far a delivery has come.
Stage == [waiting |-> 0, handedOut |-> 1, judged |-> 2, closed |-> 3]

\* No delivery goes back: what was handed out never waits again, what has a
\* verdict keeps it, and what is off the books stays off them.
DeliveriesAdvance ==
    [][\A e \in Entries : Stage[DeliveryStatus(e)] <= Stage[DeliveryStatus(e)']]_vars

\* The positions of the consumer group only grow, and what becomes pending is
\* later than all of them.
LEMMA GroupAdvances ==
    ASSUME TypeInv, [Next]_vars
    PROVE  /\ lastDelivered <= lastDelivered' /\ trimmed <= trimmed'
           /\ judged \subseteq judged'
           /\ \A e \in pending' : e \in pending \/ (lastDelivered < e /\ trimmed < e)
<1>0. lastDelivered \in Nat /\ trimmed \in Nat
  BY PositionTypes
<1>1. ASSUME NEW w \in Workers, ReadGroup(w)
      PROVE  /\ UNCHANGED <<trimmed, judged>> /\ lastDelivered <= lastDelivered'
             /\ \A e \in pending' : e \in pending \/ (lastDelivered < e /\ trimmed < e)
  <2>. DEFINE n == NextUnread(lastDelivered, trimmed)
  <2>1. lastDelivered < n /\ trimmed < n /\ n \in Nat
    BY <1>0 DEF NextUnread, Larger
  <2>2. /\ UNCHANGED <<trimmed, judged>> /\ lastDelivered' = n
        /\ pending' = pending \cup {n}
    BY <1>1 DEF ReadGroup
  <2>. HIDE DEF n
  <2>. QED
    BY <1>0, <2>1, <2>2
<1>2. ASSUME NEW w \in Workers, Trim(w)
      PROVE  UNCHANGED <<lastDelivered, judged, pending>> /\ trimmed <= trimmed'
  BY <1>0, <1>2 DEF Trim, TrimPoints
<1>3. ASSUME NEW w \in Workers, ProcessStep(w), ~ReadGroup(w), ~Trim(w)
      PROVE  UNCHANGED <<lastDelivered, trimmed>> /\ pending' \subseteq pending
  BY <1>3 DEF ProcessStep, WorkerStep, Start, PollEmpty, Crash, RedisError, vars, streamVars,
     Housekeeping, AutoClaim, ReclaimHset, ReclaimXack, ReclaimHdel, Reserve, HgetPayload,
     HsetReserved, RunGet, RunUpsert, Process, Settle, SettleHget, SettleHset, SettleXack,
     SettleHdel, FinalGet, FinalUpsert
<1>4. ASSUME NEW w \in Workers, ProcessStep(w)
      PROVE  judged \subseteq judged'
  BY <1>4, ProcessFrame
<1>5. CASE UNCHANGED <<lastDelivered, trimmed, pending, judged>>
  BY <1>0, <1>5
<1>. QED
  BY <1>0, <1>1, <1>2, <1>3, <1>4, <1>5, NextCases, OtherFrame DEF vars, streamVars

LEMMA AdvanceStep ==
    ASSUME TypeInv, [Next]_vars, NEW e \in Entries
    PROVE  Stage[DeliveryStatus(e)] <= Stage[DeliveryStatus(e)']
<1>1. /\ lastDelivered \in Nat /\ trimmed \in Nat /\ e \in Nat
      /\ judged \subseteq 1 .. lastDelivered
      /\ lastDelivered' \in Nat /\ trimmed' \in Nat
  <2>1. TypeInv'
    BY ConstantsAssumption, NextTypeInv
  <2>. QED
    BY <2>1, PositionTypes DEF TypeInv, TypeOK, Entries
<1>2. /\ lastDelivered <= lastDelivered' /\ trimmed <= trimmed'
      /\ judged \subseteq judged'
      /\ e \in pending' => e \in pending \/ (lastDelivered < e /\ trimmed < e)
  BY GroupAdvances
<1>3. DeliveryStatus(e) \in {"waiting", "handedOut", "judged", "closed"}
      /\ DeliveryStatus(e)' \in {"waiting", "handedOut", "judged", "closed"}
  BY DEF DeliveryStatus
<1>4. CASE DeliveryStatus(e) = "waiting"
  BY <1>3, <1>4 DEF Stage
<1>5. CASE DeliveryStatus(e) = "handedOut"
  <2>1. e <= lastDelivered
    BY <1>1, <1>5 DEF DeliveryStatus
  <2>2. DeliveryStatus(e)' # "waiting"
    BY <1>1, <1>2, <2>1 DEF DeliveryStatus
  <2>. QED
    BY <1>3, <1>5, <2>2 DEF Stage
<1>6. CASE DeliveryStatus(e) = "judged"
  <2>1. e <= lastDelivered /\ e \in judged
    BY <1>1, <1>6 DEF DeliveryStatus
  <2>2. DeliveryStatus(e)' \in {"judged", "closed"}
    BY <1>1, <1>2, <2>1 DEF DeliveryStatus
  <2>. QED
    BY <1>6, <2>2 DEF Stage
<1>7. CASE DeliveryStatus(e) = "closed"
  <2>1. (e <= lastDelivered /\ e \notin pending) \/ (e > lastDelivered /\ e <= trimmed)
    BY <1>1, <1>7 DEF DeliveryStatus
  <2>2. e \notin pending'
    <3>1. e \notin pending
      BY <1>1, <2>1, PositionTypes
    <3>. QED
      BY <1>1, <1>2, <2>1, <3>1
  <2>3. e <= lastDelivered' \/ e <= trimmed'
    BY <1>1, <1>2, <2>1
  <2>4. DeliveryStatus(e)' = "closed"
    BY <1>1, <2>2, <2>3 DEF DeliveryStatus
  <2>. QED
    BY <1>7, <2>4 DEF Stage
<1>. QED
  BY <1>3, <1>4, <1>5, <1>6, <1>7

\* Whatever ids clients choose and whatever fails, no delivery goes back.  The
\* ledger says this only where its refinement holds, with uuid ids.
THEOREM DeliveriesGoOneWay == Spec => DeliveriesAdvance
<1>. DEFINE Advance == \A e \in Entries : Stage[DeliveryStatus(e)] <= Stage[DeliveryStatus(e)']
<1>1. TypeInv /\ [Next]_vars => [Advance]_vars
  BY AdvanceStep
<1>. QED
  BY <1>1, TypeInvInvariant, PTL DEF Spec, DeliveriesAdvance
=============================================================================
