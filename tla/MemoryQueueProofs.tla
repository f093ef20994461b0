-------------------------- MODULE MemoryQueueProofs --------------------------
(***************************************************************************)
(* Proofs that the in-memory queue keeps the ledger of deliveries and that a *)
(* cancellation that came in time stays, for every number of jobs, requests  *)
(* and workers, where clients do not choose job ids.                         *)
(***************************************************************************)
EXTENDS MemoryQueue, SequenceTheorems, TLAPS

-----------------------------------------------------------------------------
(* The inductive invariant.                                                 *)

\* A worker has a delivery but while it asks for one, of the job it has, one
\* that has no verdict until the worker has told the queue.
OneDelivery ==
    \A w \in Workers :
        /\ wk[w].pc = "reserve" <=> wk[w].delivery = 0
        /\ wk[w].pc \in {"markRunning", "process", "settle"} => wk[w].delivery \notin judged
        /\ wk[w].pc = "finalMark" => wk[w].delivery \in judged
        /\ IF wk[w].delivery = 0 THEN wk[w].job = NoJob ELSE log[wk[w].delivery] = wk[w].job

\* No two workers have the same delivery.
OwnDelivery ==
    \A v, w \in Workers : v # w /\ wk[v].delivery # 0 => wk[v].delivery # wk[w].delivery

\* A cancelled job is one that a request has named.
CancelsAsked ==
    \A j \in cancelled : \E r \in Requests : rq[r].pc # "idle" /\ rq[r].job = j

Inv == TypeOK /\ OneDelivery /\ OwnDelivery

LEMMA InitInv == Init => Inv /\ CancelsAsked
  BY DEF Init, Inv, TypeOK, OneDelivery, OwnDelivery, CancelsAsked, NewHandler, IdleThread,
     Handlers, Threads, Outcomes, QueueStates, RowStates

-----------------------------------------------------------------------------
(* Types.                                                                   *)

LEMMA MarkType ==
    ASSUME rows \in [Jobs -> RowStates], NEW j, NEW state \in RowStates
    PROVE  Mark(j, state) \in [Jobs -> RowStates]
  BY DEF Mark

\* A handler writes no more than its own record.
LEMMA HandlerType ==
    ASSUME rq \in [Requests -> Handlers], NEW r \in Requests, NEW h \in Handlers
    PROVE  [rq EXCEPT ![r] = h] \in [Requests -> Handlers]
  OBVIOUS

LEMMA RequestsInv ==
    ASSUME Inv,
           \/ \E r \in Requests, j \in Jobs : SubmitPublish(r, j) \/ CancelQueue(r, j)
           \/ \E r \in Requests : HandlerStep(r)
    PROVE  Inv'
<1>1. CASE \E r \in Requests, j \in Jobs : SubmitPublish(r, j)
  <2>1. PICK r \in Requests, j \in Jobs : SubmitPublish(r, j)
    BY <1>1
  <2>2. [op |-> "submit", pc |-> "upsert", job |-> j] \in Handlers
    BY DEF Handlers
  <2>3. /\ log' \in Seq(Jobs) /\ Len(log) <= Len(log')
        /\ \A d \in 1 .. Len(log) : log'[d] = log[d]
    <3>1. log \in Seq(Jobs) /\ (log' = log \/ log' = Append(log, j))
      BY <2>1 DEF SubmitPublish, Inv, TypeOK
    <3>. QED
      BY <3>1
  <2>4. known' \in [Jobs -> QueueStates]
    BY <2>1 DEF SubmitPublish, Inv, TypeOK, QueueStates
  <2>5. TypeOK'
    BY <2>1, <2>2, <2>3, <2>4 DEF SubmitPublish, Inv, TypeOK
  <2>6. OneDelivery' /\ OwnDelivery'
    <3>1. UNCHANGED <<wk, judged>>
      BY <2>1 DEF SubmitPublish
    <3>2. \A w \in Workers : wk[w].delivery \in 0 .. Len(log)
      BY DEF Inv, TypeOK
    <3>3. \A w \in Workers : wk[w].delivery # 0 => log'[wk[w].delivery] = log[wk[w].delivery]
      BY <2>3, <3>2
    <3>. QED
      BY <3>1, <3>3 DEF Inv, OneDelivery, OwnDelivery
  <2>. QED
    BY <2>5, <2>6 DEF Inv
<1>2. CASE \E r \in Requests, j \in Jobs : CancelQueue(r, j)
  <2>1. PICK r \in Requests, j \in Jobs : CancelQueue(r, j)
    BY <1>2
  <2>2. [op |-> "cancel", pc |-> "mark", job |-> j] \in Handlers
    BY DEF Handlers
  <2>3. known' \in [Jobs -> QueueStates] /\ cancelled' \subseteq Jobs
    BY <2>1 DEF CancelQueue, Inv, TypeOK, QueueStates
  <2>. QED
    BY <2>1, <2>2, <2>3 DEF CancelQueue, Inv, TypeOK, OneDelivery, OwnDelivery
<1>3. CASE \E r \in Requests : HandlerStep(r)
  <2>1. PICK r \in Requests : HandlerStep(r)
    BY <1>3
  <2>2. rows' \in [Jobs -> RowStates]
    BY <2>1, MarkType DEF HandlerStep, SubmitUpsert, CancelMark, Inv, TypeOK, RowStates
  <2>3. rq' \in [Requests -> Handlers]
    BY <2>1 DEF HandlerStep, SubmitUpsert, CancelMark, Inv, TypeOK, Handlers
  <2>4. UNCHANGED <<backend, log, head, known, cancelled, wk, judged>>
    BY <2>1 DEF HandlerStep, SubmitUpsert, CancelMark, queueVars
  <2>. QED
    BY <2>2, <2>3, <2>4 DEF Inv, TypeOK, OneDelivery, OwnDelivery
<1>. QED
  BY <1>1, <1>2, <1>3

\* The thread that reserve() has given a job.
LEMMA TakenThread ==
    ASSUME NEW j \in Jobs, NEW d \in Nat
    PROVE  LET t == [IdleThread EXCEPT !.pc = "markRunning", !.job = j, !.delivery = d]
           IN  t \in Threads /\ t.pc = "markRunning" /\ t.job = j /\ t.delivery = d
  BY DEF IdleThread, Threads, Outcomes

\* reserve() takes a delivery from beyond everything taken before.
LEMMA ReserveInv ==
    ASSUME Inv, NEW w \in Workers, NEW d \in Deliveries, Reserve(w, d)
    PROVE  /\ Inv' /\ head' = d /\ d > head
           /\ wk'[w].delivery = d /\ wk'[w].job = log[d]
           /\ \A v \in Workers : v # w => wk'[v] = wk[v]
<1>1. /\ log \in Seq(Jobs) /\ head \in 0 .. Len(log)
      /\ d \in head + 1 .. Len(log) /\ d \in Nat /\ log[d] \in Jobs
  BY DEF Reserve, Offered, Inv, TypeOK
<1>2. /\ wk' \in [Workers -> Threads]
      /\ wk'[w].pc = "markRunning" /\ wk'[w].job = log[d] /\ wk'[w].delivery = d
      /\ \A v \in Workers : v # w => wk'[v] = wk[v]
  <2>. DEFINE t == [IdleThread EXCEPT !.pc = "markRunning", !.job = log[d], !.delivery = d]
  <2>1. t \in Threads /\ t.pc = "markRunning" /\ t.job = log[d] /\ t.delivery = d
    BY <1>1, log[d] \in Jobs, TakenThread
  <2>2. wk' = [wk EXCEPT ![w] = t] /\ wk \in [Workers -> Threads]
    BY DEF Reserve, Inv, TypeOK
  <2>. HIDE DEF t
  <2>. QED
    BY <2>1, <2>2
<1>3. known' \in [Jobs -> QueueStates]
  BY DEF Reserve, Inv, TypeOK, QueueStates
<1>4. \A v \in Workers : wk'[v].delivery \in 0 .. head'
  BY <1>1, <1>2 DEF Reserve, Inv, TypeOK
<1>5. TypeOK'
  BY <1>1, <1>2, <1>3, <1>4 DEF Reserve, Inv, TypeOK
<1>6. OneDelivery'
  BY <1>1, <1>2 DEF Reserve, Inv, TypeOK, OneDelivery
<1>7. OwnDelivery'
  BY <1>1, <1>2 DEF Reserve, Inv, TypeOK, OwnDelivery
<1>. QED
  BY <1>1, <1>2, <1>5, <1>6, <1>7 DEF Reserve, Inv

\* A worker that marks, processes or tells the queue keeps its delivery; then it
\* lets go of it.
LEMMA WorkerInv ==
    ASSUME Inv, NEW w \in Workers, WorkerStep(w)
    PROVE  Inv'
<1>1. CASE \E d \in Deliveries : Reserve(w, d)
  BY <1>1, ReserveInv
<1>2. CASE ReserveNone(w)
  BY <1>2 DEF ReserveNone, Inv, TypeOK, OneDelivery, OwnDelivery
<1>3. CASE MarkRunning(w)
  <2>1. rows' \in [Jobs -> RowStates]
    BY <1>3, MarkType DEF MarkRunning, Inv, TypeOK, RowStates
  <2>2. wk' \in [Workers -> Threads]
    BY <1>3 DEF MarkRunning, Inv, TypeOK, Threads
  <2>3. TypeOK'
    BY <1>3, <2>1, <2>2 DEF MarkRunning, queueVars, Inv, TypeOK
  <2>. QED
    BY <1>3, <2>3 DEF MarkRunning, queueVars, Inv, TypeOK, OneDelivery, OwnDelivery
<1>4. CASE \E outcome \in Outcomes : Process(w, outcome)
  <2>1. PICK outcome \in Outcomes : Process(w, outcome)
    BY <1>4
  <2>2. wk' \in [Workers -> Threads]
    BY <2>1 DEF Process, Inv, TypeOK, Threads
  <2>3. TypeOK'
    BY <2>1, <2>2 DEF Process, queueVars, Inv, TypeOK
  <2>. QED
    BY <2>1, <2>3 DEF Process, queueVars, Inv, TypeOK, OneDelivery, OwnDelivery
<1>5. CASE Settle(w)
  <2>1. known' \in [Jobs -> QueueStates]
    BY <1>5 DEF Settle, Inv, TypeOK, QueueStates
  <2>2. wk' \in [Workers -> Threads]
    BY <1>5 DEF Settle, Inv, TypeOK, Threads
  <2>3. wk[w].delivery \in 1 .. head
    BY <1>5 DEF Settle, Inv, TypeOK, OneDelivery
  <2>4. TypeOK'
    BY <1>5, <2>1, <2>2, <2>3 DEF Settle, Inv, TypeOK
  <2>5. OneDelivery' /\ OwnDelivery'
    BY <1>5, <2>3 DEF Settle, Inv, TypeOK, OneDelivery, OwnDelivery
  <2>. QED
    BY <2>4, <2>5 DEF Inv
<1>6. CASE FinalMark(w)
  <2>1. rows' \in [Jobs -> RowStates]
    BY <1>6, MarkType DEF FinalMark, Inv, TypeOK, RowStates, Threads
  <2>2. /\ IdleThread \in Threads /\ IdleThread.delivery = 0 /\ IdleThread.pc = "reserve"
        /\ IdleThread.job = NoJob
    BY DEF IdleThread, Threads, Outcomes
  <2>3. wk' = [wk EXCEPT ![w] = IdleThread] /\ wk' \in [Workers -> Threads]
    BY <1>6, <2>2 DEF FinalMark, Inv, TypeOK
  <2>4. TypeOK'
    BY <1>6, <2>1, <2>2, <2>3 DEF FinalMark, queueVars, Inv, TypeOK
  <2>5. OneDelivery' /\ OwnDelivery'
    BY <1>6, <2>2, <2>3 DEF FinalMark, queueVars, Inv, TypeOK, OneDelivery, OwnDelivery
  <2>. QED
    BY <2>4, <2>5 DEF Inv
<1>. QED
  BY <1>1, <1>2, <1>3, <1>4, <1>5, <1>6 DEF WorkerStep

LEMMA NextInv == Inv /\ [Next]_vars => Inv'
<1>. SUFFICES ASSUME Inv, [Next]_vars PROVE Inv'
  OBVIOUS
<1>1. CASE \E w \in Workers : WorkerStep(w)
  BY <1>1, WorkerInv
<1>2. CASE UNCHANGED vars
  BY <1>2 DEF vars, queueVars, Inv, TypeOK, OneDelivery, OwnDelivery
<1>. QED
  BY <1>1, <1>2, RequestsInv DEF Next

\* Every reachable state of the process is well typed: what a worker has was
\* popped, and what has a verdict, too.
THEOREM QueueTypeCorrect == Spec => []TypeOK
<1>1. Init => Inv
  BY InitInv
<1>2. Inv => TypeOK
  BY DEF Inv
<1>. QED
  BY <1>1, <1>2, NextInv, PTL DEF Spec

-----------------------------------------------------------------------------
(* The ledger.                                                              *)

Status == [d \in Deliveries |-> DeliveryStatus(d)]
Hands  == [w \in Workers |-> wk[w].delivery]

\* A sequence with one element more, as a function.
LEMMA AppendAsFunction ==
    ASSUME NEW S, NEW s \in Seq(S), NEW x \in S
    PROVE  Append(s, x) = [i \in 1 .. Len(s) + 1 |-> IF i = Len(s) + 1 THEN x ELSE s[i]]
<1>1. /\ Len(s) \in Nat /\ Append(s, x) \in Seq(S) /\ Len(Append(s, x)) = Len(s) + 1
      /\ \A i \in 1 .. Len(s) : Append(s, x)[i] = s[i]
      /\ Append(s, x)[Len(s) + 1] = x
  BY AppendProperties, LenProperties
<1>. DEFINE t == Append(s, x)
<1>2. t \in [1 .. Len(s) + 1 -> S]
  BY <1>1, LenProperties
<1>3. \A i \in 1 .. Len(s) + 1 : t[i] = IF i = Len(s) + 1 THEN x ELSE s[i]
  BY <1>1
<1>. HIDE DEF t
<1>4. t = [i \in 1 .. Len(s) + 1 |-> t[i]]
  BY <1>2
<1>5. t = [i \in 1 .. Len(s) + 1 |-> IF i = Len(s) + 1 THEN x ELSE s[i]]
  BY <1>3, <1>4
<1>. QED
  BY <1>5 DEF t

LEMMA StatusSeq ==
    ASSUME log \in Seq(Jobs)
    PROVE  /\ Status \in Seq({"judged", "handedOut", "waiting", "closed"})
           /\ Len(Status) = Len(log)
  BY DEF Status, DeliveryStatus, Deliveries

\* A uuid job id that nobody has named is not a cancelled one.
LEMMA CancelsAskedStep ==
    ASSUME Inv, CancelsAsked, [Next]_vars
    PROVE  CancelsAsked'
<1>1. rq \in [Requests -> Handlers]
  BY DEF Inv, TypeOK
<1>2. CASE \E r \in Requests, j \in Jobs : SubmitPublish(r, j) \/ CancelQueue(r, j)
  <2>1. PICK r \in Requests, j \in Jobs : SubmitPublish(r, j) \/ CancelQueue(r, j)
    BY <1>2
  <2>2. /\ rq[r].pc = "idle" /\ rq'[r].job = j /\ rq'[r].pc # "idle"
        /\ \A s \in Requests : s # r => rq'[s] = rq[s]
        /\ cancelled' \subseteq cancelled \cup {j}
    BY <1>1, <2>1 DEF SubmitPublish, CancelQueue
  <2>. QED
    BY <2>2 DEF CancelsAsked
<1>3. CASE \E r \in Requests : HandlerStep(r)
  <2>1. /\ cancelled' = cancelled
        /\ \A s \in Requests : rq'[s].job = rq[s].job /\ (rq[s].pc # "idle" => rq'[s].pc # "idle")
    <3>1. PICK r \in Requests : HandlerStep(r)
      BY <1>3
    <3>2. rq' = [rq EXCEPT ![r].pc = "done"] /\ cancelled' = cancelled
      BY <3>1 DEF HandlerStep, SubmitUpsert, CancelMark, queueVars
    <3>. QED
      BY <1>1, <3>2 DEF Handlers
  <2>. QED
    BY <2>1 DEF CancelsAsked
<1>4. CASE (\E w \in Workers : WorkerStep(w)) \/ UNCHANGED vars
  <2>1. UNCHANGED <<cancelled, rq>>
    BY <1>4 DEF WorkerStep, Reserve, ReserveNone, MarkRunning, Process, Settle, FinalMark,
       queueVars, vars
  <2>. QED
    BY <2>1 DEF CancelsAsked
<1>. QED
  BY <1>2, <1>3, <1>4 DEF Next

LEMMA PublishKeepsLedger ==
    ASSUME Inv, CancelsAsked, ~ClientReferences,
           NEW r \in Requests, NEW j \in Jobs, SubmitPublish(r, j)
    PROVE  Ledger!Publish(j) \/ UNCHANGED Ledger!ledgerVars
<1>1. CASE Dropping
  BY <1>1 DEF SubmitPublish, Ledger!ledgerVars, DeliveryStatus, Deliveries
<1>2. CASE ~Dropping
  <2>1. log \in Seq(Jobs) /\ head \in 0 .. Len(log) /\ log' = Append(log, j)
    BY <1>2 DEF SubmitPublish, Inv, TypeOK
  <2>2. /\ Len(log') = Len(log) + 1 /\ log'[Len(log) + 1] = j
        /\ \A d \in Deliveries : log'[d] = log[d]
    BY <2>1 DEF Deliveries
  <2>3. j \notin cancelled
    BY DEF SubmitPublish, NewId, CancelsAsked
  <2>4. \A d \in Deliveries : DeliveryStatus(d)' = DeliveryStatus(d)
    BY <2>2 DEF SubmitPublish, DeliveryStatus
  <2>5. \A d : d = Len(log) + 1 => DeliveryStatus(d)' = "waiting"
    <3>1. SUFFICES ASSUME NEW d, d = Len(log) + 1 PROVE DeliveryStatus(d)' = "waiting"
      OBVIOUS
    <3>2. d \notin judged' /\ \A w \in Workers : wk'[w].delivery # d
      BY <2>1, <3>1 DEF SubmitPublish, Inv, TypeOK
    <3>3. d > head' /\ log'[d] \notin cancelled'
      BY <2>1, <2>2, <2>3, <3>1 DEF SubmitPublish
    <3>. QED
      BY <3>2, <3>3 DEF DeliveryStatus
  <2>6. Status' = Append(Status, "waiting")
    <3>1. Status \in Seq({"judged", "handedOut", "waiting", "closed"}) /\ Len(Status) = Len(log)
      BY <2>1, StatusSeq
    <3>2. Len(log) \in Nat
      BY <2>1
    <3>3. Append(Status, "waiting")
              = [d \in 1 .. Len(log) + 1 |-> IF d = Len(log) + 1 THEN "waiting" ELSE Status[d]]
      BY <3>1, AppendAsFunction
    <3>4. Status' = [d \in 1 .. Len(log) + 1 |-> DeliveryStatus(d)']
      BY <2>2 DEF Status, Deliveries
    <3>5. \A d \in 1 .. Len(log) + 1 :
             DeliveryStatus(d)' = IF d = Len(log) + 1 THEN "waiting" ELSE Status[d]
      BY <3>2, <2>4, <2>5 DEF Status, Deliveries
    <3>. QED
      BY <3>3, <3>4, <3>5
  <2>. QED
    BY <2>1, <2>6 DEF SubmitPublish, Ledger!Publish, Status
<1>. QED
  BY <1>1, <1>2

LEMMA CancelKeepsLedger ==
    ASSUME Inv, NEW r \in Requests, NEW j \in Jobs, CancelQueue(r, j)
    PROVE  Ledger!Withdraw(j) \/ UNCHANGED Ledger!ledgerVars
<1>1. CASE Dropping
  BY <1>1 DEF CancelQueue, Ledger!ledgerVars, DeliveryStatus, Deliveries
<1>2. CASE ~Dropping
  <2>1. \A d \in Deliveries :
           DeliveryStatus(d)' = IF log[d] = j /\ DeliveryStatus(d) = "waiting" THEN "closed"
                                ELSE DeliveryStatus(d)
    BY <1>2 DEF CancelQueue, DeliveryStatus
  <2>. QED
    BY <1>2, <2>1 DEF CancelQueue, Ledger!Withdraw, Ledger!Deliveries, Deliveries
<1>. QED
  BY <1>1, <1>2

LEMMA ReserveKeepsLedger ==
    ASSUME Inv, NEW w \in Workers, NEW d \in Deliveries, Reserve(w, d)
    PROVE  Ledger!HandOut(w, d)
<1>1. /\ d \in Nat /\ head \in Nat /\ head' = d /\ d > head /\ log' = log
      /\ wk'[w].delivery = d /\ wk[w].delivery = 0
      /\ \A v \in Workers : v # w => wk'[v] = wk[v]
      /\ judged' = judged /\ cancelled' = cancelled
  <2>1. /\ head' = d /\ d > head /\ wk'[w].delivery = d
        /\ \A v \in Workers : v # w => wk'[v] = wk[v]
    BY ReserveInv
  <2>2. wk[w].delivery = 0 /\ head \in Nat /\ d \in Nat
    BY DEF Reserve, Inv, TypeOK, OneDelivery, Deliveries
  <2>3. log' = log /\ judged' = judged /\ cancelled' = cancelled
    BY DEF Reserve
  <2>. QED
    BY <2>1, <2>2, <2>3
<1>2. DeliveryStatus(d) = "waiting" /\ DeliveryStatus(d)' = "handedOut"
  BY <1>1 DEF DeliveryStatus, Reserve, Offered, Inv, TypeOK
<1>3. \A b \in Deliveries : b < d => DeliveryStatus(b) # "waiting"
  BY <1>1 DEF DeliveryStatus, Reserve, Offered, Inv, TypeOK, Deliveries
<1>4. \A b \in Deliveries \ {d} : DeliveryStatus(b)' = DeliveryStatus(b)
  BY <1>1, <1>3 DEF DeliveryStatus, Inv, TypeOK, Deliveries
<1>5. Status' = [Status EXCEPT ![d] = "handedOut"]
  BY <1>1, <1>2, <1>4 DEF Status, Deliveries
<1>6. Hands' = [Hands EXCEPT ![w] = d]
  BY <1>1 DEF Hands
<1>. QED
  BY <1>1, <1>2, <1>3, <1>5, <1>6 DEF Ledger!HandOut, Status, Hands, Deliveries

LEMMA SettleKeepsLedger ==
    ASSUME Inv, NEW w \in Workers, Settle(w)
    PROVE  \E d \in Deliveries : Ledger!Judge(d)
<1>. DEFINE d == wk[w].delivery
<1>1. /\ d \in 1 .. head /\ d \notin judged /\ head \in 0 .. Len(log) /\ log \in Seq(Jobs)
  BY DEF Settle, Inv, TypeOK, OneDelivery
<1>2. d \in Deliveries
  BY <1>1 DEF Deliveries
<1>3. /\ judged' = judged \cup {d} /\ UNCHANGED <<log, head, cancelled>>
      /\ \A v \in Workers : wk'[v].delivery = wk[v].delivery
  BY DEF Settle, Inv, TypeOK
<1>. HIDE DEF d
<1>4. DeliveryStatus(d) = "handedOut"
  BY <1>1 DEF DeliveryStatus, d
<1>5. \A b \in Deliveries :
         DeliveryStatus(b)' = IF b = d THEN "judged" ELSE DeliveryStatus(b)
  BY <1>3 DEF DeliveryStatus
<1>6. Status' = [Status EXCEPT ![d] = "judged"]
  BY <1>3, <1>5 DEF Status, Deliveries
<1>7. Hands' = Hands
  BY <1>3 DEF Hands
<1>. QED
  BY <1>2, <1>3, <1>4, <1>6, <1>7 DEF Ledger!Judge, Status, Hands, Deliveries

LEMMA FinalMarkKeepsLedger ==
    ASSUME Inv, NEW w \in Workers, FinalMark(w)
    PROVE  Ledger!LetGo(w)
<1>1. /\ wk' = [wk EXCEPT ![w] = IdleThread] /\ wk \in [Workers -> Threads]
      /\ UNCHANGED <<log, head, cancelled, judged>>
  BY DEF FinalMark, queueVars, Inv, TypeOK
<1>2. IdleThread.delivery = 0
  BY DEF IdleThread
<1>3. wk[w].delivery \in judged /\ judged \subseteq 1 .. head
  BY DEF FinalMark, Inv, TypeOK, OneDelivery
<1>4. \A b \in Deliveries : DeliveryStatus(b)' = DeliveryStatus(b)
  BY <1>1, <1>2, <1>3 DEF DeliveryStatus, Deliveries
<1>5. Status' = Status
  BY <1>1, <1>4 DEF Status, Deliveries
<1>6. Hands' = [Hands EXCEPT ![w] = 0]
  BY <1>1, <1>2 DEF Hands
<1>. QED
  BY <1>1, <1>5, <1>6 DEF Ledger!LetGo, Status, Hands

\* Nothing of a delivery changes when the deque is found empty (what is popped
\* was cancelled), when a job is marked or processed, and by an idle step.
LEMMA StutterKeepsLedger ==
    ASSUME Inv,
           \/ \E w \in Workers : \/ ReserveNone(w) \/ MarkRunning(w)
                                  \/ \E outcome \in Outcomes : Process(w, outcome)
           \/ \E r \in Requests : HandlerStep(r)
           \/ UNCHANGED vars
    PROVE  UNCHANGED Ledger!ledgerVars
<1>1. /\ UNCHANGED <<log, cancelled, judged>>
      /\ \A v \in Workers : wk'[v].delivery = wk[v].delivery
      /\ head' = head \/ (head' = Len(log) /\ Offered = {})
  <2>1. CASE \E w \in Workers : ReserveNone(w)
    BY <2>1 DEF ReserveNone
  <2>2. CASE \E w \in Workers : MarkRunning(w)
    BY <2>2 DEF MarkRunning, queueVars, Inv, TypeOK
  <2>3. CASE \E w \in Workers, outcome \in Outcomes : Process(w, outcome)
    BY <2>3 DEF Process, queueVars, Inv, TypeOK
  <2>4. CASE (\E r \in Requests : HandlerStep(r)) \/ UNCHANGED vars
    BY <2>4 DEF HandlerStep, SubmitUpsert, CancelMark, vars, queueVars
  <2>. QED
    BY <2>1, <2>2, <2>3, <2>4
<1>2. head \in 0 .. Len(log) /\ log \in Seq(Jobs)
  BY DEF Inv, TypeOK
<1>3. \A b \in Deliveries : DeliveryStatus(b)' = DeliveryStatus(b)
  BY <1>1, <1>2 DEF DeliveryStatus, Deliveries, Offered
<1>4. Status' = Status /\ Hands' = Hands
  BY <1>1, <1>3 DEF Status, Hands, Deliveries
<1>. QED
  BY <1>1, <1>4 DEF Ledger!ledgerVars, Status, Hands

LEMMA LedgerStep ==
    ASSUME Inv, CancelsAsked, ~ClientReferences, [Next]_vars
    PROVE  [Ledger!LedgerNext]_(Ledger!ledgerVars)
<1>1. CASE \E r \in Requests, j \in Jobs : SubmitPublish(r, j)
  BY <1>1, PublishKeepsLedger DEF Ledger!LedgerNext
<1>2. CASE \E r \in Requests, j \in Jobs : CancelQueue(r, j)
  BY <1>2, CancelKeepsLedger DEF Ledger!LedgerNext
<1>3. CASE \E w \in Workers, d \in Deliveries : Reserve(w, d)
  BY <1>3, ReserveKeepsLedger DEF Ledger!LedgerNext, Ledger!Deliveries, Deliveries
<1>4. CASE \E w \in Workers : Settle(w)
  BY <1>4, SettleKeepsLedger DEF Ledger!LedgerNext, Ledger!Deliveries, Deliveries
<1>5. CASE \E w \in Workers : FinalMark(w)
  BY <1>5, FinalMarkKeepsLedger DEF Ledger!LedgerNext
<1>. QED
  BY <1>1, <1>2, <1>3, <1>4, <1>5, StutterKeepsLedger DEF Next, WorkerStep

LEMMA LedgerStart == Init => Ledger!LedgerInit
<1>. SUFFICES ASSUME Init PROVE Ledger!LedgerInit
  OBVIOUS
<1>1. log = <<>> /\ Deliveries = {}
  BY DEF Init, Deliveries
<1>2. Status = <<>>
  BY <1>1 DEF Status
<1>3. Hands = [w \in Workers |-> 0]
  BY DEF Init, Hands, IdleThread
<1>. QED
  BY <1>1, <1>2, <1>3 DEF Ledger!LedgerInit, Status, Hands

\* Every behaviour of the in-memory queue is one of the ledger.
THEOREM MemoryKeepsLedger == ASSUME ~ClientReferences PROVE Spec => KeepsLedger
<1>1. Init => Inv /\ CancelsAsked /\ Ledger!LedgerInit
  BY InitInv, LedgerStart
<1>2. Inv /\ CancelsAsked /\ [Next]_vars => (Inv /\ CancelsAsked)'
  BY NextInv, CancelsAskedStep
<1>3. Inv /\ CancelsAsked /\ [Next]_vars => [Ledger!LedgerNext]_(Ledger!ledgerVars)
  BY LedgerStep
<1>. QED
  BY <1>1, <1>2, <1>3, PTL DEF Spec, KeepsLedger, Ledger!LedgerSpec

-----------------------------------------------------------------------------
(* Cancellations.                                                           *)

\* A handler that has begun has a job, and that of a submit is its alone: a
\* cancellation of the same job has found it done, and then there is a row.
Handling ==
    \A r \in Requests :
        /\ rq[r].op # "none" => rq[r].job \in Jobs
        /\ rq[r].pc = "upsert" => rq[r].op = "submit"
        /\ rq[r].pc = "mark" => rq[r].op = "cancel"
        /\ rq[r].op = "submit" /\ rq[r].pc = "done" => rows[rq[r].job] # "none"
        /\ rq[r].op = "cancel" /\ ~Dropping => rq[r].job \in cancelled
        /\ \A s \in Requests :
              s # r /\ rq[s].op = "submit" /\ rq[s].job = rq[r].job =>
                  rq[r].op # "submit" /\ (rq[r].op = "cancel" => rq[s].pc = "done")

\* A job that was cancelled in time reads so.
CancelledRows ==
    \A r \in Requests :
        ~Dropping /\ CancelledInTime(r) => rows[rq[r].job] = "cancelled"

\* mark() changes the row of its job, if there is one, and no other.
LEMMA MarkRow ==
    ASSUME rows \in [Jobs -> RowStates], NEW j, NEW state, state # "none", NEW i \in Jobs
    PROVE  /\ rows[i] # "none" => Mark(j, state)[i] # "none"
           /\ i # j => Mark(j, state)[i] = rows[i]
           /\ i = j /\ rows[i] # "none" => Mark(j, state)[i] = state
  BY DEF Mark

LEMMA RowsStay ==
    ASSUME Inv, [Next]_vars, NEW i \in Jobs, rows[i] # "none"
    PROVE  rows'[i] # "none"
<1>1. rows \in [Jobs -> RowStates] /\ wk \in [Workers -> Threads]
  BY DEF Inv, TypeOK
<1>2. CASE \E r \in Requests : SubmitUpsert(r)
  BY <1>1, <1>2 DEF SubmitUpsert
<1>3. CASE \E r \in Requests : CancelMark(r)
  BY <1>1, <1>3, MarkRow DEF CancelMark
<1>4. CASE \E w \in Workers : MarkRunning(w)
  BY <1>1, <1>4, MarkRow DEF MarkRunning
<1>5. CASE \E w \in Workers : FinalMark(w)
  <2>1. PICK w \in Workers : FinalMark(w)
    BY <1>5
  <2>2. wk[w].outcome # "none"
    BY <1>1 DEF Threads, Outcomes
  <2>. QED
    BY <1>1, <2>1, <2>2, MarkRow DEF FinalMark
<1>6. CASE UNCHANGED rows
  BY <1>6
<1>. QED
  BY <1>2, <1>3, <1>4, <1>5, <1>6
     DEF Next, HandlerStep, WorkerStep, SubmitPublish, CancelQueue, Reserve, ReserveNone,
         Process, Settle, vars, queueVars

LEMMA HandlingStep ==
    ASSUME Inv, Handling, ~ClientReferences, [Next]_vars
    PROVE  Handling'
<1>1. rq \in [Requests -> Handlers]
  BY DEF Inv, TypeOK
<1>2. CASE \E r \in Requests, j \in Jobs : SubmitPublish(r, j)
  <2>1. PICK r \in Requests, j \in Jobs : SubmitPublish(r, j)
    BY <1>2
  <2>2. /\ rq'[r] = [op |-> "submit", pc |-> "upsert", job |-> j]
        /\ \A s \in Requests : s # r => rq'[s] = rq[s]
        /\ \A s \in Requests : rq[s].job # j
        /\ UNCHANGED <<backend, rows, cancelled>>
    BY <1>1, <2>1 DEF SubmitPublish, NewId
  <2>. QED
    BY <2>2 DEF Handling, Dropping
<1>3. CASE \E r \in Requests, j \in Jobs : CancelQueue(r, j)
  <2>1. PICK r \in Requests, j \in Jobs : CancelQueue(r, j)
    BY <1>3
  <2>2. /\ rq'[r] = [op |-> "cancel", pc |-> "mark", job |-> j]
        /\ \A s \in Requests : s # r => rq'[s] = rq[s]
        /\ \A s \in Requests : rq[s].op = "submit" /\ rq[s].job = j => rq[s].pc = "done"
        /\ UNCHANGED <<backend, rows>>
        /\ cancelled \subseteq cancelled' /\ (~Dropping => j \in cancelled')
    BY <1>1, <2>1 DEF CancelQueue, KnownId
  <2>. QED
    BY <2>2 DEF Handling, Dropping
<1>4. CASE \E r \in Requests : HandlerStep(r)
  <2>1. PICK r \in Requests : HandlerStep(r)
    BY <1>4
  <2>2. /\ rq'[r].op = rq[r].op /\ rq'[r].job = rq[r].job /\ rq'[r].pc = "done"
        /\ \A s \in Requests : s # r => rq'[s] = rq[s]
        /\ UNCHANGED <<backend, cancelled>>
    <3>1. rq' = [rq EXCEPT ![r].pc = "done"] /\ UNCHANGED <<backend, cancelled>>
      BY <2>1 DEF HandlerStep, SubmitUpsert, CancelMark, queueVars
    <3>. QED
      BY <1>1, <3>1 DEF Handlers
  <2>3. rq[r].op = "submit" => rows'[rq[r].job] # "none"
    <3>1. rq[r].op = "submit" => rq[r].job \in Jobs /\ ~CancelMark(r)
      BY DEF Handling, CancelMark
    <3>2. rows \in [Jobs -> RowStates]
      BY DEF Inv, TypeOK
    <3>. QED
      BY <2>1, <3>1, <3>2 DEF HandlerStep, SubmitUpsert
  <2>4. \A i \in Jobs : rows[i] # "none" => rows'[i] # "none"
    BY RowsStay
  <2>. QED
    BY <2>2, <2>3, <2>4 DEF Handling, Dropping
<1>5. CASE (\E w \in Workers : WorkerStep(w)) \/ UNCHANGED vars
  <2>1. UNCHANGED <<backend, cancelled, rq>>
    BY <1>5 DEF WorkerStep, Reserve, ReserveNone, MarkRunning, Process, Settle, FinalMark,
       queueVars, vars
  <2>2. \A i \in Jobs : rows[i] # "none" => rows'[i] # "none"
    BY RowsStay
  <2>. QED
    BY <2>1, <2>2 DEF Handling, Dropping
<1>. QED
  BY <1>2, <1>3, <1>4, <1>5 DEF Next

\* A cancelled job that no worker was given is not given to one.
LEMMA NeverRunStays ==
    ASSUME MemoryAssumption, Inv, [Next]_vars, NEW j \in cancelled, NeverRun(j)
    PROVE  NeverRun(j)'
<1>1. /\ j \in Jobs /\ NoJob # j /\ log \in Seq(Jobs) /\ judged \subseteq 1 .. Len(log)
      /\ wk \in [Workers -> Threads]
  BY DEF MemoryAssumption, Inv, TypeOK
<1>2. CASE \E w \in Workers, d \in Deliveries : Reserve(w, d)
  <2>1. PICK w \in Workers, d \in Deliveries : Reserve(w, d)
    BY <1>2
  <2>2. log[d] # j /\ UNCHANGED <<log, judged>>
    BY <2>1 DEF Reserve, Offered
  <2>3. wk'[w].job = log[d] /\ \A v \in Workers : v # w => wk'[v] = wk[v]
    BY <2>1, ReserveInv
  <2>. QED
    BY <2>2, <2>3 DEF NeverRun
<1>3. CASE \E w \in Workers : Settle(w)
  <2>1. PICK w \in Workers : Settle(w)
    BY <1>3
  <2>2. log[wk[w].delivery] = wk[w].job /\ wk[w].job # j
    BY <2>1 DEF Settle, Inv, OneDelivery, NeverRun
  <2>3. /\ judged' = judged \cup {wk[w].delivery} /\ log' = log
        /\ \A v \in Workers : wk'[v].job = wk[v].job
    BY <1>1, <2>1 DEF Settle, Threads
  <2>. QED
    BY <2>2, <2>3 DEF NeverRun
<1>4. CASE \E w \in Workers : FinalMark(w)
  <2>1. PICK w \in Workers : FinalMark(w)
    BY <1>4
  <2>2. IdleThread.job = NoJob
    BY DEF IdleThread
  <2>3. wk' = [wk EXCEPT ![w] = IdleThread] /\ UNCHANGED <<log, judged>>
    BY <2>1 DEF FinalMark, queueVars
  <2>. QED
    BY <1>1, <2>2, <2>3 DEF NeverRun
<1>5. CASE \E w \in Workers :
             ReserveNone(w) \/ MarkRunning(w) \/ \E outcome \in Outcomes : Process(w, outcome)
  <2>1. UNCHANGED <<log, judged>> /\ \A v \in Workers : wk'[v].job = wk[v].job
    BY <1>1, <1>5 DEF ReserveNone, MarkRunning, Process, queueVars, Threads
  <2>. QED
    BY <2>1 DEF NeverRun
<1>6. CASE \E r \in Requests, i \in Jobs : SubmitPublish(r, i)
  <2>1. PICK r \in Requests, i \in Jobs : SubmitPublish(r, i)
    BY <1>6
  <2>2. UNCHANGED <<wk, judged>> /\ (log' = log \/ log' = Append(log, i))
    BY <2>1 DEF SubmitPublish
  <2>3. \A d \in judged : log'[d] = log[d]
    BY <1>1, <2>2
  <2>. QED
    BY <2>2, <2>3 DEF NeverRun
<1>7. CASE \/ \E r \in Requests, i \in Jobs : CancelQueue(r, i)
           \/ \E r \in Requests : HandlerStep(r)
           \/ UNCHANGED vars
  <2>1. UNCHANGED <<log, judged, wk>>
    BY <1>7 DEF CancelQueue, HandlerStep, SubmitUpsert, CancelMark, vars, queueVars
  <2>. QED
    BY <2>1 DEF NeverRun
<1>. QED
  BY <1>2, <1>3, <1>4, <1>5, <1>6, <1>7 DEF Next, WorkerStep

\* What was never run was not run before.
LEMMA NeverRunBefore ==
    ASSUME MemoryAssumption, Inv, [Next]_vars, NEW j \in Jobs, NeverRun(j)'
    PROVE  NeverRun(j)
<1>1. /\ NoJob # j /\ log \in Seq(Jobs) /\ judged \subseteq 1 .. Len(log)
      /\ wk \in [Workers -> Threads]
  BY DEF MemoryAssumption, Inv, TypeOK
<1>2. judged \subseteq judged' /\ (log' = log \/ \E i \in Jobs : log' = Append(log, i))
  BY DEF Next, SubmitPublish, CancelQueue, HandlerStep, SubmitUpsert, CancelMark, WorkerStep,
     Reserve, ReserveNone, MarkRunning, Process, Settle, FinalMark, vars, queueVars
<1>3. \A d \in judged : log[d] # j
  BY <1>1, <1>2 DEF NeverRun
<1>4. ASSUME NEW w \in Workers, wk[w].job = j PROVE FALSE
  <2>1. wk[w].pc # "reserve" /\ log[wk[w].delivery] = j
    BY <1>1, <1>4 DEF Inv, OneDelivery
  <2>2. ~FinalMark(w)
    BY <1>3, <2>1 DEF FinalMark, Inv, OneDelivery
  <2>3. wk'[w].job = wk[w].job
    <3>1. ASSUME NEW v \in Workers, v # w, WorkerStep(v) PROVE wk'[w] = wk[w]
      BY <1>1, <3>1 DEF WorkerStep, Reserve, ReserveNone, MarkRunning, Process, Settle, FinalMark
    <3>2. CASE WorkerStep(w)
      BY <1>1, <2>1, <2>2, <3>2 DEF WorkerStep, Reserve, ReserveNone, MarkRunning, Process,
         Settle, Threads
    <3>3. CASE ~\E v \in Workers : WorkerStep(v)
      BY <3>3 DEF Next, SubmitPublish, CancelQueue, HandlerStep, SubmitUpsert, CancelMark, vars
    <3>. QED
      BY <3>1, <3>2, <3>3
  <2>. QED
    BY <1>4, <2>3 DEF NeverRun
<1>. QED
  BY <1>3, <1>4 DEF NeverRun

\* The request that cancels a job in time is answered, or was, by this step.
LEMMA CancelledInTimeBefore ==
    ASSUME MemoryAssumption, Inv, Handling, ~ClientReferences, [Next]_vars,
           NEW r \in Requests, CancelledInTime(r)'
    PROVE  /\ rq[r].op = "cancel" /\ rq'[r].job = rq[r].job /\ rq[r].job \in Jobs
           /\ NeverRun(rq[r].job)
           /\ \E s \in Requests : rq[s].op = "submit" /\ rq[s].job = rq[r].job
           /\ rq[r].pc = "done" \/ CancelMark(r)
<1>1. rq \in [Requests -> Handlers]
  BY DEF Inv, TypeOK
<1>2. ~\E j \in Jobs : SubmitPublish(r, j) \/ CancelQueue(r, j)
  BY <1>1 DEF SubmitPublish, CancelQueue, CancelledInTime
<1>3. /\ rq'[r].op = rq[r].op /\ rq'[r].job = rq[r].job
      /\ rq[r].pc = "done" \/ HandlerStep(r)
  <2>1. ASSUME NEW q \in Requests, HandlerStep(q)
        PROVE  /\ rq'[r].op = rq[r].op /\ rq'[r].job = rq[r].job
               /\ q # r => rq'[r] = rq[r]
    <3>1. rq' = [rq EXCEPT ![q].pc = "done"]
      BY <2>1 DEF HandlerStep, SubmitUpsert, CancelMark
    <3>. QED
      BY <1>1, <3>1 DEF Handlers
  <2>2. ASSUME NEW q \in Requests, NEW j \in Jobs, SubmitPublish(q, j) \/ CancelQueue(q, j)
        PROVE  rq'[r] = rq[r]
    BY <1>1, <1>2, <2>2 DEF SubmitPublish, CancelQueue
  <2>3. CASE (\E w \in Workers : WorkerStep(w)) \/ UNCHANGED vars
    <3>1. UNCHANGED rq
      BY <2>3 DEF WorkerStep, Reserve, ReserveNone, MarkRunning, Process, Settle, FinalMark, vars
    <3>. QED
      BY <3>1 DEF CancelledInTime
  <2>. QED
    BY <2>1, <2>2, <2>3 DEF Next, CancelledInTime
<1>4. rq[r].op = "cancel" /\ rq[r].job \in Jobs
  BY <1>3 DEF CancelledInTime, Handling
<1>5. /\ \A w \in Workers : wk'[w].job # rq'[r].job
      /\ \A d \in judged' : log'[d] # rq'[r].job
  BY DEF CancelledInTime, NeverRun
<1>6. NeverRun(rq[r].job)
  <2>1. ASSUME NEW j \in Jobs, j = rq'[r].job PROVE NeverRun(j)'
    BY <1>5, <2>1 DEF NeverRun
  <2>2. ASSUME NEW j \in Jobs, j = rq'[r].job PROVE NeverRun(j)
    BY <2>1, <2>2, NeverRunBefore
  <2>. QED
    BY <1>3, <1>4, <2>2
<1>7. \E s \in Requests : rq[s].op = "submit" /\ rq[s].job = rq[r].job
  <2>1. PICK s \in Requests : rq'[s].op = "submit" /\ rq'[s].job = rq'[r].job
    BY DEF CancelledInTime
  <2>2. ASSUME NEW q \in Requests, HandlerStep(q)
        PROVE  rq'[s].op = rq[s].op /\ rq'[s].job = rq[s].job
    <3>1. rq' = [rq EXCEPT ![q].pc = "done"]
      BY <2>2 DEF HandlerStep, SubmitUpsert, CancelMark
    <3>. QED
      BY <1>1, <3>1 DEF Handlers
  <2>3. ASSUME NEW q \in Requests, NEW j \in Jobs, SubmitPublish(q, j)
        PROVE  rq'[s] = rq[s]
    BY <1>1, <1>3, <2>1, <2>3 DEF SubmitPublish, NewId
  <2>4. ASSUME NEW q \in Requests, NEW j \in Jobs, CancelQueue(q, j)
        PROVE  rq'[s] = rq[s]
    BY <1>1, <2>1, <2>4 DEF CancelQueue
  <2>5. ASSUME (\E w \in Workers : WorkerStep(w)) \/ UNCHANGED vars
        PROVE  rq' = rq
    BY <2>5 DEF WorkerStep, Reserve, ReserveNone, MarkRunning, Process, Settle, FinalMark, vars
  <2>6. rq[s].op = "submit" /\ rq[s].job = rq'[r].job
    BY <2>1, <2>2, <2>3, <2>4, <2>5 DEF Next
  <2>. QED
    BY <1>3, <2>6
<1>8. rq[r].pc = "done" \/ CancelMark(r)
  BY <1>3, <1>4 DEF HandlerStep, SubmitUpsert, Handling
<1>. QED
  BY <1>3, <1>4, <1>6, <1>7, <1>8

LEMMA CancelledRowsStep ==
    ASSUME MemoryAssumption, Inv, Handling, CancelledRows, ~ClientReferences, [Next]_vars
    PROVE  CancelledRows'
<1>. SUFFICES ASSUME NEW r \in Requests, ~Dropping', CancelledInTime(r)'
              PROVE  rows'[rq'[r].job] = "cancelled"
  BY DEF CancelledRows
<1>. DEFINE j == rq[r].job
<1>1. /\ rq[r].op = "cancel" /\ rq'[r].job = j /\ j \in Jobs /\ NeverRun(j)
      /\ \E s \in Requests : rq[s].op = "submit" /\ rq[s].job = j
      /\ rq[r].pc = "done" \/ CancelMark(r)
  BY CancelledInTimeBefore
<1>2. rows \in [Jobs -> RowStates] /\ rq \in [Requests -> Handlers]
  BY DEF Inv, TypeOK
<1>3. ~Dropping
  BY DEF Dropping, Next, SubmitPublish, CancelQueue, HandlerStep, SubmitUpsert, CancelMark,
     WorkerStep, Reserve, ReserveNone, MarkRunning, Process, Settle, FinalMark, vars
<1>4. CASE CancelMark(r)
  <2>1. rows[j] # "none"
    BY <1>1 DEF Handling
  <2>. QED
    BY <1>1, <1>2, <1>4, <2>1, MarkRow DEF CancelMark
<1>5. CASE rq[r].pc = "done"
  <2>1. rows[j] = "cancelled"
    BY <1>1, <1>3, <1>5 DEF CancelledRows, CancelledInTime
  <2>2. ASSUME NEW q \in Requests, SubmitUpsert(q) PROVE rows'[j] = "cancelled"
    <3>1. rq[q].op = "submit" /\ rq[q].pc = "upsert" /\ q # r
      BY <1>1, <2>2 DEF SubmitUpsert, Handling
    <3>2. rq[q].job # j
      BY <1>1, <3>1 DEF Handling
    <3>. QED
      BY <1>1, <1>2, <2>1, <2>2, <3>2 DEF SubmitUpsert
  <2>3. ASSUME NEW q \in Requests, CancelMark(q) PROVE rows'[j] = "cancelled"
    BY <1>1, <1>2, <2>1, <2>3, MarkRow DEF CancelMark
  <2>4. ASSUME NEW w \in Workers, MarkRunning(w) PROVE rows'[j] = "cancelled"
    <3>1. wk[w].job # j
      BY <1>1 DEF NeverRun
    <3>. QED
      BY <1>1, <1>2, <2>1, <2>4, <3>1, MarkRow DEF MarkRunning
  <2>5. ASSUME NEW w \in Workers, FinalMark(w) PROVE rows'[j] = "cancelled"
    <3>1. wk[w].job # j /\ wk[w].outcome # "none"
      BY <1>1 DEF NeverRun, Inv, TypeOK, Threads, Outcomes
    <3>. QED
      BY <1>1, <1>2, <2>1, <2>5, <3>1, MarkRow DEF FinalMark
  <2>6. ASSUME UNCHANGED rows PROVE rows'[j] = "cancelled"
    BY <2>1, <2>6
  <2>7. rows'[j] = "cancelled"
    BY <2>2, <2>3, <2>4, <2>5, <2>6
       DEF Next, HandlerStep, WorkerStep, SubmitPublish, CancelQueue, Reserve, ReserveNone,
           Process, Settle, vars
  <2>. QED
    BY <1>1, <2>7
<1>. QED
  BY <1>1, <1>4, <1>5

LEMMA CancelSticksStep ==
    ASSUME MemoryAssumption, Inv, Handling, CancelledRows', ~ClientReferences, [Next]_vars
    PROVE  \A r \in Requests :
              ~Dropping /\ CancelledInTime(r)
                  => rows'[rq[r].job] = "cancelled" /\ NeverRun(rq[r].job)'
<1>. SUFFICES ASSUME NEW r \in Requests, ~Dropping, CancelledInTime(r)
              PROVE  rows'[rq[r].job] = "cancelled" /\ NeverRun(rq[r].job)'
  OBVIOUS
<1>1. rq \in [Requests -> Handlers]
  BY DEF Inv, TypeOK
<1>2. backend' = backend
  BY DEF Next, SubmitPublish, CancelQueue, HandlerStep, SubmitUpsert, CancelMark,
     WorkerStep, Reserve, ReserveNone, MarkRunning, Process, Settle, FinalMark, vars
<1>3. \A s \in Requests : rq[s].pc # "idle" =>
         /\ rq'[s].op = rq[s].op /\ rq'[s].job = rq[s].job
         /\ rq[s].pc = "done" => rq'[s].pc = "done"
  <2>1. ASSUME NEW q \in Requests, HandlerStep(q)
        PROVE  rq' = [rq EXCEPT ![q].pc = "done"]
    BY <2>1 DEF HandlerStep, SubmitUpsert, CancelMark
  <2>2. CASE \E q \in Requests : HandlerStep(q)
    BY <1>1, <2>1, <2>2 DEF Handlers
  <2>3. CASE \E q \in Requests, j \in Jobs : SubmitPublish(q, j) \/ CancelQueue(q, j)
    BY <1>1, <2>3 DEF SubmitPublish, CancelQueue
  <2>4. CASE (\E w \in Workers : WorkerStep(w)) \/ UNCHANGED vars
    BY <2>4 DEF WorkerStep, Reserve, ReserveNone, MarkRunning, Process, Settle, FinalMark, vars
  <2>. QED
    BY <2>2, <2>3, <2>4 DEF Next
<1>4. rq[r].op = "cancel" /\ rq[r].pc = "done" /\ rq[r].job \in cancelled /\ NeverRun(rq[r].job)
  BY DEF CancelledInTime, Handling
<1>5. rq'[r].op = "cancel" /\ rq'[r].pc = "done" /\ rq'[r].job = rq[r].job
  BY <1>3, <1>4
<1>6. ASSUME NEW j \in cancelled, NeverRun(j) PROVE NeverRun(j)'
  BY <1>6, NeverRunStays
<1>7. NeverRun(rq[r].job)'
  BY <1>4, <1>5, <1>6 DEF NeverRun
<1>8. PICK s \in Requests : rq[s].op = "submit" /\ rq[s].job = rq[r].job
  BY DEF CancelledInTime
<1>9. rq[s].pc = "done"
  BY <1>4, <1>8 DEF Handling
<1>10. CancelledInTime(r)'
  BY <1>3, <1>5, <1>7, <1>8, <1>9 DEF CancelledInTime
<1>. QED
  BY <1>2, <1>5, <1>7, <1>10 DEF CancelledRows, Dropping

LEMMA InitCancels == MemoryAssumption /\ Init => Handling /\ CancelledRows
  BY DEF Init, NewHandler, Handling, CancelledRows, CancelledInTime

\* A job whose cancellation was answered before a worker was given it reads as
\* cancelled from then on and is given to none.
THEOREM CancellationSticks ==
    ASSUME MemoryAssumption, ~ClientReferences PROVE Spec => CancelSticks
<1>. DEFINE I == Inv /\ Handling /\ CancelledRows
<1>1. Init => I
  BY InitInv, InitCancels
<1>2. I /\ [Next]_vars => I'
  BY NextInv, HandlingStep, CancelledRowsStep
<1>3. I /\ I' /\ [Next]_vars =>
         [\A r \in Requests :
             ~Dropping /\ CancelledInTime(r)
                 => rows'[rq[r].job] = "cancelled" /\ NeverRun(rq[r].job)']_vars
  BY CancelSticksStep
<1>. QED
  BY <1>1, <1>2, <1>3, PTL DEF Spec, CancelSticks
=============================================================================
