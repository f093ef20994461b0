------------------------------ MODULE JobLedger ------------------------------
(***************************************************************************)
(* What the queue of the platform promises about a delivery, whatever the   *)
(* processes, commands and hashes behind it: deliveries are published in an *)
(* order, handed out in that order, each to at most one worker and at most  *)
(* once, and taken off the books only after a verdict on the job has been   *)
(* recorded for it.  The exceptions are a delivery older than the newest     *)
(* Keep ones, which trimming may cut off, and one whose job is cancelled      *)
(* while it waits.                                                           *)
(*                                                                         *)
(* The contract is the one of contracts/job_queue.py (publish, reserve,     *)
(* acknowledge, fail, cancel) as the queues of src/scheduler/queue/           *)
(* understand it.                                                            *)
(***************************************************************************)
EXTENDS Naturals, Sequences

CONSTANTS Jobs, Workers, Keep

VARIABLES
    log,     \* the job of every delivery ever published, in order
    status,  \* where each delivery stands
    hands,   \* the delivery each worker has, 0 for none
    cutoff   \* deliveries 1 .. cutoff have been cut off

ledgerVars == <<log, status, hands, cutoff>>

Deliveries == 1 .. Len(log)

LedgerInit ==
    /\ log = <<>>
    /\ status = <<>>
    /\ hands = [w \in Workers |-> 0]
    /\ cutoff = 0

Publish(j) ==
    /\ log' = Append(log, j)
    /\ status' = Append(status, "waiting")
    /\ UNCHANGED <<hands, cutoff>>

\* The first delivery still waiting goes to a worker with empty hands.
HandOut(w, d) ==
    /\ hands[w] = 0
    /\ status[d] = "waiting"
    /\ \A b \in 1 .. d - 1 : status[b] # "waiting"
    /\ status' = [status EXCEPT ![d] = "handedOut"]
    /\ hands' = [hands EXCEPT ![w] = d]
    /\ UNCHANGED <<log, cutoff>>

\* A verdict on the job is recorded: by its worker, or by a reclaimer.
Judge(d) ==
    /\ status[d] = "handedOut"
    /\ status' = [status EXCEPT ![d] = "judged"]
    /\ UNCHANGED <<log, hands, cutoff>>

Close(d) ==
    /\ status[d] = "judged"
    /\ status' = [status EXCEPT ![d] = "closed"]
    /\ UNCHANGED <<log, hands, cutoff>>

\* A worker is through with its delivery, or dies with it in hand.
LetGo(w) ==
    /\ hands' = [hands EXCEPT ![w] = 0]
    /\ UNCHANGED <<log, status, cutoff>>

\* A job is cancelled: what still waits of it is handed out to nobody.
Withdraw(j) ==
    /\ status' = [d \in Deliveries |->
                     IF log[d] = j /\ status[d] = "waiting" THEN "closed" ELSE status[d]]
    /\ UNCHANGED <<log, hands, cutoff>>

\* Trimming: what was still waiting before the new cutoff is gone.
Cut(c) ==
    /\ c >= cutoff
    /\ c + Keep <= Len(log)
    /\ cutoff' = c
    /\ status' = [d \in Deliveries |->
                     IF d <= c /\ status[d] = "waiting" THEN "closed" ELSE status[d]]
    /\ UNCHANGED <<log, hands>>

\* Deliveries whose message was cut off are dropped from the books.
Vanish(D) ==
    /\ \A d \in D : d <= cutoff
    /\ status' = [d \in Deliveries |-> IF d \in D THEN "closed" ELSE status[d]]
    /\ UNCHANGED <<log, hands, cutoff>>

LedgerNext ==
    \/ \E j \in Jobs : Publish(j) \/ Withdraw(j)
    \/ \E w \in Workers, d \in Deliveries : HandOut(w, d)
    \/ \E d \in Deliveries : Judge(d) \/ Close(d) \/ Cut(d)
    \/ \E w \in Workers : LetGo(w)
    \/ \E D \in SUBSET Deliveries : Vanish(D)

LedgerSpec == LedgerInit /\ [][LedgerNext]_ledgerVars
=============================================================================
