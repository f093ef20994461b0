------------------------------ MODULE JobRecord ------------------------------
(***************************************************************************)
(* The Redis hash heyavatar:job:{id} that RedisJobQueue, RedisJobRepository *)
(* and, through them, the API and the GPU workers all write.  A hash is a   *)
(* record of the fields the program's decisions read:                       *)
(*                                                                         *)
(*   state    the job state, or Absent when the key does not exist (every   *)
(*            HSET of the program that can create the key writes a state)   *)
(*   payload  Missing (no such field), Empty (the JSON text of {}) or Full  *)
(*   entry    the field _stream_entry: a stream entry id, 0 when missing    *)
(*   result   the field result: Missing, "ok" or "error"                    *)
(*                                                                         *)
(* Time stamps, the attempt counter (never stored by the queue), reserved_by *)
(* and the two error texts are not kept: nothing in the program branches on *)
(* them.                                                                    *)
(***************************************************************************)
EXTENDS Naturals

JobStates == {"pending", "reserved", "running", "completed",
              "completed_degraded", "failed", "failed_inference",
              "failed_encoding", "cancelled"}

\* The states in which a worker or the reclaimer has pronounced on the job.
Finished == {"completed", "completed_degraded", "failed",
             "failed_inference", "failed_encoding"}

Terminal == Finished \cup {"cancelled"}

Absent  == "absent"
Missing == "missing"
Empty   == "empty"
Full    == "full"

Payloads == {Missing, Empty, Full}
Results  == {Missing, "ok", "error"}

Hashes == [state   : JobStates \cup {Absent},
           payload : Payloads,
           entry   : Nat,
           result  : Results]

NoHash == [state |-> Absent, payload |-> Missing, entry |-> 0, result |-> Missing]

-----------------------------------------------------------------------------
\* json.loads(raw.get("payload", "{}")): an absent payload reads as {}.
ReadPayload(h) == IF h.payload = Full THEN Full ELSE Empty

\* RedisJobRepository.upsert of a job whose payload and result are given: the
\* result field is left alone when the job has none, and _stream_entry always.
Upsert(h, state, payload, result) ==
    [h EXCEPT !.state   = state,
              !.payload = payload,
              !.result  = IF result = Missing THEN @ ELSE result]

\* Variant: the new result is lost.
MarkFromDropsResult(snap, h, state, result) ==
    Upsert(h, state, ReadPayload(snap), snap.result)

\* The upsert that ends RedisJobRepository.mark, from the copy of the hash
\* that mark() read earlier; a given result replaces the one that was read.
MarkFrom(snap, h, state, result) ==
    Upsert(h, state, ReadPayload(snap),
           IF result = Missing THEN snap.result ELSE result)
=============================================================================
