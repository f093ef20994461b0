----------------------------- MODULE RedisStream -----------------------------
(***************************************************************************)
(* What the Redis server does for the stream commands that                  *)
(* src/scheduler/queue/redis.py issues, as operators.  External code: the   *)
(* behaviour is that of Redis 7 (the image docker-compose.yml runs), as far *)
(* as the queue relies on it.                                               *)
(*                                                                         *)
(* The stream is the sequence of every job id ever added; an entry id is a  *)
(* position in it, so ids grow with time and 0 stands for the id "0-0".     *)
(* Entries 1 .. trimmed have been cut off by XTRIM.  The consumer name an   *)
(* entry is pending under is not kept: neither XACK nor XAUTOCLAIM looks at *)
(* it.                                                                      *)
(***************************************************************************)
EXTENDS Naturals, FiniteSets, Sequences

Larger(m, n) == IF m >= n THEN m ELSE n

\* The least element of a non-empty set of entry ids.
First(S) == CHOOSE e \in S : \A f \in S : e <= f

\* The greatest element of a finite non-empty set of entry ids.
Last(S) == CHOOSE e \in S : \A f \in S : f <= e

-----------------------------------------------------------------------------
\* XREADGROUP ... ">" COUNT 1: the first entry after the last one delivered to
\* the group that has not been trimmed away.  It exists iff it is a position.
NextUnread(lastDelivered, trimmed) == Larger(lastDelivered, trimmed) + 1

\* XAUTOCLAIM min-idle start COUNT count walks the pending entries from start
\* in id order.  It stops at idle entries (stale) and at entries whose message
\* is gone (trimmed), at most count of them.
AutoClaimPage(pending, stale, trimmed, start, count) ==
    LET hits == {e \in pending : e >= start /\ (e \in stale \/ e <= trimmed)}
    IN  {e \in hits : Cardinality({f \in hits : f < e}) < count}

\* Of those, the entries handed to the caller; their idle time restarts.
AutoClaimed(page, trimmed) == {e \in page : e > trimmed}

\* The others are deleted from the pending list without a word.
AutoDropped(page, trimmed) == {e \in page : e <= trimmed}

\* The cursor returned: where the next walk starts, 0 when this one got to the
\* end of the pending list.
AutoClaimCursor(pending, page, count) ==
    LET beyond == {e \in pending : e > Last(page)}
    IN  IF Cardinality(page) < count \/ beyond = {} THEN 0 ELSE First(beyond)

\* XTRIM MAXLEN ~ maxlen: keeps at least the newest maxlen entries; how many of
\* the older ones go depends on the stream's nodes.
TrimPoints(length, trimmed, maxlen) ==
    {t \in trimmed .. length : t = trimmed \/ t + maxlen <= length}
=============================================================================
