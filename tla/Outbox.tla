-------------------------------- MODULE Outbox --------------------------------
(* The durable telemetry queue (queue.py): one SQLite file, every method one   *)
(* transaction.  A row is a record that never changes once it is inserted; its *)
(* mutable columns are membership of waiting (next_attempt_at lies ahead) and  *)
(* of held (quarantined_at is set).  The rows of a queue are ordered by id.    *)
EXTENDS Integers, FiniteSets

CONSTANTS
    Stream,     \* the configured Home Assistant streams
    Bridge,     \* the scope of a status that is about no stream
    MaxItems    \* max_queue_items

ASSUME OutboxAssumption ==
    /\ Bridge \notin Stream
    /\ IsFiniteSet(Stream)
    /\ MaxItems \in Nat \ {0}

VARIABLES
    outbox,     \* the rows
    waiting,    \* rows a retry has postponed
    held,       \* quarantined rows
    health,     \* the last fingerprint recorded for a stream
    lastId      \* the id AUTOINCREMENT gave last

queue == <<outbox, waiting, held, health, lastId>>

Codes == {"ok", "unavailable", "unreachable"}
Topics == {"sample", "edge", "heartbeat", "dropped", "rejected"}

Item == [id: Nat, topic: Topics, stream: Stream \cup {Bridge}, code: Codes \cup {"error"}]

QueueTypeOK ==
    /\ outbox \subseteq Item
    /\ waiting \subseteq outbox
    /\ held \subseteq outbox
    /\ health \in [Stream -> Codes \cup {"none"}]
    /\ lastId \in Nat
    /\ \A i, j \in outbox : i.id = j.id => i = j
    /\ \A i \in outbox : i.id <= lastId

QueueInit ==
    /\ outbox = {}
    /\ waiting = {}
    /\ held = {}
    /\ health = [s \in Stream |-> "none"]
    /\ lastId = 0

-------------------------------------------------------------------------------
(* Rows in the order of their ids. *)

Before(i, S) == {j \in S : j.id < i.id}

\* Mutant of Oldest: one row more than the limit
OldestOneMore(S, n) == {i \in S : Cardinality(Before(i, S)) <= n}

Oldest(S, n) == {i \in S : Cardinality(Before(i, S)) < n}

\* Mutant of Due: quarantined rows are selected as well
DueQuarantinedToo == outbox \ waiting

Due == outbox \ (waiting \cup held)

DueItems(limit) == Oldest(Due, limit)

-------------------------------------------------------------------------------
(* The transactions. *)

Insert(topic, stream, code) ==
    /\ outbox' = outbox \cup
           {[id |-> lastId + 1, topic |-> topic, stream |-> stream, code |-> code]}
    /\ lastId' = lastId + 1
    /\ UNCHANGED <<waiting, held>>

EnqueueSample(s) == Insert("sample", s, "ok") /\ UNCHANGED health

EnqueueBridgeStatus(topic, code) == Insert(topic, Bridge, code) /\ UNCHANGED health

\* A stream status is an edge: an unchanged fingerprint inserts nothing
EnqueueStatusIfChanged(s, code) ==
    IF health[s] = code THEN UNCHANGED queue
    ELSE /\ health' = [health EXCEPT ![s] = code]
         /\ Insert("edge", s, code)

Delete(S) ==
    /\ outbox' = outbox \ S
    /\ waiting' = waiting \ S
    /\ held' = held \ S
    /\ UNCHANGED lastId

Acknowledge(S) == Delete(S) /\ UNCHANGED health

Quarantine(S) == held' = held \cup S /\ UNCHANGED <<outbox, waiting, health, lastId>>

Retry(S) ==
    /\ waiting' = waiting \cup (S \ held)
    /\ UNCHANGED <<outbox, held, health, lastId>>

ResetHealthEdges ==
    /\ health' = [s \in Stream |-> "none"]
    /\ UNCHANGED <<outbox, waiting, held, lastId>>

\* Expired rows go first, then the oldest beyond the cap, then one more when the
\* event that tells of the loss would not fit otherwise
Overflow(expired) ==
    LET kept == outbox \ expired
    IN  Oldest(kept, Cardinality(kept) - MaxItems)

Reserve(gone) ==
    LET kept == outbox \ gone
    IN  IF gone # {} /\ Cardinality(kept) + 1 > MaxItems THEN Oldest(kept, 1) ELSE {}

\* Mutant of Dropped: no room is reserved for the event
DroppedWithoutReserve(expired) == expired \cup Overflow(expired)

Dropped(expired) ==
    LET gone == expired \cup Overflow(expired) IN gone \cup Reserve(gone)

\* Mutant of DropItems: the fingerprints stay
DropItemsOnly(S) == Delete(S) /\ UNCHANGED health

\* Mutant of DropItems: only the stream of the oldest row is forgotten
DropItemsResetOldest(S) ==
    /\ Delete(S)
    /\ health' = [s \in Stream |-> IF \E i \in Oldest(S, 1) : i.stream = s
                                  THEN "none" ELSE health[s]]

\* A dropped edge may not have reached Waterlog: forget the fingerprints with it
DropItems(S) ==
    /\ Delete(S)
    /\ health' = IF S = {} THEN health ELSE [s \in Stream |-> "none"]
===============================================================================
