---------------------------- MODULE TelemetryProofs ----------------------------
(* The proofs of the invariants of Telemetry.                                  *)
EXTENDS Telemetry, FiniteSetTheorems, WellFoundedInduction, TLAPS

-------------------------------------------------------------------------------
(* The rows of a finite outbox in the order of their ids.                      *)

Ordered(S) == S \subseteq Item /\ IsFiniteSet(S)

LEMMA BeforeFinite ==
    ASSUME NEW S, Ordered(S), NEW i \in S
    PROVE  /\ Before(i, S) \subseteq S
           /\ IsFiniteSet(Before(i, S))
           /\ Cardinality(Before(i, S)) \in Nat
<1>1. Before(i, S) \subseteq S
  BY DEF Before
<1>. QED  BY <1>1, FS_Subset, FS_CardinalityType DEF Ordered

\* There is an oldest row
LEMMA OldestExists ==
    ASSUME NEW S, Ordered(S), S # {}
    PROVE  \E m \in S : \A i \in S : m.id <= i.id
<1>. DEFINE R == StrictSubsetOrdering(S)
            F == FiniteSubsetsOf(S)
            T == {Before(i, S) : i \in S}
<1>1. IsWellFoundedOn(R, F)
  BY FS_StrictSubsetOrderingWellFounded
<1>2. T \subseteq F /\ T # {}
  BY BeforeFinite DEF FiniteSubsetsOf
<1>3. PICK X \in T : \A Y \in T : ~(<<Y, X>> \in R)
  <2>. HIDE DEF R, F, T
  <2>. QED  BY <1>1, <1>2, WFMin
<1>4. PICK m \in S : X = Before(m, S)
  BY <1>3
<1>5. ASSUME NEW i \in S, ~(m.id <= i.id) PROVE FALSE
  <2>1. i.id \in Nat /\ m.id \in Nat /\ \A j \in S : j.id \in Nat
    BY DEF Ordered, Item
  <2>2. Before(i, S) \subseteq Before(m, S) /\ i \in Before(m, S) /\ i \notin Before(i, S)
    BY <1>5, <2>1 DEF Before
  <2>3. <<Before(i, S), X>> \in R
    BY <1>4, <2>2 DEF StrictSubsetOrdering, Before
  <2>. QED  BY <1>3, <2>3
<1>. QED  BY <1>5

\* There is a newest row
LEMMA NewestExists ==
    ASSUME NEW S, Ordered(S), S # {}
    PROVE  \E m \in S : \A i \in S : i.id <= m.id
<1>. DEFINE After(i) == {j \in S : j.id > i.id}
            R == StrictSubsetOrdering(S)
            F == FiniteSubsetsOf(S)
            T == {After(i) : i \in S}
<1>1. IsWellFoundedOn(R, F)
  BY FS_StrictSubsetOrderingWellFounded
<1>2. T \subseteq F /\ T # {}
  <2>1. ASSUME NEW i \in S PROVE After(i) \in SUBSET S /\ IsFiniteSet(After(i))
    <3>1. After(i) \in SUBSET S
      OBVIOUS
    <3>. QED  BY <3>1, FS_Subset DEF Ordered
  <2>. QED  BY <2>1 DEF FiniteSubsetsOf
<1>3. PICK X \in T : \A Y \in T : ~(<<Y, X>> \in R)
  <2>. HIDE DEF R, F, T
  <2>. QED  BY <1>1, <1>2, WFMin
<1>4. PICK m \in S : X = After(m)
  BY <1>3
<1>5. ASSUME NEW i \in S, ~(i.id <= m.id) PROVE FALSE
  <2>1. i.id \in Nat /\ m.id \in Nat /\ \A j \in S : j.id \in Nat
    BY DEF Ordered, Item
  <2>2. After(i) \subseteq After(m) /\ i \in After(m) /\ i \notin After(i)
    BY <1>5, <2>1
  <2>3. <<After(i), X>> \in R
    BY <1>4, <2>2 DEF StrictSubsetOrdering
  <2>. QED  BY <1>3, <2>3
<1>. QED  BY <1>5

\* Oldest takes no more rows than it is asked for
LEMMA OldestBounded ==
    ASSUME NEW S, Ordered(S), \A i, j \in S : i.id = j.id => i = j, NEW n \in Nat
    PROVE  Cardinality(Oldest(S, n)) <= n
<1>. DEFINE O == Oldest(S, n)
<1>1. O \subseteq S
  BY DEF Oldest
<1>2. Ordered(O)
  BY <1>1, FS_Subset DEF Ordered
<1>3. CASE O = {}
  BY <1>3, FS_EmptySet
<1>4. CASE O # {}
  <2>1. PICK m \in O : \A i \in O : i.id <= m.id
    BY <1>2, <1>4, NewestExists
  <2>2. \A i \in S : i.id \in Nat
    BY DEF Ordered, Item
  <2>3. O \ {m} \subseteq Before(m, S)
    BY <1>1, <2>1, <2>2 DEF Before
  <2>4. Cardinality(O \ {m}) <= Cardinality(Before(m, S))
    BY <1>1, <2>3, BeforeFinite, FS_Subset
  <2>5. Cardinality(O \ {m}) = Cardinality(O) - 1
    BY <1>2, FS_RemoveElement DEF Ordered
  <2>6. Cardinality(Before(m, S)) < n /\ Cardinality(Before(m, S)) \in Nat
    BY <1>1, BeforeFinite DEF Oldest
  <2>7. Cardinality(O) \in Nat
    BY <1>2, FS_CardinalityType DEF Ordered
  <2>. QED  BY <2>4, <2>5, <2>6, <2>7
<1>. QED  BY <1>3, <1>4

\* Oldest takes as many rows as it is asked for
LEMMA OldestEnough ==
    ASSUME NEW S, Ordered(S), NEW n \in Nat, n <= Cardinality(S)
    PROVE  Cardinality(S \ Oldest(S, n)) <= Cardinality(S) - n
<1>. DEFINE Y == S \ Oldest(S, n)
<1>1. Ordered(Y)
  BY FS_Difference DEF Ordered
<1>0. Cardinality(S) \in Nat
  BY FS_CardinalityType DEF Ordered
<1>2. CASE Y = {}
  BY <1>0, <1>2, FS_EmptySet
<1>3. CASE Y # {}
  <2>1. PICK m \in Y : \A i \in Y : m.id <= i.id
    BY <1>1, <1>3, OldestExists
  <2>2. Cardinality(Before(m, S)) \in Nat /\ ~(Cardinality(Before(m, S)) < n)
    BY BeforeFinite DEF Oldest
  <2>3. Before(m, S) \cap Y = {}
    <3>1. \A i \in S : i.id \in Nat
      BY DEF Ordered, Item
    <3>. QED  BY <2>1, <3>1 DEF Before
  <2>4. Before(m, S) \cup Y \subseteq S
    BY DEF Before
  <2>5. IsFiniteSet(Before(m, S)) /\ IsFiniteSet(Y)
    BY <1>1, BeforeFinite DEF Ordered
  <2>6. Cardinality(Before(m, S) \cup Y) = Cardinality(Before(m, S)) + Cardinality(Y)
    <3>1. Cardinality(Before(m, S) \cup Y)
              = Cardinality(Before(m, S)) + Cardinality(Y) - Cardinality(Before(m, S) \cap Y)
      BY <2>5, FS_Union
    <3>2. Cardinality(Before(m, S) \cap Y) = 0
      BY <2>3, FS_EmptySet
    <3>3. Cardinality(Y) \in Nat
      BY <2>5, FS_CardinalityType
    <3>. QED  BY <2>2, <3>1, <3>2, <3>3
  <2>7. Cardinality(Before(m, S) \cup Y) <= Cardinality(S)
    BY <2>4, FS_Subset DEF Ordered
  <2>8. Cardinality(Y) \in Nat
    BY <2>5, FS_CardinalityType
  <2>. QED  BY <1>0, <2>2, <2>6, <2>7, <2>8
<1>. QED  BY <1>2, <1>3
-------------------------------------------------------------------------------
(* The inductive invariant: the type, a finite outbox, the account of ids, that *)
(* only what Waterlog stored is about to be acknowledged, and that a batch is   *)
(* under way only between the request and its settlement.                       *)

\* The part about the outbox
QueueInv ==
    /\ QueueTypeOK
    /\ IsFiniteSet(outbox)
    /\ NothingVanishes
    /\ stored \subseteq Item
    /\ lost \subseteq Item

\* The part about the batch under way
BatchInv ==
    /\ batch \subseteq outbox
    /\ Cardinality(batch) <= BatchSize
    /\ DOMAIN verdict = {"accepted", "rejected", "again"}
    /\ \A d \in DOMAIN verdict : verdict[d] \subseteq batch
    /\ verdict.accepted \subseteq stored
    /\ verdict.accepted \cap verdict.again = {}
    /\ pc \notin {"posted", "answer", "quarantine", "retry"} => batch = {}
    /\ pc \notin {"quarantine", "retry"} => verdict = NoVerdict

\* The part about the thread
ThreadInv ==
    /\ pc \in Places
    /\ pollDue \in BOOLEAN
    /\ poll \in [left: SUBSET Stream, at: Stream \cup {Bridge}, failed: BOOLEAN]
    /\ pc = "edge" => poll.at \in Stream
    /\ upload \in {"now", "later", "never"}
    /\ backoff \subseteq Item
    /\ polls \in Nat

TelemetryInv == QueueInv /\ BatchInv /\ ThreadInv

HealthOK == health \in [Stream -> Codes \cup {"none"}]

LEMMA InsertKeeps ==
    ASSUME QueueInv, NEW topic \in Topics, NEW stream \in Stream \cup {Bridge},
           NEW code \in Codes \cup {"error"}, Insert(topic, stream, code),
           HealthOK', UNCHANGED <<stored, lost>>
    PROVE  QueueInv' /\ outbox \subseteq outbox'
<1>. DEFINE new == [id |-> lastId + 1, topic |-> topic, stream |-> stream, code |-> code]
<1>1. outbox' = outbox \cup {new} /\ lastId' = lastId + 1 /\ UNCHANGED <<waiting, held>>
  BY DEF Insert
<1>2. new \in Item /\ new.id = lastId + 1 /\ lastId \in Nat
  BY DEF QueueInv, QueueTypeOK, Item
<1>3. \A i \in outbox : i.id \in Nat /\ i.id <= lastId
  BY DEF QueueInv, QueueTypeOK, Item
<1>. HIDE DEF new
<1>4. QueueTypeOK'
  BY <1>1, <1>2, <1>3 DEF QueueInv, QueueTypeOK, HealthOK
<1>5. IsFiniteSet(outbox')
  BY <1>1, FS_AddElement DEF QueueInv
<1>6. NothingVanishes'
  <2>1. {i.id : i \in (outbox \cup stored \cup lost)'}
            = {i.id : i \in outbox \cup stored \cup lost} \cup {lastId + 1}
    BY <1>1, <1>2
  <2>2. 1 .. lastId + 1 = (1 .. lastId) \cup {lastId + 1}
    BY <1>2
  <2>. QED  BY <1>1, <2>1, <2>2 DEF QueueInv, NothingVanishes
<1>. QED  BY <1>1, <1>4, <1>5, <1>6 DEF QueueInv

\* Rows may go that Waterlog has or that count as lost
LEMMA DeleteKeeps ==
    ASSUME QueueInv, NEW S, Delete(S), HealthOK', UNCHANGED stored,
           S \cap outbox \subseteq stored \cup lost', lost \subseteq lost', lost' \subseteq lost \cup outbox
    PROVE  QueueInv'
<1>1. /\ outbox' = outbox \ S
      /\ waiting' = waiting \ S
      /\ held' = held \ S
      /\ lastId' = lastId
  BY DEF Delete
<1>2. QueueTypeOK'
  BY <1>1 DEF QueueInv, QueueTypeOK, HealthOK
<1>3. IsFiniteSet(outbox')
  BY <1>1, FS_Difference DEF QueueInv
<1>4. (outbox \cup stored \cup lost)' = outbox \cup stored \cup lost
  BY <1>1
<1>5. NothingVanishes'
  BY <1>1, <1>4 DEF QueueInv, NothingVanishes
<1>6. lost' \subseteq Item
  BY DEF QueueInv, QueueTypeOK
<1>. QED  BY <1>2, <1>3, <1>5, <1>6 DEF QueueInv

LEMMA RowsKept ==
    ASSUME QueueInv, UNCHANGED <<outbox, lastId, lost>>, HealthOK',
           waiting' \subseteq outbox, held' \subseteq outbox,
           stored \subseteq stored', stored' \subseteq stored \cup outbox
    PROVE  QueueInv'
<1>1. QueueTypeOK'
  BY DEF QueueInv, QueueTypeOK, HealthOK
<1>2. (outbox \cup stored \cup lost)' = outbox \cup stored \cup lost
  OBVIOUS
<1>3. NothingVanishes'
  BY <1>2 DEF QueueInv, NothingVanishes
<1>4. stored' \subseteq Item
  BY DEF QueueInv, QueueTypeOK
<1>. QED  BY <1>1, <1>3, <1>4 DEF QueueInv

LEMMA EnqueueKeeps ==
    ASSUME QueueInv, NEW s \in Stream, NEW code \in Codes,
           EnqueueStatusIfChanged(s, code), UNCHANGED <<stored, lost>>
    PROVE  QueueInv' /\ outbox \subseteq outbox'
<1>1. CASE health[s] = code
  BY <1>1, RowsKept DEF EnqueueStatusIfChanged, queue, QueueInv, QueueTypeOK, HealthOK
<1>2. CASE health[s] # code
  <2>1. Insert("edge", s, code) /\ health' = [health EXCEPT ![s] = code]
    BY <1>2 DEF EnqueueStatusIfChanged
  <2>2. HealthOK'
    BY <2>1 DEF QueueInv, QueueTypeOK, HealthOK
  <2>. QED  BY <2>1, <2>2, InsertKeeps DEF Topics
<1>. QED  BY <1>1, <1>2

LEMMA InvHealth == TelemetryInv => HealthOK
BY DEF TelemetryInv, QueueInv, QueueTypeOK, HealthOK

-------------------------------------------------------------------------------
(* The invariant holds at the start and over every step.                       *)

LEMMA InvInitially == Init => TelemetryInv
<1>. SUFFICES ASSUME Init PROVE TelemetryInv
  OBVIOUS
<1>. USE DEF Init, QueueInit
<1>1. QueueInv
  <2>1. IsFiniteSet(outbox)
    BY FS_EmptySet
  <2>2. NothingVanishes
    BY DEF NothingVanishes
  <2>. QED  BY <2>1, <2>2 DEF QueueInv, QueueTypeOK
<1>2. BatchInv
  BY FS_EmptySet, TelemetryAssumption DEF BatchInv, NoVerdict
<1>3. ThreadInv
  BY DEF ThreadInv, Places, NoPoll
<1>. QED  BY <1>1, <1>2, <1>3 DEF TelemetryInv

\* A thread that is not settling a batch keeps none
LEMMA IdleBatch ==
    ASSUME TelemetryInv, pc \notin {"posted", "answer", "quarantine", "retry"},
           UNCHANGED <<batch, verdict>>
    PROVE  BatchInv'
BY DEF TelemetryInv, BatchInv, NoVerdict

LEMMA ClearedBatch ==
    ASSUME batch' = {}, verdict' = NoVerdict
    PROVE  BatchInv'
BY FS_EmptySet, TelemetryAssumption DEF BatchInv, NoVerdict

\* Polling leaves the rest of the service alone
LEMMA PollingKeeps ==
    ASSUME TelemetryInv, NEW place \in Places, Polling(place), QueueInv',
           pc \in {"poll", "edge", "tell"},
           poll' \in [left: SUBSET Stream, at: Stream \cup {Bridge}, failed: BOOLEAN],
           place = "edge" => poll'.at \in Stream
    PROVE  TelemetryInv'
<1>1. BatchInv'
  BY IdleBatch DEF Polling
<1>2. ThreadInv'
  BY DEF TelemetryInv, ThreadInv, Polling, observed
<1>. QED  BY <1>1, <1>2 DEF TelemetryInv

LEMMA PollKeeps ==
    ASSUME TelemetryInv, Poll
    PROVE  TelemetryInv'
<1>. USE InvHealth
<1>. DEFINE PollType == [left: SUBSET Stream, at: Stream \cup {Bridge}, failed: BOOLEAN]
<1>0. QueueInv /\ HealthOK /\ poll \in PollType
  BY DEF TelemetryInv, ThreadInv
<1>1. CASE PollStarts
  <2>1. QueueInv'
    BY <1>0, <1>1, RowsKept DEF PollStarts, queue, HealthOK, QueueInv, QueueTypeOK
  <2>2. BatchInv'
    BY <1>1, IdleBatch DEF PollStarts
  <2>3. poll' \in PollType
    BY <1>1 DEF PollStarts, NoPoll
  <2>4. pollDue' \in BOOLEAN /\ polls' \in Nat
    <3>1. polls \in Nat
      BY DEF TelemetryInv, ThreadInv
    <3>2. pollDue' = FALSE /\ polls' = polls + 1
      BY <1>1 DEF PollStarts
    <3>3. polls' \in Nat
      BY <3>1, <3>2
    <3>4. pollDue' \in BOOLEAN
      BY <3>2
    <3>. QED  BY <3>3, <3>4
  <2>5. pc' = "poll" /\ UNCHANGED <<upload, backoff>>
    BY <1>1 DEF PollStarts
  <2>6. ThreadInv'
    BY <2>3, <2>4, <2>5 DEF TelemetryInv, ThreadInv, Places
  <2>. QED  BY <2>1, <2>2, <2>6 DEF TelemetryInv
<1>2. ASSUME NEW s \in Stream, Sample(s) PROVE TelemetryInv'
  <2>. USE <1>2 DEF Sample
  <2>1. QueueInv'
    BY <1>0, InsertKeeps DEF EnqueueSample, Polling, observed, Topics, Codes, HealthOK
  <2>2. poll' \in PollType /\ poll'.at \in Stream
    BY <1>0
  <2>. QED  BY <2>1, <2>2, PollingKeeps DEF Places
<1>3. CASE RecordOk
  <2>. USE <1>3 DEF RecordOk
  <2>1. QueueInv'
    BY <1>0, EnqueueKeeps DEF Polling, observed, Codes, TelemetryInv, ThreadInv
  <2>2. poll' \in PollType
    BY <1>0
  <2>. QED  BY <2>1, <2>2, PollingKeeps DEF Places
<1>4. ASSUME NEW s \in Stream, RecordUnusable(s) PROVE TelemetryInv'
  <2>. USE <1>4 DEF RecordUnusable
  <2>1. QueueInv'
    BY <1>0, EnqueueKeeps DEF Polling, observed, Codes
  <2>2. poll' \in PollType
    BY <1>0
  <2>. QED  BY <2>1, <2>2, PollingKeeps DEF Places
<1>5. ASSUME NEW s \in Stream, RecordUnreachable(s) PROVE TelemetryInv'
  <2>. USE <1>5 DEF RecordUnreachable
  <2>1. QueueInv'
    BY <1>0, EnqueueKeeps DEF Polling, observed, Codes
  <2>2. poll' \in PollType
    BY <1>0
  <2>. QED  BY <2>1, <2>2, PollingKeeps DEF Places
<1>6. CASE Heartbeat
  <2>. USE <1>6 DEF Heartbeat
  <2>1. QueueInv'
    BY <1>0, InsertKeeps DEF EnqueueBridgeStatus, Polling, observed, Topics, Codes, HealthOK
  <2>2. poll' \in PollType
    BY DEF NoPoll
  <2>. QED  BY <2>1, <2>2, PollingKeeps DEF Places
<1>7. ASSUME NEW n \in 0 .. Cardinality(outbox), EnforceLimits(n) PROVE TelemetryInv'
  <2>. DEFINE gone == Dropped(Oldest(outbox, n))
  <2>1. DropItems(gone) /\ lost' = lost \cup gone /\ pc' \in {"loop", "tell"}
    BY <1>7 DEF EnforceLimits
  <2>2. UNCHANGED <<pollDue, poll, upload, backoff, batch, verdict, stored, polls>> /\ pc = "limits"
    BY <1>7 DEF EnforceLimits
  <2>3. gone \subseteq outbox
    BY DEF Dropped, Overflow, Reserve, Oldest
  <2>. HIDE DEF gone
  <2>4. HealthOK'
    BY <1>0, <2>1 DEF DropItems, HealthOK
  <2>5. QueueInv'
    BY <1>0, <2>1, <2>2, <2>3, <2>4, DeleteKeeps DEF DropItems
  <2>6. BatchInv'
    BY <2>2, IdleBatch
  <2>7. ThreadInv'
    BY <2>1, <2>2 DEF TelemetryInv, ThreadInv, Places
  <2>. QED  BY <2>5, <2>6, <2>7 DEF TelemetryInv
<1>8. CASE ReportDrop
  <2>. USE <1>8 DEF ReportDrop
  <2>1. QueueInv'
    BY <1>0, InsertKeeps DEF EnqueueBridgeStatus, Polling, observed, Topics, Codes, HealthOK
  <2>. QED  BY <1>0, <2>1, PollingKeeps DEF Places
<1>. QED  BY <1>1, <1>2, <1>3, <1>4, <1>5, <1>6, <1>7, <1>8 DEF Poll

\* A batch never holds more rows than are asked for
LEMMA DueBounded ==
    ASSUME TelemetryInv
    PROVE  DueItems(BatchSize) \subseteq outbox /\ Cardinality(DueItems(BatchSize)) <= BatchSize
<1>1. Due \subseteq outbox
  BY DEF Due
<1>2. Ordered(Due)
  BY <1>1, FS_Subset DEF Ordered, TelemetryInv, QueueInv, QueueTypeOK
<1>3. \A i, j \in Due : i.id = j.id => i = j
  BY <1>1 DEF TelemetryInv, QueueInv, QueueTypeOK
<1>4. Cardinality(Oldest(Due, BatchSize)) <= BatchSize
  BY <1>2, <1>3, OldestBounded, TelemetryAssumption
<1>. QED  BY <1>1, <1>4 DEF DueItems, Oldest

\* A position of the batch names one row of it
LEMMA ResolvedIn ==
    ASSUME NEW i \in batch
    PROVE  Resolved(Position(i)) \in batch /\ Position(Resolved(Position(i))) = Position(i)
BY DEF Resolved

\* What settles a batch
LEMMA ScheduledKeeps ==
    ASSUME TelemetryInv, QueueInv', NEW next \in {"now", "later", "never"},
           NEW retried \in SUBSET Item, Scheduled(next, retried), UNCHANGED observed
    PROVE  TelemetryInv'
<1>1. BatchInv'
  BY ClearedBatch DEF Scheduled
<1>2. ThreadInv'
  BY DEF Scheduled, TelemetryInv, ThreadInv, Places, observed
<1>. QED  BY <1>1, <1>2 DEF TelemetryInv

LEMMA UploadKeeps ==
    ASSUME TelemetryInv, Upload
    PROVE  TelemetryInv'
<1>. USE InvHealth
<1>0. /\ QueueInv /\ HealthOK /\ BatchInv /\ ThreadInv
      /\ outbox \subseteq Item /\ waiting \subseteq outbox /\ held \subseteq outbox
      /\ batch \subseteq outbox /\ IsFiniteSet(outbox)
  BY DEF TelemetryInv, QueueInv, QueueTypeOK, BatchInv
<1>1. CASE UploadStarts
  <2>. USE <1>1 DEF UploadStarts
  <2>1. QueueInv'
    BY <1>0, RowsKept DEF queue, observed, HealthOK
  <2>2. BatchInv'
    <3>1. verdict = NoVerdict
      BY <1>0 DEF BatchInv
    <3>. QED  BY <1>0, <2>1, <3>1, DueBounded DEF BatchInv, NoVerdict, queue
  <2>3. ThreadInv'
    BY <1>0 DEF ThreadInv, Places, observed
  <2>. QED  BY <2>1, <2>2, <2>3 DEF TelemetryInv
<1>2. ASSUME NEW S \in SUBSET batch, WaterlogStores(S) PROVE TelemetryInv'
  <2>. USE <1>2 DEF WaterlogStores
  <2>1. QueueInv'
    BY <1>0, RowsKept DEF queue, HealthOK
  <2>2. BatchInv'
    BY <1>0 DEF BatchInv, queue
  <2>3. ThreadInv'
    BY <1>0 DEF ThreadInv, Places
  <2>. QED  BY <2>1, <2>2, <2>3 DEF TelemetryInv
<1>3. ASSUME RetryBatch, UNCHANGED observed PROVE TelemetryInv'
  <2>1. QueueInv'
    BY <1>0, <1>3, RowsKept DEF RetryBatch, Retry, observed, HealthOK
  <2>. QED  BY <1>0, <1>3, <2>1, ScheduledKeeps DEF RetryBatch
<1>4. CASE Unanswered
  BY <1>3, <1>4 DEF Unanswered
<1>5. CASE Garbled
  BY <1>3, <1>5 DEF Garbled
<1>6. CASE Malformed
  <2>1. QueueInv'
    BY <1>0, <1>6, RowsKept DEF Malformed, Quarantine, observed, HealthOK
  <2>. QED  BY <1>6, <2>1, ScheduledKeeps DEF Malformed
<1>7. CASE Denied
  <2>. USE <1>7 DEF Denied
  <2>1. QueueInv'
    BY <1>0, RowsKept DEF queue, observed, HealthOK
  <2>2. BatchInv'
    <3>1. verdict = NoVerdict
      BY <1>0 DEF BatchInv
    <3>. QED  BY <1>0, <3>1, ClearedBatch
  <2>3. ThreadInv'
    BY <1>0 DEF ThreadInv, Places, observed
  <2>. QED  BY <2>1, <2>2, <2>3 DEF TelemetryInv
<1>8. ASSUME NEW answers \in Answer, Answered(answers) PROVE TelemetryInv'
  <2>. DEFINE Items(d) == {Resolved(p) : p \in {q \in DOMAIN answers : answers[q] = d}}
  <2>. USE <1>8 DEF Answered
  <2>1. QueueInv'
    BY <1>0, RowsKept DEF queue, observed, HealthOK
  <2>2. DOMAIN answers = {Position(i) : i \in batch}
    BY DEF Answer
  <2>3. Items("accepted") \subseteq batch /\ Items("rejected") \subseteq batch
    BY <2>2, ResolvedIn
  <2>4. Items("accepted") \subseteq stored
    BY <2>2, ResolvedIn
  <2>5. verdict' = [accepted |-> Items("accepted"), rejected |-> Items("rejected"),
                    again |-> batch \ (Items("accepted") \cup Items("rejected"))]
    OBVIOUS
  <2>. HIDE DEF Items
  <2>6. BatchInv'
    BY <1>0, <2>3, <2>4, <2>5 DEF BatchInv, queue, observed
  <2>7. ThreadInv'
    BY <1>0 DEF ThreadInv, Places, observed
  <2>. QED  BY <2>1, <2>6, <2>7 DEF TelemetryInv
<1>9. CASE ReportDenied
  <2>1. QueueInv'
    BY <1>0, <1>9, InsertKeeps
       DEF ReportDenied, EnqueueBridgeStatus, observed, Topics, Codes, HealthOK
  <2>. QED  BY <1>9, <2>1, ScheduledKeeps DEF ReportDenied
<1>10. CASE QuarantineRejected
  <2>. DEFINE next == Oldest(verdict.rejected, 1)
  <2>1. next \subseteq verdict.rejected /\ verdict.rejected \subseteq batch
    BY <1>0 DEF BatchInv, Oldest
  <2>2. Quarantine(next) /\ verdict' = [verdict EXCEPT !.rejected = @ \ next]
    BY <1>10 DEF QuarantineRejected
  <2>3. UNCHANGED <<pc, pollDue, poll, upload, backoff, batch, observed>> /\ pc = "quarantine"
    BY <1>10 DEF QuarantineRejected
  <2>. HIDE DEF next
  <2>4. QueueInv'
    BY <1>0, <2>1, <2>2, <2>3, RowsKept DEF Quarantine, observed, HealthOK
  <2>5. BatchInv'
    BY <1>0, <2>1, <2>2, <2>3 DEF BatchInv, Quarantine, observed
  <2>6. ThreadInv'
    BY <1>0, <2>3 DEF ThreadInv, observed
  <2>. QED  BY <2>4, <2>5, <2>6 DEF TelemetryInv
<1>11. CASE AcknowledgeAccepted
  <2>. USE <1>11 DEF AcknowledgeAccepted
  <2>1. verdict.accepted \subseteq batch /\ verdict.accepted \subseteq stored
    BY <1>0 DEF BatchInv
  <2>2. QueueInv'
    BY <1>0, <2>1, DeleteKeeps DEF Acknowledge, observed, HealthOK
  <2>3. Cardinality(batch') <= BatchSize
    <3>1. IsFiniteSet(batch)
      BY <1>0, FS_Subset
    <3>2. Cardinality(batch') <= Cardinality(batch)
          /\ Cardinality(batch) \in Nat /\ Cardinality(batch') \in Nat
      BY <3>1, FS_Subset, FS_CardinalityType
    <3>. QED  BY <1>0, <3>2, TelemetryAssumption DEF BatchInv
  <2>4. verdict'.accepted = {} /\ verdict'.rejected = {} /\ verdict'.again = verdict.again
        /\ DOMAIN verdict' = {"accepted", "rejected", "again"}
    BY <1>0 DEF BatchInv
  <2>5. BatchInv'
    <3>1. batch' \subseteq outbox'
      BY <1>0 DEF Acknowledge, Delete
    <3>2. verdict.again \subseteq batch'
      BY <1>0 DEF BatchInv
    <3>. QED  BY <1>0, <2>3, <2>4, <3>1, <3>2 DEF BatchInv
  <2>6. ThreadInv'
    BY <1>0 DEF ThreadInv, Places, observed
  <2>. QED  BY <2>2, <2>5, <2>6 DEF TelemetryInv
<1>12. CASE RetryRest
  <2>0. verdict.again \subseteq batch
    BY <1>0 DEF BatchInv
  <2>1. QueueInv'
    BY <1>0, <1>12, <2>0, RowsKept DEF RetryRest, Retry, observed, HealthOK
  <2>. QED  BY <1>0, <1>12, <2>0, <2>1, ScheduledKeeps DEF RetryRest
<1>. QED
  BY <1>1, <1>2, <1>4, <1>5, <1>6, <1>7, <1>8, <1>9, <1>10, <1>11, <1>12 DEF Upload, Reply

LEMMA InvStep == TelemetryInv /\ [Next]_vars => TelemetryInv'
<1>. SUFFICES ASSUME TelemetryInv, [Next]_vars PROVE TelemetryInv'
  OBVIOUS
<1>0. /\ QueueInv /\ HealthOK /\ BatchInv /\ ThreadInv
      /\ waiting \subseteq outbox /\ held \subseteq outbox
  BY InvHealth DEF TelemetryInv, QueueInv, QueueTypeOK
<1>1. CASE Boot
  <2>. USE <1>1 DEF Boot
  <2>1. QueueInv'
    BY <1>0, RowsKept DEF ResetHealthEdges, observed, HealthOK
  <2>2. BatchInv'
    BY IdleBatch
  <2>3. ThreadInv'
    BY <1>0 DEF ThreadInv, Places, observed
  <2>. QED  BY <2>1, <2>2, <2>3 DEF TelemetryInv
<1>2. CASE Poll
  BY <1>2, PollKeeps
<1>3. CASE Upload
  BY <1>3, UploadKeeps
<1>4. CASE PollTimer
  <2>. USE <1>4 DEF PollTimer
  <2>1. QueueInv'
    BY <1>0, RowsKept DEF queue, observed, HealthOK
  <2>2. BatchInv'
    BY IdleBatch
  <2>3. ThreadInv'
    BY <1>0 DEF ThreadInv, observed
  <2>. QED  BY <2>1, <2>2, <2>3 DEF TelemetryInv
<1>5. CASE UploadTimer
  <2>. USE <1>5 DEF UploadTimer
  <2>1. QueueInv'
    BY <1>0, RowsKept DEF observed, HealthOK
  <2>2. BatchInv'
    BY IdleBatch
  <2>3. ThreadInv'
    BY <1>0 DEF ThreadInv, observed
  <2>. QED  BY <2>1, <2>2, <2>3 DEF TelemetryInv
<1>6. ASSUME NEW i \in waiting, RetryTimer(i) PROVE TelemetryInv'
  <2>. USE <1>6 DEF RetryTimer
  <2>1. QueueInv'
    BY <1>0, RowsKept DEF service, observed, HealthOK
  <2>2. BatchInv'
    BY IdleBatch DEF service
  <2>3. ThreadInv'
    BY <1>0 DEF ThreadInv, service, observed
  <2>. QED  BY <2>1, <2>2, <2>3 DEF TelemetryInv
<1>7. CASE Crash
  <2>. USE <1>7 DEF Crash
  <2>1. QueueInv'
    BY <1>0, RowsKept DEF queue, HealthOK
  <2>2. BatchInv'
    BY ClearedBatch
  <2>3. poll' \in [left: SUBSET Stream, at: Stream \cup {Bridge}, failed: BOOLEAN]
    BY DEF NoPoll
  <2>4. ThreadInv'
    BY <1>0, <2>3 DEF ThreadInv, Places
  <2>. QED  BY <2>1, <2>2, <2>4 DEF TelemetryInv
<1>8. CASE UNCHANGED vars
  <2>. USE <1>8 DEF vars
  <2>1. QueueInv'
    BY <1>0, RowsKept DEF queue, observed, HealthOK
  <2>2. BatchInv'
    BY <1>0 DEF BatchInv, queue, service, observed
  <2>3. ThreadInv'
    BY <1>0 DEF ThreadInv, service, observed
  <2>. QED  BY <2>1, <2>2, <2>3 DEF TelemetryInv
<1>. QED
  BY <1>1, <1>2, <1>3, <1>4, <1>5, <1>6, <1>7, <1>8 DEF Next, Timers

LEMMA InvAlways == Spec => []TelemetryInv
BY InvInitially, InvStep, PTL DEF Spec

-------------------------------------------------------------------------------
(* The remembered fingerprints.  What is in the outbox or at Waterlog changes   *)
(* only by an insertion, whose id is larger than any before it, or by the       *)
(* limits, which forget every fingerprint.                                      *)

LEMMA SameRowsEdge ==
    ASSUME CurrentEdgeKept, (outbox \cup stored)' = outbox \cup stored,
           \A s \in Stream : health'[s] \in {health[s], "none"}
    PROVE  CurrentEdgeKept'
<1>1. \A s \in Stream : Edges(s)' = Edges(s)
  BY DEF Edges
<1>. QED  BY <1>1 DEF CurrentEdgeKept

LEMMA KnownIds ==
    ASSUME TelemetryInv
    PROVE  lastId \in Nat /\ \A i \in outbox \cup stored \cup lost : i.id \in Nat /\ i.id <= lastId
<1>1. lastId \in Nat
  BY DEF TelemetryInv, QueueInv, QueueTypeOK
<1>2. \A i \in outbox \cup stored \cup lost : i.id \in 1 .. lastId
  BY DEF TelemetryInv, QueueInv, NothingVanishes
<1>. QED  BY <1>1, <1>2

LEMMA InsertedEdge ==
    ASSUME CurrentEdgeKept, NEW topic, NEW stream, NEW code, topic # "edge",
           Insert(topic, stream, code), UNCHANGED <<stored, health>>
    PROVE  CurrentEdgeKept'
<1>1. \A s \in Stream : Edges(s)' = Edges(s)
  BY DEF Edges, Insert
<1>. QED  BY <1>1 DEF CurrentEdgeKept

LEMMA EnqueuedEdge ==
    ASSUME TelemetryInv, CurrentEdgeKept, NEW s \in Stream, NEW code \in Codes,
           EnqueueStatusIfChanged(s, code), UNCHANGED stored
    PROVE  CurrentEdgeKept'
<1>. DEFINE new == [id |-> lastId + 1, topic |-> "edge", stream |-> s, code |-> code]
<1>1. CASE health[s] = code
  BY <1>1, SameRowsEdge DEF EnqueueStatusIfChanged, queue
<1>2. CASE health[s] # code
  <2>1. outbox' = outbox \cup {new} /\ health' = [health EXCEPT ![s] = code]
    BY <1>2 DEF EnqueueStatusIfChanged, Insert
  <2>2. new.id = lastId + 1 /\ new.topic = "edge" /\ new.stream = s /\ new.code = code
    OBVIOUS
  <2>. HIDE DEF new
  <2>3. \A t \in Stream \ {s} : Edges(t)' = Edges(t) /\ health'[t] = health[t]
    BY <2>1, <2>2, InvHealth DEF Edges, HealthOK
  <2>4. new \in Edges(s)' /\ health'[s] = code
    BY <2>1, <2>2, InvHealth DEF Edges, HealthOK
  <2>5. \A j \in Edges(s)' : j.id <= new.id
    BY <2>1, <2>2, KnownIds DEF Edges
  <2>. QED  BY <2>2, <2>3, <2>4, <2>5 DEF CurrentEdgeKept
<1>. QED  BY <1>1, <1>2

LEMMA EdgeStep == TelemetryInv /\ CurrentEdgeKept /\ [Next]_vars => CurrentEdgeKept'
<1>. SUFFICES ASSUME TelemetryInv, CurrentEdgeKept, [Next]_vars PROVE CurrentEdgeKept'
  OBVIOUS
<1>0. HealthOK /\ BatchInv /\ ThreadInv
  BY InvHealth DEF TelemetryInv
<1>1. ASSUME UNCHANGED <<outbox, stored, health>> PROVE CurrentEdgeKept'
  BY <1>1, SameRowsEdge
<1>2. CASE Boot
  BY <1>2, SameRowsEdge DEF Boot, ResetHealthEdges, observed
<1>3. CASE PollStarts
  BY <1>1, <1>3 DEF PollStarts, queue
<1>4. ASSUME NEW s \in Stream, Sample(s) PROVE CurrentEdgeKept'
  BY <1>4, InsertedEdge DEF Sample, EnqueueSample, Polling, observed
<1>5. CASE RecordOk
  BY <1>0, <1>5, EnqueuedEdge DEF RecordOk, ThreadInv, Polling, observed, Codes
<1>6. ASSUME NEW s \in Stream, RecordUnusable(s) PROVE CurrentEdgeKept'
  BY <1>6, EnqueuedEdge DEF RecordUnusable, Polling, observed, Codes
<1>7. ASSUME NEW s \in Stream, RecordUnreachable(s) PROVE CurrentEdgeKept'
  BY <1>7, EnqueuedEdge DEF RecordUnreachable, Polling, observed, Codes
<1>8. CASE Heartbeat
  BY <1>8, InsertedEdge DEF Heartbeat, EnqueueBridgeStatus, Polling, observed
<1>9. ASSUME NEW n \in 0 .. Cardinality(outbox), EnforceLimits(n) PROVE CurrentEdgeKept'
  <2>. DEFINE gone == Dropped(Oldest(outbox, n))
  <2>1. DropItems(gone) /\ stored' = stored
    BY <1>9 DEF EnforceLimits
  <2>. HIDE DEF gone
  <2>2. CASE gone = {}
    BY <1>1, <2>1, <2>2 DEF DropItems, Delete
  <2>3. CASE gone # {}
    BY <2>1, <2>3 DEF DropItems, CurrentEdgeKept
  <2>. QED  BY <2>2, <2>3
<1>10. CASE ReportDrop
  BY <1>10, InsertedEdge DEF ReportDrop, EnqueueBridgeStatus, Polling, observed
<1>11. CASE UploadStarts
  BY <1>1, <1>11 DEF UploadStarts, queue, observed
<1>12. ASSUME NEW S \in SUBSET batch, WaterlogStores(S) PROVE CurrentEdgeKept'
  BY <1>0, <1>12, SameRowsEdge DEF WaterlogStores, BatchInv, queue
<1>13. CASE Reply
  BY <1>1, <1>13 DEF Reply, Unanswered, Garbled, RetryBatch, Retry, Malformed, Quarantine,
                     Denied, Answered, queue, observed
<1>14. CASE ReportDenied
  BY <1>14, InsertedEdge DEF ReportDenied, EnqueueBridgeStatus, observed
<1>15. CASE QuarantineRejected
  BY <1>1, <1>15 DEF QuarantineRejected, Quarantine, observed
<1>16. CASE AcknowledgeAccepted
  <2>1. (outbox \cup stored)' = outbox \cup stored /\ health' = health
    BY <1>0, <1>16 DEF AcknowledgeAccepted, Acknowledge, Delete, BatchInv, observed
  <2>. QED  BY <2>1, SameRowsEdge
<1>17. CASE RetryRest
  BY <1>1, <1>17 DEF RetryRest, Retry, observed
<1>18. CASE Timers
  BY <1>1, <1>18 DEF Timers, PollTimer, UploadTimer, RetryTimer, queue, observed
<1>19. CASE Crash
  BY <1>1, <1>19 DEF Crash, queue
<1>20. CASE UNCHANGED vars
  BY <1>1, <1>20 DEF vars, queue, observed
<1>. QED
  BY <1>2, <1>3, <1>4, <1>5, <1>6, <1>7, <1>8, <1>9, <1>10, <1>11, <1>12, <1>13, <1>14,
     <1>15, <1>16, <1>17, <1>18, <1>19, <1>20 DEF Next, Poll, Upload

-------------------------------------------------------------------------------
(* The loud event.  It has an id above every row the limits deleted, and it is  *)
(* deleted itself only together with the promise of a new one.                  *)

Loud == pc # "tell" => \A i \in lost : \E e \in outbox \cup stored : e.topic = "dropped" /\ e.id > i.id

LEMMA LoudKept ==
    ASSUME Loud, pc # "tell", UNCHANGED lost, outbox \cup stored \subseteq (outbox \cup stored)'
    PROVE  Loud'
BY DEF Loud

LEMMA LoudStep ==
    ASSUME "crash" \notin Faults, TelemetryInv, Loud, [Next]_vars
    PROVE  Loud'
<1>0. BatchInv /\ ThreadInv
  BY DEF TelemetryInv
<1>1. CASE Boot
  BY <1>1, LoudKept DEF Boot, ResetHealthEdges, observed
<1>2. CASE PollStarts
  BY <1>2, LoudKept DEF PollStarts, queue
<1>3. ASSUME pc # "tell", UNCHANGED observed, NEW s \in Stream, NEW code,
             EnqueueStatusIfChanged(s, code)
      PROVE  Loud'
  BY <1>3, LoudKept DEF EnqueueStatusIfChanged, Insert, queue, observed
<1>4. ASSUME NEW s \in Stream, Sample(s) \/ RecordUnusable(s) \/ RecordUnreachable(s) PROVE Loud'
  <2>1. CASE Sample(s)
    BY <2>1, LoudKept DEF Sample, EnqueueSample, Insert, Polling, observed
  <2>. QED
    BY <1>3, <1>4, <2>1 DEF RecordUnusable, RecordUnreachable, Polling
<1>5. CASE RecordOk
  BY <1>0, <1>3, <1>5 DEF RecordOk, Polling, ThreadInv
<1>6. CASE Heartbeat
  BY <1>6, LoudKept DEF Heartbeat, EnqueueBridgeStatus, Insert, Polling, observed
<1>7. ASSUME NEW n \in 0 .. Cardinality(outbox), EnforceLimits(n) PROVE Loud'
  <2>. DEFINE gone == Dropped(Oldest(outbox, n))
  <2>1. /\ DropItems(gone) /\ lost' = lost \cup gone /\ UNCHANGED stored
        /\ pc' = (IF gone = {} THEN "loop" ELSE "tell") /\ pc = "limits"
    BY <1>7 DEF EnforceLimits
  <2>. HIDE DEF gone
  <2>2. CASE gone = {}
    BY <2>1, <2>2, LoudKept DEF DropItems, Delete
  <2>3. CASE gone # {}
    BY <2>1, <2>3 DEF Loud
  <2>. QED  BY <2>2, <2>3
<1>8. CASE ReportDrop
  <2>. DEFINE new == [id |-> lastId + 1, topic |-> "dropped", stream |-> Bridge, code |-> "error"]
  <2>1. new \in outbox' /\ lost' = lost
    BY <1>8 DEF ReportDrop, EnqueueBridgeStatus, Insert, Polling, observed
  <2>2. \A i \in lost : new.topic = "dropped" /\ new.id > i.id
    BY KnownIds
  <2>. HIDE DEF new
  <2>. QED  BY <2>1, <2>2 DEF Loud
<1>9. CASE UploadStarts
  BY <1>9, LoudKept DEF UploadStarts, queue, observed
<1>10. ASSUME NEW S \in SUBSET batch, WaterlogStores(S) PROVE Loud'
  BY <1>10, LoudKept DEF WaterlogStores, queue
<1>11. CASE Reply
  BY <1>11, LoudKept DEF Reply, Unanswered, Garbled, RetryBatch, Retry, Malformed, Quarantine,
                         Denied, Answered, queue, observed
<1>12. CASE ReportDenied
  BY <1>12, LoudKept DEF ReportDenied, EnqueueBridgeStatus, Insert, observed
<1>13. CASE QuarantineRejected
  BY <1>13, LoudKept DEF QuarantineRejected, Quarantine, observed
<1>14. CASE AcknowledgeAccepted
  BY <1>0, <1>14, LoudKept DEF AcknowledgeAccepted, Acknowledge, Delete, BatchInv, observed
<1>15. CASE RetryRest
  BY <1>15, LoudKept DEF RetryRest, Retry, observed
<1>16. CASE Timers
  BY <1>16, LoudKept DEF Timers, PollTimer, UploadTimer, RetryTimer, queue, service, observed
<1>17. CASE Crash
  BY <1>17 DEF Crash
<1>18. CASE UNCHANGED vars
  BY <1>18 DEF vars, queue, service, observed, Loud
<1>. QED
  BY <1>1, <1>2, <1>4, <1>5, <1>6, <1>7, <1>8, <1>9, <1>10, <1>11, <1>12, <1>13, <1>14,
     <1>15, <1>16, <1>17, <1>18 DEF Next, Poll, Upload

-------------------------------------------------------------------------------
(* The cap.  Room for the event is made before it is inserted, and an upload is *)
(* under way only while uploads are enabled.                                    *)

CapInv ==
    /\ CapHolds
    /\ pc = "tell" => Cardinality(outbox) + 1 <= MaxItems
    /\ pc \in {"posted", "answer", "denied", "quarantine", "retry"} => upload = "now"

LEMMA LimitsCap ==
    ASSUME NEW expired, expired \subseteq outbox, Ordered(outbox)
    PROVE  LET gone == Dropped(expired)
           IN  /\ Cardinality(outbox \ gone) <= MaxItems
               /\ gone # {} => Cardinality(outbox \ gone) + 1 <= MaxItems
<1>. DEFINE kept == outbox \ expired
            over == Overflow(expired)
            rest == outbox \ (expired \cup over)
            spare == Reserve(expired \cup over)
            gone == Dropped(expired)
<1>1. Ordered(kept) /\ Ordered(rest) /\ Ordered(outbox \ gone)
  BY FS_Difference DEF Ordered
<1>2. /\ Cardinality(kept) \in Nat /\ Cardinality(rest) \in Nat
      /\ Cardinality(outbox \ gone) \in Nat /\ MaxItems \in Nat \ {0}
  BY <1>1, FS_CardinalityType, OutboxAssumption DEF Ordered
<1>3. rest = kept \ over /\ gone = (expired \cup over) \cup spare /\ outbox \ gone = rest \ spare
  BY DEF Dropped
<1>4. Cardinality(rest) <= MaxItems
  <2>1. CASE Cardinality(kept) <= MaxItems
    <3>1. Cardinality(rest) <= Cardinality(kept)
      BY <1>1, <1>3, FS_Subset DEF Ordered
    <3>. QED  BY <1>2, <2>1, <3>1
  <2>2. CASE ~(Cardinality(kept) <= MaxItems)
    <3>1. Cardinality(kept) - MaxItems \in Nat /\ Cardinality(kept) - MaxItems <= Cardinality(kept)
      BY <1>2, <2>2
    <3>2. over = Oldest(kept, Cardinality(kept) - MaxItems)
      BY DEF Overflow
    <3>. HIDE DEF over, kept, rest
    <3>3. Cardinality(rest) <= Cardinality(kept) - (Cardinality(kept) - MaxItems)
      BY <1>1, <1>3, <3>1, <3>2, OldestEnough
    <3>. QED  BY <1>2, <3>3
  <2>. QED  BY <2>1, <2>2
<1>5. CASE spare = {}
  <2>1. outbox \ gone = rest
    BY <1>3, <1>5
  <2>2. gone # {} => ~(Cardinality(rest) + 1 > MaxItems)
    <3>1. ASSUME expired \cup over # {}, Cardinality(rest) + 1 > MaxItems PROVE FALSE
      <4>1. spare = Oldest(rest, 1)
        BY <3>1 DEF Reserve
      <4>. HIDE DEF spare, rest
      <4>2. Cardinality(rest \ spare) <= Cardinality(rest) - 1
        BY <1>1, <1>2, <3>1, <4>1, OldestEnough
      <4>. QED  BY <1>2, <1>5, <4>2
    <3>. QED  BY <1>3, <1>5, <3>1
  <2>. QED  BY <1>2, <1>4, <2>1, <2>2
<1>6. CASE spare # {}
  <2>1. spare = Oldest(rest, 1) /\ Cardinality(rest) + 1 > MaxItems
    BY <1>6 DEF Reserve
  <2>2. Cardinality(rest \ spare) <= Cardinality(rest) - 1
    <3>. HIDE DEF spare, rest
    <3>1. 1 <= Cardinality(rest)
      BY <1>2, <2>1
    <3>. QED  BY <1>1, <2>1, <3>1, OldestEnough
  <2>3. Cardinality(outbox \ gone) + 1 <= MaxItems
    <3>1. Cardinality(outbox \ gone) = Cardinality(rest \ spare)
      BY <1>3
    <3>2. Cardinality(outbox \ gone) \in Nat /\ Cardinality(rest) \in Nat /\ MaxItems \in Nat
      BY <1>2
    <3>. HIDE DEF spare, rest, gone
    <3>. QED  BY <1>4, <2>2, <3>1, <3>2
  <2>. QED  BY <1>2, <2>3
<1>. QED  BY <1>5, <1>6

LEMMA CapStep == TelemetryInv /\ CapInv /\ [Next]_vars => CapInv'
<1>. SUFFICES ASSUME TelemetryInv, CapInv, [Next]_vars PROVE CapInv'
  OBVIOUS
<1>0. /\ BatchInv /\ ThreadInv /\ Ordered(outbox) /\ Cardinality(outbox) \in Nat
      /\ MaxItems \in Nat \ {0}
  BY FS_CardinalityType, OutboxAssumption DEF TelemetryInv, QueueInv, QueueTypeOK, Ordered
<1>1. ASSUME pc' \in {"boot", "poll", "edge", "limits"} PROVE CapInv'
  BY <1>1 DEF CapInv, CapHolds
<1>2. ASSUME UNCHANGED <<outbox, pc, pollDue, upload>> PROVE CapInv'
  BY <1>2 DEF CapInv, CapHolds
<1>3. CASE Boot
  BY <1>3 DEF Boot, CapInv, CapHolds
<1>4. CASE PollStarts
  BY <1>1, <1>4 DEF PollStarts
<1>5. ASSUME NEW s \in Stream, Sample(s) \/ RecordUnusable(s) \/ RecordUnreachable(s) PROVE CapInv'
  BY <1>1, <1>5 DEF Sample, RecordUnusable, RecordUnreachable, Polling
<1>6. CASE RecordOk \/ Heartbeat
  BY <1>1, <1>6 DEF RecordOk, Heartbeat, Polling
<1>7. ASSUME NEW n \in 0 .. Cardinality(outbox), EnforceLimits(n) PROVE CapInv'
  <2>. DEFINE expired == Oldest(outbox, n)
              gone == Dropped(expired)
  <2>1. /\ outbox' = outbox \ gone /\ upload' = upload
        /\ pc' = (IF gone = {} THEN "loop" ELSE "tell")
    BY <1>7 DEF EnforceLimits, DropItems, Delete
  <2>2. expired \subseteq outbox
    BY DEF Oldest
  <2>3. /\ Cardinality(outbox \ gone) <= MaxItems
        /\ gone # {} => Cardinality(outbox \ gone) + 1 <= MaxItems
    BY <1>0, <2>2, LimitsCap
  <2>4. Cardinality(outbox \ gone) \in Nat
    BY <1>0, FS_Difference, FS_CardinalityType DEF Ordered
  <2>. HIDE DEF gone
  <2>. QED  BY <1>0, <2>1, <2>3, <2>4 DEF CapInv, CapHolds
<1>8. ASSUME NEW topic, NEW stream, NEW code, Insert(topic, stream, code)
      PROVE  Cardinality(outbox') <= Cardinality(outbox) + 1 /\ Cardinality(outbox') \in Nat
  <2>1. IsFiniteSet(outbox)
    BY <1>0 DEF Ordered
  <2>. QED  BY <1>0, <1>8, <2>1, FS_AddElement DEF Insert
<1>9. CASE ReportDrop
  <2>1. /\ Insert("dropped", Bridge, "error") /\ pc = "tell" /\ pc' = "loop" /\ upload' = upload
    BY <1>9 DEF ReportDrop, EnqueueBridgeStatus, Polling
  <2>2. Cardinality(outbox') <= MaxItems /\ Cardinality(outbox') \in Nat
    BY <1>0, <1>8, <2>1 DEF CapInv
  <2>. QED  BY <1>0, <2>1, <2>2 DEF CapInv, CapHolds
<1>10. CASE UploadStarts
  BY <1>10 DEF UploadStarts, queue, CapInv, CapHolds
<1>11. ASSUME NEW S \in SUBSET batch, WaterlogStores(S) PROVE CapInv'
  BY <1>11 DEF WaterlogStores, queue, CapInv, CapHolds
<1>12. CASE Unanswered \/ Garbled \/ Malformed
  BY <1>12 DEF Unanswered, Garbled, Malformed, RetryBatch, Retry, Quarantine, Scheduled,
               CapInv, CapHolds
<1>13. CASE Denied
  BY <1>13 DEF Denied, queue, CapInv, CapHolds
<1>14. ASSUME NEW answers \in Answer, Answered(answers) PROVE CapInv'
  BY <1>14 DEF Answered, queue, CapInv, CapHolds
<1>15. CASE ReportDenied
  <2>1. /\ Insert("rejected", Bridge, "error") /\ pc = "denied" /\ pc' = "loop"
        /\ upload' = "never" /\ pollDue' = pollDue
    BY <1>15 DEF ReportDenied, EnqueueBridgeStatus, Scheduled
  <2>2. ~pollDue => Cardinality(outbox) <= MaxItems
    BY <1>0, <2>1 DEF CapInv, CapHolds
  <2>3. ~pollDue => Cardinality(outbox') <= MaxItems + 1
    BY <1>0, <1>8, <2>1, <2>2
  <2>. QED  BY <2>1, <2>3 DEF CapInv, CapHolds
<1>16. CASE QuarantineRejected
  BY <1>2, <1>16 DEF QuarantineRejected, Quarantine
<1>17. CASE AcknowledgeAccepted
  <2>1. /\ outbox' = outbox \ verdict.accepted /\ UNCHANGED <<pollDue, upload>>
        /\ pc = "quarantine" /\ pc' = "retry"
    BY <1>17 DEF AcknowledgeAccepted, Acknowledge, Delete
  <2>2. Cardinality(outbox') <= Cardinality(outbox) /\ Cardinality(outbox') \in Nat
    BY <1>0, <2>1, FS_Subset, FS_CardinalityType DEF Ordered
  <2>. QED  BY <1>0, <2>1, <2>2 DEF CapInv, CapHolds
<1>18. CASE RetryRest
  BY <1>18 DEF RetryRest, Retry, Scheduled, CapInv, CapHolds
<1>19. CASE PollTimer
  BY <1>19 DEF PollTimer, queue, CapInv, CapHolds
<1>20. CASE UploadTimer
  BY <1>20 DEF UploadTimer, CapInv, CapHolds
<1>21. ASSUME NEW i \in waiting, RetryTimer(i) PROVE CapInv'
  BY <1>2, <1>21 DEF RetryTimer, service
<1>22. CASE Crash
  BY <1>1, <1>22 DEF Crash
<1>23. CASE UNCHANGED vars
  BY <1>2, <1>23 DEF vars, queue, service
<1>. QED
  BY <1>3, <1>4, <1>5, <1>6, <1>7, <1>9, <1>10, <1>11, <1>12, <1>13, <1>14, <1>15, <1>16,
     <1>17, <1>18, <1>19, <1>20, <1>21, <1>22, <1>23 DEF Next, Poll, Upload, Reply, Timers

-------------------------------------------------------------------------------
(* The theorems.                                                               *)

\* Every reachable state of the telemetry thread is well typed: no batch is larger
\* than asked for, and a reply decides of rows of the batch only.
THEOREM TelemetryTypeCorrect == Spec => []TelemetryTypeOK
<1>1. TelemetryInv => TelemetryTypeOK
  BY DEF TelemetryInv, QueueInv, BatchInv, ThreadInv, TelemetryTypeOK
<1>. QED  BY <1>1, InvAlways, PTL

\* A row leaves the outbox only because Waterlog has it or because the limits
\* deleted it, whatever is crashed, lost, garbled or rejected.
THEOREM RowsAreAccountedFor == Spec => []NothingVanishes
<1>1. TelemetryInv => NothingVanishes
  BY DEF TelemetryInv, QueueInv
<1>. QED  BY <1>1, InvAlways, PTL

\* While a fingerprint is remembered the newest status of its stream is in the
\* outbox or at Waterlog, so that Waterlog is never left with a former status.
THEOREM FingerprintsAreBacked == Spec => []CurrentEdgeKept
<1>1. Init => CurrentEdgeKept
  BY DEF Init, QueueInit, CurrentEdgeKept
<1>. QED  BY <1>1, InvAlways, EdgeStep, PTL DEF Spec

\* Without a crash the limits never delete in silence: whenever the thread is back
\* in its loop, an event newer than every deleted row is in the outbox or at
\* Waterlog (a crash between the deletion and the event loses the event).
THEOREM DropsAreTold ==
    ASSUME "crash" \notin Faults
    PROVE  Spec => []DropIsLoud
<1>1. Init => Loud
  BY DEF Init, Loud
<1>2. Loud => DropIsLoud
  BY DEF Loud, DropIsLoud
<1>3. TelemetryInv /\ Loud /\ [Next]_vars => Loud'
  BY LoudStep
<1>. QED  BY <1>1, <1>2, <1>3, InvAlways, PTL DEF Spec

\* Between two polls the outbox obeys its cap, by at most the one row that says
\* that uploads are disabled.
THEOREM OutboxIsCapped == Spec => []CapHolds
<1>1. Init => CapInv
  BY DEF Init, CapInv, CapHolds
<1>2. CapInv => CapHolds
  BY DEF CapInv
<1>. QED  BY <1>1, <1>2, InvAlways, CapStep, PTL DEF Spec

===============================================================================
