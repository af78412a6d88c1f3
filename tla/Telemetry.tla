------------------------------- MODULE Telemetry -------------------------------
(* The telemetry thread: BridgeService.run (service.py) polls Home Assistant   *)
(* into the outbox and uploads the outbox to Waterlog (uploader.py), one       *)
(* transaction or one request to a step, so that a crash can fall between any  *)
(* two of them.  Waterlog may store what it received although its reply is     *)
(* lost, and may answer each item of a batch on its own.                       *)
EXTENDS Outbox

CONSTANTS
    BatchSize,  \* batch_size
    Faults,     \* what may go wrong
    MaxPolls    \* bound on the polls of a behaviour

ASSUME TelemetryAssumption ==
    /\ BatchSize \in Nat \ {0}
    /\ Faults \subseteq {"crash", "age", "network", "garbled", "malformed", "denied"}
    /\ MaxPolls \in Nat

VARIABLES
    pc,         \* where the thread is
    pollDue,    \* now >= next_poll
    poll,       \* poll_once: streams left, stream at hand, Home Assistant failed
    upload,     \* next_upload: "now", "later" or "never" (auth_blocked)
    backoff,    \* the rows whose retry_at is next_upload
    batch,      \* the rows of the request under way
    verdict,    \* what the reply decides of them
    stored,     \* the items Waterlog has
    lost,       \* the rows the limits deleted
    polls       \* counts polls, for MaxPolls

service == <<pc, pollDue, poll, upload, backoff, batch, verdict>>
observed == <<stored, lost, polls>>
vars == <<queue, service, observed>>

Places == {"boot", "loop", "poll", "edge", "limits", "tell",
           "posted", "answer", "denied", "quarantine", "retry"}

NoPoll == [left |-> {}, at |-> Bridge, failed |-> FALSE]
NoVerdict == [accepted |-> {}, rejected |-> {}, again |-> {}]

TelemetryTypeOK ==
    /\ QueueTypeOK
    /\ pc \in Places
    /\ pollDue \in BOOLEAN
    /\ poll \in [left: SUBSET Stream, at: Stream \cup {Bridge}, failed: BOOLEAN]
    /\ upload \in {"now", "later", "never"}
    /\ backoff \subseteq Item
    /\ batch \subseteq outbox
    /\ Cardinality(batch) <= BatchSize
    /\ DOMAIN verdict = {"accepted", "rejected", "again"}
    /\ \A d \in DOMAIN verdict : verdict[d] \subseteq batch
    /\ stored \subseteq Item
    /\ lost \subseteq Item
    /\ polls \in Nat

Init ==
    /\ QueueInit
    /\ pc = "boot"
    /\ pollDue = FALSE
    /\ poll = NoPoll
    /\ upload = "now"
    /\ backoff = {}
    /\ batch = {}
    /\ verdict = NoVerdict
    /\ stored = {}
    /\ lost = {}
    /\ polls = 0

-------------------------------------------------------------------------------
(* Start: _run_telemetry forgets the fingerprints; run schedules a poll and an *)
(* upload at once.                                                             *)

Boot ==
    /\ pc = "boot"
    /\ ResetHealthEdges
    /\ pollDue' = TRUE
    /\ upload' = "now"
    /\ pc' = "loop"
    /\ UNCHANGED <<poll, backoff, batch, verdict, observed>>

-------------------------------------------------------------------------------
(* poll_once and enforce_queue_limits.  The streams are read in any order:     *)
(* the configured one is a refinement.                                         *)

PollStarts ==
    /\ pc = "loop"
    /\ pollDue
    /\ pollDue' = FALSE
    /\ poll' = [NoPoll EXCEPT !.left = Stream]
    /\ polls' = polls + 1
    /\ pc' = "poll"
    /\ UNCHANGED <<queue, upload, backoff, batch, verdict, stored, lost>>

Polling(place) == pc' = place /\ UNCHANGED <<pollDue, upload, backoff, batch, verdict, observed>>

\* A usable reading is stored as a sample, then its status is recorded
Sample(s) ==
    /\ pc = "poll"
    /\ s \in poll.left
    /\ ~poll.failed
    /\ EnqueueSample(s)
    /\ poll' = [poll EXCEPT !.left = @ \ {s}, !.at = s]
    /\ Polling("edge")

RecordOk ==
    /\ pc = "edge"
    /\ EnqueueStatusIfChanged(poll.at, "ok")
    /\ poll' = [poll EXCEPT !.at = Bridge]
    /\ Polling("poll")

RecordUnusable(s) ==
    /\ pc = "poll"
    /\ s \in poll.left
    /\ ~poll.failed
    /\ EnqueueStatusIfChanged(s, "unavailable")
    /\ poll' = [poll EXCEPT !.left = @ \ {s}]
    /\ Polling("poll")

\* One failed request condemns every stream that is left
RecordUnreachable(s) ==
    /\ pc = "poll"
    /\ s \in poll.left
    /\ EnqueueStatusIfChanged(s, "unreachable")
    /\ poll' = [poll EXCEPT !.left = @ \ {s}, !.failed = TRUE]
    /\ Polling("poll")

Heartbeat ==
    /\ pc = "poll"
    /\ poll.left = {}
    /\ EnqueueBridgeStatus("heartbeat", IF poll.failed THEN "error" ELSE "ok")
    /\ poll' = NoPoll
    /\ Polling("limits")

\* Mutant of EnforceLimits: only overflow is told of
EnforceLimitsTellsOverflow(n) ==
    LET expired == Oldest(outbox, n)
        gone == Dropped(expired)
    IN  /\ pc = "limits"
        /\ n > 0 => "age" \in Faults
        /\ DropItems(gone)
        /\ lost' = lost \cup gone
        /\ pc' = IF Overflow(expired) = {} THEN "loop" ELSE "tell"
        /\ UNCHANGED <<pollDue, poll, upload, backoff, batch, verdict, stored, polls>>

\* Rows past the retention are the oldest ones: the clock does not step back
EnforceLimits(n) ==
    LET expired == Oldest(outbox, n)
        gone == Dropped(expired)
    IN  /\ pc = "limits"
        /\ n > 0 => "age" \in Faults
        /\ DropItems(gone)
        /\ lost' = lost \cup gone
        /\ pc' = IF gone = {} THEN "loop" ELSE "tell"
        /\ UNCHANGED <<pollDue, poll, upload, backoff, batch, verdict, stored, polls>>

ReportDrop ==
    /\ pc = "tell"
    /\ EnqueueBridgeStatus("dropped", "error")
    /\ UNCHANGED poll
    /\ Polling("loop")

-------------------------------------------------------------------------------
(* upload_once.  The batch becomes two arrays, and Waterlog answers an item by *)
(* its array and its index there.                                              *)

ArrayOf(i) == IF i.topic = "sample" THEN "samples" ELSE "statuses"

Position(i) ==
    [array |-> ArrayOf(i),
     index |-> Cardinality(Before(i, {j \in batch : ArrayOf(j) = ArrayOf(i)}))]

\* Mutant of Resolved: the index is looked up in the whole batch
ResolvedInBatch(p) == CHOOSE i \in batch : Cardinality(Before(i, batch)) = p.index

Resolved(p) == CHOOSE i \in batch : Position(i) = p

UploadStarts ==
    /\ pc = "loop"
    /\ ~pollDue
    /\ upload = "now"
    /\ batch' = DueItems(BatchSize)
    /\ IF batch' = {}
       THEN pc' = "loop" /\ upload' = "later" /\ backoff' = {}
       ELSE pc' = "posted" /\ UNCHANGED <<upload, backoff>>
    /\ UNCHANGED <<queue, pollDue, poll, verdict, observed>>

WaterlogStores(S) ==
    /\ pc = "posted"
    /\ S \subseteq batch
    /\ stored' = stored \cup S
    /\ pc' = "answer"
    /\ UNCHANGED <<queue, pollDue, poll, upload, backoff, batch, verdict, lost, polls>>

\* Back in run: the batch is settled and the next upload scheduled
Scheduled(next, retried) ==
    /\ upload' = next
    /\ backoff' = retried
    /\ batch' = {}
    /\ verdict' = NoVerdict
    /\ pc' = "loop"
    /\ UNCHANGED <<pollDue, poll>>

RetryBatch == Retry(batch) /\ Scheduled("later", batch)

\* No response, 408, 413, 425, 429 or 5xx, whatever Waterlog did with the items
Unanswered ==
    /\ pc \in {"posted", "answer"}
    /\ "network" \in Faults
    /\ RetryBatch
    /\ UNCHANGED observed

\* A reply whose item results cannot be read
Garbled ==
    /\ pc = "answer"
    /\ "garbled" \in Faults
    /\ RetryBatch
    /\ UNCHANGED observed

\* 400, 409 or 422 without item results
Malformed ==
    /\ pc = "posted"
    /\ "malformed" \in Faults
    /\ Quarantine(batch)
    /\ Scheduled(IF outbox \ (waiting \cup held') # {} THEN "now" ELSE "later", {})
    /\ UNCHANGED observed

\* 401 or 403: uploads stop until the app is restarted
Denied ==
    /\ pc = "posted"
    /\ "denied" \in Faults
    /\ pc' = "denied"
    /\ batch' = {}
    /\ UNCHANGED <<queue, pollDue, poll, upload, backoff, verdict, observed>>

ReportDenied ==
    /\ pc = "denied"
    /\ EnqueueBridgeStatus("rejected", "error")
    /\ Scheduled("never", {})
    /\ UNCHANGED observed

\* Waterlog acknowledges only what it has, and may leave items out
Answered(answers) ==
    LET Items(d) == {Resolved(p) : p \in {q \in DOMAIN answers : answers[q] = d}}
    IN  /\ pc = "answer"
        /\ \A i \in batch : answers[Position(i)] = "accepted" => i \in stored
        /\ verdict' = [accepted |-> Items("accepted"), rejected |-> Items("rejected"),
                       again |-> batch \ (Items("accepted") \cup Items("rejected"))]
        /\ pc' = "quarantine"
        /\ UNCHANGED <<queue, pollDue, poll, upload, backoff, batch, observed>>

Answer == [{Position(i) : i \in batch} -> {"accepted", "rejected", "retryable"}]

QuarantineRejected ==
    /\ pc = "quarantine"
    /\ verdict.rejected # {}
    /\ LET next == Oldest(verdict.rejected, 1)
       IN  /\ Quarantine(next)
           /\ verdict' = [verdict EXCEPT !.rejected = @ \ next]
    /\ UNCHANGED <<pc, pollDue, poll, upload, backoff, batch, observed>>

AcknowledgeAccepted ==
    /\ pc = "quarantine"
    /\ verdict.rejected = {}
    /\ Acknowledge(verdict.accepted)
    /\ batch' = batch \ verdict.accepted
    /\ verdict' = [verdict EXCEPT !.accepted = {}]
    /\ pc' = "retry"
    /\ UNCHANGED <<pollDue, poll, upload, backoff, observed>>

\* has_more_due asks the queue again: what is due now goes a second later
RetryRest ==
    /\ pc = "retry"
    /\ Retry(verdict.again)
    /\ IF outbox \ (waiting' \cup held) # {}
       THEN Scheduled("now", {})
       ELSE Scheduled("later", verdict.again)
    /\ UNCHANGED observed

-------------------------------------------------------------------------------
(* Time and failures. *)

PollTimer ==
    /\ pc = "loop"
    /\ ~pollDue
    /\ polls < MaxPolls
    /\ pollDue' = TRUE
    /\ UNCHANGED <<queue, pc, poll, upload, backoff, batch, verdict, observed>>

\* The retry times of the last batch are those of the timer
UploadTimer ==
    /\ pc = "loop"
    /\ upload = "later"
    /\ upload' = "now"
    /\ waiting' = waiting \ backoff
    /\ backoff' = {}
    /\ UNCHANGED <<outbox, held, health, lastId, pc, pollDue, poll, batch, verdict, observed>>

RetryTimer(i) ==
    /\ pc = "loop"
    /\ i \in waiting
    /\ waiting' = waiting \ {i}
    /\ UNCHANGED <<outbox, held, health, lastId, service, observed>>

\* The restarted thread polls first, hence the bound
Crash ==
    /\ pc # "boot"
    /\ "crash" \in Faults
    /\ polls < MaxPolls
    /\ pc' = "boot"
    /\ pollDue' = FALSE
    /\ poll' = NoPoll
    /\ upload' = "now"
    /\ backoff' = {}
    /\ batch' = {}
    /\ verdict' = NoVerdict
    /\ UNCHANGED <<queue, stored, lost, polls>>

-------------------------------------------------------------------------------
Poll ==
    \/ PollStarts
    \/ \E s \in Stream : Sample(s) \/ RecordUnusable(s) \/ RecordUnreachable(s)
    \/ RecordOk
    \/ Heartbeat
    \/ \E n \in 0 .. Cardinality(outbox) : EnforceLimits(n)
    \/ ReportDrop

Reply ==
    \/ Unanswered
    \/ Garbled
    \/ Malformed
    \/ Denied
    \/ \E answers \in Answer : Answered(answers)

Upload ==
    \/ UploadStarts
    \/ \E S \in SUBSET batch : WaterlogStores(S)
    \/ Reply
    \/ ReportDenied
    \/ QuarantineRejected
    \/ AcknowledgeAccepted
    \/ RetryRest

Timers == PollTimer \/ UploadTimer \/ \E i \in waiting : RetryTimer(i)

Next == Boot \/ Poll \/ Upload \/ Timers \/ Crash

Spec == Init /\ [][Next]_vars

-------------------------------------------------------------------------------
(* Properties. *)

\* A row leaves the outbox only because Waterlog has it or because the limits
\* deleted it: whatever the reply, the crash or the index of an answer, every id
\* that was ever given is accounted for
\* (test_item_acceptance_and_duplicate_delete_only_acknowledged_rows).
NothingVanishes == {i.id : i \in outbox \cup stored \cup lost} = 1 .. lastId

\* An unchanged stream status is not recorded again, so while a fingerprint is
\* remembered the newest status of the stream must still be in the outbox or at
\* Waterlog, and be that one: if the only copy were dropped, Waterlog would show
\* the stream in its former state until it changes again (reset in enforce_limits
\* and at start).
Edges(s) == {i \in outbox \cup stored : i.topic = "edge" /\ i.stream = s}

CurrentEdgeKept ==
    \A s \in Stream : health[s] # "none" =>
        \E i \in Edges(s) : i.code = health[s] /\ \A j \in Edges(s) : j.id <= i.id

\* Between two polls the outbox obeys its cap.  The event that uploads are
\* disabled is the one row that is inserted after the limits are enforced.
CapHolds ==
    pc \in {"loop", "posted", "answer", "denied", "quarantine", "retry"} /\ ~pollDue =>
        Cardinality(outbox) <= MaxItems + (IF upload = "never" THEN 1 ELSE 0)

\* The bridge retains a loud health event whenever the limits dropped rows: an
\* event newer than every dropped row is in the outbox or at Waterlog
\* (DOCS.md:74-76, test_queue_overflow_retains_a_loud_bridge_health_event).
DropIsLoud ==
    pc = "loop" =>
        \A i \in lost : \E e \in outbox \cup stored : e.topic = "dropped" /\ e.id > i.id

-------------------------------------------------------------------------------
(* Delivery.  The thread keeps running, time passes, and Waterlog, asked again *)
(* and again, stores a batch and answers every item of it at last.             *)

Settles == \E answers \in Answer : Answered(answers) /\ verdict'.again = {}

Ids == 1 .. MaxPolls * (2 * Cardinality(Stream) + 3)

Fairness ==
    /\ WF_vars(Boot \/ Poll \/ Upload)
    /\ WF_vars(UploadTimer)
    /\ \A n \in Ids : SF_vars(\E i \in waiting : i.id = n /\ RetryTimer(i))
    /\ SF_vars(WaterlogStores(batch))
    /\ SF_vars(Settles)

FairSpec == Spec /\ Fairness

Pending(n) == n \in {i.id : i \in outbox \ held}

\* No row stays pending forever: neither backoff, nor the batch limit, nor older
\* rows that fail keep a row from being acknowledged, quarantined or dropped.
EveryItemSettles == \A n \in Ids : Pending(n) ~> ~Pending(n)
===============================================================================
