---------------------------- MODULE ControlExchange ----------------------------
(* Commands and reports between Waterlog and the tank-mode executor: the       *)
(* command log, the sessions as far as reports speak of them, the report       *)
(* outbox, the report sequence and the recovery tanks of control.sqlite3       *)
(* (control_store.py), and the handlers that write them (control_service.py).  *)
(*                                                                             *)
(* accept and tick exclude each other by one lock.  What the handler that      *)
(* holds it has still to do is the sequence todo: transactions, and calls that *)
(* are replaced by the transactions they turn out to make.  One is done in a   *)
(* step, so that a crash falls between any two.  What a handler does to the    *)
(* outlets is the subject of TankModes; here an entry succeeds or fails and a  *)
(* restoration is complete or not.                                             *)
(*                                                                             *)
(* Waterlog is external.  A request is composed under the lock and posted      *)
(* outside it, so the scheduler ticks before the reply is applied, and either  *)
(* may be lost.  Composing a request and serving it is one step, because what  *)
(* happens in between reads nothing of Waterlog and changes nothing of the     *)
(* request; Waterlog and the attendant act when no handler is in the middle of *)
(* its work, because they read and write nothing a handler does.               *)
EXTENDS Integers, FiniteSets, Sequences

CONSTANTS
    Tank,        \* the tanks
    Mode,        \* the temporary modes
    Command,     \* the commands Waterlog may issue
    NoCommand,   \* not a command
    TankOf,      \* the tank of a command
    Kind,        \* the mode a command sets, or "finish" for finish_manual_recovery
    Needs,       \* the configuration revision of a command
    BatchLimit,  \* how many reports a request takes
    MaxDelivery, \* bound: commands in a reply
    MaxReports,  \* bound: beyond it nothing but commands makes reports
    MaxLosses,   \* bound: losses of the store
    MaxConfig,   \* bound: configuration revisions
    Faults       \* what may go wrong

ASSUME ExchangeAssumption ==
    /\ "normal" \notin Mode /\ "finish" \notin Mode
    /\ NoCommand \notin Command
    /\ TankOf \in [Command -> Tank]
    /\ Kind \in [Command -> Mode \cup {"normal", "finish"}]
    /\ Needs \in [Command -> Nat]
    /\ BatchLimit \in Nat \ {0}
    /\ MaxDelivery \in Nat
    /\ MaxReports \in Nat
    /\ MaxLosses \in Nat
    /\ MaxConfig \in Nat
    /\ Faults \subseteq {"crash", "network", "clock", "registry", "garbled"}

VARIABLES
    \* control.sqlite3: survives a crash
    session,     \* the session of a tank; phase "none" is no row
    status,      \* the recorded status of a command; "none" is no row
    outbox,      \* the reports not yet acknowledged
    sequence,    \* the number of the last report
    flag,        \* meta recovery_required
    recovery,    \* recovery_tanks
    config,      \* config_revision
    \* lost in a crash
    todo,        \* what the handler that holds the lock has still to do
    wire,        \* the request or the reply under way
    \* Waterlog
    received,    \* the ids of the reports it has: the store and the number
    floor,       \* the highest number among them
    newest,      \* the newest report it has of a tank
    answered,    \* the commands whose result it knows
    atRisk,      \* the tanks whose recovery it awaits
    token,       \* what a finish command acknowledges: a session and a report
    \* history
    life,        \* counts the stores: with the number it stands for a report's id
    entered,     \* the temporary commands whose mode was published as active
    orphaned     \* tanks that lost an open session on report at Waterlog, not attended since

store == <<session, status, outbox, sequence, flag, recovery, config>>
waterlog == <<received, floor, newest, answered, atRisk, token>>
history == <<life, entered, orphaned>>
vars == <<store, todo, wire, waterlog, history>>

Statuses == {"none", "accepted", "completed", "failed"}
Phases == {"none", "starting", "switching", "active", "restoring",
           "recovery_required", "normal"}
Shows == {"normal", "open", "recovery_required"}
Anyone == Command \cup {NoCommand}

Sessions == [start : Anyone, cmd : Anyone, mode : Mode \cup {"normal"},
             phase : Phases, last : Nat]
Reports == [life : Nat, seq : Nat, tank : Tank, cmd : Anyone, start : Anyone,
            shows : Shows, status : Statuses]
Tokens == [start : Anyone, seq : Nat]

NoSession == [start |-> NoCommand, cmd |-> NoCommand, mode |-> "normal",
              phase |-> "none", last |-> 0]
NoReport == [start |-> NoCommand, seq |-> 0, shows |-> "normal"]
NoToken == [start |-> NoCommand, seq |-> 0]
Idle == [kind |-> "idle"]

Init ==
    /\ session = [t \in Tank |-> NoSession]
    /\ status = [c \in Command |-> "none"]
    /\ outbox = {}
    /\ sequence = 0
    /\ flag = FALSE
    /\ recovery = {}
    /\ config = 0
    /\ todo = <<>>
    /\ wire = Idle
    /\ received = {}
    /\ floor = 0
    /\ newest = [t \in Tank |-> NoReport]
    /\ answered = {}
    /\ atRisk = {}
    /\ token = [c \in Command |-> NoToken]
    /\ life = 0
    /\ entered = {}
    /\ orphaned = {}

Open(t) == session[t].phase # "none"
OpenTanks == {t \in Tank : Open(t)}
RecoveryRequired == flag \/ recovery # {}

-------------------------------------------------------------------------------
(* What a handler may have to do.  The first group are transactions.           *)

Record(c, s) == [do |-> "record", cmd |-> c, status |-> s]
SetStatus(c, s) == [do |-> "status", cmd |-> c, status |-> s]
Begin(c) == [do |-> "begin", cmd |-> c]
Transition(c, mode, phase) == [do |-> "transition", cmd |-> c, mode |-> mode, phase |-> phase]
SetSession(t, mode, phase) == [do |-> "set", tank |-> t, mode |-> mode, phase |-> phase]
Remove(t) == [do |-> "remove", tank |-> t]
Resolve(t) == [do |-> "resolve", tank |-> t]
Queue(c, start, phase, s) ==
    [do |-> "queue", cmd |-> c, start |-> start, phase |-> phase, status |-> s]
Report(t, s) == [do |-> "report", tank |-> t, status |-> s]
Advance(n) == [do |-> "advance", to |-> n]
Acknowledge(acks) == [do |-> "acknowledge", acks |-> acks]
ReplaceRecovery(S) == [do |-> "replace", tanks |-> S]
Install(r) == [do |-> "install", revision |-> r]

Accept(c) == [do |-> "accept", cmd |-> c]
Reject(c) == [do |-> "reject", cmd |-> c]
Enter(c) == [do |-> "enter", cmd |-> c]
Restore(t, imm) == [do |-> "restore", tank |-> t, imm |-> imm]
Unwind(S) == [do |-> "unwind", tanks |-> S]
Visit(S) == [do |-> "visit", tanks |-> S]

At(op) == todo # <<>> /\ Head(todo).do = op
This == Head(todo)

\* The call at hand is replaced by what it turns out to do
Becomes(ops) ==
    /\ todo' = ops \o Tail(todo)
    /\ UNCHANGED <<store, wire, waterlog, history>>
Done == todo' = Tail(todo) /\ UNCHANGED <<wire, waterlog>>

-------------------------------------------------------------------------------
(* The transactions of control_store.py.                                       *)

\* INSERT OR IGNORE: a recorded command keeps its status
RecordCommand ==
    /\ At("record")
    /\ status' = [status EXCEPT ![This.cmd] = IF @ = "none" THEN This.status ELSE @]
    /\ orphaned' = IF Kind[This.cmd] = "finish" /\ This.status = "completed"
                   THEN orphaned \ {TankOf[This.cmd]} ELSE orphaned
    /\ Done
    /\ UNCHANGED <<session, outbox, sequence, flag, recovery, config, life, entered>>

SetCommandStatus ==
    /\ At("status")
    /\ status' = [status EXCEPT ![This.cmd] = This.status]
    /\ Done
    /\ UNCHANGED <<session, outbox, sequence, flag, recovery, config, history>>

\* The session of a switch keeps the command it started with
BeginSession ==
    /\ At("begin")
    /\ LET c == This.cmd
           old == session[TankOf[c]]
       IN  /\ session' = [session EXCEPT ![TankOf[c]] =
                  [start |-> IF Open(TankOf[c]) THEN old.start ELSE c, cmd |-> c,
                   mode |-> Kind[c], last |-> 0,
                   phase |-> IF Open(TankOf[c]) THEN "switching" ELSE "starting"]]
           /\ status' = [status EXCEPT ![c] = "accepted"]
    /\ Done
    /\ UNCHANGED <<outbox, sequence, flag, recovery, config, history>>

\* Mutant: mode and phase change places
TransitionSwapped ==
    /\ At("transition") /\ Done
    /\ LET t == TankOf[This.cmd]
       IN  session' = IF Open(t) THEN [session EXCEPT ![t].mode = This.phase, ![t].phase = This.mode]
                                 ELSE session
    /\ UNCHANGED <<status, outbox, sequence, flag, recovery, config, history>>

TransitionSession ==
    /\ At("transition")
    /\ LET t == TankOf[This.cmd]
       IN  session' = IF Open(t)
                      THEN [session EXCEPT ![t].cmd = This.cmd, ![t].mode = This.mode,
                                           ![t].phase = This.phase]
                      ELSE session
    /\ entered' = IF This.phase = "active" THEN entered \cup {This.cmd} ELSE entered
    /\ Done
    /\ UNCHANGED <<status, outbox, sequence, flag, recovery, config, life, orphaned>>

\* An active mode is published in the name of the command that set it
SetPhase ==
    /\ At("set")
    /\ LET t == This.tank
       IN  /\ session' = IF Open(t)
                         THEN [session EXCEPT ![t].mode = This.mode, ![t].phase = This.phase]
                         ELSE session
           /\ entered' = IF This.phase = "active" THEN entered \cup {session[t].cmd}
                                                  ELSE entered
    /\ Done
    /\ UNCHANGED <<status, outbox, sequence, flag, recovery, config, life, orphaned>>

RemoveSession ==
    /\ At("remove")
    /\ session' = [session EXCEPT ![This.tank] = NoSession]
    /\ Done
    /\ UNCHANGED <<status, outbox, sequence, flag, recovery, config, history>>

\* Mutant: the finish of one tank settles all of them
ResolveEveryTank ==
    /\ At("resolve") /\ Done
    /\ recovery' = {} /\ flag' = FALSE
    /\ UNCHANGED <<session, status, outbox, sequence, config, history>>

ResolveTank ==
    /\ At("resolve")
    /\ recovery' = recovery \ {This.tank}
    /\ flag' = (flag /\ recovery' # {})
    /\ Done
    /\ UNCHANGED <<session, status, outbox, sequence, config, history>>

\* What a reader of the reports tells apart
Shown(phase) == IF phase \in {"normal", "recovery_required"} THEN phase ELSE "open"

\* queue_report: number, outbox row and the session's last report in one go
QueueReport(t, c, start, phase, s) ==
    /\ sequence' = sequence + 1
    /\ outbox' = outbox \cup {[life |-> life, seq |-> sequence + 1, tank |-> t, cmd |-> c,
                               start |-> start, shows |-> Shown(phase), status |-> s]}
    /\ session' = IF Open(t) THEN [session EXCEPT ![t].last = sequence + 1] ELSE session
    /\ Done
    /\ UNCHANGED <<status, flag, recovery, config, history>>

QueueAnswer ==
    /\ At("queue")
    /\ QueueReport(TankOf[This.cmd], This.cmd, This.start, This.phase, This.status)

\* _report speaks for the session, and says nothing without one
ReportSession ==
    /\ At("report")
    /\ LET s == session[This.tank]
       IN  IF Open(This.tank)
           THEN QueueReport(This.tank, s.cmd, s.start, s.phase, This.status)
           ELSE Becomes(<<>>)

\* Only ever upwards
AdvanceSequence ==
    /\ At("advance")
    /\ sequence' = IF This.to > sequence THEN This.to ELSE sequence
    /\ Done
    /\ UNCHANGED <<session, status, outbox, flag, recovery, config, history>>

\* Mutant: everything up to the last acknowledged report goes
AcknowledgeUpTo ==
    /\ At("acknowledge") /\ Done
    /\ outbox' = {r \in outbox : \A a \in This.acks : r.seq > a[2] + 1}
    /\ UNCHANGED <<session, status, sequence, flag, recovery, config, history>>

Id(r) == <<r.life, r.seq>>

\* By report id, which the store and the number stand for
AcknowledgeReports ==
    /\ At("acknowledge")
    /\ outbox' = {r \in outbox : Id(r) \notin This.acks}
    /\ Done
    /\ UNCHANGED <<session, status, sequence, flag, recovery, config, history>>

\* Waterlog decides which tanks await recovery
ReplaceRecoveryTanks ==
    /\ At("replace")
    /\ recovery' = This.tanks
    /\ flag' = (This.tanks # {})
    /\ Done
    /\ UNCHANGED <<session, status, outbox, sequence, config, history>>

InstallConfig ==
    /\ At("install")
    /\ config' = IF This.revision < config THEN config ELSE This.revision
    /\ Done
    /\ UNCHANGED <<session, status, outbox, sequence, flag, recovery, history>>

-------------------------------------------------------------------------------
(* accept, a command at a time.                                                *)

\* from_wire raises: the commands after this one are not looked at
Unreadable ==
    /\ At("accept")
    /\ "garbled" \in Faults
    /\ todo' = <<>>
    /\ UNCHANGED <<store, wire, waterlog, history>>

\* A redelivered command
AcceptKnown ==
    /\ At("accept")
    /\ status[This.cmd] # "none"
    /\ Becomes(<<>>)

New(c) == At("accept") /\ This.cmd = c /\ status[c] = "none"
Temporary(c) == Kind[c] \in Mode

\* Mutant of Refused: lost sessions do not keep a mode from starting
RefusedUnlessInstalled(c) == Needs[c] > config

\* recovery_required, config_not_installed
Refused(c) ==
    \/ RecoveryRequired /\ Kind[c] # "finish"
    \/ Needs[c] > config

AcceptRefused(c) ==
    /\ New(c)
    /\ Refused(c)
    /\ Becomes(<<Reject(c)>>)

\* start_expired, or anything the preflight of _temporary does not accept
AcceptUnfit(c) ==
    /\ New(c)
    /\ ~Refused(c)
    /\ Temporary(c)
    /\ Becomes(<<Reject(c)>>)

\* An unsafe clock unwinds every session before the command is refused
AcceptUnsafe(c) ==
    /\ New(c)
    /\ ~Refused(c)
    /\ Temporary(c)
    /\ "clock" \in Faults
    /\ sequence < MaxReports
    /\ Becomes(<<Unwind(OpenTanks), Reject(c)>>)

\* _temporary: the mode is already active
AcceptSameMode(c) ==
    LET s == session[TankOf[c]]
    IN  /\ New(c)
        /\ ~Refused(c)
        /\ Temporary(c)
        /\ s.mode = Kind[c]
        /\ s.phase = "active"
        /\ Becomes(<<Record(c, "completed"), Transition(c, s.mode, s.phase),
                     Report(TankOf[c], "completed")>>)

AcceptTemporary(c) ==
    LET s == session[TankOf[c]]
    IN  /\ New(c)
        /\ ~Refused(c)
        /\ Temporary(c)
        /\ ~(s.mode = Kind[c] /\ s.phase = "active")
        /\ Becomes(<<Begin(c), Enter(c)>>)

\* The entry lets another tank restore what is due there
EntryVisits(t) ==
    /\ At("enter")
    /\ t # TankOf[This.cmd]
    /\ Open(t)
    /\ todo' = <<Restore(t, FALSE)>> \o todo
    /\ UNCHANGED <<store, wire, waterlog, history>>

EntrySucceeds ==
    /\ At("enter")
    /\ LET c == This.cmd
       IN  Becomes(<<SetStatus(c, "completed"), SetSession(TankOf[c], Kind[c], "active"),
                     Report(TankOf[c], "completed")>>)

\* Mutant of EntryFails: the command keeps the status begin_session gave it
EntryFailsQuietly ==
    /\ At("enter")
    /\ LET t == TankOf[This.cmd]
       IN  Becomes(<<SetSession(t, "normal", "restoring"), Report(t, "failed"), Restore(t, TRUE)>>)

\* entry_failed, and switch_restore_failed
EntryFails ==
    /\ At("enter")
    /\ LET c == This.cmd
           t == TankOf[c]
       IN  Becomes(<<SetStatus(c, "failed"), SetSession(t, "normal", "restoring"),
                     Report(t, "failed"), Restore(t, TRUE)>>)

\* Mutant: a refusal is reported only for an open session
RejectQuietly ==
    /\ At("reject")
    /\ LET c == This.cmd
       IN  Becomes(<<Record(c, "failed")>> \o
             IF ~Open(TankOf[c]) THEN <<>>
             ELSE <<Transition(c, "normal", "restoring"), Report(TankOf[c], "failed"),
                    Restore(TankOf[c], TRUE)>>)

\* _reject_and_unwind
RejectOrUnwind ==
    /\ At("reject")
    /\ LET c == This.cmd
           t == TankOf[c]
       IN  Becomes(<<Record(c, "failed")>> \o
             IF ~Open(t) THEN <<Queue(c, c, "normal", "failed")>>
             ELSE IF session[t].phase = "recovery_required"
             THEN <<Queue(c, session[t].start, "recovery_required", "failed")>>
             ELSE <<Transition(c, "normal", "restoring"), Report(t, "failed"),
                    Restore(t, TRUE)>>)

AcceptNormal(c) ==
    /\ New(c)
    /\ ~Refused(c)
    /\ Kind[c] = "normal"
    /\ Becomes(IF ~Open(TankOf[c])
               THEN <<Record(c, "completed"), Queue(c, c, "normal", "completed")>>
               ELSE <<Record(c, "accepted"), Transition(c, "normal", "restoring"),
                      Restore(TankOf[c], TRUE)>>)

\* Mutant of Acknowledges: any report of the session will do
AcknowledgesSession(c) ==
    LET t == TankOf[c]
    IN  IF Open(t) THEN token[c].start = session[t].start ELSE t \in recovery

\* _finish_manual: what the person saw is the last report of this session, or
\* the tank is one whose session was lost
Acknowledges(c) ==
    LET t == TankOf[c]
    IN  IF Open(t)
        THEN token[c].start = session[t].start /\ token[c].seq = session[t].last
        ELSE t \in recovery \/ (recovery = {} /\ flag)

FinishIgnored(c) ==
    /\ New(c)
    /\ ~Refused(c)
    /\ Kind[c] = "finish"
    /\ ~Acknowledges(c)
    /\ Becomes(<<>>)

\* The outlets are what the person confirmed
FinishAccepted(c) ==
    LET t == TankOf[c]
    IN  /\ New(c)
        /\ ~Refused(c)
        /\ Kind[c] = "finish"
        /\ Acknowledges(c)
        /\ Becomes(<<Record(c, "completed")>> \o
             IF Open(t)
             THEN <<Transition(c, "normal", "normal"), Report(t, "completed"), Resolve(t), Remove(t)>>
             ELSE <<Queue(c, token[c].start, "normal", "completed"), Resolve(t)>>)

\* outlet_identity_changed, recovery_state_changed
FinishRefused(c) ==
    LET t == TankOf[c]
    IN  /\ New(c)
        /\ ~Refused(c)
        /\ Kind[c] = "finish"
        /\ Acknowledges(c)
        /\ Becomes(<<Record(c, "failed")>> \o
             IF Open(t)
             THEN <<Transition(c, "normal", "recovery_required"), Report(t, "failed")>>
             ELSE <<Queue(c, token[c].start, "recovery_required", "failed")>>)

-------------------------------------------------------------------------------
(* _restore, as far as commands and reports go; only open sessions are         *)
(* restored.                                                                   *)

\* Every outlet is restored: a command not yet answered counts as completed
RestoreComplete ==
    /\ At("restore")
    /\ Open(This.tank)
    /\ LET t == This.tank
           c == session[t].cmd
       IN  Becomes((IF status[c] = "accepted" THEN <<SetStatus(c, "completed")>> ELSE <<>>)
             \o <<SetSession(t, "normal", "normal"),
                  Report(t, IF status[c] = "failed" THEN "failed" ELSE "completed"),
                  Remove(t)>>)

Progress(t) == Report(t, IF status[session[t].cmd] = "failed" THEN "failed" ELSE "none")

\* Something remains: an outlet is held for an attended recovery or retried.
\* A new phase is reported, and so is any change of an outlet
RestorePending(phase) ==
    /\ At("restore")
    /\ Open(This.tank)
    /\ LET t == This.tank
           set == SetSession(t, session[t].mode, phase)
           changed == phase # session[t].phase
       IN  \/ /\ changed => phase = "recovery_required" \/ sequence < MaxReports
              /\ Becomes(IF changed THEN <<set, Progress(t)>> ELSE <<set>>)
           \/ /\ ~changed
              /\ sequence < MaxReports
              /\ Becomes(<<set, Progress(t)>>)

\* Nothing is due yet
RestoreLater ==
    /\ At("restore")
    /\ Open(This.tank)
    /\ ~This.imm
    /\ Becomes(<<>>)

-------------------------------------------------------------------------------
(* tick and _clock_safe.                                                       *)

Tick ==
    /\ todo = <<>>
    /\ OpenTanks # {}
    /\ todo' = <<Visit(OpenTanks)>>
    /\ UNCHANGED <<store, wire, waterlog, history>>

TickUnsafe ==
    /\ todo = <<>>
    /\ OpenTanks # {}
    /\ "clock" \in Faults
    /\ sequence < MaxReports
    /\ todo' = <<Unwind(OpenTanks), Visit(OpenTanks)>>
    /\ UNCHANGED <<store, wire, waterlog, history>>

\* Sessions are visited in the order of their tank ids
First(S) == CHOOSE t \in S : TRUE

\* clock_uncertain, a session at a time
UnwindTank(t) ==
    /\ At("unwind")
    /\ This.tanks # {}
    /\ t = First(This.tanks)
    /\ Becomes(<<SetSession(t, "normal", "restoring"), Restore(t, TRUE), Unwind(This.tanks \ {t})>>)

LoopDone == (At("unwind") \/ At("visit")) /\ This.tanks = {} /\ Becomes(<<>>)

Visiting(t, ops) ==
    /\ At("visit")
    /\ This.tanks # {}
    /\ t = First(This.tanks)
    /\ Becomes(ops \o <<Visit(This.tanks \ {t})>>)

VisitGone(t) == ~Open(t) /\ Visiting(t, <<>>)

\* restart_during_entry, restart_during_switch
VisitUnfinished(t) ==
    /\ session[t].phase \in {"starting", "switching"}
    /\ Visiting(t, <<SetSession(t, "normal", "restoring"), Restore(t, TRUE)>>)

VisitActive(t) ==
    /\ session[t].phase = "active"
    /\ Visiting(t, <<Restore(t, FALSE)>>)

\* outlet_identity_changed
VisitReplaced(t) ==
    /\ session[t].phase = "active"
    /\ "registry" \in Faults
    /\ Visiting(t, <<SetSession(t, session[t].mode, "recovery_required"), Report(t, "failed")>>)

\* external_change: an outlet that should be off has been switched on
VisitSwitched(t) ==
    /\ session[t].phase = "active"
    /\ Visiting(t, <<SetSession(t, session[t].mode, "recovery_required"), Report(t, "failed"),
                     Restore(t, FALSE)>>)

\* and another one: the loop over the outlets sets the session and reports anew
VisitSwitchedAgain(t) ==
    /\ At("restore")
    /\ This = Restore(t, FALSE)
    /\ Tail(todo) # <<>> /\ Head(Tail(todo)).do = "visit"
    /\ session[t].phase = "recovery_required"
    /\ sequence < MaxReports
    /\ Becomes(<<SetSession(t, session[t].mode, "recovery_required"), Report(t, "failed"), This>>)

VisitPending(t) ==
    LET s == session[t]
    IN  /\ s.phase \in {"restoring", "recovery_required", "normal"}
        /\ Visiting(t, <<Restore(t, s.phase = "recovery_required" \/ s.mode = "normal")>>)

-------------------------------------------------------------------------------
(* exchange_once.                                                              *)

Before(r, S) == {q \in S : q.seq < r.seq}

\* Mutant of Batch: any reports, not the oldest
BatchAny == CHOOSE S \in SUBSET outbox :
    /\ Cardinality(S) = IF Cardinality(outbox) < BatchLimit THEN Cardinality(outbox) ELSE BatchLimit
    /\ \A r \in S, q \in outbox \ S : r.seq > q.seq

\* reports(): the oldest, up to a limit
Batch == {r \in outbox : Cardinality(Before(r, outbox)) < BatchLimit}

\* Mutant of Apply: the commands are executed before the rest of the reply
ApplyCommandsFirst ==
    /\ todo = <<>> /\ wire.kind = "reply" /\ wire' = Idle
    /\ todo' = [i \in 1 .. Len(wire.commands) |-> Accept(wire.commands[i])] \o
               <<Advance(wire.floor), Acknowledge(wire.acks), ReplaceRecovery(wire.recovery),
                 Install(wire.config)>>
    /\ UNCHANGED <<store, waterlog, history>>

Apply ==
    /\ todo = <<>>
    /\ wire.kind = "reply"
    /\ todo' = <<Advance(wire.floor), Acknowledge(wire.acks),
                 ReplaceRecovery(wire.recovery), Install(wire.config)>> \o
               [i \in 1 .. Len(wire.commands) |-> Accept(wire.commands[i])]
    /\ wire' = Idle
    /\ UNCHANGED <<store, waterlog, history>>

-------------------------------------------------------------------------------
(* Waterlog.                                                                   *)

\* Its newest report of the tank says that a session is open.  Nothing else tells
\* Waterlog of one: acknowledgedCommandIds is always empty, and an entry reports
\* nothing before it ends
KnownOpen == {t \in Tank : newest[t].shows # "normal"}

\* Commands are delivered until they are answered, in any order and number
Deliveries == UNION {[1 .. n -> Command] : n \in 0 .. MaxDelivery}

Deliverable(c) == c \notin answered' /\ (Kind[c] = "finish" => token[c] # NoToken)

\* A number below the highest one received gives a replaced store away: the
\* tanks with an open session await recovery until a finish is reported
Receive ==
    /\ todo = <<>>
    /\ wire = Idle
    /\ received' = received \cup {Id(r) : r \in Batch}
    /\ floor' = CHOOSE n \in {floor} \cup {r.seq : r \in Batch} :
                   n >= floor /\ \A r \in Batch : n >= r.seq
    /\ newest' = [t \in Tank |->
           LET news == {r \in Batch : r.tank = t /\ r.seq > newest[t].seq}
           IN  IF news = {} THEN newest[t]
               ELSE LET r == CHOOSE r \in news : \A q \in news : q.seq <= r.seq
                    IN  [start |-> r.start, seq |-> r.seq, shows |-> r.shows]]
    /\ answered' = answered \cup {r.cmd : r \in {q \in Batch : q.status # "none"}}
    /\ atRisk' = (atRisk \cup (IF sequence < floor THEN KnownOpen ELSE {}))
                 \ {TankOf[c] : c \in {d \in Command : Kind[d] = "finish" /\
                        \E r \in Batch : r.cmd = d /\ r.status = "completed"}}
    /\ UNCHANGED <<store, todo, token, history>>

Serve(commands, revision) ==
    /\ Receive
    /\ \A i, j \in 1 .. Len(commands) :
           Deliverable(commands[i]) /\ (commands[i] = commands[j] => i = j)
    /\ wire' = [kind |-> "reply", acks |-> {Id(r) : r \in Batch}, floor |-> floor',
                recovery |-> atRisk', config |-> revision, commands |-> commands]

\* Losing the request instead changes nothing at all
ReplyLost ==
    /\ "network" \in Faults
    /\ Receive
    /\ UNCHANGED wire

\* Somebody acknowledges what Waterlog shows of a tank
Attend(c) ==
    LET r == newest[TankOf[c]]
    IN  /\ todo = <<>>
        /\ Kind[c] = "finish"
        /\ token[c] = NoToken
        /\ r.seq # 0
        /\ r.shows = "recovery_required" \/ TankOf[c] \in atRisk
        /\ token' = [token EXCEPT ![c] = [start |-> r.start, seq |-> r.seq]]
        /\ UNCHANGED <<store, todo, wire, received, floor, newest, answered, atRisk, history>>

-------------------------------------------------------------------------------
(* Failures of the bridge.                                                     *)

Crash ==
    /\ "crash" \in Faults
    /\ sequence < MaxReports
    /\ todo # <<>> \/ wire # Idle
    /\ todo' = <<>>
    /\ wire' = Idle
    /\ UNCHANGED <<store, waterlog, history>>

\* An open session that Waterlog has on report.  Of any other Waterlog does not
\* know that its tank needs recovery, so that the first reply clears the flag and
\* the bridge forgets it
OnReport == OpenTanks \cap KnownOpen

\* The store is gone at the next start, the installation identity is not
\* (local_state_missing in main).  The new store is made before the flag is set:
\* after a crash in between it passes for one that was never lost
LoseStore ==
    /\ life < MaxLosses
    /\ life' = life + 1
    /\ orphaned' = orphaned \cup OnReport
    /\ session' = [t \in Tank |-> NoSession]
    /\ status' = [c \in Command |-> "none"]
    /\ outbox' = {}
    /\ sequence' = 0
    /\ flag' \in (IF "crash" \in Faults THEN BOOLEAN ELSE {TRUE})
    /\ recovery' = {}
    /\ config' = 0
    /\ todo' = <<>>
    /\ wire' = Idle
    /\ UNCHANGED <<waterlog, entered>>

-------------------------------------------------------------------------------
Transaction ==
    \/ RecordCommand \/ SetCommandStatus \/ BeginSession \/ TransitionSession \/ SetPhase
    \/ RemoveSession \/ ResolveTank \/ QueueAnswer \/ ReportSession
    \/ AdvanceSequence \/ AcknowledgeReports \/ ReplaceRecoveryTanks \/ InstallConfig

AcceptCommand ==
    \/ Unreadable \/ AcceptKnown
    \/ \E c \in Command : \/ AcceptRefused(c) \/ AcceptUnfit(c) \/ AcceptUnsafe(c)
                          \/ AcceptSameMode(c) \/ AcceptTemporary(c) \/ AcceptNormal(c)
                          \/ FinishIgnored(c) \/ FinishAccepted(c) \/ FinishRefused(c)

Call ==
    \/ AcceptCommand
    \/ EntrySucceeds \/ EntryFails \/ RejectOrUnwind
    \/ RestoreComplete \/ RestoreLater
    \/ \E phase \in {"restoring", "recovery_required"} : RestorePending(phase)
    \/ LoopDone
    \/ \E t \in Tank : \/ EntryVisits(t) \/ UnwindTank(t) \/ VisitGone(t) \/ VisitUnfinished(t)
                       \/ VisitActive(t) \/ VisitReplaced(t) \/ VisitSwitched(t)
                       \/ VisitSwitchedAgain(t) \/ VisitPending(t)

Handler == Transaction \/ Call

External ==
    \/ \E commands \in Deliveries, revision \in 0 .. MaxConfig : Serve(commands, revision)
    \/ \E c \in Command : Attend(c)
    \/ ReplyLost

Next ==
    \/ Handler
    \/ Tick \/ TickUnsafe
    \/ Apply
    \/ External
    \/ Crash \/ LoseStore

Spec == Init /\ [][Next]_vars

\* Both threads go on and get the lock in the end; a restoration succeeds in the
\* end; an entry does not attend to other tanks for good; replies get through
\* in the end, and Waterlog delivers a command until it knows the result
FairSpec ==
    /\ Spec
    /\ WF_vars(Handler)
    /\ SF_vars(EntrySucceeds \/ EntryFails)
    /\ SF_vars(RestoreComplete)
    /\ SF_vars(Tick)
    /\ SF_vars(Apply)
    /\ SF_vars(\E commands \in Deliveries : Serve(commands, MaxConfig))
    /\ \A c \in Command : SF_vars(Serve(<<c>>, MaxConfig))

-------------------------------------------------------------------------------
(* Properties. *)

ExchangeTypeOK ==
    /\ session \in [Tank -> Sessions]
    /\ status \in [Command -> Statuses]
    /\ outbox \subseteq Reports
    /\ sequence \in Nat
    /\ flag \in BOOLEAN
    /\ recovery \subseteq Tank
    /\ config \in Nat
    /\ received \subseteq Nat \X Nat
    /\ floor \in Nat
    /\ answered \subseteq Anyone
    /\ atRisk \subseteq Tank
    /\ token \in [Command -> Tokens]
    /\ life \in Nat
    /\ entered \subseteq Anyone
    /\ orphaned \subseteq Tank

Known == received \cup {Id(r) : r \in outbox}

\* A report stays in the outbox until Waterlog has it, whatever requests and
\* replies are lost: every number ever given out is in the outbox or received
\* (test_report_remains_durable_until_cloud_acknowledges_it).
ReportsSurvive == 1 .. sequence \subseteq {id[2] : id \in Known}

\* A number stands for one report, although the loss of the store resets the
\* counter: the floor of the next reply is above everything Waterlog has, and
\* nothing is reported before it (advance_report_sequence, README.md:34-36).
NumbersUnique == \A id, other \in Known : id[2] = other[2] => id = other

\* Waterlog learns things in the order in which they happened: it never has a
\* report without the ones before it (test_report_outbox_uses_durable_sequence_...).
NoGaps == {id[2] : id \in received} = 1 .. floor

\* A tank that lost an open session with the store begins no mode until somebody
\* has attended that very tank: not after a finish for another tank, a restart,
\* an old reply or a command in the same reply
\* (test_lost_store_recovery_survives_restart_and_failed_ack_per_tank).  This
\* holds of a session Waterlog had on report (OnReport) and of no other: one lost
\* before its first report arrived is not guarded.
ReportedSessionsGuarded ==
    [][\A t \in Tank : ~Open(t) /\ Open(t)' => t \notin orphaned]_vars

\* As long as a tank that lost a session Waterlog had on report has not been
\* attended, the bridge knows that recovery is required, whatever another tank's
\* finish or an older reply says of it (control_store.resolve_recovery_tank,
\* test_lost_store_recovery_survives_restart_and_failed_ack_per_tank).  Of a
\* session lost before that, the bridge knows until the first reply only.
OrphansBlock == orphaned # {} => RecoveryRequired

\* Somebody who finishes the recovery of an open session has seen the last thing
\* the bridge reported of it, not an older report
\* (test_manual_recovery_is_bound_to_exact_session_and_report).
FinishSeesLatest ==
    [][\A c \in Command :
          Kind[c] = "finish" /\ Open(TankOf[c]) /\ status[c] = "none" /\ status'[c] = "completed"
              => /\ \A r \in outbox : r.tank = TankOf[c] => r.seq <= token[c].seq
                 /\ newest[TankOf[c]].seq <= token[c].seq]_vars

\* A temporary command is reported as completed only if its mode was active
\* (CHANGELOG.md:35-36: truthful failure and recovery states).
CompletedWasActive ==
    \A r \in outbox :
        r.status = "completed" /\ r.cmd # NoCommand /\ Kind[r.cmd] \in Mode => r.cmd \in entered

\* Another command has taken the session over
Superseded(c) == todo = <<>> /\ status[c] = "accepted" /\ session[TankOf[c]].cmd # c

\* Waterlog gets to know the result of every mode command, unless another
\* command took over first (test_report_remains_durable_until_cloud_acknowledges_it).
EveryCommandAnswered ==
    \A c \in Command : Kind[c] # "finish" => <>(c \in answered \/ Superseded(c))
===============================================================================
