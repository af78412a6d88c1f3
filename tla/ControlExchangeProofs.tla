------------------------ MODULE ControlExchangeProofs ------------------------
(* The proofs that reports are numbered without a gap or a collision and are   *)
(* kept until Waterlog has them, although the store may be lost.               *)
EXTENDS ControlExchange, FiniteSetTheorems, SequenceTheorems, WellFoundedInduction, TLAPS

-------------------------------------------------------------------------------
(* What a handler may still have to do, and what may be under way.             *)

RecordOps == [do : {"record", "status"}, cmd : Command, status : Statuses]
EntryOps == [do : {"begin", "enter"}, cmd : {c \in Command : Temporary(c)}]
DecideOps == [do : {"accept", "reject"}, cmd : Command]
TransitionOps == [do : {"transition"}, cmd : Command, mode : Mode \cup {"normal"}, phase : Phases]
SetOps == [do : {"set"}, tank : Tank, mode : Mode \cup {"normal"}, phase : Phases]
CloseOps == [do : {"remove", "resolve"}, tank : Tank]
RestoreOps == [do : {"restore"}, tank : Tank, imm : BOOLEAN]
LoopOps == [do : {"unwind", "visit"}, tanks : SUBSET Tank]
QueueOps == [do : {"queue"}, cmd : Command, start : Anyone, phase : Phases, status : Statuses]
ReportOps == [do : {"report"}, tank : Tank, status : Statuses]
\* A reply acknowledges and tells only what Waterlog has
AdvanceOps == [do : {"advance"}, to : 0 .. floor]
AcknowledgeOps == [do : {"acknowledge"}, acks : SUBSET received]
ReplaceOps == [do : {"replace"}, tanks : SUBSET Tank]
InstallOps == [do : {"install"}, revision : Nat]

Operation ==
    RecordOps \cup EntryOps \cup DecideOps \cup TransitionOps \cup SetOps \cup CloseOps \cup RestoreOps
    \cup LoopOps \cup QueueOps \cup ReportOps \cup AdvanceOps \cup AcknowledgeOps \cup ReplaceOps \cup InstallOps

ReplyOf == [kind : {"reply"}, acks : SUBSET received, floor : {floor}, recovery : SUBSET Tank,
            config : Nat, commands : Seq(Command)]

\* The calls of a handler are built from what it holds
LEMMA Operations ==
    ASSUME floor \in Nat
    PROVE
    /\ \A c \in Command, s \in Statuses :
           Record(c, s) \in Operation /\ SetStatus(c, s) \in Operation
    /\ \A c \in Command : Temporary(c) => Begin(c) \in Operation /\ Enter(c) \in Operation
    /\ \A c \in Command : Accept(c) \in Operation /\ Reject(c) \in Operation
    /\ \A c \in Command, m \in Mode \cup {"normal"}, p \in Phases : Transition(c, m, p) \in Operation
    /\ \A t \in Tank, m \in Mode \cup {"normal"}, p \in Phases : SetSession(t, m, p) \in Operation
    /\ \A t \in Tank : Remove(t) \in Operation /\ Resolve(t) \in Operation
    /\ \A t \in Tank, b \in BOOLEAN : Restore(t, b) \in Operation
    /\ \A S \in SUBSET Tank :
           Unwind(S) \in Operation /\ Visit(S) \in Operation /\ ReplaceRecovery(S) \in Operation
    /\ \A c \in Command, a \in Anyone, p \in Phases, s \in Statuses : Queue(c, a, p, s) \in Operation
    /\ \A t \in Tank, s \in Statuses : Report(t, s) \in Operation
    /\ \A n \in 0 .. floor : Advance(n) \in Operation
    /\ \A acks \in SUBSET received : Acknowledge(acks) \in Operation
    /\ \A r \in Nat : Install(r) \in Operation
<1>1. \A c \in Command, s \in Statuses : Record(c, s) \in RecordOps /\ SetStatus(c, s) \in RecordOps
  BY DEF Record, SetStatus, RecordOps
<1>2. \A c \in Command : Temporary(c) => Begin(c) \in EntryOps /\ Enter(c) \in EntryOps
  BY DEF Begin, Enter, EntryOps
<1>3. \A c \in Command : Accept(c) \in DecideOps /\ Reject(c) \in DecideOps
  BY DEF Accept, Reject, DecideOps
<1>4. \A c \in Command, m \in Mode \cup {"normal"}, p \in Phases : Transition(c, m, p) \in TransitionOps
  BY DEF Transition, TransitionOps
<1>5. \A t \in Tank, m \in Mode \cup {"normal"}, p \in Phases : SetSession(t, m, p) \in SetOps
  BY DEF SetSession, SetOps
<1>6. \A t \in Tank : Remove(t) \in CloseOps /\ Resolve(t) \in CloseOps
  BY DEF Remove, Resolve, CloseOps
<1>7. \A t \in Tank, b \in BOOLEAN : Restore(t, b) \in RestoreOps
  BY DEF Restore, RestoreOps
<1>8. \A S \in SUBSET Tank : Unwind(S) \in LoopOps /\ Visit(S) \in LoopOps /\ ReplaceRecovery(S) \in ReplaceOps
  BY DEF Unwind, Visit, LoopOps, ReplaceRecovery, ReplaceOps
<1>9. \A c \in Command, a \in Anyone, p \in Phases, s \in Statuses : Queue(c, a, p, s) \in QueueOps
  BY DEF Queue, QueueOps
<1>10. \A t \in Tank, s \in Statuses : Report(t, s) \in ReportOps
  BY DEF Report, ReportOps
<1>11. \A n \in 0 .. floor : Advance(n) \in AdvanceOps
  BY DEF Advance, AdvanceOps
<1>12. \A acks \in SUBSET received : Acknowledge(acks) \in AcknowledgeOps
  BY DEF Acknowledge, AcknowledgeOps
<1>13. \A r \in Nat : Install(r) \in InstallOps
  BY DEF Install, InstallOps
<1>. QED
  BY <1>1, <1>2, <1>3, <1>4, <1>5, <1>6, <1>7, <1>8, <1>9, <1>10, <1>11, <1>12, <1>13 DEF Operation

\* What the call at hand carries
LEMMA Carries ==
    ASSUME NEW op \in Operation
    PROVE
    /\ op.do \in {"record", "status"} => op.cmd \in Command /\ op.status \in Statuses
    /\ op.do \in {"begin", "enter"} => op.cmd \in Command /\ Temporary(op.cmd)
    /\ op.do \in {"accept", "reject"} => op.cmd \in Command
    /\ op.do = "transition" =>
           op.cmd \in Command /\ op.mode \in Mode \cup {"normal"} /\ op.phase \in Phases
    /\ op.do = "set" => op.tank \in Tank /\ op.mode \in Mode \cup {"normal"} /\ op.phase \in Phases
    /\ op.do \in {"remove", "resolve", "restore"} => op.tank \in Tank
    /\ op.do \in {"unwind", "visit", "replace"} => op.tanks \subseteq Tank
    /\ op.do = "queue" => /\ op.cmd \in Command /\ op.start \in Anyone
                          /\ op.phase \in Phases /\ op.status \in Statuses
    /\ op.do = "report" => op.tank \in Tank /\ op.status \in Statuses
    /\ op.do = "advance" => op.to \in 0 .. floor
    /\ op.do = "acknowledge" => op.acks \subseteq received
    /\ op.do = "install" => op.revision \in Nat
BY DEF Operation, RecordOps, EntryOps, DecideOps, TransitionOps, SetOps, CloseOps, RestoreOps, LoopOps, QueueOps,
       ReportOps, AdvanceOps, AcknowledgeOps, ReplaceOps, InstallOps

-------------------------------------------------------------------------------
(* The inductive invariant. *)

\* The numbers of the store: nothing is reported by a store that is behind what
\* Waterlog has, and the first thing it does with a reply is to catch up
NumberInv ==
    /\ NoGaps
    /\ ReportsSurvive
    /\ NumbersUnique
    /\ \A r \in outbox : r.life = life /\ r.seq \in 1 .. sequence
    /\ sequence < floor =>
           /\ outbox = {}
           /\ \A t \in Tank : ~Open(t)
           /\ todo # <<>> => Head(todo) = Advance(floor)

\* An open session belongs to a command
Owned == {s \in Sessions : s.phase # "none" => s.cmd \in Command}

TypeInv ==
    /\ ExchangeTypeOK
    /\ session \in [Tank -> Owned]
    /\ IsFiniteSet(outbox)
    /\ newest \in [Tank -> [start : Anyone, seq : Nat, shows : Shows]]

FlowInv ==
    /\ todo \in Seq(Operation)
    /\ wire \in {Idle} \cup ReplyOf

ExchangeInv == TypeInv /\ NumberInv /\ FlowInv

-------------------------------------------------------------------------------
(* Facts about numbers and about the sequence of what is still to do.          *)

LEMMA NewestNumber ==
    ASSUME NEW b \in Nat, NEW S, S \subseteq 1 .. b, S # {}
    PROVE  \E m \in S : \A n \in S : n <= m
<1>. DEFINE After(i) == {j \in S : j > i}
            R == StrictSubsetOrdering(S)
            F == FiniteSubsetsOf(S)
            T == {After(i) : i \in S}
<1>0. IsFiniteSet(S)
  <2>1. IsFiniteSet(1 .. b)
    BY FS_Interval
  <2>. QED  BY <2>1, FS_Subset
<1>1. IsWellFoundedOn(R, F)
  BY FS_StrictSubsetOrderingWellFounded
<1>2. T \subseteq F /\ T # {}
  <2>1. ASSUME NEW i \in S PROVE After(i) \in SUBSET S /\ IsFiniteSet(After(i))
    <3>1. After(i) \in SUBSET S
      OBVIOUS
    <3>. QED  BY <1>0, <3>1, FS_Subset
  <2>. QED  BY <2>1 DEF FiniteSubsetsOf
<1>3. PICK X \in T : \A Y \in T : ~(<<Y, X>> \in R)
  <2>. HIDE DEF R, F, T
  <2>. QED  BY <1>1, <1>2, WFMin
<1>4. PICK m \in S : X = After(m)
  BY <1>3
<1>5. ASSUME NEW i \in S, ~(i <= m) PROVE FALSE
  <2>1. After(i) \subseteq After(m) /\ i \in After(m) /\ i \notin After(i)
    <3>1. m \in S /\ \A j \in S : j \in Nat
      BY <1>4
    <3>2. i > m
      BY <1>5, <3>1
    <3>3. \A j \in S : j > i => j > m
      BY <1>5, <3>1, <3>2
    <3>4. ~(i > i)
      BY <1>5, <3>1
    <3>. QED  BY <1>5, <3>1, <3>2, <3>3, <3>4
  <2>2. <<After(i), X>> \in R
    BY <1>4, <2>1 DEF StrictSubsetOrdering
  <2>. QED  BY <1>3, <2>2
<1>. QED  BY <1>5

LEMMA RestOfWork ==
    ASSUME todo \in Seq(Operation), todo # <<>>
    PROVE  Head(todo) \in Operation /\ Tail(todo) \in Seq(Operation)
BY HeadTailProperties

LEMMA SameWork ==
    ASSUME UNCHANGED <<floor, received>>
    PROVE  Operation' = Operation /\ ReplyOf' = ReplyOf
BY DEF Operation, ReplyOf, RecordOps, EntryOps, DecideOps, TransitionOps, SetOps, CloseOps,
       RestoreOps, LoopOps, QueueOps, ReportOps, AdvanceOps, AcknowledgeOps, ReplaceOps, InstallOps

LEMMA MoreWork ==
    ASSUME NEW ops \in Seq(Operation), NEW rest \in Seq(Operation)
    PROVE  ops \o rest \in Seq(Operation)
BY ConcatProperties

-------------------------------------------------------------------------------
(* The steps of a handler. *)

\* A call is replaced by what it turns out to do.  It is never called by a store
\* that is behind.
LEMMA BecomesKeeps ==
    ASSUME ExchangeInv, todo # <<>>, Head(todo).do # "advance",
           NEW ops \in Seq(Operation), Becomes(ops)
    PROVE  ExchangeInv'
<1>1. UNCHANGED <<store, wire, waterlog, history>> /\ todo' = ops \o Tail(todo)
  BY DEF Becomes
<1>2. TypeInv'
  BY <1>1 DEF ExchangeInv, TypeInv, ExchangeTypeOK, store, waterlog, history
<1>3. ~(sequence < floor)
  BY DEF ExchangeInv, NumberInv, Advance
<1>4. NumberInv'
  BY <1>1, <1>3 DEF ExchangeInv, NumberInv, NoGaps, ReportsSurvive, NumbersUnique, Known, Id,
                    store, waterlog, history
<1>5. Operation' = Operation /\ ReplyOf' = ReplyOf
  BY <1>1, SameWork DEF waterlog
<1>6. FlowInv'
  BY <1>1, <1>5, RestOfWork, MoreWork DEF ExchangeInv, FlowInv
<1>. QED  BY <1>2, <1>4, <1>6 DEF ExchangeInv

\* A transaction that leaves the reports alone
LEMMA TransactionKeeps ==
    ASSUME ExchangeInv, todo # <<>>, Head(todo).do # "advance", Done,
           UNCHANGED <<outbox, sequence, life>>,
           session' \in [Tank -> Owned], status' \in [Command -> Statuses],
           flag' \in BOOLEAN, recovery' \subseteq Tank, config' \in Nat,
           entered' \subseteq Anyone, orphaned' \subseteq Tank
    PROVE  ExchangeInv'
<1>1. UNCHANGED <<wire, waterlog>> /\ todo' = Tail(todo)
  BY DEF Done
<1>2. TypeInv'
  BY <1>1 DEF ExchangeInv, TypeInv, ExchangeTypeOK, Owned, waterlog
<1>3. ~(sequence < floor)
  BY DEF ExchangeInv, NumberInv, Advance
<1>4. NumberInv'
  BY <1>1, <1>3 DEF ExchangeInv, NumberInv, NoGaps, ReportsSurvive, NumbersUnique, Known, Id,
                    waterlog
<1>5. Operation' = Operation /\ ReplyOf' = ReplyOf
  BY <1>1, SameWork DEF waterlog
<1>6. FlowInv'
  BY <1>1, <1>5, RestOfWork DEF ExchangeInv, FlowInv
<1>. QED  BY <1>2, <1>4, <1>6 DEF ExchangeInv

\* A report gets the next number, above everything the store or Waterlog has
LEMMA QueueKeeps ==
    ASSUME ExchangeInv, todo # <<>>, Head(todo).do # "advance",
           NEW t \in Tank, NEW c \in Anyone, NEW start \in Anyone, NEW phase \in Phases,
           NEW s \in Statuses, QueueReport(t, c, start, phase, s)
    PROVE  ExchangeInv'
<1>. DEFINE new == [life |-> life, seq |-> sequence + 1, tank |-> t, cmd |-> c,
                    start |-> start, shows |-> Shown(phase), status |-> s]
<1>1. /\ sequence' = sequence + 1
      /\ outbox' = outbox \cup {new}
      /\ session' = (IF Open(t) THEN [session EXCEPT ![t].last = sequence + 1] ELSE session)
      /\ UNCHANGED <<status, flag, recovery, config, history, wire, waterlog>>
      /\ todo' = Tail(todo)
  BY DEF QueueReport, Done
<1>2. sequence \in Nat /\ floor \in Nat /\ life \in Nat /\ session \in [Tank -> Owned]
  BY DEF ExchangeInv, TypeInv, ExchangeTypeOK
<1>3. new \in Reports /\ new.seq = sequence + 1 /\ new.life = life /\ Id(new) = <<life, sequence + 1>>
  BY <1>2 DEF Reports, Shown, Shows, Id
<1>. HIDE DEF new
<1>4. floor <= sequence
  BY <1>2 DEF ExchangeInv, NumberInv, Advance
<1>5. session' \in [Tank -> Owned]
  <2>1. session[t] \in Owned
    BY <1>2
  <2>2. [session[t] EXCEPT !.last = sequence + 1] \in Owned
    <3>1. sequence + 1 \in Nat
      BY <1>2
    <3>. QED  BY <2>1, <3>1 DEF Owned, Sessions
  <2>. QED  BY <1>1, <1>2, <2>2
<1>6. TypeInv'
  <2>1. IsFiniteSet(outbox')
    BY <1>1, FS_AddElement DEF ExchangeInv, TypeInv
  <2>. QED  BY <1>1, <1>2, <1>3, <1>5, <2>1
            DEF ExchangeInv, TypeInv, ExchangeTypeOK, Owned, waterlog, history
<1>7. Known' = Known \cup {<<life, sequence + 1>>}
  BY <1>1, <1>3 DEF Known, Id, waterlog
<1>8. \A id \in Known : id[2] \in Nat /\ id[2] <= sequence
  <2>1. \A id \in received : id[2] \in 1 .. floor
    BY DEF ExchangeInv, NumberInv, NoGaps
  <2>2. \A r \in outbox : Id(r)[2] \in 1 .. sequence
    BY DEF ExchangeInv, NumberInv, Id
  <2>. QED  BY <1>2, <1>4, <2>1, <2>2 DEF Known
<1>9. NumberInv'
  <2>1. NumbersUnique'
    <3>1. ASSUME NEW id \in Known', NEW other \in Known', id[2] = other[2] PROVE id = other
      <4>1. CASE id \in Known /\ other \in Known
        BY <3>1, <4>1 DEF ExchangeInv, NumberInv, NumbersUnique
      <4>2. CASE id \notin Known \/ other \notin Known
        BY <1>2, <1>7, <1>8, <3>1, <4>2
      <4>. QED  BY <4>1, <4>2
    <3>. QED  BY <3>1 DEF NumbersUnique
  <2>2. ReportsSurvive'
    <3>1. 1 .. sequence' = (1 .. sequence) \cup {sequence + 1}
      BY <1>1, <1>2
    <3>2. 1 .. sequence \subseteq {id[2] : id \in Known}
      BY DEF ExchangeInv, NumberInv, ReportsSurvive
    <3>3. <<life, sequence + 1>> \in Known' /\ <<life, sequence + 1>>[2] = sequence + 1
      BY <1>7
    <3>. QED  BY <1>7, <3>1, <3>2, <3>3 DEF ReportsSurvive
  <2>3. NoGaps'
    BY <1>1 DEF ExchangeInv, NumberInv, NoGaps, waterlog
  <2>4. \A r \in outbox' : r.life = life' /\ r.seq \in 1 .. sequence'
    BY <1>1, <1>2, <1>3 DEF ExchangeInv, NumberInv, history
  <2>5. ~(sequence' < floor')
    BY <1>1, <1>2, <1>4 DEF waterlog
  <2>. QED  BY <2>1, <2>2, <2>3, <2>4, <2>5 DEF NumberInv
<1>10. Operation' = Operation /\ ReplyOf' = ReplyOf
  BY <1>1, SameWork DEF waterlog
<1>11. FlowInv'
  BY <1>1, <1>10, RestOfWork DEF ExchangeInv, FlowInv
<1>. QED  BY <1>6, <1>9, <1>11 DEF ExchangeInv

LEMMA SessionTyped ==
    ASSUME session \in [Tank -> Owned], NEW t \in Tank, Open(t), NEW c \in Command,
           NEW mode \in Mode \cup {"normal"}, NEW phase \in Phases
    PROVE  /\ [session EXCEPT ![t].cmd = c, ![t].mode = mode, ![t].phase = phase] \in [Tank -> Owned]
           /\ [session EXCEPT ![t].mode = mode, ![t].phase = phase] \in [Tank -> Owned]
           /\ session[t].start \in Anyone /\ session[t].cmd \in Anyone /\ session[t].phase \in Phases
           /\ session[t].mode \in Mode \cup {"normal"}
<1>1. session[t] \in Owned
  OBVIOUS
<1>2. /\ [session[t] EXCEPT !.cmd = c, !.mode = mode, !.phase = phase] \in Owned
      /\ [session[t] EXCEPT !.mode = mode, !.phase = phase] \in Owned
  BY <1>1 DEF Owned, Sessions, Anyone, Open
<1>3. /\ session[t].start \in Anyone /\ session[t].cmd \in Anyone /\ session[t].phase \in Phases
      /\ session[t].mode \in Mode \cup {"normal"}
  BY <1>1 DEF Owned, Sessions
<1>. QED  BY <1>2, <1>3

LEMMA TransactionsKeep ==
    ASSUME ExchangeInv, Transaction
    PROVE  ExchangeInv'
<1>0. /\ todo \in Seq(Operation)
      /\ session \in [Tank -> Owned] /\ status \in [Command -> Statuses]
      /\ flag \in BOOLEAN /\ recovery \subseteq Tank /\ config \in Nat
      /\ entered \subseteq Anyone /\ orphaned \subseteq Tank
      /\ TankOf \in [Command -> Tank] /\ NoCommand \notin Command
  BY ExchangeAssumption DEF ExchangeInv, TypeInv, ExchangeTypeOK, FlowInv
<1>1. ASSUME todo # <<>> PROVE This \in Operation
  BY <1>0, <1>1, RestOfWork DEF This
<1>2. CASE RecordCommand
  <2>1. todo # <<>> /\ This.do = "record" /\ This.cmd \in Command /\ This.status \in Statuses
    BY <1>1, <1>2, Carries DEF RecordCommand, At, This
  <2>2. status' \in [Command -> Statuses] /\ orphaned' \subseteq Tank
    BY <1>0, <1>2, <2>1 DEF RecordCommand
  <2>. QED  BY <1>0, <1>2, <2>1, <2>2, TransactionKeeps DEF RecordCommand, This
<1>3. CASE SetCommandStatus
  <2>1. todo # <<>> /\ This.do = "status" /\ This.cmd \in Command /\ This.status \in Statuses
    BY <1>1, <1>3, Carries DEF SetCommandStatus, At, This
  <2>2. status' \in [Command -> Statuses]
    BY <1>0, <1>3, <2>1 DEF SetCommandStatus
  <2>. QED  BY <1>0, <1>3, <2>1, <2>2, TransactionKeeps DEF SetCommandStatus, This, history
<1>4. CASE BeginSession
  <2>1. todo # <<>> /\ This.do = "begin" /\ This.cmd \in Command /\ Kind[This.cmd] \in Mode
    BY <1>1, <1>4, Carries DEF BeginSession, At, This, Temporary
  <2>. DEFINE t == TankOf[This.cmd]
              new == [start |-> IF Open(t) THEN session[t].start ELSE This.cmd, cmd |-> This.cmd,
                      mode |-> Kind[This.cmd], last |-> 0,
                      phase |-> IF Open(t) THEN "switching" ELSE "starting"]
  <2>2. t \in Tank /\ session[t] \in Owned
    BY <1>0, <2>1
  <2>3. new \in Owned
    BY <2>1, <2>2 DEF Owned, Sessions, Anyone, Phases
  <2>4. session' = [session EXCEPT ![t] = new] /\ status' = [status EXCEPT ![This.cmd] = "accepted"]
    BY <1>4 DEF BeginSession
  <2>. HIDE DEF new
  <2>5. session' \in [Tank -> Owned] /\ status' \in [Command -> Statuses]
    BY <1>0, <2>1, <2>2, <2>3, <2>4 DEF Statuses
  <2>. QED  BY <1>0, <1>4, <2>1, <2>5, TransactionKeeps DEF BeginSession, This, history
<1>5. CASE TransitionSession
  <2>1. /\ todo # <<>> /\ This.do = "transition" /\ This.cmd \in Command
        /\ This.mode \in Mode \cup {"normal"} /\ This.phase \in Phases
    BY <1>1, <1>5, Carries DEF TransitionSession, At, This
  <2>2. TankOf[This.cmd] \in Tank /\ This.cmd \in Anyone
    BY <1>0, <2>1 DEF Anyone
  <2>3. session' \in [Tank -> Owned]
    BY <1>0, <1>5, <2>1, <2>2, SessionTyped DEF TransitionSession
  <2>4. entered' \subseteq Anyone
    BY <1>0, <1>5, <2>2 DEF TransitionSession
  <2>. QED  BY <1>0, <1>5, <2>1, <2>3, <2>4, TransactionKeeps DEF TransitionSession, This
<1>6. CASE SetPhase
  <2>1. /\ todo # <<>> /\ This.do = "set" /\ This.tank \in Tank
        /\ This.mode \in Mode \cup {"normal"} /\ This.phase \in Phases
    BY <1>1, <1>6, Carries DEF SetPhase, At, This
  <2>2. session[This.tank].cmd \in Anyone
    BY <1>0, <2>1 DEF Owned, Sessions
  <2>3. session' \in [Tank -> Owned]
    <3>1. CASE Open(This.tank)
      <4>1. session[This.tank].cmd \in Command
        BY <1>0, <2>1, <3>1 DEF Open, Owned
      <4>. QED  BY <1>0, <1>6, <2>1, <3>1, <4>1, SessionTyped DEF SetPhase
    <3>2. CASE ~Open(This.tank)
      BY <1>0, <1>6, <3>2 DEF SetPhase
    <3>. QED  BY <3>1, <3>2
  <2>4. entered' \subseteq Anyone
    BY <1>0, <1>6, <2>2 DEF SetPhase
  <2>. QED  BY <1>0, <1>6, <2>1, <2>3, <2>4, TransactionKeeps DEF SetPhase, This
<1>7. CASE RemoveSession
  <2>1. todo # <<>> /\ This.do = "remove"
    BY <1>7 DEF RemoveSession, At, This
  <2>2. NoSession \in Owned
    BY DEF NoSession, Owned, Sessions, Anyone, Phases
  <2>3. session' \in [Tank -> Owned]
    BY <1>0, <1>7, <2>2 DEF RemoveSession
  <2>. QED  BY <1>0, <1>7, <2>1, <2>3, TransactionKeeps DEF RemoveSession, This, history
<1>8. CASE ResolveTank
  <2>1. todo # <<>> /\ This.do = "resolve"
    BY <1>8 DEF ResolveTank, At, This
  <2>2. recovery' \subseteq Tank
    BY <1>0, <1>8 DEF ResolveTank
  <2>3. flag' \in BOOLEAN
    BY <1>8 DEF ResolveTank
  <2>. QED  BY <1>0, <1>8, <2>1, <2>2, <2>3, TransactionKeeps DEF ResolveTank, This, history
<1>9. CASE QueueAnswer
  <2>1. /\ todo # <<>> /\ This.do = "queue" /\ This.cmd \in Command /\ This.start \in Anyone
        /\ This.phase \in Phases /\ This.status \in Statuses
    BY <1>1, <1>9, Carries DEF QueueAnswer, At, This
  <2>2. TankOf[This.cmd] \in Tank /\ This.cmd \in Anyone
    BY <1>0, <2>1 DEF Anyone
  <2>. QED  BY <1>9, <2>1, <2>2, QueueKeeps DEF QueueAnswer, This
<1>10. CASE ReportSession
  <2>1. todo # <<>> /\ This.do = "report" /\ This.tank \in Tank /\ This.status \in Statuses
    BY <1>1, <1>10, Carries DEF ReportSession, At, This
  <2>2. session[This.tank] \in Owned
    BY <1>0, <2>1
  <2>3. /\ session[This.tank].cmd \in Anyone /\ session[This.tank].start \in Anyone
        /\ session[This.tank].phase \in Phases
    BY <2>2 DEF Owned, Sessions
  <2>4. <<>> \in Seq(Operation)
    OBVIOUS
  <2>. QED  BY <1>10, <2>1, <2>3, <2>4, QueueKeeps, BecomesKeeps DEF ReportSession, This
<1>11. CASE AdvanceSequence
  <2>1. todo # <<>> /\ This.do = "advance" /\ This.to \in 0 .. floor
    BY <1>1, <1>11, Carries DEF AdvanceSequence, At, This
  <2>2. /\ sequence' = (IF This.to > sequence THEN This.to ELSE sequence) /\ todo' = Tail(todo)
        /\ UNCHANGED <<session, status, outbox, flag, recovery, config, history, wire, waterlog>>
    BY <1>11 DEF AdvanceSequence, Done
  <2>3. sequence \in Nat /\ floor \in Nat
    BY DEF ExchangeInv, TypeInv, ExchangeTypeOK
  <2>4. CASE sequence < floor
    <3>1. This.to = floor
      BY <2>1, <2>4 DEF ExchangeInv, NumberInv, Advance, This
    <3>2. sequence' = floor /\ outbox = {}
      BY <2>2, <2>3, <2>4, <3>1 DEF ExchangeInv, NumberInv
    <3>3. Known' = received /\ Known = received
      BY <2>2, <3>2 DEF Known, waterlog
    <3>4. NumberInv'
      BY <2>2, <2>3, <3>2, <3>3
         DEF ExchangeInv, NumberInv, NoGaps, ReportsSurvive, NumbersUnique, waterlog
    <3>5. TypeInv'
      BY <2>2, <2>3, <3>2 DEF ExchangeInv, TypeInv, ExchangeTypeOK, waterlog, history
    <3>6. FlowInv'
      BY <1>0, <2>1, <2>2, SameWork, RestOfWork DEF ExchangeInv, FlowInv, waterlog
    <3>. QED  BY <3>4, <3>5, <3>6 DEF ExchangeInv
  <2>5. CASE ~(sequence < floor)
    <3>1. sequence' = sequence
      BY <2>1, <2>2, <2>3, <2>5
    <3>2. NumberInv'
      BY <2>2, <2>5, <3>1 DEF ExchangeInv, NumberInv, NoGaps, ReportsSurvive, NumbersUnique,
                              Known, Id, waterlog, history
    <3>3. TypeInv'
      BY <2>2, <3>1 DEF ExchangeInv, TypeInv, ExchangeTypeOK, waterlog, history
    <3>4. FlowInv'
      BY <1>0, <2>1, <2>2, SameWork, RestOfWork DEF ExchangeInv, FlowInv, waterlog
    <3>. QED  BY <3>2, <3>3, <3>4 DEF ExchangeInv
  <2>. QED  BY <2>4, <2>5
<1>12. CASE AcknowledgeReports
  <2>1. todo # <<>> /\ This.do = "acknowledge" /\ This.acks \subseteq received
    BY <1>1, <1>12, Carries DEF AcknowledgeReports, At, This
  <2>2. /\ outbox' = {r \in outbox : Id(r) \notin This.acks} /\ todo' = Tail(todo)
        /\ UNCHANGED <<session, status, sequence, flag, recovery, config, history, wire, waterlog>>
    BY <1>12 DEF AcknowledgeReports, Done
  <2>3. Known' = Known
    BY <2>1, <2>2 DEF Known, Id, waterlog
  <2>4. ~(sequence < floor)
    BY <2>1 DEF ExchangeInv, NumberInv, Advance, This
  <2>5. NumberInv'
    BY <2>2, <2>3, <2>4
       DEF ExchangeInv, NumberInv, NoGaps, ReportsSurvive, NumbersUnique, waterlog, history
  <2>6. TypeInv'
    <3>1. outbox' \subseteq outbox
      BY <2>2
    <3>2. IsFiniteSet(outbox')
      BY <3>1, FS_Subset DEF ExchangeInv, TypeInv
    <3>. QED  BY <2>2, <3>1, <3>2 DEF ExchangeInv, TypeInv, ExchangeTypeOK, waterlog, history
  <2>7. FlowInv'
    BY <1>0, <2>1, <2>2, SameWork, RestOfWork DEF ExchangeInv, FlowInv, waterlog
  <2>. QED  BY <2>5, <2>6, <2>7 DEF ExchangeInv
<1>13. CASE ReplaceRecoveryTanks
  <2>1. todo # <<>> /\ This.do = "replace" /\ This.tanks \subseteq Tank
    BY <1>1, <1>13, Carries DEF ReplaceRecoveryTanks, At, This
  <2>2. recovery' \subseteq Tank
    BY <1>13, <2>1 DEF ReplaceRecoveryTanks
  <2>3. flag' \in BOOLEAN
    BY <1>13 DEF ReplaceRecoveryTanks
  <2>. QED  BY <1>0, <1>13, <2>1, <2>2, <2>3, TransactionKeeps DEF ReplaceRecoveryTanks, This, history
<1>14. CASE InstallConfig
  <2>1. todo # <<>> /\ This.do = "install" /\ This.revision \in Nat
    BY <1>1, <1>14, Carries DEF InstallConfig, At, This
  <2>2. config' \in Nat
    BY <1>0, <1>14, <2>1 DEF InstallConfig
  <2>. QED  BY <1>0, <1>14, <2>1, <2>2, TransactionKeeps DEF InstallConfig, This, history
<1>. QED
  BY <1>2, <1>3, <1>4, <1>5, <1>6, <1>7, <1>8, <1>9, <1>10, <1>11, <1>12, <1>13, <1>14
     DEF Transaction

\* A few operations make a sequence of them
LEMMA ShortWork ==
    /\ <<>> \in Seq(Operation)
    /\ \A a \in Operation : <<a>> \in Seq(Operation)
    /\ \A a, b \in Operation : <<a, b>> \in Seq(Operation)
    /\ \A a, b, c \in Operation : <<a, b, c>> \in Seq(Operation)
    /\ \A a, b, c, d \in Operation : <<a, b, c, d>> \in Seq(Operation)
OBVIOUS

\* What a call becomes, for every call the thread can be in
LEMMA AcceptKeeps ==
    ASSUME ExchangeInv, AcceptCommand
    PROVE  ExchangeInv'
<1>0. /\ todo \in Seq(Operation) /\ floor \in Nat
      /\ session \in [Tank -> Owned] /\ token \in [Command -> Tokens]
      /\ TankOf \in [Command -> Tank]
  BY ExchangeAssumption DEF ExchangeInv, TypeInv, ExchangeTypeOK, FlowInv
<1>1. todo # <<>> /\ Head(todo).do = "accept"
  BY DEF AcceptCommand, Unreadable, AcceptKnown, AcceptRefused, AcceptUnfit, AcceptUnsafe,
         AcceptSameMode, AcceptTemporary, AcceptNormal, FinishIgnored, FinishAccepted,
         FinishRefused, New, At
<1>2. ASSUME NEW ops \in Seq(Operation), Becomes(ops) PROVE ExchangeInv'
  BY <1>1, <1>2, BecomesKeeps
<1>3. CASE Unreadable
  <2>1. UNCHANGED <<store, wire, waterlog, history>> /\ todo' = <<>>
    BY <1>3 DEF Unreadable
  <2>2. ~(sequence < floor)
    BY <1>1 DEF ExchangeInv, NumberInv, Advance
  <2>3. TypeInv'
    BY <2>1 DEF ExchangeInv, TypeInv, ExchangeTypeOK, store, waterlog, history
  <2>4. NumberInv'
    BY <2>1, <2>2 DEF ExchangeInv, NumberInv, NoGaps, ReportsSurvive, NumbersUnique, Known, Id,
                      store, waterlog, history
  <2>5. FlowInv'
    BY <2>1, SameWork DEF ExchangeInv, FlowInv, waterlog
  <2>. QED  BY <2>3, <2>4, <2>5 DEF ExchangeInv
<1>4. CASE AcceptKnown
  BY <1>2, ShortWork, <1>4 DEF AcceptKnown
<1>5. ASSUME NEW c \in Command PROVE /\ Reject(c) \in Operation /\ TankOf[c] \in Tank
                                    /\ c \in Anyone /\ token[c].start \in Anyone
  BY <1>0, Operations DEF Anyone, Tokens
<1>6. \A c \in Command : AcceptRefused(c) \/ AcceptUnfit(c) => ExchangeInv'
  BY <1>2, ShortWork, <1>5 DEF AcceptRefused, AcceptUnfit
<1>7. ASSUME NEW c \in Command, AcceptUnsafe(c) PROVE ExchangeInv'
  <2>1. Unwind(OpenTanks) \in Operation
    BY <1>0, Operations DEF OpenTanks
  <2>. QED  BY <1>2, ShortWork, <1>5, <1>7, <2>1 DEF AcceptUnsafe
<1>8. ASSUME NEW c \in Command, AcceptSameMode(c) PROVE ExchangeInv'
  <2>1. session[TankOf[c]].mode \in Mode \cup {"normal"} /\ session[TankOf[c]].phase \in Phases
    BY <1>0, <1>5 DEF Owned, Sessions
  <2>2. /\ Record(c, "completed") \in Operation
        /\ Transition(c, session[TankOf[c]].mode, session[TankOf[c]].phase) \in Operation
        /\ Report(TankOf[c], "completed") \in Operation
    BY <1>0, <1>5, <2>1, Operations DEF Statuses
  <2>. QED  BY <1>2, ShortWork, <1>8, <2>2 DEF AcceptSameMode
<1>9. ASSUME NEW c \in Command, AcceptTemporary(c) PROVE ExchangeInv'
  <2>1. Begin(c) \in Operation /\ Enter(c) \in Operation
    BY <1>0, <1>9, Operations DEF AcceptTemporary
  <2>. QED  BY <1>2, ShortWork, <1>9, <2>1 DEF AcceptTemporary
<1>10. ASSUME NEW c \in Command, AcceptNormal(c) PROVE ExchangeInv'
  <2>1. /\ Record(c, "completed") \in Operation /\ Record(c, "accepted") \in Operation
        /\ Queue(c, c, "normal", "completed") \in Operation
        /\ Transition(c, "normal", "restoring") \in Operation
        /\ Restore(TankOf[c], TRUE) \in Operation
    BY <1>0, <1>5, Operations DEF Statuses, Phases
  <2>2. CASE ~Open(TankOf[c])
    BY <1>2, ShortWork, <1>10, <2>1, <2>2 DEF AcceptNormal
  <2>3. CASE Open(TankOf[c])
    BY <1>2, ShortWork, <1>10, <2>1, <2>3 DEF AcceptNormal
  <2>. QED  BY <2>2, <2>3
<1>11. \A c \in Command : FinishIgnored(c) => ExchangeInv'
  BY <1>2, ShortWork DEF FinishIgnored
<1>12. ASSUME NEW c \in Command, FinishAccepted(c) PROVE ExchangeInv'
  <2>1. /\ Record(c, "completed") \in Operation
        /\ Transition(c, "normal", "normal") \in Operation
        /\ Report(TankOf[c], "completed") \in Operation
        /\ Resolve(TankOf[c]) \in Operation /\ Remove(TankOf[c]) \in Operation
        /\ Queue(c, token[c].start, "normal", "completed") \in Operation
    BY <1>0, <1>5, Operations DEF Statuses, Phases
  <2>. DEFINE rest == IF Open(TankOf[c])
                      THEN <<Transition(c, "normal", "normal"), Report(TankOf[c], "completed"),
                             Resolve(TankOf[c]), Remove(TankOf[c])>>
                      ELSE <<Queue(c, token[c].start, "normal", "completed"), Resolve(TankOf[c])>>
  <2>2. rest \in Seq(Operation)
    BY <2>1, ShortWork
  <2>3. Becomes(<<Record(c, "completed")>> \o rest)
    BY <1>12 DEF FinishAccepted
  <2>. HIDE DEF rest
  <2>4. <<Record(c, "completed")>> \o rest \in Seq(Operation)
    BY <2>1, <2>2, ShortWork, MoreWork
  <2>. QED  BY <1>2, <2>3, <2>4
<1>13. ASSUME NEW c \in Command, FinishRefused(c) PROVE ExchangeInv'
  <2>1. /\ Record(c, "failed") \in Operation
        /\ Transition(c, "normal", "recovery_required") \in Operation
        /\ Report(TankOf[c], "failed") \in Operation
        /\ Queue(c, token[c].start, "recovery_required", "failed") \in Operation
    BY <1>0, <1>5, Operations DEF Statuses, Phases
  <2>. DEFINE rest == IF Open(TankOf[c])
                      THEN <<Transition(c, "normal", "recovery_required"), Report(TankOf[c], "failed")>>
                      ELSE <<Queue(c, token[c].start, "recovery_required", "failed")>>
  <2>2. rest \in Seq(Operation)
    BY <2>1, ShortWork
  <2>3. Becomes(<<Record(c, "failed")>> \o rest)
    BY <1>13 DEF FinishRefused
  <2>. HIDE DEF rest
  <2>4. <<Record(c, "failed")>> \o rest \in Seq(Operation)
    BY <2>1, <2>2, ShortWork, MoreWork
  <2>. QED  BY <1>2, <2>3, <2>4
<1>. QED
  BY <1>3, <1>4, <1>6, <1>7, <1>8, <1>9, <1>10, <1>11, <1>12, <1>13 DEF AcceptCommand

LEMMA CallsKeep ==
    ASSUME ExchangeInv, Call
    PROVE  ExchangeInv'
<1>0. /\ todo \in Seq(Operation) /\ floor \in Nat
      /\ session \in [Tank -> Owned] /\ status \in [Command -> Statuses]
      /\ TankOf \in [Command -> Tank] /\ Kind \in [Command -> Mode \cup {"normal", "finish"}]
  BY ExchangeAssumption DEF ExchangeInv, TypeInv, ExchangeTypeOK, FlowInv
<1>1. ASSUME todo # <<>> PROVE This \in Operation
  BY <1>0, <1>1, RestOfWork DEF This
<1>2. ASSUME NEW ops \in Seq(Operation), Becomes(ops), todo # <<>>, This.do # "advance"
      PROVE  ExchangeInv'
  BY <1>2, BecomesKeeps DEF This
<1>3. ASSUME NEW t \in Tank PROVE /\ session[t].start \in Anyone /\ session[t].mode \in Mode \cup {"normal"}
                                 /\ session[t].phase \in Phases
  BY <1>0 DEF Owned, Sessions
<1>4. CASE AcceptCommand
  BY <1>4, AcceptKeeps
<1>5. ASSUME NEW t \in Tank, EntryVisits(t) PROVE ExchangeInv'
  <2>1. /\ todo # <<>> /\ Head(todo).do = "enter" /\ todo' = <<Restore(t, FALSE)>> \o todo
        /\ UNCHANGED <<store, wire, waterlog, history>>
    BY <1>5 DEF EntryVisits, At
  <2>2. ~(sequence < floor)
    BY <2>1 DEF ExchangeInv, NumberInv, Advance
  <2>3. TypeInv'
    BY <2>1 DEF ExchangeInv, TypeInv, ExchangeTypeOK, store, waterlog, history
  <2>4. NumberInv'
    BY <2>1, <2>2 DEF ExchangeInv, NumberInv, NoGaps, ReportsSurvive, NumbersUnique, Known, Id,
                      store, waterlog, history
  <2>5. <<Restore(t, FALSE)>> \in Seq(Operation)
    BY <1>0, Operations, ShortWork
  <2>6. <<Restore(t, FALSE)>> \o todo \in Seq(Operation)
    BY <1>0, <2>5, MoreWork
  <2>7. FlowInv'
    BY <2>1, <2>6, SameWork DEF ExchangeInv, FlowInv, waterlog
  <2>. QED  BY <2>3, <2>4, <2>7 DEF ExchangeInv
<1>6. CASE EntrySucceeds
  <2>1. todo # <<>> /\ This.do = "enter" /\ This.cmd \in Command /\ Kind[This.cmd] \in Mode
    BY <1>1, <1>6, Carries DEF EntrySucceeds, At, This, Temporary
  <2>2. /\ SetStatus(This.cmd, "completed") \in Operation
        /\ SetSession(TankOf[This.cmd], Kind[This.cmd], "active") \in Operation
        /\ Report(TankOf[This.cmd], "completed") \in Operation
    BY <1>0, <2>1, Operations DEF Statuses, Phases
  <2>. QED  BY <1>2, ShortWork, <1>6, <2>1, <2>2 DEF EntrySucceeds
<1>7. CASE EntryFails
  <2>1. todo # <<>> /\ This.do = "enter" /\ This.cmd \in Command
    BY <1>1, <1>7, Carries DEF EntryFails, At, This
  <2>2. /\ SetStatus(This.cmd, "failed") \in Operation
        /\ SetSession(TankOf[This.cmd], "normal", "restoring") \in Operation
        /\ Report(TankOf[This.cmd], "failed") \in Operation
        /\ Restore(TankOf[This.cmd], TRUE) \in Operation
    BY <1>0, <2>1, Operations DEF Statuses, Phases
  <2>. QED  BY <1>2, ShortWork, <1>7, <2>1, <2>2 DEF EntryFails
<1>8. CASE RejectOrUnwind
  <2>1. todo # <<>> /\ This.do = "reject" /\ This.cmd \in Command
    BY <1>1, <1>8, Carries DEF RejectOrUnwind, At, This
  <2>. DEFINE c == This.cmd
              t == TankOf[c]
              rest == IF ~Open(t) THEN <<Queue(c, c, "normal", "failed")>>
                      ELSE IF session[t].phase = "recovery_required"
                      THEN <<Queue(c, session[t].start, "recovery_required", "failed")>>
                      ELSE <<Transition(c, "normal", "restoring"), Report(t, "failed"),
                             Restore(t, TRUE)>>
  <2>2. t \in Tank /\ c \in Anyone
    BY <1>0, <2>1 DEF Anyone
  <2>3. /\ Record(c, "failed") \in Operation /\ Queue(c, c, "normal", "failed") \in Operation
        /\ Queue(c, session[t].start, "recovery_required", "failed") \in Operation
        /\ Transition(c, "normal", "restoring") \in Operation
        /\ Report(t, "failed") \in Operation /\ Restore(t, TRUE) \in Operation
    BY <1>0, <1>3, <2>1, <2>2, Operations DEF Statuses, Phases
  <2>4. rest \in Seq(Operation)
    BY <2>3, ShortWork
  <2>5. Becomes(<<Record(c, "failed")>> \o rest)
    BY <1>8 DEF RejectOrUnwind
  <2>. HIDE DEF rest
  <2>6. <<Record(c, "failed")>> \o rest \in Seq(Operation)
    BY <2>3, <2>4, ShortWork, MoreWork
  <2>. QED  BY <1>2, ShortWork, <2>1, <2>5, <2>6
<1>9. CASE RestoreComplete
  <2>1. todo # <<>> /\ This.do = "restore" /\ This.tank \in Tank
    BY <1>1, <1>9, Carries DEF RestoreComplete, At, This
  <2>. DEFINE t == This.tank
              c == session[t].cmd
              answer == IF status[c] = "accepted" THEN <<SetStatus(c, "completed")>> ELSE <<>>
              rest == <<SetSession(t, "normal", "normal"),
                        Report(t, IF status[c] = "failed" THEN "failed" ELSE "completed"), Remove(t)>>
  <2>2. Becomes(answer \o rest)
    BY <1>9 DEF RestoreComplete
  <2>3. answer \in Seq(Operation)
    <3>1. c \in Command
      BY <1>0, <1>9, <2>1 DEF RestoreComplete, Open, Owned
    <3>2. SetStatus(c, "completed") \in Operation
      BY <1>0, <3>1, Operations DEF Statuses
    <3>. QED  BY <3>2, ShortWork
  <2>4. rest \in Seq(Operation)
    <3>1. /\ SetSession(t, "normal", "normal") \in Operation
          /\ Report(t, IF status[c] = "failed" THEN "failed" ELSE "completed") \in Operation
          /\ Remove(t) \in Operation
      BY <1>0, <2>1, Operations DEF Statuses, Phases
    <3>. QED  BY <3>1, ShortWork
  <2>. HIDE DEF answer, rest
  <2>. QED  BY <1>2, ShortWork, <2>1, <2>2, <2>3, <2>4, MoreWork
<1>10. CASE RestoreLater
  BY <1>2, ShortWork, <1>10 DEF RestoreLater, At, This
<1>11. ASSUME NEW phase \in {"restoring", "recovery_required"}, RestorePending(phase) PROVE ExchangeInv'
  <2>1. todo # <<>> /\ This.do = "restore" /\ This.tank \in Tank
    BY <1>1, <1>11, Carries DEF RestorePending, At, This
  <2>2. /\ SetSession(This.tank, session[This.tank].mode, phase) \in Operation
        /\ Progress(This.tank) \in Operation
    BY <1>0, <1>3, <2>1, Operations DEF Statuses, Phases, Progress
  <2>3. \/ Becomes(<<SetSession(This.tank, session[This.tank].mode, phase), Progress(This.tank)>>)
        \/ Becomes(<<SetSession(This.tank, session[This.tank].mode, phase)>>)
    BY <1>11 DEF RestorePending
  <2>. QED  BY <1>2, ShortWork, <2>1, <2>2, <2>3
<1>12. CASE LoopDone
  BY <1>2, ShortWork, <1>12 DEF LoopDone, At, This
<1>13. ASSUME NEW t \in Tank, UnwindTank(t) PROVE ExchangeInv'
  <2>1. todo # <<>> /\ This.do = "unwind" /\ This.tanks \subseteq Tank
    BY <1>1, <1>13, Carries DEF UnwindTank, At, This
  <2>2. /\ SetSession(t, "normal", "restoring") \in Operation /\ Restore(t, TRUE) \in Operation
        /\ Unwind(This.tanks \ {t}) \in Operation
    BY <1>0, <2>1, Operations DEF Phases
  <2>. QED  BY <1>2, ShortWork, <1>13, <2>1, <2>2 DEF UnwindTank
<1>14. ASSUME NEW t \in Tank, NEW ops \in Seq(Operation), Visiting(t, ops) PROVE ExchangeInv'
  <2>1. todo # <<>> /\ This.do = "visit" /\ This.tanks \subseteq Tank
    BY <1>1, <1>14, Carries DEF Visiting, At, This
  <2>2. Visit(This.tanks \ {t}) \in Operation
    BY <1>0, <2>1, Operations
  <2>3. ops \o <<Visit(This.tanks \ {t})>> \in Seq(Operation)
    BY <2>2, ShortWork, MoreWork
  <2>. QED  BY <1>2, ShortWork, <1>14, <2>1, <2>3 DEF Visiting
<1>15. ASSUME NEW t \in Tank
       PROVE  /\ SetSession(t, "normal", "restoring") \in Operation
              /\ SetSession(t, session[t].mode, "recovery_required") \in Operation
              /\ Report(t, "failed") \in Operation
              /\ \A b \in BOOLEAN : Restore(t, b) \in Operation
  BY <1>0, <1>3, Operations DEF Statuses, Phases
<1>16. ASSUME NEW t \in Tank, VisitGone(t) PROVE ExchangeInv'
  BY <1>14, ShortWork, <1>16 DEF VisitGone
<1>17. ASSUME NEW t \in Tank, VisitUnfinished(t) PROVE ExchangeInv'
  BY <1>14, ShortWork, <1>15, <1>17 DEF VisitUnfinished
<1>18. ASSUME NEW t \in Tank, VisitActive(t) PROVE ExchangeInv'
  BY <1>14, ShortWork, <1>15, <1>18 DEF VisitActive
<1>19. ASSUME NEW t \in Tank, VisitReplaced(t) PROVE ExchangeInv'
  BY <1>14, ShortWork, <1>15, <1>19 DEF VisitReplaced
<1>20. ASSUME NEW t \in Tank, VisitSwitched(t) PROVE ExchangeInv'
  BY <1>14, ShortWork, <1>15, <1>20 DEF VisitSwitched
<1>21. ASSUME NEW t \in Tank, VisitPending(t) PROVE ExchangeInv'
  BY <1>14, ShortWork, <1>15, <1>21 DEF VisitPending
<1>22. ASSUME NEW t \in Tank, VisitSwitchedAgain(t) PROVE ExchangeInv'
  <2>1. todo # <<>> /\ This.do = "restore" /\ This \in Operation
    BY <1>1, <1>22 DEF VisitSwitchedAgain, At, This
  <2>. QED  BY <1>2, ShortWork, <1>15, <1>22, <2>1 DEF VisitSwitchedAgain
<1>. QED
  BY <1>4, <1>5, <1>6, <1>7, <1>8, <1>9, <1>10, <1>11, <1>12, <1>13, <1>16, <1>17, <1>18,
     <1>19, <1>20, <1>21, <1>22 DEF Call

-------------------------------------------------------------------------------
(* The steps between handlers. *)

\* A handler begins, or what is under way changes
LEMMA BeginsKeeps ==
    ASSUME ExchangeInv, UNCHANGED <<store, waterlog, history>>,
           todo' \in Seq(Operation), wire' \in {Idle} \cup ReplyOf,
           sequence < floor => todo' = <<>> \/ Head(todo') = Advance(floor)
    PROVE  ExchangeInv'
<1>1. TypeInv'
  BY DEF ExchangeInv, TypeInv, ExchangeTypeOK, store, waterlog, history
<1>2. NumberInv'
  <2>1. /\ NoGaps' /\ ReportsSurvive' /\ NumbersUnique'
        /\ \A r \in outbox' : r.life = life' /\ r.seq \in 1 .. sequence'
    BY DEF ExchangeInv, NumberInv, NoGaps, ReportsSurvive, NumbersUnique, Known, Id,
           store, waterlog, history
  <2>2. Advance(floor)' = Advance(floor)
    BY DEF Advance, waterlog
  <2>3. (sequence < floor)' => /\ outbox' = {} /\ \A t \in Tank : ~Open(t)'
                               /\ todo' # <<>> => Head(todo') = Advance(floor)'
    BY <2>2 DEF ExchangeInv, NumberInv, Open, store, waterlog
  <2>. QED  BY <2>1, <2>3 DEF NumberInv
<1>3. FlowInv'
  BY SameWork DEF FlowInv, waterlog
<1>. QED  BY <1>1, <1>2, <1>3 DEF ExchangeInv

LEMMA TicksKeep ==
    ASSUME ExchangeInv, Tick \/ TickUnsafe \/ Crash
    PROVE  ExchangeInv'
<1>0. floor \in Nat /\ wire \in {Idle} \cup ReplyOf
  BY DEF ExchangeInv, TypeInv, ExchangeTypeOK, FlowInv
<1>1. Unwind(OpenTanks) \in Operation /\ Visit(OpenTanks) \in Operation
  BY <1>0, Operations DEF OpenTanks
<1>2. /\ <<>> \in Seq(Operation) /\ <<Visit(OpenTanks)>> \in Seq(Operation)
      /\ <<Unwind(OpenTanks), Visit(OpenTanks)>> \in Seq(Operation)
  BY <1>1, ShortWork
<1>3. OpenTanks # {} => ~(sequence < floor)
  BY DEF ExchangeInv, NumberInv, OpenTanks
<1>4. CASE Tick
  BY <1>0, <1>2, <1>3, <1>4, BeginsKeeps DEF Tick
<1>5. CASE TickUnsafe
  BY <1>0, <1>2, <1>3, <1>5, BeginsKeeps DEF TickUnsafe
<1>6. CASE Crash
  BY <1>2, <1>6, BeginsKeeps DEF Crash
<1>. QED  BY <1>4, <1>5, <1>6

LEMMA ApplyKeeps ==
    ASSUME ExchangeInv, Apply
    PROVE  ExchangeInv'
<1>. DEFINE first == <<Advance(wire.floor), Acknowledge(wire.acks),
                       ReplaceRecovery(wire.recovery), Install(wire.config)>>
            rest == [i \in 1 .. Len(wire.commands) |-> Accept(wire.commands[i])]
<1>1. /\ wire.kind = "reply" /\ wire' = Idle /\ todo' = first \o rest
      /\ UNCHANGED <<store, waterlog, history>>
  BY DEF Apply
<1>2. wire \in ReplyOf
  BY <1>1 DEF ExchangeInv, FlowInv, Idle
<1>3. /\ wire.acks \in SUBSET received /\ wire.floor = floor /\ wire.recovery \in SUBSET Tank
      /\ wire.config \in Nat /\ wire.commands \in Seq(Command)
  BY <1>2 DEF ReplyOf
<1>4. floor \in Nat /\ floor \in 0 .. floor
  BY DEF ExchangeInv, TypeInv, ExchangeTypeOK
<1>5. /\ Advance(wire.floor) \in Operation /\ Acknowledge(wire.acks) \in Operation
      /\ ReplaceRecovery(wire.recovery) \in Operation /\ Install(wire.config) \in Operation
  BY <1>3, <1>4, Operations
<1>6. first \in Seq(Operation)
  BY <1>5, ShortWork
<1>7. rest \in Seq(Operation)
  <2>1. \A i \in 1 .. Len(wire.commands) : Accept(wire.commands[i]) \in Operation
    BY <1>3, <1>4, Operations
  <2>2. Len(wire.commands) \in Nat
    BY <1>3
  <2>. QED  BY <2>1, <2>2
<1>8. Len(first) = 4 /\ first[1] = Advance(floor)
  BY <1>3
<1>. HIDE DEF first, rest
<1>9. todo' \in Seq(Operation) /\ Head(todo') = Advance(floor)
  <2>1. /\ todo' \in Seq(Operation) /\ Len(todo') = Len(first) + Len(rest)
        /\ \A i \in 1 .. Len(first) + Len(rest) :
              todo'[i] = IF i <= Len(first) THEN first[i] ELSE rest[i - Len(first)]
    BY <1>1, <1>6, <1>7, ConcatProperties
  <2>2. Len(rest) \in Nat
    BY <1>7
  <2>3. todo'[1] = first[1]
    BY <1>8, <2>1, <2>2
  <2>4. Head(todo') = todo'[1]
    BY <2>1
  <2>. QED  BY <1>8, <2>1, <2>3, <2>4
<1>. QED  BY <1>1, <1>9, BeginsKeeps

LEMMA AttendKeeps ==
    ASSUME ExchangeInv, NEW c \in Command, Attend(c)
    PROVE  ExchangeInv'
<1>. DEFINE r == newest[TankOf[c]]
            t == [start |-> r.start, seq |-> r.seq]
<1>1. /\ token' = [token EXCEPT ![c] = t]
      /\ UNCHANGED <<store, todo, wire, received, floor, newest, answered, atRisk, history>>
  BY DEF Attend
<1>2. t \in Tokens
  BY ExchangeAssumption DEF ExchangeInv, TypeInv, Tokens
<1>. HIDE DEF t
<1>3. TypeInv'
  <2>1. token' \in [Command -> Tokens]
    BY <1>1, <1>2 DEF ExchangeInv, TypeInv, ExchangeTypeOK
  <2>. QED  BY <1>1, <2>1 DEF ExchangeInv, TypeInv, ExchangeTypeOK, store, history
<1>4. NumberInv'
  BY <1>1 DEF ExchangeInv, NumberInv, NoGaps, ReportsSurvive, NumbersUnique, Known, Id, Open,
              Advance, store, history
<1>5. FlowInv'
  BY <1>1, SameWork DEF ExchangeInv, FlowInv
<1>. QED  BY <1>3, <1>4, <1>5 DEF ExchangeInv

\* The floor of the reply is the highest number Waterlog has by then
LEMMA FloorRises ==
    ASSUME ExchangeInv, Receive
    PROVE  /\ floor' \in {floor} \cup {r.seq : r \in Batch}
           /\ floor' \in Nat /\ floor' >= floor
           /\ \A r \in Batch : r.seq \in 1 .. sequence /\ floor' >= r.seq
<1>. DEFINE above == {r.seq : r \in {q \in Batch : q.seq > floor}}
            Highest(n) == n >= floor /\ \A r \in Batch : n >= r.seq
<1>1. floor \in Nat /\ sequence \in Nat
  BY DEF ExchangeInv, TypeInv, ExchangeTypeOK
<1>2. Batch \subseteq outbox /\ \A r \in Batch : r.seq \in 1 .. sequence
  BY DEF Batch, ExchangeInv, NumberInv
<1>3. \E n \in {floor} \cup {r.seq : r \in Batch} : Highest(n)
  <2>1. CASE above = {}
    <3>1. ASSUME NEW r \in Batch PROVE floor >= r.seq
      <4>1. r.seq \in Nat
        BY <1>2
      <4>2. ~(r.seq > floor)
        BY <2>1
      <4>. QED  BY <1>1, <4>1, <4>2
    <3>2. Highest(floor)
      BY <1>1, <3>1
    <3>. QED  BY <3>2
  <2>2. CASE above # {}
    <3>1. above \subseteq 1 .. sequence
      BY <1>2
    <3>. HIDE DEF above
    <3>2. PICK m \in above : \A n \in above : n <= m
      BY <1>1, <2>2, <3>1, NewestNumber
    <3>. USE DEF above
    <3>3. m \in {r.seq : r \in Batch} /\ m > floor /\ m \in Nat
      BY <1>1, <3>1, <3>2
    <3>4. \A r \in Batch : m >= r.seq
      BY <1>1, <1>2, <3>2, <3>3
    <3>. QED  BY <1>1, <3>3, <3>4
  <2>. QED  BY <2>1, <2>2
<1>4. floor' = CHOOSE n \in {floor} \cup {r.seq : r \in Batch} : Highest(n)
  BY DEF Receive
<1>. HIDE DEF Highest
<1>5. floor' \in {floor} \cup {r.seq : r \in Batch} /\ Highest(floor')
  BY <1>3, <1>4
<1>. QED  BY <1>1, <1>2, <1>5 DEF Highest

\* What Waterlog has newest of a tank is what it had, or a report it received
LEMMA NewestReceived ==
    ASSUME ExchangeInv, Receive
    PROVE  /\ newest' = [t \in Tank |-> newest'[t]]
           /\ \A t \in Tank :
                 \/ newest'[t] = newest[t]
                 \/ \E r \in Batch : /\ r.tank = t
                                     /\ newest'[t] = [start |-> r.start, seq |-> r.seq, shows |-> r.shows]
<1>. DEFINE News(t) == {r \in Batch : r.tank = t /\ r.seq > newest[t].seq}
            Last(t) == CHOOSE r \in News(t) : \A q \in News(t) : q.seq <= r.seq
<1>1. newest' = [t \in Tank |->
                   IF News(t) = {} THEN newest[t]
                   ELSE [start |-> Last(t).start, seq |-> Last(t).seq, shows |-> Last(t).shows]]
  BY DEF Receive
<1>2. ASSUME NEW t \in Tank, News(t) # {} PROVE Last(t) \in Batch /\ Last(t).tank = t
  <2>. DEFINE S == {r.seq : r \in News(t)}
  <2>1. S \subseteq 1 .. sequence /\ S # {} /\ sequence \in Nat
    BY <1>2, FloorRises DEF ExchangeInv, TypeInv, ExchangeTypeOK
  <2>2. \E m \in S : \A n \in S : n <= m
    <3>. HIDE DEF S
    <3>. QED  BY <2>1, NewestNumber
  <2>3. \E r \in News(t) : \A q \in News(t) : q.seq <= r.seq
    BY <2>2
  <2>4. Last(t) \in News(t)
    BY <2>3
  <2>. QED  BY <2>4
<1>. HIDE DEF News, Last
<1>. QED  BY <1>1, <1>2

LEMMA ReceiveKeeps ==
    ASSUME ExchangeInv, Receive, wire' \in {Idle} \cup ReplyOf'
    PROVE  ExchangeInv'
<1>1. /\ todo = <<>> /\ received' = received \cup {Id(r) : r \in Batch}
      /\ UNCHANGED <<store, todo, token, history>>
  BY DEF Receive
<1>2. /\ floor \in Nat /\ sequence \in Nat /\ life \in Nat /\ outbox \subseteq Reports
      /\ IsFiniteSet(outbox) /\ Batch \subseteq outbox
  BY DEF ExchangeInv, TypeInv, ExchangeTypeOK, Batch
<1>3. Known' = Known /\ received \subseteq received'
  BY <1>1, <1>2 DEF Known, Id, store
<1>4. TypeInv'
  <2>1. received' \subseteq Nat \X Nat
    BY <1>1, <1>2 DEF ExchangeInv, TypeInv, ExchangeTypeOK, Id, Reports
  <2>2. answered' \subseteq Anyone
    BY <1>2 DEF Receive, ExchangeInv, TypeInv, ExchangeTypeOK, Reports
  <2>3. atRisk' \subseteq Tank
    BY DEF Receive, ExchangeInv, TypeInv, ExchangeTypeOK, KnownOpen
  <2>4. newest' \in [Tank -> [start : Anyone, seq : Nat, shows : Shows]]
    <3>1. ASSUME NEW t \in Tank
          PROVE  newest'[t] \in [start : Anyone, seq : Nat, shows : Shows]
      <4>1. newest[t] \in [start : Anyone, seq : Nat, shows : Shows]
        BY DEF ExchangeInv, TypeInv
      <4>2. \A r \in Batch : [start |-> r.start, seq |-> r.seq, shows |-> r.shows]
                                \in [start : Anyone, seq : Nat, shows : Shows]
        BY <1>2 DEF Reports
      <4>. QED  BY <4>1, <4>2, NewestReceived
    <3>. QED  BY <3>1, NewestReceived
  <2>5. floor' \in Nat
    BY FloorRises
  <2>. QED  BY <1>1, <2>1, <2>2, <2>3, <2>4, <2>5
            DEF ExchangeInv, TypeInv, ExchangeTypeOK, store, history
<1>5. NoGaps'
  <2>1. ASSUME NEW id \in received' PROVE id[2] \in 1 .. floor'
    <3>1. CASE id \in received
      <4>1. id[2] \in 1 .. floor
        BY <3>1 DEF ExchangeInv, NumberInv, NoGaps
      <4>. QED  BY <1>2, <4>1, FloorRises
    <3>2. CASE id \notin received
      <4>1. PICK r \in Batch : id = Id(r)
        BY <1>1, <2>1, <3>2
      <4>2. id[2] = r.seq /\ r.seq \in 1 .. sequence /\ floor' >= r.seq
        BY <4>1, FloorRises DEF Id
      <4>. QED  BY <1>2, <4>2, FloorRises
    <3>. QED  BY <3>1, <3>2
  <2>2. ASSUME NEW n \in 1 .. floor' PROVE \E id \in received' : id[2] = n
    <3>1. CASE n <= floor
      <4>1. n \in 1 .. floor
        BY <1>2, <2>2, <3>1
      <4>2. PICK id \in received : id[2] = n
        BY <4>1 DEF ExchangeInv, NumberInv, NoGaps
      <4>. QED  BY <1>3, <4>2
    <3>2. CASE ~(n <= floor)
      <4>1. PICK r \in Batch : floor' = r.seq
        BY <1>2, <2>2, <3>2, FloorRises
      <4>2. n <= r.seq /\ r.seq \in 1 .. sequence /\ n \in 1 .. sequence
        BY <1>2, <2>2, <4>1, FloorRises
      <4>3. PICK id \in Known : id[2] = n
        BY <4>2 DEF ExchangeInv, NumberInv, ReportsSurvive
      <4>4. CASE id \in received
        BY <1>3, <4>3, <4>4
      <4>5. CASE id \notin received
        <5>1. PICK q \in outbox : id = Id(q)
          BY <4>3, <4>5 DEF Known
        <5>2. q.seq = n
          BY <4>3, <5>1 DEF Id
        <5>3. r \in outbox /\ \A x \in outbox : x.seq \in Nat
          BY <1>2 DEF Reports
        <5>4. Before(q, outbox) \subseteq Before(r, outbox) /\ Before(r, outbox) \subseteq outbox
          BY <4>2, <5>2, <5>3 DEF Before
        <5>5. /\ IsFiniteSet(Before(r, outbox)) /\ IsFiniteSet(Before(q, outbox))
              /\ Cardinality(Before(q, outbox)) <= Cardinality(Before(r, outbox))
          BY <1>2, <5>4, FS_Subset
        <5>6. Cardinality(Before(q, outbox)) \in Nat /\ Cardinality(Before(r, outbox)) \in Nat
          BY <5>5, FS_CardinalityType
        <5>7. q \in Batch
          BY <5>5, <5>6, ExchangeAssumption DEF Batch
        <5>. QED  BY <1>1, <4>3, <5>1, <5>7
      <4>. QED  BY <4>4, <4>5
    <3>. QED  BY <3>1, <3>2
  <2>. QED  BY <2>1, <2>2 DEF NoGaps
<1>6. NumberInv'
  <2>1. ReportsSurvive' /\ NumbersUnique'
    BY <1>1, <1>3 DEF ExchangeInv, NumberInv, ReportsSurvive, NumbersUnique, store
  <2>2. \A r \in outbox' : r.life = life' /\ r.seq \in 1 .. sequence'
    BY <1>1 DEF ExchangeInv, NumberInv, store, history
  <2>3. (sequence < floor)' => outbox' = {} /\ \A t \in Tank : ~Open(t)'
    <3>1. CASE sequence < floor
      BY <1>1, <3>1 DEF ExchangeInv, NumberInv, Open, store
    <3>2. CASE ~(sequence < floor)
      <4>1. floor' <= sequence
        BY <1>2, <3>2, FloorRises
      <4>. QED  BY <1>1, <1>2, <4>1, FloorRises DEF store
    <3>. QED  BY <3>1, <3>2
  <2>. QED  BY <1>1, <1>5, <2>1, <2>2, <2>3 DEF NumberInv
<1>7. FlowInv'
  BY <1>1 DEF FlowInv
<1>. QED  BY <1>4, <1>6, <1>7 DEF ExchangeInv

LEMMA ExternalKeeps ==
    ASSUME ExchangeInv, External
    PROVE  ExchangeInv'
<1>1. ASSUME NEW commands \in Deliveries, NEW revision \in 0 .. MaxConfig, Serve(commands, revision)
      PROVE  ExchangeInv'
  <2>1. Receive /\ wire' = [kind |-> "reply", acks |-> {Id(r) : r \in Batch}, floor |-> floor',
                            recovery |-> atRisk', config |-> revision, commands |-> commands]
    BY <1>1 DEF Serve
  <2>2. {Id(r) : r \in Batch} \subseteq received'
    BY <2>1 DEF Receive
  <2>3. atRisk' \subseteq Tank
    BY <2>1 DEF Receive, ExchangeInv, TypeInv, ExchangeTypeOK, KnownOpen
  <2>4. revision \in Nat
    BY ExchangeAssumption
  <2>5. commands \in Seq(Command)
    BY ExchangeAssumption DEF Deliveries
  <2>6. wire' \in ReplyOf'
    BY <2>1, <2>2, <2>3, <2>4, <2>5 DEF ReplyOf
  <2>. QED  BY <2>1, <2>6, ReceiveKeeps
<1>2. CASE ReplyLost
  BY <1>2, ReceiveKeeps DEF ReplyLost, Receive
<1>. QED  BY <1>1, <1>2, AttendKeeps DEF External

\* A new store knows nothing: it is behind as soon as Waterlog has anything
LEMMA LossKeeps ==
    ASSUME ExchangeInv, LoseStore
    PROVE  ExchangeInv'
<1>1. /\ life' = life + 1 /\ session' = [t \in Tank |-> NoSession]
      /\ outbox' = {} /\ sequence' = 0 /\ todo' = <<>> /\ wire' = Idle
      /\ UNCHANGED <<waterlog, entered>>
  BY DEF LoseStore
<1>2. NoSession \in Owned /\ NoSession \in Sessions /\ NoSession.phase = "none"
  BY DEF NoSession, Owned, Sessions, Anyone, Phases
<1>3. TypeInv'
  <2>1. flag' \in BOOLEAN
    BY DEF LoseStore
  <2>2. /\ status' \in [Command -> Statuses] /\ recovery' \subseteq Tank /\ config' \in Nat
        /\ orphaned' \subseteq Tank
    BY DEF LoseStore, OnReport, OpenTanks, Statuses, ExchangeInv, TypeInv, ExchangeTypeOK
  <2>3. IsFiniteSet(outbox')
    BY <1>1, FS_EmptySet
  <2>4. life' \in Nat /\ sequence' \in Nat
    BY <1>1 DEF ExchangeInv, TypeInv, ExchangeTypeOK
  <2>5. session' \in [Tank -> Owned] /\ session' \in [Tank -> Sessions]
    BY <1>1, <1>2
  <2>. QED  BY <1>1, <2>1, <2>2, <2>3, <2>4, <2>5
            DEF ExchangeInv, TypeInv, ExchangeTypeOK, waterlog
<1>4. NumberInv'
  <2>1. Known' \subseteq Known
    BY <1>1 DEF Known, waterlog
  <2>2. \A t \in Tank : ~Open(t)'
    BY <1>1, <1>2 DEF Open
  <2>3. ReportsSurvive'
    BY <1>1 DEF ReportsSurvive
  <2>. QED  BY <1>1, <2>1, <2>2, <2>3
            DEF ExchangeInv, NumberInv, NoGaps, NumbersUnique, waterlog
<1>5. FlowInv'
  BY <1>1, ShortWork DEF FlowInv
<1>. QED  BY <1>3, <1>4, <1>5 DEF ExchangeInv

LEMMA ExchangeInitially == Init => ExchangeInv
<1>. SUFFICES ASSUME Init PROVE ExchangeInv
  OBVIOUS
<1>1. NoSession \in Owned /\ NoSession \in Sessions /\ NoSession.phase = "none"
  BY DEF NoSession, Owned, Sessions, Anyone, Phases
<1>2. NoReport \in [start : Anyone, seq : Nat, shows : Shows] /\ NoToken \in Tokens
  BY DEF NoReport, NoToken, Tokens, Anyone, Shows
<1>3. TypeInv
  BY <1>1, <1>2, FS_EmptySet DEF Init, TypeInv, ExchangeTypeOK, Statuses
<1>4. NumberInv
  BY <1>1 DEF Init, NumberInv, NoGaps, ReportsSurvive, NumbersUnique, Known, Open
<1>5. FlowInv
  BY ShortWork DEF Init, FlowInv
<1>. QED  BY <1>3, <1>4, <1>5 DEF ExchangeInv

LEMMA ExchangeStep == ExchangeInv /\ [Next]_vars => ExchangeInv'
<1>. SUFFICES ASSUME ExchangeInv, [Next]_vars PROVE ExchangeInv'
  OBVIOUS
<1>1. CASE Handler
  BY <1>1, TransactionsKeep, CallsKeep DEF Handler
<1>2. CASE Tick \/ TickUnsafe \/ Crash
  BY <1>2, TicksKeep
<1>3. CASE Apply
  BY <1>3, ApplyKeeps
<1>4. CASE External
  BY <1>4, ExternalKeeps
<1>5. CASE LoseStore
  BY <1>5, LossKeeps
<1>6. CASE UNCHANGED vars
  <2>1. todo' = todo /\ wire' = wire /\ UNCHANGED <<store, waterlog, history>>
    BY <1>6 DEF vars
  <2>. QED  BY <2>1, BeginsKeeps DEF ExchangeInv, NumberInv, FlowInv
<1>. QED  BY <1>1, <1>2, <1>3, <1>4, <1>5, <1>6 DEF Next

LEMMA ExchangeAlways == Spec => []ExchangeInv
BY ExchangeInitially, ExchangeStep, PTL DEF Spec

-------------------------------------------------------------------------------
(* The theorems. *)

\* Every reachable state of the exchange is well typed.
THEOREM ExchangeTypeCorrect == Spec => []ExchangeTypeOK
<1>1. ExchangeInv => ExchangeTypeOK
  BY DEF ExchangeInv, TypeInv
<1>. QED  BY <1>1, ExchangeAlways, PTL

\* No report is forgotten before Waterlog has it: every number the store gave out
\* is in the outbox or at Waterlog, whatever requests, replies or stores are lost.
THEOREM ReportsAreDurable == Spec => []ReportsSurvive
<1>1. ExchangeInv => ReportsSurvive
  BY DEF ExchangeInv, NumberInv
<1>. QED  BY <1>1, ExchangeAlways, PTL

\* No two reports share a number, even after the store and its counter were lost:
\* a new store reports nothing before it has caught up with Waterlog's floor.
THEOREM NumbersNameOneReport == Spec => []NumbersUnique
<1>1. ExchangeInv => NumbersUnique
  BY DEF ExchangeInv, NumberInv
<1>. QED  BY <1>1, ExchangeAlways, PTL

\* Waterlog learns the reports in the order they were written, none left out.
THEOREM ReportsArriveInOrder == Spec => []NoGaps
<1>1. ExchangeInv => NoGaps
  BY DEF ExchangeInv, NumberInv
<1>. QED  BY <1>1, ExchangeAlways, PTL

===============================================================================
