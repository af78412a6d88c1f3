-------------------------- MODULE ControlAnswerProofs --------------------------
(* What Waterlog is told of a temporary command, for every set of tanks and    *)
(* commands:                                                                   *)
(*                                                                             *)
(*   CompletedModesWereActive   without a crash, Spec => []CompletedWasActive  *)
(*                                                                             *)
(* AnswerInv says of every open session how its command will end (SessionInv)  *)
(* and of every pending operation what it relies on (PendingInv).              *)
EXTENDS ControlRecoveryProofs

-------------------------------------------------------------------------------
(* The inductive invariant.                                                    *)

\* c is no temporary command, or its mode was active
Earned(c) == Temporary(c) => c \in entered

Promotes(op) == op.do = "transition" => ~Temporary(op.cmd) \/ op.phase = "active"
Activates(op, t) == op.do = "set" /\ op.tank = t /\ op.phase = "active"

\* op is the entry of tank t or what is left of it: the mode becomes active, or
\* the command fails
Decides(op, t) ==
    \/ op.do = "enter" /\ op.cmd = session[t].cmd
    \/ Activates(op, t)
    \/ op.do = "status" /\ op.cmd = session[t].cmd /\ op.status = "failed"

\* What comes before leaves tank t to its entry
LeavesAlone(op, t) ==
    /\ op.do \in {"restore", "set", "report", "remove", "status"}
    /\ op.do = "restore" => op.tank # t

EnteringBy(w, t) ==
    \E i \in 1 .. Len(w) : Decides(w[i], t) /\ \A j \in 1 .. i - 1 : LeavesAlone(w[j], t)

Entering(t) == EnteringBy(todo, t)

\* The mode of a session was active, or its command failed, or it is being entered
SessionInv ==
    \A t \in Tank :
        Open(t) => \/ Earned(session[t].cmd)
                   \/ status[session[t].cmd] = "failed"
                   \/ Entering(t)

\* What the unwinding before a refusal consists of
UnwindNames == {"unwind", "restore", "set", "report", "remove", "status"}

\* A command is refused before anything is recorded of it
RefusalAt(w, i) ==
    w[i].do = "reject" =>
        status[w[i].cmd] = "none" /\ \A j \in 1 .. i - 1 : w[j].do \in UnwindNames

\* An entry is that of a recorded command
EntryAt(w, i) ==
    /\ w[i].do = "begin" => i = 1 /\ 2 \in 1 .. Len(w) /\ w[2].do = "enter" /\ w[2].cmd = w[1].cmd
    /\ w[i].do = "enter" =>
           status[w[i].cmd] # "none" \/ (i = 2 /\ w[1].do = "begin" /\ w[1].cmd = w[2].cmd)

\* A command completes when its mode was active or becomes so next
StatusAt(w, i) ==
    w[i].do = "status" =>
        /\ i = 1
        /\ status[w[i].cmd] # "none" /\ w[i].status # "none"
        /\ \/ w[i].status = "failed"
           \/ Earned(w[i].cmd)
           \/ 2 \in 1 .. Len(w) /\ Activates(w[2], TankOf[w[1].cmd])

\* A session goes to a command that has failed, or to one whose mode is active
TransferAt(w, i) ==
    \/ Promotes(w[i])
    \/ i = 1 /\ status[w[i].cmd] = "failed"
    \/ /\ i = 2 /\ status[w[i].cmd] = "none"
       /\ w[1].do = "record" /\ w[1].cmd = w[2].cmd /\ w[1].status = "failed"

ReportNames == {"record", "status", "set", "transition"}

\* A report of completion is about a mode that was active, or will be by then
ReportAt(w, i) ==
    /\ w[i].do = "queue" /\ w[i].status = "completed" => ~Temporary(w[i].cmd)
    /\ w[i].do = "report" /\ w[i].status = "completed" =>
           /\ \A j \in 1 .. i - 1 : w[j].do \in ReportNames /\ Promotes(w[j])
           /\ \/ Open(w[i].tank) => Earned(session[w[i].tank].cmd)
              \/ \E j \in 1 .. i - 1 :
                     \/ Activates(w[j], w[i].tank)
                     \/ w[j].do = "transition" /\ TankOf[w[j].cmd] = w[i].tank

PendingAt(w, i) ==
    RefusalAt(w, i) /\ EntryAt(w, i) /\ StatusAt(w, i) /\ TransferAt(w, i) /\ ReportAt(w, i)

PendingInv == \A i \in 1 .. Len(todo) : PendingAt(todo, i)

AnswerInv == RecoveryInv /\ CompletedWasActive /\ SessionInv /\ PendingInv

-------------------------------------------------------------------------------
(* Facts about what is still to do.                                            *)

\* Work that relies on nothing, wherever it comes
Harmless ==
    {op \in Operation :
        /\ op.do \notin {"begin", "enter", "status", "reject"}
        /\ Promotes(op)
        /\ op.do = "queue" /\ op.status = "completed" => ~Temporary(op.cmd)
        /\ op.do = "report" => op.status # "completed"}

LEMMA HarmlessIsPending ==
    ASSUME NEW w, NEW i, w[i] \in Harmless
    PROVE  PendingAt(w, i)
BY DEF Harmless, PendingAt, RefusalAt, EntryAt, StatusAt, TransferAt, ReportAt

\* What comes after the call at hand
WaitingAt(w, k) ==
    /\ w[k].do \notin {"begin", "status"}
    /\ w[k].do = "enter" => status[w[k].cmd] # "none"
    /\ Promotes(w[k])
    /\ w[k].do = "queue" /\ w[k].status = "completed" => ~Temporary(w[k].cmd)
    /\ w[k].do = "report" => w[k].status # "completed"
    /\ RefusalAt(w, k)

LEMMA CallWaits ==
    ASSUME AnswerInv, todo # <<>>, Head(todo).do \in CallNames
    PROVE  /\ \A k \in 2 .. Len(todo) : WaitingAt(todo, k)
           /\ Tail(todo) \in Seq(Operation)
           /\ \A k \in 1 .. Len(Tail(todo)) : WaitingAt(Tail(todo), k)
           /\ Head(todo).do \notin UnwindNames =>
                  \A k \in 1 .. Len(Tail(todo)) : Tail(todo)[k].do # "reject"
<1>1. /\ todo \in Seq(Operation) /\ 1 \in 1 .. Len(todo) /\ Head(todo) = todo[1]
      /\ Tail(todo) \in Seq(Operation)
  BY RestOfWork DEF AnswerInv, RecoveryInv, ExchangeInv, FlowInv
<1>2. todo[1].do \in CallNames
  BY <1>1
<1>3. ASSUME NEW k \in 2 .. Len(todo) PROVE WaitingAt(todo, k)
  <2>1. k \in 1 .. Len(todo) /\ 1 \in 1 .. k - 1 /\ k # 1
    BY <1>1
  <2>2. PendingAt(todo, k)
    BY <2>1 DEF AnswerInv, PendingInv
  <2>3. todo[k].do \notin {"begin", "status"} /\ RefusalAt(todo, k)
    BY <2>1, <2>2 DEF PendingAt, EntryAt, StatusAt
  <2>4. todo[k].do = "enter" => status[todo[k].cmd] # "none"
    BY <1>2, <2>2 DEF PendingAt, EntryAt, CallNames
  <2>5. Promotes(todo[k])
    BY <1>2, <2>1, <2>2 DEF PendingAt, TransferAt, CallNames
  <2>6. /\ todo[k].do = "queue" /\ todo[k].status = "completed" => ~Temporary(todo[k].cmd)
        /\ todo[k].do = "report" => todo[k].status # "completed"
    BY <1>2, <2>1, <2>2 DEF PendingAt, ReportAt, CallNames, ReportNames
  <2>. QED  BY <2>3, <2>4, <2>5, <2>6 DEF WaitingAt
<1>4. ASSUME NEW k \in 1 .. Len(Tail(todo))
      PROVE  /\ k + 1 \in 2 .. Len(todo) /\ Tail(todo)[k] = todo[k + 1]
             /\ \A j \in 1 .. k - 1 : j + 1 \in 1 .. (k + 1) - 1 /\ Tail(todo)[j] = todo[j + 1]
  <2>1. \A i \in 1 .. Len(Tail(todo)) : i + 1 \in 1 .. Len(todo) /\ Tail(todo)[i] = todo[i + 1]
    BY <1>1, Shortened
  <2>2. Len(Tail(todo)) \in Nat /\ k \in 1 .. Len(Tail(todo))
    BY <1>1
  <2>3. \A j \in 1 .. k - 1 : j \in 1 .. Len(Tail(todo)) /\ j + 1 \in 1 .. (k + 1) - 1
    BY <2>2
  <2>. QED  BY <2>1, <2>2, <2>3
<1>5. ASSUME NEW k \in 1 .. Len(Tail(todo)) PROVE WaitingAt(Tail(todo), k)
  <2>1. WaitingAt(todo, k + 1) /\ Tail(todo)[k] = todo[k + 1]
    BY <1>3, <1>4
  <2>2. RefusalAt(Tail(todo), k)
    BY <1>4, <2>1 DEF WaitingAt, RefusalAt
  <2>. QED  BY <2>1, <2>2 DEF WaitingAt
<1>6. ASSUME Head(todo).do \notin UnwindNames, NEW k \in 1 .. Len(Tail(todo))
      PROVE  Tail(todo)[k].do # "reject"
  <2>1. RefusalAt(todo, k + 1) /\ Tail(todo)[k] = todo[k + 1] /\ k + 1 \in 2 .. Len(todo)
    BY <1>3, <1>4 DEF WaitingAt
  <2>2. 1 \in 1 .. (k + 1) - 1
    BY <1>1, <2>1
  <2>. QED  BY <1>1, <1>6, <2>1, <2>2 DEF RefusalAt
<1>. QED  BY <1>1, <1>3, <1>5, <1>6

\* What a call becomes may go before what waits, if it leaves a refusal alone
LEMMA Joined ==
    ASSUME NEW ops \in Seq(Operation), NEW rest \in Seq(Operation),
           \A i \in 1 .. Len(ops) : PendingAt(ops, i),
           \A k \in 1 .. Len(rest) : WaitingAt(rest, k),
           \/ \A i \in 1 .. Len(ops) : ops[i].do \in UnwindNames
           \/ \A k \in 1 .. Len(rest) : rest[k].do # "reject"
    PROVE  \A i \in 1 .. Len(ops \o rest) : PendingAt(ops \o rest, i)
<1>. DEFINE w == ops \o rest
            n == Len(ops)
<1>1. n \in Nat /\ Len(rest) \in Nat /\ Len(w) = n + Len(rest)
  BY ConcatProperties
<1>2. \A i \in 1 .. n : w[i] = ops[i]
  BY ConcatProperties
<1>3. \A k \in 1 .. Len(rest) : w[n + k] = rest[k]
  BY ConcatProperties
<1>. HIDE DEF w, n
<1>4. ASSUME NEW i \in 1 .. n PROVE PendingAt(w, i)
  <2>1. PendingAt(ops, i) /\ w[i] = ops[i] /\ w[1] = ops[1] /\ 1 \in 1 .. n
    BY <1>1, <1>2, <1>4 DEF n
  <2>2. \A j \in 1 .. i - 1 : w[j] = ops[j]
    BY <1>1, <1>2, <1>4
  <2>3. 2 \in 1 .. Len(ops) => 2 \in 1 .. Len(w) /\ w[2] = ops[2]
    BY <1>1, <1>2 DEF n
  <2>4. RefusalAt(w, i)
    BY <2>1, <2>2 DEF PendingAt, RefusalAt
  <2>5. EntryAt(w, i)
    BY <2>1, <2>3, <1>4 DEF PendingAt, EntryAt, n
  <2>6. StatusAt(w, i)
    BY <2>1, <2>3 DEF PendingAt, StatusAt
  <2>7. TransferAt(w, i)
    BY <2>1, <2>3, <1>4 DEF PendingAt, TransferAt, n
  <2>8. ReportAt(w, i)
    BY <2>1, <2>2 DEF PendingAt, ReportAt
  <2>. QED  BY <2>4, <2>5, <2>6, <2>7, <2>8 DEF PendingAt
<1>5. ASSUME NEW k \in 1 .. Len(rest) PROVE PendingAt(w, n + k)
  <2>1. WaitingAt(rest, k) /\ w[n + k] = rest[k]
    BY <1>3, <1>5
  <2>2. RefusalAt(w, n + k)
    <3>1. SUFFICES ASSUME w[n + k].do = "reject", NEW j \in 1 .. (n + k) - 1
                   PROVE  status[w[n + k].cmd] = "none" /\ w[j].do \in UnwindNames
      <4>1. w[n + k].do = "reject" => status[w[n + k].cmd] = "none"
        BY <2>1 DEF WaitingAt, RefusalAt
      <4>. QED  BY <4>1 DEF RefusalAt
    <3>2. status[w[n + k].cmd] = "none" /\ \A i \in 1 .. k - 1 : rest[i].do \in UnwindNames
      BY <2>1, <3>1 DEF WaitingAt, RefusalAt
    <3>3. \A i \in 1 .. n : ops[i].do \in UnwindNames
      BY <1>5, <2>1, <3>1 DEF n
    <3>4. CASE j \in 1 .. n
      BY <1>2, <3>2, <3>3, <3>4
    <3>5. CASE j \notin 1 .. n
      <4>1. j - n \in 1 .. k - 1 /\ j - n \in 1 .. Len(rest) /\ n + (j - n) = j
        BY <1>1, <3>1, <3>5
      <4>. QED  BY <1>3, <3>2, <4>1
    <3>. QED  BY <3>4, <3>5
  <2>. QED  BY <2>1, <2>2 DEF WaitingAt, PendingAt, EntryAt, StatusAt, TransferAt, ReportAt
<1>6. ASSUME NEW i \in 1 .. Len(w) PROVE i \in 1 .. n \/ (i - n \in 1 .. Len(rest) /\ n + (i - n) = i)
  BY <1>1
<1>7. \A i \in 1 .. Len(w) : PendingAt(w, i)
  BY <1>4, <1>5, <1>6
<1>. QED  BY <1>7 DEF w

LEMMA OneAndThree ==
    ASSUME NEW S, NEW a \in S, NEW b \in S, NEW c \in S, NEW d \in S,
           NEW w, w = <<a>> \o <<b, c, d>>
    PROVE  w \in Seq(S) /\ Len(w) = 4 /\ w[1] = a /\ w[2] = b /\ w[3] = c /\ w[4] = d
<1>1. <<a>> \in Seq(S) /\ <<b, c, d>> \in Seq(S)
  OBVIOUS
<1>. QED  BY <1>1, ConcatProperties

LEMMA EntryFirst ==
    ASSUME NEW ops \in Seq(Operation), NEW rest \in Seq(Operation), NEW t, EnteringBy(ops, t)
    PROVE  EnteringBy(ops \o rest, t)
<1>1. /\ Len(ops) \in Nat /\ Len(rest) \in Nat /\ Len(ops \o rest) = Len(ops) + Len(rest)
      /\ \A i \in 1 .. Len(ops) : (ops \o rest)[i] = ops[i]
  BY ConcatProperties
<1>2. PICK i \in 1 .. Len(ops) : Decides(ops[i], t) /\ \A j \in 1 .. i - 1 : LeavesAlone(ops[j], t)
  BY DEF EnteringBy
<1>3. i \in 1 .. Len(ops \o rest) /\ \A j \in 1 .. i - 1 : j \in 1 .. Len(ops)
  BY <1>1
<1>. QED  BY <1>1, <1>2, <1>3 DEF EnteringBy

LEMMA EntryLater ==
    ASSUME NEW ops \in Seq(Operation), NEW rest \in Seq(Operation), NEW t, EnteringBy(rest, t),
           \A i \in 1 .. Len(ops) : LeavesAlone(ops[i], t)
    PROVE  EnteringBy(ops \o rest, t)
<1>. DEFINE w == ops \o rest
            n == Len(ops)
<1>1. /\ n \in Nat /\ Len(rest) \in Nat /\ Len(w) = n + Len(rest)
      /\ \A i \in 1 .. n : w[i] = ops[i]
      /\ \A k \in 1 .. Len(rest) : w[n + k] = rest[k]
  BY ConcatProperties
<1>2. PICK k \in 1 .. Len(rest) : Decides(rest[k], t) /\ \A j \in 1 .. k - 1 : LeavesAlone(rest[j], t)
  BY DEF EnteringBy
<1>3. \A i \in 1 .. n : LeavesAlone(w[i], t)
  BY <1>1
<1>. HIDE DEF w, n
<1>4. n + k \in 1 .. Len(w) /\ Decides(w[n + k], t)
  BY <1>1, <1>2
<1>5. ASSUME NEW j \in 1 .. (n + k) - 1 PROVE LeavesAlone(w[j], t)
  <2>1. CASE j \in 1 .. n
    BY <1>3, <2>1
  <2>2. CASE j \notin 1 .. n
    <3>1. j - n \in 1 .. k - 1 /\ j - n \in 1 .. Len(rest) /\ n + (j - n) = j
      BY <1>1, <2>2
    <3>. QED  BY <1>1, <1>2, <3>1
  <2>. QED  BY <2>1, <2>2
<1>6. EnteringBy(w, t)
  BY <1>4, <1>5 DEF EnteringBy
<1>. QED  BY <1>6 DEF w

LEMMA EntryNext ==
    ASSUME NEW w \in Seq(Operation), w # <<>>, NEW t, EnteringBy(w, t)
    PROVE  Decides(w[1], t) \/ (LeavesAlone(w[1], t) /\ EnteringBy(Tail(w), t))
<1>1. PICK i \in 1 .. Len(w) : Decides(w[i], t) /\ \A j \in 1 .. i - 1 : LeavesAlone(w[j], t)
  BY DEF EnteringBy
<1>2. CASE i = 1
  BY <1>1, <1>2
<1>3. CASE i # 1
  <2>1. 1 \in 1 .. i - 1 /\ i - 1 \in 1 .. Len(Tail(w)) /\ Len(Tail(w)) \in Nat
    BY <1>3
  <2>2. \A k \in 1 .. Len(Tail(w)) : Tail(w)[k] = w[k + 1]
    BY Shortened
  <2>3. \A j \in 1 .. (i - 1) - 1 : j \in 1 .. Len(Tail(w)) /\ j + 1 \in 1 .. i - 1
    BY <2>1
  <2>4. Decides(Tail(w)[i - 1], t) /\ \A j \in 1 .. (i - 1) - 1 : LeavesAlone(Tail(w)[j], t)
    BY <1>1, <2>1, <2>2, <2>3
  <2>. QED  BY <1>1, <2>1, <2>4 DEF EnteringBy
<1>. QED  BY <1>2, <1>3

-------------------------------------------------------------------------------
(* Calls keep the invariant. *)

\* The call at hand becomes ops, which may go where it stood
\* Part of a restoration of tank t
Restores(op, t) ==
    /\ op.do \in {"restore", "set", "report", "remove", "status"}
    /\ op.do = "restore" => op.tank = t

Proceeds(ops) ==
    /\ ops \in Seq(Operation)
    /\ \A i \in 1 .. Len(ops) : PendingAt(ops, i)
    /\ This.do = "enter" =>
           \A t \in Tank : Open(t) /\ session[t].cmd = This.cmd => EnteringBy(ops, t)
    /\ This.do = "unwind" => \A i \in 1 .. Len(ops) : ops[i].do \in UnwindNames
    /\ This.do = "restore" => \A i \in 1 .. Len(ops) : Restores(ops[i], This.tank)

LEMMA NothingRecorded ==
    ASSUME AnswerInv, UNCHANGED <<store, wire, waterlog, history>>
    PROVE  /\ CompletedWasActive'
           /\ \A w, i : PendingAt(w, i)' = PendingAt(w, i)
           /\ \A w, t : EnteringBy(w, t)' = EnteringBy(w, t)
           /\ (\A t \in Tank : Open(t) /\ Entering(t) => EnteringBy(todo', t)) => SessionInv'
<1>1. UNCHANGED <<session, status, outbox, entered>>
  BY DEF store, history
<1>2. CompletedWasActive'
  BY <1>1 DEF AnswerInv, CompletedWasActive
<1>3. \A w, i : PendingAt(w, i)' = PendingAt(w, i)
  BY <1>1 DEF PendingAt, RefusalAt, EntryAt, StatusAt, TransferAt, ReportAt, Earned, Open
<1>4. \A w, t : EnteringBy(w, t)' = EnteringBy(w, t)
  BY <1>1 DEF EnteringBy, Decides
<1>5. ASSUME \A t \in Tank : Open(t) /\ Entering(t) => EnteringBy(todo', t) PROVE SessionInv'
  <2>1. \A t \in Tank : Open(t) => \/ Earned(session[t].cmd)
                                  \/ status[session[t].cmd] = "failed"
                                  \/ EnteringBy(todo', t)
    BY <1>5 DEF AnswerInv, SessionInv
  <2>2. \A t \in Tank : EnteringBy(todo', t) <=> Entering(t)'
    BY <1>1 DEF Entering, EnteringBy, Decides
  <2>. QED  BY <1>1, <2>1, <2>2 DEF SessionInv, Open, Earned
<1>. QED  BY <1>2, <1>3, <1>4, <1>5

LEMMA CallsEnter ==
    ASSUME AnswerInv, todo # <<>>, This.do \in CallNames, NEW t \in Tank, Open(t), Entering(t)
    PROVE  \/ This.do = "enter" /\ session[t].cmd = This.cmd
           \/ This.do = "restore" /\ This.tank # t /\ EnteringBy(Tail(todo), t)
<1>1. todo \in Seq(Operation) /\ This = todo[1]
  BY DEF AnswerInv, RecoveryInv, ExchangeInv, FlowInv, This
<1>2. Decides(todo[1], t) \/ (LeavesAlone(todo[1], t) /\ EnteringBy(Tail(todo), t))
  BY <1>1, EntryNext DEF Entering
<1>. QED  BY <1>1, <1>2 DEF Decides, Activates, LeavesAlone, CallNames

LEMMA CallsProceed ==
    ASSUME AnswerInv, todo # <<>>, This.do \in CallNames, NEW ops, Proceeds(ops), Becomes(ops)
    PROVE  CompletedWasActive' /\ SessionInv' /\ PendingInv'
<1>1. /\ ops \in Seq(Operation) /\ Tail(todo) \in Seq(Operation)
      /\ todo' = ops \o Tail(todo) /\ UNCHANGED <<store, wire, waterlog, history>>
  BY CallWaits DEF Proceeds, Becomes, This
<1>2. PendingInv'
  <2>1. /\ \A k \in 1 .. Len(Tail(todo)) : WaitingAt(Tail(todo), k)
        /\ This.do \notin UnwindNames =>
               \A k \in 1 .. Len(Tail(todo)) : Tail(todo)[k].do # "reject"
    BY CallWaits DEF This
  <2>2. This.do \in UnwindNames => \A i \in 1 .. Len(ops) : ops[i].do \in UnwindNames
    BY DEF Proceeds, Restores, UnwindNames, CallNames
  <2>3. \A i \in 1 .. Len(ops) : PendingAt(ops, i)
    BY DEF Proceeds
  <2>4. \A i \in 1 .. Len(todo') : PendingAt(todo', i)
    BY <1>1, <2>1, <2>2, <2>3, Joined
  <2>5. \A w, i : PendingAt(w, i)' = PendingAt(w, i)
    BY <1>1, NothingRecorded
  <2>. HIDE DEF PendingAt
  <2>. QED  BY <2>4, <2>5 DEF PendingInv
<1>3. ASSUME NEW t \in Tank, Open(t), Entering(t) PROVE EnteringBy(todo', t)
  <2>1. CASE This.do = "enter" /\ session[t].cmd = This.cmd
    <3>1. EnteringBy(ops, t)
      BY <1>3, <2>1 DEF Proceeds
    <3>. QED  BY <1>1, <3>1, EntryFirst
  <2>2. CASE This.do = "restore" /\ This.tank # t /\ EnteringBy(Tail(todo), t)
    <3>1. \A i \in 1 .. Len(ops) : LeavesAlone(ops[i], t)
      BY <2>2 DEF Proceeds, Restores, LeavesAlone
    <3>. QED  BY <1>1, <2>2, <3>1, EntryLater
  <2>. QED  BY <1>3, <2>1, <2>2, CallsEnter
<1>. QED  BY <1>1, <1>2, <1>3, NothingRecorded

LEMMA HarmlessOperations ==
    ASSUME floor \in Nat
    PROVE
    /\ \A c \in Command, s \in Statuses : Record(c, s) \in Harmless
    /\ \A c \in Command, m \in Mode \cup {"normal"}, p \in Phases :
           ~Temporary(c) \/ p = "active" => Transition(c, m, p) \in Harmless
    /\ \A t \in Tank, m \in Mode \cup {"normal"}, p \in Phases : SetSession(t, m, p) \in Harmless
    /\ \A t \in Tank : Remove(t) \in Harmless /\ Resolve(t) \in Harmless
    /\ \A t \in Tank, b \in BOOLEAN : Restore(t, b) \in Harmless
    /\ \A S \in SUBSET Tank : Unwind(S) \in Harmless /\ Visit(S) \in Harmless
    /\ \A c \in Command, a \in Anyone, p \in Phases, s \in Statuses :
           s # "completed" \/ ~Temporary(c) => Queue(c, a, p, s) \in Harmless
    /\ \A t \in Tank, s \in Statuses : s # "completed" => Report(t, s) \in Harmless
<1>. USE Operations DEF Harmless, Promotes
<1>1. \A c \in Command, s \in Statuses : Record(c, s) \in Harmless
  BY DEF Record
<1>2. \A c \in Command, m \in Mode \cup {"normal"}, p \in Phases :
           ~Temporary(c) \/ p = "active" => Transition(c, m, p) \in Harmless
  BY DEF Transition
<1>3. \A t \in Tank, m \in Mode \cup {"normal"}, p \in Phases : SetSession(t, m, p) \in Harmless
  BY DEF SetSession
<1>4. \A t \in Tank : Remove(t) \in Harmless /\ Resolve(t) \in Harmless
  BY DEF Remove, Resolve
<1>5. \A t \in Tank, b \in BOOLEAN : Restore(t, b) \in Harmless
  BY DEF Restore
<1>6. \A S \in SUBSET Tank : Unwind(S) \in Harmless /\ Visit(S) \in Harmless
  BY DEF Unwind, Visit
<1>7. \A c \in Command, a \in Anyone, p \in Phases, s \in Statuses :
           s # "completed" \/ ~Temporary(c) => Queue(c, a, p, s) \in Harmless
  BY DEF Queue
<1>8. \A t \in Tank, s \in Statuses : s # "completed" => Report(t, s) \in Harmless
  BY DEF Report
<1>. QED
  BY <1>1, <1>2, <1>3, <1>4, <1>5, <1>6, <1>7, <1>8

\* Work that relies on nothing may take the place of any call but an entry
LEMMA HarmlessProceeds ==
    ASSUME NEW ops \in Seq(Harmless), This.do # "enter",
           This.do = "unwind" => \A i \in 1 .. Len(ops) : ops[i].do \in UnwindNames,
           This.do = "restore" => \A i \in 1 .. Len(ops) : Restores(ops[i], This.tank)
    PROVE  Proceeds(ops)
<1>1. ops \in Seq(Operation) /\ \A i \in 1 .. Len(ops) : ops[i] \in Harmless
  BY DEF Harmless
<1>2. \A i \in 1 .. Len(ops) : PendingAt(ops, i)
  BY <1>1, HarmlessIsPending
<1>. QED  BY <1>1, <1>2 DEF Proceeds

\* The call at hand becomes work that may go where it stood
Answered == \E ops : Proceeds(ops) /\ Becomes(ops)

LEMMA AcceptsProceed ==
    ASSUME AnswerInv, AcceptCommand
    PROVE  Unreadable \/ Answered
<1>0. /\ todo \in Seq(Operation) /\ floor \in Nat
      /\ session \in [Tank -> Owned] /\ token \in [Command -> Tokens]
      /\ TankOf \in [Command -> Tank]
      /\ "normal" \notin Mode /\ "finish" \notin Mode
  BY ExchangeAssumption DEF AnswerInv, RecoveryInv, ExchangeInv, TypeInv, ExchangeTypeOK, FlowInv
<1>1. todo # <<>> /\ This.do = "accept"
  BY DEF AcceptCommand, Unreadable, AcceptKnown, AcceptRefused, AcceptUnfit, AcceptUnsafe,
         AcceptSameMode, AcceptTemporary, AcceptNormal, FinishIgnored, FinishAccepted,
         FinishRefused, New, At, This
<1>2. ASSUME NEW ops \in Seq(Harmless), Becomes(ops) PROVE Answered
  BY <1>1, <1>2, HarmlessProceeds DEF Answered
<1>3. ASSUME NEW ops \in Seq(Operation), \A i \in 1 .. Len(ops) : PendingAt(ops, i), Becomes(ops)
      PROVE  Answered
  BY <1>1, <1>3 DEF Proceeds, Answered
<1>. HIDE DEF Answered
<1>4. ASSUME NEW c \in Command PROVE TankOf[c] \in Tank /\ c \in Anyone /\ token[c].start \in Anyone
  BY <1>0 DEF Anyone, Tokens
<1>5. CASE AcceptKnown
  BY <1>2, <1>5, ShortSequences DEF AcceptKnown
<1>6. ASSUME NEW c \in Command, AcceptRefused(c) \/ AcceptUnfit(c) PROVE Answered
  <2>. DEFINE w == <<Reject(c)>>
  <2>1. w \in Seq(Operation)
    BY <1>0, Operations, ShortSequences
  <2>2. status[c] = "none" /\ Becomes(w)
    BY <1>6 DEF AcceptRefused, AcceptUnfit, New
  <2>3. \A i \in 1 .. Len(w) : PendingAt(w, i)
    BY <2>2 DEF Reject, PendingAt, RefusalAt, EntryAt, StatusAt, TransferAt, Promotes, ReportAt
  <2>. HIDE DEF w
  <2>. QED  BY <1>3, <2>1, <2>2, <2>3
<1>7. ASSUME NEW c \in Command, AcceptUnsafe(c) PROVE Answered
  <2>. DEFINE w == <<Unwind(OpenTanks), Reject(c)>>
  <2>1. OpenTanks \in SUBSET Tank
    BY DEF OpenTanks
  <2>2. w \in Seq(Operation) /\ Unwind(OpenTanks) \in Harmless
    BY <1>0, <2>1, Operations, HarmlessOperations, ShortSequences
  <2>3. status[c] = "none" /\ Becomes(w)
    BY <1>7 DEF AcceptUnsafe, New
  <2>4. Len(w) = 2 /\ w[1] = Unwind(OpenTanks) /\ w[2] = Reject(c)
    OBVIOUS
  <2>. HIDE DEF w
  <2>5. PendingAt(w, 1)
    BY <2>2, <2>4, HarmlessIsPending
  <2>6. PendingAt(w, 2)
    BY <2>3, <2>4 DEF Reject, Unwind, UnwindNames, PendingAt, RefusalAt, EntryAt, StatusAt,
                      TransferAt, Promotes, ReportAt
  <2>7. \A i \in 1 .. Len(w) : PendingAt(w, i)
    BY <2>4, <2>5, <2>6
  <2>. QED  BY <1>3, <2>2, <2>3, <2>7
<1>8. ASSUME NEW c \in Command, AcceptSameMode(c) PROVE Answered
  <2>. DEFINE t == TankOf[c]
              w == <<Record(c, "completed"), Transition(c, session[t].mode, session[t].phase),
                     Report(t, "completed")>>
  <2>1. session[t].mode \in Mode \cup {"normal"} /\ session[t].phase = "active" /\ Becomes(w)
    BY <1>0, <1>4, <1>8 DEF Owned, Sessions, AcceptSameMode
  <2>2. "completed" \in Statuses /\ "active" \in Phases
    BY DEF Statuses, Phases
  <2>3. /\ w \in Seq(Operation) /\ Record(c, "completed") \in Harmless
        /\ Transition(c, session[t].mode, session[t].phase) \in Harmless
    BY <1>0, <1>4, <2>1, <2>2, Operations, HarmlessOperations, ShortSequences
  <2>4. /\ Len(w) = 3 /\ w[1] = Record(c, "completed")
        /\ w[2] = Transition(c, session[t].mode, session[t].phase)
        /\ w[3] = Report(t, "completed")
    OBVIOUS
  <2>. HIDE DEF w
  <2>5. PendingAt(w, 1) /\ PendingAt(w, 2)
    BY <2>3, <2>4, HarmlessIsPending
  <2>6. /\ \A j \in 1 .. 3 - 1 : w[j].do \in ReportNames /\ Promotes(w[j])
        /\ 2 \in 1 .. 3 - 1 /\ w[2].do = "transition" /\ TankOf[w[2].cmd] = t
        /\ w[3].do = "report" /\ w[3].tank = t
    BY <2>1, <2>4 DEF Record, Transition, Report, ReportNames, Promotes
  <2>7. PendingAt(w, 3)
    BY <2>6 DEF PendingAt, RefusalAt, EntryAt, StatusAt, TransferAt, Promotes, ReportAt
  <2>8. \A i \in 1 .. Len(w) : PendingAt(w, i)
    BY <2>4, <2>5, <2>7
  <2>. QED  BY <1>3, <2>1, <2>3, <2>8
<1>9. ASSUME NEW c \in Command, AcceptTemporary(c) PROVE Answered
  <2>. DEFINE w == <<Begin(c), Enter(c)>>
  <2>1. Temporary(c) /\ Becomes(w)
    BY <1>9 DEF AcceptTemporary
  <2>2. w \in Seq(Operation)
    BY <1>0, <2>1, Operations, ShortSequences
  <2>3. Len(w) = 2 /\ w[1] = Begin(c) /\ w[2] = Enter(c)
    OBVIOUS
  <2>. HIDE DEF w
  <2>4. PendingAt(w, 1)
    BY <2>3 DEF Begin, Enter, PendingAt, RefusalAt, EntryAt, StatusAt, TransferAt, Promotes, ReportAt
  <2>5. PendingAt(w, 2)
    BY <2>3 DEF Begin, Enter, PendingAt, RefusalAt, EntryAt, StatusAt, TransferAt, Promotes, ReportAt
  <2>6. \A i \in 1 .. Len(w) : PendingAt(w, i)
    BY <2>3, <2>4, <2>5
  <2>. QED  BY <1>3, <2>1, <2>2, <2>6
<1>10. ASSUME NEW c \in Command, AcceptNormal(c) PROVE Answered
  <2>1. ~Temporary(c)
    BY <1>0, <1>10 DEF AcceptNormal, Temporary
  <2>2. /\ Record(c, "completed") \in Harmless /\ Record(c, "accepted") \in Harmless
        /\ Queue(c, c, "normal", "completed") \in Harmless
        /\ Transition(c, "normal", "restoring") \in Harmless
        /\ Restore(TankOf[c], TRUE) \in Harmless
    BY <1>0, <1>4, <2>1, HarmlessOperations DEF Statuses, Phases
  <2>3. CASE ~Open(TankOf[c])
    BY <1>2, <1>10, <2>2, <2>3, ShortSequences DEF AcceptNormal
  <2>4. CASE Open(TankOf[c])
    BY <1>2, <1>10, <2>2, <2>4, ShortSequences DEF AcceptNormal
  <2>. QED  BY <2>3, <2>4
<1>11. ASSUME NEW c \in Command, FinishIgnored(c) PROVE Answered
  BY <1>2, <1>11, ShortSequences DEF FinishIgnored
<1>12. ASSUME NEW c \in Command, Kind[c] = "finish"
       PROVE  /\ \A s \in Statuses : Record(c, s) \in Harmless
              /\ \A p \in Phases : Transition(c, "normal", p) \in Harmless
              /\ \A p \in Phases, s \in Statuses : Queue(c, token[c].start, p, s) \in Harmless
              /\ Report(TankOf[c], "failed") \in Harmless
              /\ Resolve(TankOf[c]) \in Harmless /\ Remove(TankOf[c]) \in Harmless
              /\ Report(TankOf[c], "completed") \in Operation
  <2>1. ~Temporary(c)
    BY <1>0, <1>12 DEF Temporary
  <2>. QED  BY <1>0, <1>4, <2>1, HarmlessOperations, Operations DEF Statuses
<1>13. {"failed", "completed"} \subseteq Statuses /\ {"normal", "recovery_required"} \subseteq Phases
  BY DEF Statuses, Phases
<1>14. ASSUME NEW c \in Command, FinishAccepted(c) PROVE Answered
  <2>1. Kind[c] = "finish"
    BY <1>14 DEF FinishAccepted
  <2>2. CASE ~Open(TankOf[c])
    <3>. DEFINE rest == <<Queue(c, token[c].start, "normal", "completed"), Resolve(TankOf[c])>>
    <3>1. <<Record(c, "completed")>> \in Seq(Harmless) /\ rest \in Seq(Harmless)
      BY <1>12, <1>13, <2>1, ShortSequences
    <3>2. <<Record(c, "completed")>> \o rest \in Seq(Harmless)
      BY <3>1, ShortSequences
    <3>. QED  BY <1>2, <1>14, <2>2, <3>2 DEF FinishAccepted
  <2>3. CASE Open(TankOf[c])
    <3>. DEFINE t == TankOf[c]
                rest == <<Transition(c, "normal", "normal"), Report(t, "completed"),
                          Resolve(t), Remove(t)>>
                w == <<Record(c, "completed")>> \o rest
    <3>0. <<Record(c, "completed")>> \in Seq(Operation) /\ rest \in Seq(Operation)
      <4>1. \A op \in Harmless : op \in Operation
        BY DEF Harmless
      <4>. QED  BY <1>12, <1>13, <2>1, <4>1
    <3>1. w \in Seq(Operation)
      BY <3>0, ShortSequences
    <3>2. Becomes(w)
      BY <1>14, <2>3 DEF FinishAccepted
    <3>3. /\ Len(w) = 5 /\ w[1] = Record(c, "completed") /\ w[2] = Transition(c, "normal", "normal")
          /\ w[3] = Report(t, "completed") /\ w[4] = Resolve(t) /\ w[5] = Remove(t)
      BY <3>0, ConcatProperties
    <3>. HIDE DEF w
    <3>4. PendingAt(w, 1) /\ PendingAt(w, 2) /\ PendingAt(w, 4) /\ PendingAt(w, 5)
      BY <1>12, <1>13, <2>1, <3>3, HarmlessIsPending
    <3>5. /\ \A j \in 1 .. 3 - 1 : w[j].do \in ReportNames /\ Promotes(w[j])
          /\ 2 \in 1 .. 3 - 1 /\ w[2].do = "transition" /\ TankOf[w[2].cmd] = t
          /\ w[3].do = "report" /\ w[3].tank = t
      BY <1>0, <2>1, <3>3 DEF Record, Transition, Report, ReportNames, Promotes, Temporary
    <3>6. PendingAt(w, 3)
      BY <3>5 DEF PendingAt, RefusalAt, EntryAt, StatusAt, TransferAt, Promotes, ReportAt
    <3>7. \A i \in 1 .. Len(w) : PendingAt(w, i)
      BY <3>3, <3>4, <3>6
    <3>. QED  BY <1>3, <3>1, <3>2, <3>7
  <2>. QED  BY <2>2, <2>3
<1>15. ASSUME NEW c \in Command, FinishRefused(c) PROVE Answered
  <2>. DEFINE rest == IF Open(TankOf[c])
                      THEN <<Transition(c, "normal", "recovery_required"), Report(TankOf[c], "failed")>>
                      ELSE <<Queue(c, token[c].start, "recovery_required", "failed")>>
  <2>1. Kind[c] = "finish" /\ Becomes(<<Record(c, "failed")>> \o rest)
    BY <1>15 DEF FinishRefused
  <2>2. rest \in Seq(Harmless) /\ <<Record(c, "failed")>> \in Seq(Harmless)
    BY <1>12, <1>13, <2>1, ShortSequences
  <2>. HIDE DEF rest
  <2>3. <<Record(c, "failed")>> \o rest \in Seq(Harmless)
    BY <2>2, ShortSequences
  <2>. QED  BY <1>2, <2>1, <2>3
<1>. QED
  BY <1>5, <1>6, <1>7, <1>8, <1>9, <1>10, <1>11, <1>14, <1>15 DEF AcceptCommand

\* What an entry turns out to do
LEMMA EntriesProceed ==
    ASSUME AnswerInv, EntrySucceeds \/ EntryFails
    PROVE  Answered
<1>0. /\ todo \in Seq(Operation) /\ floor \in Nat /\ session \in [Tank -> Owned]
      /\ TankOf \in [Command -> Tank]
  BY ExchangeAssumption DEF AnswerInv, RecoveryInv, ExchangeInv, TypeInv, ExchangeTypeOK, FlowInv
<1>. DEFINE c == This.cmd
            t == TankOf[c]
<1>1. todo # <<>> /\ This = todo[1] /\ 1 \in 1 .. Len(todo) /\ This.do = "enter"
  BY <1>0 DEF EntrySucceeds, EntryFails, At, This
<1>2. c \in Command /\ Kind[c] \in Mode /\ t \in Tank
  BY <1>0, <1>1, Carries DEF Temporary
<1>3. status[c] # "none"
  <2>1. PendingAt(todo, 1)
    BY <1>1 DEF AnswerInv, PendingInv
  <2>. QED  BY <1>1, <2>1 DEF PendingAt, EntryAt
<1>4. \A u \in Tank : Open(u) /\ session[u].cmd = c => u = t
  BY DEF AnswerInv, RecoveryInv, TankInv
<1>5. {"failed", "completed"} \subseteq Statuses /\ {"active", "restoring"} \subseteq Phases
  BY DEF Statuses, Phases
<1>6. CASE EntrySucceeds
  <2>. DEFINE w == <<SetStatus(c, "completed"), SetSession(t, Kind[c], "active"), Report(t, "completed")>>
  <2>1. w \in Seq(Operation) /\ SetSession(t, Kind[c], "active") \in Harmless
    BY <1>0, <1>2, <1>5, Operations, HarmlessOperations, ShortSequences
  <2>2. Becomes(w)
    BY <1>6 DEF EntrySucceeds
  <2>3. /\ Len(w) = 3 /\ w[1] = SetStatus(c, "completed") /\ w[2] = SetSession(t, Kind[c], "active")
        /\ w[3] = Report(t, "completed")
    OBVIOUS
  <2>. HIDE DEF w, c, t
  <2>4. /\ w[1].do = "status" /\ w[1].cmd = c /\ w[1].status = "completed" /\ w[3].do = "report" /\ w[3].tank = t
        /\ Activates(w[2], t) /\ w[2].do = "set"
    BY <2>3 DEF SetStatus, SetSession, Report, Activates
  <2>5. PendingAt(w, 1)
    <3>1. StatusAt(w, 1)
      BY <1>3, <2>3, <2>4 DEF StatusAt, t
    <3>. QED  BY <2>4, <3>1 DEF PendingAt, RefusalAt, EntryAt, TransferAt, Promotes, ReportAt
  <2>6. PendingAt(w, 2)
    BY <2>1, <2>3, HarmlessIsPending
  <2>7. PendingAt(w, 3)
    <3>1. /\ \A j \in 1 .. 3 - 1 : w[j].do \in ReportNames /\ Promotes(w[j])
          /\ 2 \in 1 .. 3 - 1
      BY <2>4 DEF ReportNames, Promotes
    <3>2. ReportAt(w, 3)
      BY <2>4, <3>1 DEF ReportAt
    <3>. QED  BY <2>4, <3>2 DEF PendingAt, RefusalAt, EntryAt, StatusAt, TransferAt, Promotes
  <2>8. \A i \in 1 .. Len(w) : PendingAt(w, i)
    BY <2>3, <2>5, <2>6, <2>7
  <2>9. ASSUME NEW u \in Tank, Open(u), session[u].cmd = c PROVE EnteringBy(w, u)
    <3>1. 2 \in 1 .. Len(w) /\ Decides(w[2], u)
      BY <1>4, <2>3, <2>4, <2>9 DEF Decides
    <3>2. \A j \in 1 .. 2 - 1 : LeavesAlone(w[j], u)
      BY <2>4 DEF LeavesAlone
    <3>. QED  BY <3>1, <3>2 DEF EnteringBy
  <2>. QED  BY <1>1, <2>1, <2>2, <2>8, <2>9 DEF Proceeds, Answered, c
<1>7. CASE EntryFails
  <2>. DEFINE w == <<SetStatus(c, "failed"), SetSession(t, "normal", "restoring"),
                     Report(t, "failed"), Restore(t, TRUE)>>
  <2>1. /\ w \in Seq(Operation) /\ SetSession(t, "normal", "restoring") \in Harmless
        /\ Report(t, "failed") \in Harmless /\ Restore(t, TRUE) \in Harmless
    BY <1>0, <1>2, <1>5, Operations, HarmlessOperations, ShortSequences
  <2>2. Becomes(w)
    BY <1>7 DEF EntryFails
  <2>3. /\ Len(w) = 4 /\ w[1] = SetStatus(c, "failed") /\ w[2] = SetSession(t, "normal", "restoring")
        /\ w[3] = Report(t, "failed") /\ w[4] = Restore(t, TRUE)
    OBVIOUS
  <2>. HIDE DEF w, c, t
  <2>4. w[1].do = "status" /\ w[1].cmd = c /\ w[1].status = "failed"
    BY <2>3 DEF SetStatus
  <2>5. PendingAt(w, 1)
    BY <1>3, <2>4 DEF PendingAt, RefusalAt, EntryAt, StatusAt, TransferAt, Promotes, ReportAt
  <2>6. PendingAt(w, 2) /\ PendingAt(w, 3) /\ PendingAt(w, 4)
    BY <2>1, <2>3, HarmlessIsPending
  <2>7. \A i \in 1 .. Len(w) : PendingAt(w, i)
    BY <2>3, <2>5, <2>6
  <2>8. ASSUME NEW u \in Tank, Open(u), session[u].cmd = c PROVE EnteringBy(w, u)
    <3>1. 1 \in 1 .. Len(w) /\ Decides(w[1], u)
      BY <2>3, <2>4, <2>8 DEF Decides
    <3>. QED  BY <3>1 DEF EnteringBy
  <2>. QED  BY <1>1, <2>1, <2>2, <2>7, <2>8 DEF Proceeds, Answered, c
<1>. QED  BY <1>6, <1>7

\* What a refusal turns out to do
LEMMA RefusalsProceed ==
    ASSUME AnswerInv, RejectOrUnwind
    PROVE  Answered
<1>0. /\ todo \in Seq(Operation) /\ floor \in Nat /\ session \in [Tank -> Owned]
      /\ TankOf \in [Command -> Tank]
  BY ExchangeAssumption DEF AnswerInv, RecoveryInv, ExchangeInv, TypeInv, ExchangeTypeOK, FlowInv
<1>1. todo # <<>> /\ This = todo[1] /\ 1 \in 1 .. Len(todo) /\ This.do = "reject"
  BY <1>0 DEF RejectOrUnwind, At, This
<1>. PICK c \in Command, t \in Tank : c = This.cmd /\ t = TankOf[c]
  BY <1>0, <1>1, Carries
<1>2. c \in Anyone /\ session[t].start \in Anyone
  BY <1>0 DEF Anyone, Owned, Sessions
<1>3. status[c] = "none"
  <2>1. PendingAt(todo, 1)
    BY <1>1 DEF AnswerInv, PendingInv
  <2>. QED  BY <1>1, <2>1 DEF PendingAt, RefusalAt
<1>4. "failed" \in Statuses /\ {"normal", "recovery_required", "restoring"} \subseteq Phases
  BY DEF Statuses, Phases
<1>5. ASSUME NEW ops \in Seq(Harmless), Becomes(<<Record(c, "failed")>> \o ops) PROVE Answered
  <2>1. <<Record(c, "failed")>> \in Seq(Harmless)
    BY <1>0, <1>2, <1>4, HarmlessOperations, ShortSequences
  <2>2. <<Record(c, "failed")>> \o ops \in Seq(Harmless)
    BY <1>5, <2>1, ShortSequences
  <2>. QED  BY <1>1, <1>5, <2>2, HarmlessProceeds DEF Answered
<1>6. CASE ~Open(t)
  <2>1. <<Queue(c, c, "normal", "failed")>> \in Seq(Harmless)
    BY <1>0, <1>2, <1>4, HarmlessOperations, ShortSequences
  <2>. QED  BY <1>5, <1>6, <2>1 DEF RejectOrUnwind
<1>7. CASE Open(t) /\ session[t].phase = "recovery_required"
  <2>1. <<Queue(c, session[t].start, "recovery_required", "failed")>> \in Seq(Harmless)
    BY <1>0, <1>2, <1>4, HarmlessOperations, ShortSequences
  <2>. QED  BY <1>5, <1>7, <2>1 DEF RejectOrUnwind
<1>8. CASE Open(t) /\ session[t].phase # "recovery_required"
  <2>0. PICK w : w = <<Record(c, "failed")>> \o
                    <<Transition(c, "normal", "restoring"), Report(t, "failed"), Restore(t, TRUE)>>
    OBVIOUS
  <2>1. Becomes(w)
    BY <1>8, <2>0 DEF RejectOrUnwind
  <2>2. /\ Record(c, "failed") \in Harmless /\ Report(t, "failed") \in Harmless
        /\ Restore(t, TRUE) \in Harmless
    BY <1>0, <1>2, <1>4, HarmlessOperations
  <2>3. /\ Record(c, "failed") \in Operation /\ Transition(c, "normal", "restoring") \in Operation
        /\ Report(t, "failed") \in Operation /\ Restore(t, TRUE) \in Operation
    BY <1>0, <1>2, <1>4, Operations
  <2>4. /\ w \in Seq(Operation) /\ Len(w) = 4
        /\ w[1] = Record(c, "failed") /\ w[2] = Transition(c, "normal", "restoring")
        /\ w[3] = Report(t, "failed") /\ w[4] = Restore(t, TRUE)
    <3>1. PICK x1, x2, x3, x4 : /\ x1 = Record(c, "failed") /\ x2 = Transition(c, "normal", "restoring")
                                /\ x3 = Report(t, "failed") /\ x4 = Restore(t, TRUE)
      OBVIOUS
    <3>2. x1 \in Operation /\ x2 \in Operation /\ x3 \in Operation /\ x4 \in Operation
      BY <2>3, <3>1
    <3>3. w = <<x1>> \o <<x2, x3, x4>>
      BY <2>0, <3>1
    <3>4. w \in Seq(Operation) /\ Len(w) = 4 /\ w[1] = x1 /\ w[2] = x2 /\ w[3] = x3 /\ w[4] = x4
      BY <3>2, <3>3, OneAndThree
    <3>. QED  BY <3>1, <3>4
  <2>6. PendingAt(w, 1) /\ PendingAt(w, 3) /\ PendingAt(w, 4)
    BY <2>2, <2>4, HarmlessIsPending
  <2>7. /\ w[1].do = "record" /\ w[1].cmd = c /\ w[1].status = "failed"
        /\ w[2].do = "transition" /\ w[2].cmd = c
    BY <2>4 DEF Record, Transition
  <2>8. PendingAt(w, 2)
    BY <1>3, <2>7 DEF PendingAt, RefusalAt, EntryAt, StatusAt, TransferAt, ReportAt
  <2>9. \A i \in 1 .. Len(w) : PendingAt(w, i)
    BY <2>4, <2>6, <2>8
  <2>. QED  BY <1>1, <2>1, <2>4, <2>9 DEF Proceeds, Answered
<1>. QED  BY <1>6, <1>7, <1>8

\* What a complete restoration turns out to do
LEMMA CompletionsProceed ==
    ASSUME AnswerInv, RestoreComplete
    PROVE  Answered
<1>0. /\ todo \in Seq(Operation) /\ floor \in Nat /\ session \in [Tank -> Owned]
  BY ExchangeAssumption DEF AnswerInv, RecoveryInv, ExchangeInv, TypeInv, ExchangeTypeOK, FlowInv
<1>1. todo # <<>> /\ This = todo[1] /\ 1 \in 1 .. Len(todo) /\ This.do = "restore"
  BY <1>0 DEF RestoreComplete, At, This
<1>. PICK t \in Tank : t = This.tank
  BY <1>0, <1>1, Carries
<1>2. Open(t)
  BY DEF RestoreComplete
<1>. PICK c \in Command : c = session[t].cmd
  BY <1>0, <1>2 DEF Owned, Open
<1>3. status[c] = "failed" \/ Earned(c)
  <2>1. ~Entering(t)
    BY <1>1, <1>2, CallsEnter DEF CallNames
  <2>. QED  BY <1>2, <2>1 DEF AnswerInv, SessionInv
<1>4. {"failed", "completed"} \subseteq Statuses /\ "normal" \in Phases
  BY DEF Statuses, Phases
<1>5. PICK result : result = IF status[c] = "failed" THEN "failed" ELSE "completed"
  OBVIOUS
<1>6. PICK x0, x1, x2, x3 : /\ x0 = SetStatus(c, "completed") /\ x1 = SetSession(t, "normal", "normal")
                            /\ x2 = Report(t, result) /\ x3 = Remove(t)
  OBVIOUS
<1>7. /\ x0 \in Operation /\ x1 \in Operation /\ x2 \in Operation /\ x3 \in Operation
      /\ x1 \in Harmless /\ x3 \in Harmless
  <2>1. result \in Statuses
    BY <1>4, <1>5
  <2>. QED  BY <1>0, <1>4, <1>6, <2>1, Operations, HarmlessOperations
<1>8. /\ x0.do = "status" /\ x0.cmd = c /\ x0.status = "completed" /\ x1.do = "set" /\ x3.do = "remove"
      /\ x2.do = "report" /\ x2.tank = t /\ (x2.status = "completed" => Earned(session[t].cmd))
  BY <1>3, <1>5, <1>6 DEF SetStatus, SetSession, Report, Remove
<1>9. ASSUME NEW w, NEW i \in Nat, w[i] = x2, \A j \in 1 .. i - 1 : w[j].do \in {"status", "set"}
      PROVE  PendingAt(w, i)
  <2>1. ReportAt(w, i)
    BY <1>8, <1>9 DEF ReportAt, ReportNames, Promotes
  <2>. QED  BY <1>8, <1>9, <2>1 DEF PendingAt, RefusalAt, EntryAt, StatusAt, TransferAt, Promotes
<1>10. CASE status[c] = "accepted"
  <2>1. PICK w : w = <<x0>> \o <<x1, x2, x3>>
    OBVIOUS
  <2>2. Becomes(w)
    BY <1>5, <1>6, <1>10, <2>1 DEF RestoreComplete
  <2>3. w \in Seq(Operation) /\ Len(w) = 4 /\ w[1] = x0 /\ w[2] = x1 /\ w[3] = x2 /\ w[4] = x3
    BY <1>7, <2>1, OneAndThree
  <2>4. PendingAt(w, 1)
    BY <1>3, <1>8, <1>10, <2>3
       DEF PendingAt, RefusalAt, EntryAt, StatusAt, TransferAt, Promotes, ReportAt
  <2>5. PendingAt(w, 2) /\ PendingAt(w, 4)
    BY <1>7, <2>3, HarmlessIsPending
  <2>6. PendingAt(w, 3)
    <3>1. \A j \in 1 .. 3 - 1 : w[j].do \in {"status", "set"}
      BY <1>8, <2>3
    <3>. QED  BY <1>9, <2>3, <3>1
  <2>7. \A i \in 1 .. Len(w) : PendingAt(w, i)
    BY <2>3, <2>4, <2>5, <2>6
  <2>8. \A i \in 1 .. Len(w) : w[i].do \in {"set", "report", "remove", "status"}
    BY <1>8, <2>3
  <2>. QED  BY <1>1, <2>2, <2>3, <2>7, <2>8 DEF Proceeds, Restores, Answered
<1>11. CASE status[c] # "accepted"
  <2>1. PICK w : w = <<x1, x2, x3>>
    OBVIOUS
  <2>2. w \in Seq(Operation) /\ Len(w) = 3 /\ w[1] = x1 /\ w[2] = x2 /\ w[3] = x3
    BY <1>7, <2>1
  <2>3. Becomes(<<>> \o w)
    BY <1>5, <1>6, <1>11, <2>1 DEF RestoreComplete
  <2>4. Becomes(w)
    BY <2>2, <2>3, ConcatEmptySeq
  <2>5. PendingAt(w, 1) /\ PendingAt(w, 3)
    BY <1>7, <2>2, HarmlessIsPending
  <2>6. PendingAt(w, 2)
    <3>1. \A j \in 1 .. 2 - 1 : w[j].do \in {"status", "set"}
      BY <1>8, <2>2
    <3>. QED  BY <1>9, <2>2, <3>1
  <2>7. \A i \in 1 .. Len(w) : PendingAt(w, i)
    BY <2>2, <2>5, <2>6
  <2>8. \A i \in 1 .. Len(w) : w[i].do \in {"set", "report", "remove", "status"}
    BY <1>8, <2>2
  <2>. QED  BY <1>1, <2>2, <2>4, <2>7, <2>8 DEF Proceeds, Restores, Answered
<1>. QED  BY <1>10, <1>11

\* The steps of a tick, and a restoration that is not complete
LEMMA LoopsProceed ==
    ASSUME AnswerInv,
           \/ RestoreLater \/ LoopDone
           \/ \E phase \in {"restoring", "recovery_required"} : RestorePending(phase)
           \/ \E t \in Tank : \/ UnwindTank(t) \/ VisitGone(t) \/ VisitUnfinished(t)
                              \/ VisitActive(t) \/ VisitReplaced(t) \/ VisitSwitched(t)
                              \/ VisitSwitchedAgain(t) \/ VisitPending(t)
    PROVE  Answered
<1>0. /\ todo \in Seq(Operation) /\ floor \in Nat
      /\ session \in [Tank -> Owned] /\ status \in [Command -> Statuses]
  BY ExchangeAssumption DEF AnswerInv, RecoveryInv, ExchangeInv, TypeInv, ExchangeTypeOK, FlowInv
<1>1. ASSUME todo # <<>> PROVE This \in Operation
  BY <1>0, <1>1, RestOfWork DEF This
<1>2. ASSUME NEW ops \in Seq(Harmless), Becomes(ops), This.do # "enter",
             This.do = "unwind" => \A i \in 1 .. Len(ops) : ops[i].do \in UnwindNames,
             This.do = "restore" => \A i \in 1 .. Len(ops) : Restores(ops[i], This.tank)
      PROVE  Answered
  BY <1>2, HarmlessProceeds DEF Answered
<1>. HIDE DEF Answered
<1>3. ASSUME NEW t \in Tank
      PROVE  /\ session[t].mode \in Mode \cup {"normal"}
             /\ SetSession(t, "normal", "restoring") \in Harmless
             /\ \A p \in {"restoring", "recovery_required"} :
                    SetSession(t, session[t].mode, p) \in Harmless
             /\ Report(t, "failed") \in Harmless /\ Progress(t) \in Harmless
             /\ \A b \in BOOLEAN : Restore(t, b) \in Harmless
  <2>1. session[t].mode \in Mode \cup {"normal"}
    BY <1>0 DEF Owned, Sessions
  <2>. QED  BY <1>0, <2>1, HarmlessOperations DEF Statuses, Phases, Progress
<1>4. CASE RestoreLater \/ LoopDone
  <2>1. <<>> \in Seq(Harmless) /\ Becomes(<<>>) /\ This.do # "enter" /\ \A i \in 1 .. Len(<<>>) : FALSE
    BY <1>4 DEF RestoreLater, LoopDone, At, This
  <2>. QED  BY <1>2, <2>1
<1>5. ASSUME NEW phase \in {"restoring", "recovery_required"}, RestorePending(phase) PROVE Answered
  <2>1. todo # <<>> /\ This.do = "restore" /\ This.tank \in Tank
    BY <1>1, <1>5, Carries DEF RestorePending, At, This
  <2>2. PICK x1, x2 : x1 = SetSession(This.tank, session[This.tank].mode, phase) /\ x2 = Progress(This.tank)
    OBVIOUS
  <2>3. x1 \in Harmless /\ x2 \in Harmless /\ x1.do = "set" /\ x2.do = "report"
    BY <1>3, <2>1, <2>2 DEF SetSession, Progress, Report
  <2>4. Becomes(<<x1, x2>>) \/ Becomes(<<x1>>)
    BY <1>5, <2>2 DEF RestorePending
  <2>5. <<x1, x2>> \in Seq(Harmless) /\ <<x1>> \in Seq(Harmless)
    BY <2>3
  <2>6. /\ \A i \in 1 .. Len(<<x1, x2>>) : Restores(<<x1, x2>>[i], This.tank)
        /\ \A i \in 1 .. Len(<<x1>>) : Restores(<<x1>>[i], This.tank)
    BY <2>3 DEF Restores
  <2>. QED  BY <1>2, <2>1, <2>4, <2>5, <2>6
<1>6. ASSUME NEW t \in Tank, UnwindTank(t) PROVE Answered
  <2>1. todo # <<>> /\ This.do = "unwind" /\ This.tanks \subseteq Tank
    BY <1>1, <1>6, Carries DEF UnwindTank, At, This
  <2>2. PICK x1, x2, x3 : /\ x1 = SetSession(t, "normal", "restoring") /\ x2 = Restore(t, TRUE)
                          /\ x3 = Unwind(This.tanks \ {t})
    OBVIOUS
  <2>3. x1 \in Harmless /\ x2 \in Harmless /\ x3 \in Harmless
    BY <1>0, <1>3, <2>1, <2>2, HarmlessOperations
  <2>4. x1.do = "set" /\ x2.do = "restore" /\ x3.do = "unwind"
    BY <2>2 DEF SetSession, Restore, Unwind
  <2>5. <<x1, x2, x3>> \in Seq(Harmless) /\ Becomes(<<x1, x2, x3>>)
    <3>1. Becomes(<<x1, x2, x3>>)
      BY <1>6, <2>2, Zenon DEF UnwindTank
    <3>. QED  BY <2>3, <3>1
  <2>6. \A i \in 1 .. Len(<<x1, x2, x3>>) : <<x1, x2, x3>>[i].do \in UnwindNames
    BY <2>4 DEF UnwindNames
  <2>. QED  BY <1>2, <2>1, <2>5, <2>6
<1>7. ASSUME NEW t \in Tank, NEW ops \in Seq(Harmless), Visiting(t, ops) PROVE Answered
  <2>1. todo # <<>> /\ This.do = "visit" /\ This.tanks \subseteq Tank
    BY <1>1, <1>7, Carries DEF Visiting, At, This
  <2>2. <<Visit(This.tanks \ {t})>> \in Seq(Harmless)
    BY <1>0, <2>1, HarmlessOperations, ShortSequences
  <2>3. ops \o <<Visit(This.tanks \ {t})>> \in Seq(Harmless)
    BY <2>2, ShortSequences
  <2>. QED  BY <1>2, <1>7, <2>1, <2>3 DEF Visiting
<1>8. ASSUME NEW t \in Tank PROVE VisitGone(t) \/ VisitUnfinished(t) \/ VisitActive(t) => Answered
  BY <1>3, <1>7, ShortSequences DEF VisitGone, VisitUnfinished, VisitActive
<1>9. ASSUME NEW t \in Tank PROVE VisitReplaced(t) \/ VisitSwitched(t) \/ VisitPending(t) => Answered
  BY <1>3, <1>7, ShortSequences DEF VisitReplaced, VisitSwitched, VisitPending
<1>10. ASSUME NEW t \in Tank, VisitSwitchedAgain(t) PROVE Answered
  <2>1. This.do = "restore" /\ This = Restore(t, FALSE)
    BY <1>10 DEF VisitSwitchedAgain, At, This
  <2>2. PICK x1, x2 : /\ x1 = SetSession(t, session[t].mode, "recovery_required")
                      /\ x2 = Report(t, "failed")
    OBVIOUS
  <2>3. x1 \in Harmless /\ x2 \in Harmless /\ This \in Harmless
    BY <1>3, <2>1, <2>2
  <2>4. x1.do = "set" /\ x2.do = "report" /\ This.tank = t
    BY <2>1, <2>2 DEF SetSession, Report, Restore
  <2>5. Becomes(<<x1, x2, This>>) /\ <<x1, x2, This>> \in Seq(Harmless)
    <3>1. Becomes(<<x1, x2, This>>)
      BY <1>10, <2>2, Zenon DEF VisitSwitchedAgain
    <3>. QED  BY <2>3, <3>1
  <2>6. \A i \in 1 .. Len(<<x1, x2, This>>) : Restores(<<x1, x2, This>>[i], This.tank)
    <3>1. Restores(x1, This.tank) /\ Restores(x2, This.tank) /\ Restores(This, This.tank)
      BY <2>1, <2>4 DEF Restores
    <3>. QED  BY <3>1
  <2>. QED  BY <1>2, <2>1, <2>5, <2>6
<1>. QED  BY <1>4, <1>5, <1>6, <1>8, <1>9, <1>10

\* An entry lets another tank restore what is due there
LEMMA VisitsGuard ==
    ASSUME AnswerInv, NEW t \in Tank, EntryVisits(t)
    PROVE  CompletedWasActive' /\ SessionInv' /\ PendingInv'
<1>0. /\ todo \in Seq(Operation) /\ 1 \in 1 .. Len(todo) /\ This = todo[1] /\ floor \in Nat
      /\ todo # <<>> /\ This.do = "enter" /\ t # TankOf[This.cmd]
  BY DEF AnswerInv, RecoveryInv, ExchangeInv, TypeInv, ExchangeTypeOK, FlowInv, EntryVisits, At, This
<1>1. PICK ops : ops = <<Restore(t, FALSE)>>
  OBVIOUS
<1>2. todo' = ops \o todo /\ UNCHANGED <<store, wire, waterlog, history>>
  BY <1>1 DEF EntryVisits
<1>3. /\ ops \in Seq(Operation) /\ Len(ops) = 1 /\ ops[1] \in Harmless
      /\ ops[1].do = "restore" /\ ops[1].tank = t
  <2>1. PICK x : x = Restore(t, FALSE)
    OBVIOUS
  <2>2. x \in Operation /\ x \in Harmless
    BY <1>0, <2>1, Operations, HarmlessOperations
  <2>3. x.do = "restore" /\ x.tank = t
    BY <2>1 DEF Restore
  <2>4. ops = <<x>>
    BY <1>1, <2>1
  <2>. QED  BY <2>2, <2>3, <2>4
<1>4. \A i \in 1 .. Len(ops) : PendingAt(ops, i)
  BY <1>3, HarmlessIsPending
<1>5. ASSUME NEW k \in 1 .. Len(todo) PROVE WaitingAt(todo, k) /\ todo[k].do # "reject"
  <2>1. CASE k = 1
    <3>1. PendingAt(todo, 1)
      BY <1>0 DEF AnswerInv, PendingInv
    <3>. QED  BY <1>0, <2>1, <3>1 DEF WaitingAt, PendingAt, EntryAt, RefusalAt, Promotes
  <2>2. CASE k # 1
    <3>1. WaitingAt(todo, k)
      BY <1>0, <2>2, CallWaits DEF CallNames, This
    <3>2. 1 \in 1 .. k - 1
      BY <1>0, <2>2
    <3>. QED  BY <1>0, <3>1, <3>2 DEF WaitingAt, RefusalAt, UnwindNames
  <2>. QED  BY <2>1, <2>2
<1>6. PendingInv'
  <2>1. \A i \in 1 .. Len(todo') : PendingAt(todo', i)
    BY <1>0, <1>2, <1>3, <1>4, <1>5, Joined
  <2>2. \A w, i : PendingAt(w, i)' = PendingAt(w, i)
    BY <1>2, NothingRecorded
  <2>. HIDE DEF PendingAt
  <2>. QED  BY <2>1, <2>2 DEF PendingInv
<1>7. ASSUME NEW u \in Tank, Open(u), Entering(u) PROVE EnteringBy(todo', u)
  <2>1. session[u].cmd = This.cmd
    BY <1>0, <1>7, CallsEnter DEF CallNames
  <2>2. u # t
    BY <1>0, <1>7, <2>1 DEF AnswerInv, RecoveryInv, TankInv
  <2>3. \A i \in 1 .. Len(ops) : LeavesAlone(ops[i], u)
    BY <1>3, <2>2 DEF LeavesAlone
  <2>. QED  BY <1>0, <1>2, <1>3, <1>7, <2>3, EntryLater DEF Entering
<1>. QED  BY <1>2, <1>6, <1>7, NothingRecorded

LEMMA CallsGuard ==
    ASSUME AnswerInv, Call
    PROVE  CompletedWasActive' /\ SessionInv' /\ PendingInv'
<1>0. todo \in Seq(Operation)
  BY DEF AnswerInv, RecoveryInv, ExchangeInv, FlowInv
<1>1. todo # <<>> /\ This.do \in CallNames
  BY CallsArePlain DEF AnswerInv, PlainCall, FinishAccepted, New, At, This, CallNames
<1>2. CASE Answered
  BY <1>1, <1>2, CallsProceed DEF Answered
<1>3. CASE Unreadable
  <2>1. todo' = <<>> /\ This.do = "accept" /\ UNCHANGED <<store, wire, waterlog, history>>
    BY <1>3 DEF Unreadable, At, This
  <2>2. PendingInv'
    BY <2>1 DEF PendingInv
  <2>3. \A t \in Tank : Open(t) => ~Entering(t)
    BY <1>1, <2>1, CallsEnter
  <2>. QED  BY <2>1, <2>2, <2>3, NothingRecorded
<1>4. CASE AcceptCommand
  BY <1>2, <1>3, <1>4, AcceptsProceed
<1>5. CASE EntrySucceeds \/ EntryFails
  BY <1>2, <1>5, EntriesProceed
<1>6. CASE RejectOrUnwind
  BY <1>2, <1>6, RefusalsProceed
<1>7. CASE RestoreComplete
  BY <1>2, <1>7, CompletionsProceed
<1>8. ASSUME \/ RestoreLater \/ LoopDone
             \/ \E phase \in {"restoring", "recovery_required"} : RestorePending(phase)
             \/ \E t \in Tank : \/ UnwindTank(t) \/ VisitGone(t) \/ VisitUnfinished(t)
                                \/ VisitActive(t) \/ VisitReplaced(t) \/ VisitSwitched(t)
                                \/ VisitSwitchedAgain(t) \/ VisitPending(t)
      PROVE  Answered
  BY <1>8, LoopsProceed
<1>9. \A t \in Tank : EntryVisits(t) => CompletedWasActive' /\ SessionInv' /\ PendingInv'
  BY VisitsGuard
<1>. QED  BY <1>2, <1>4, <1>5, <1>6, <1>7, <1>8, <1>9 DEF Call

-------------------------------------------------------------------------------
(* Transactions keep the invariant. *)


\* The transaction at hand is done.  What is recorded of a command stays, but for
\* its status, and only transactions that record something of a command touch it
StatusesChange ==
    \A c \in Command :
        /\ status[c] # "none" => status'[c] # "none"
        /\ This.do \in UnwindNames /\ status[c] = "none" => status'[c] = "none"
        /\ status[c] = "failed" => status'[c] = "failed" \/ This.do \in {"status", "begin"}
        /\ This.do = "begin" /\ This.cmd = c => status'[c] # "none"
        /\ This.do = "record" /\ This.cmd = c /\ This.status = "failed" /\ status[c] = "none"
               => status'[c] = "failed"

\* Before a report of completion, sessions are only given to commands whose mode
\* is active
SessionsChange ==
    This.do \in ReportNames /\ Promotes(This) =>
        \A t \in Tank :
            /\ Open(t)' => Open(t)
            /\ Open(t)' => session'[t].cmd = session[t].cmd \/ Earned(session[t].cmd)'
            /\ Open(t)' /\ Activates(This, t) => Earned(session[t].cmd)'
            /\ Open(t)' /\ This.do = "transition" /\ TankOf[This.cmd] = t => Earned(session[t].cmd)'

Shifts ==
    /\ todo # <<>> /\ todo' = Tail(todo)
    /\ entered \subseteq entered'
    /\ StatusesChange /\ SessionsChange

LEMMA ShiftsKeepPending ==
    ASSUME AnswerInv, Shifts
    PROVE  PendingInv'
<1>0. /\ todo \in Seq(Operation) /\ Tail(todo) \in Seq(Operation) /\ todo # <<>>
      /\ 1 \in 1 .. Len(todo) /\ This = todo[1] /\ todo' = Tail(todo)
  BY RestOfWork DEF AnswerInv, RecoveryInv, ExchangeInv, FlowInv, Shifts, This
<1>1. ASSUME NEW i \in 1 .. Len(todo')
      PROVE  /\ i + 1 \in 1 .. Len(todo) /\ todo'[i] = todo[i + 1] /\ i + 1 # 1 /\ i \in Nat
             /\ PendingAt(todo, i + 1) /\ todo[i + 1] \in Operation
             /\ \A j \in 1 .. i - 1 : j + 1 \in 1 .. (i + 1) - 1 /\ todo'[j] = todo[j + 1]
             /\ 1 \in 1 .. (i + 1) - 1
  <2>1. \A k \in 1 .. Len(Tail(todo)) : k + 1 \in 1 .. Len(todo) /\ Tail(todo)[k] = todo[k + 1]
    BY <1>0, Shortened
  <2>2. Len(Tail(todo)) \in Nat /\ Len(todo) \in Nat /\ i \in 1 .. Len(Tail(todo))
    BY <1>0
  <2>3. \A j \in 1 .. i - 1 : j \in 1 .. Len(Tail(todo)) /\ j + 1 \in 1 .. (i + 1) - 1
    BY <2>2
  <2>4. PendingAt(todo, i + 1) /\ todo[i + 1] \in Operation
    BY <1>0, <2>1, <2>2 DEF AnswerInv, PendingInv
  <2>5. i + 1 # 1 /\ i \in Nat /\ 1 \in 1 .. (i + 1) - 1
    BY <2>2
  <2>. QED  BY <1>0, <2>1, <2>2, <2>3, <2>4, <2>5
<1>2. ASSUME NEW i \in 1 .. Len(todo') PROVE RefusalAt(todo, i + 1) => RefusalAt(todo, i)'
  <2>1. todo[i + 1].do = "reject" => todo[i + 1].cmd \in Command
    BY <1>1, Carries
  <2>. QED  BY <1>0, <1>1, <2>1 DEF RefusalAt, Shifts, StatusesChange
<1>3. ASSUME NEW i \in 1 .. Len(todo') PROVE EntryAt(todo, i)'
  <2>1. todo[i + 1].do = "enter" => todo[i + 1].cmd \in Command
    BY <1>1, Carries
  <2>2. EntryAt(todo, i + 1)
    BY <1>1 DEF PendingAt
  <2>3. todo[i + 1].do = "enter" => status'[todo[i + 1].cmd] # "none"
    BY <1>0, <2>1, <2>2 DEF EntryAt, Shifts, StatusesChange
  <2>. QED  BY <1>1, <2>2, <2>3 DEF EntryAt
<1>4. ASSUME NEW i \in 1 .. Len(todo') PROVE StatusAt(todo, i)'
  BY <1>1 DEF PendingAt, StatusAt
<1>5. ASSUME NEW i \in 1 .. Len(todo') PROVE TransferAt(todo, i)'
  <2>1. todo[i + 1].do = "transition" => todo[i + 1].cmd \in Command
    BY <1>1, Carries
  <2>2. TransferAt(todo, i + 1)
    BY <1>1 DEF PendingAt
  <2>3. CASE Promotes(todo[i + 1])
    BY <1>1, <2>3 DEF TransferAt, Promotes, Temporary
  <2>4. CASE /\ i + 1 = 2 /\ status[todo[i + 1].cmd] = "none"
             /\ todo[1].do = "record" /\ todo[1].cmd = todo[2].cmd /\ todo[1].status = "failed"
    <3>1. i = 1 /\ (todo[i + 1].do = "transition" => status'[todo[i + 1].cmd] = "failed")
      BY <1>0, <1>1, <2>1, <2>4 DEF Shifts, StatusesChange
    <3>. QED  BY <1>1, <3>1 DEF TransferAt, Promotes
  <2>. QED  BY <1>1, <2>2, <2>3, <2>4 DEF TransferAt
<1>6. ASSUME NEW i \in 1 .. Len(todo') PROVE ReportAt(todo, i)'
  <2>1. ReportAt(todo, i + 1)
    BY <1>1 DEF PendingAt
  <2>2. todo'[i].do = "queue" /\ todo'[i].status = "completed" => ~Temporary(todo'[i].cmd)
    BY <1>1, <2>1 DEF ReportAt
  <2>3. ASSUME todo'[i].do = "report", todo'[i].status = "completed", NEW t \in Tank, t = todo'[i].tank
        PROVE  /\ \A j \in 1 .. i - 1 : todo'[j].do \in ReportNames /\ Promotes(todo'[j])
               /\ \/ Open(t)' => Earned(session[t].cmd)'
                  \/ \E j \in 1 .. i - 1 :
                         \/ Activates(todo'[j], t)
                         \/ todo'[j].do = "transition" /\ TankOf[todo'[j].cmd] = t
    <3>1. /\ \A j \in 1 .. (i + 1) - 1 : todo[j].do \in ReportNames /\ Promotes(todo[j])
          /\ \/ Open(t) => Earned(session[t].cmd)
             \/ \E j \in 1 .. (i + 1) - 1 :
                    \/ Activates(todo[j], t)
                    \/ todo[j].do = "transition" /\ TankOf[todo[j].cmd] = t
      BY <1>1, <2>1, <2>3 DEF ReportAt
    <3>2. \A j \in 1 .. i - 1 : todo'[j].do \in ReportNames /\ Promotes(todo'[j])
      BY <1>1, <3>1
    <3>3. This.do \in ReportNames /\ Promotes(This)
      BY <1>0, <1>1, <3>1
    <3>4. /\ Open(t)' => Open(t) /\ (session'[t].cmd = session[t].cmd \/ Earned(session[t].cmd)')
          /\ Open(t)' /\ Activates(This, t) => Earned(session[t].cmd)'
          /\ Open(t)' /\ This.do = "transition" /\ TankOf[This.cmd] = t => Earned(session[t].cmd)'
      BY <3>3 DEF Shifts, SessionsChange
    <3>5. CASE Open(t) => Earned(session[t].cmd)
      BY <3>2, <3>4, <3>5 DEF Earned, Shifts
    <3>6. ASSUME NEW j \in 1 .. (i + 1) - 1,
                 Activates(todo[j], t) \/ (todo[j].do = "transition" /\ TankOf[todo[j].cmd] = t)
          PROVE  \/ Open(t)' => Earned(session[t].cmd)'
                 \/ \E k \in 1 .. i - 1 :
                        \/ Activates(todo'[k], t)
                        \/ todo'[k].do = "transition" /\ TankOf[todo'[k].cmd] = t
      <4>1. CASE j = 1
        BY <1>0, <3>4, <3>6, <4>1
      <4>2. CASE j # 1
        <5>1. j - 1 \in 1 .. i - 1 /\ (j - 1) + 1 = j
          BY <1>1, <4>2
        <5>2. todo'[j - 1] = todo[j]
          BY <1>1, <5>1
        <5>. QED  BY <3>6, <5>1, <5>2
      <4>. QED  BY <4>1, <4>2
    <3>. QED  BY <3>1, <3>2, <3>5, <3>6
  <2>4. todo'[i].do = "report" => todo'[i].tank \in Tank
    BY <1>1, Carries
  <2>5. \A op, t : Activates(op, t)' = Activates(op, t) /\ Promotes(op)' = Promotes(op)
    BY DEF Activates, Promotes, Temporary
  <2>. QED  BY <2>2, <2>3, <2>4, <2>5 DEF ReportAt, Temporary, Activates, Promotes
<1>7. \A i \in 1 .. Len(todo') : PendingAt(todo, i)'
  BY <1>1, <1>2, <1>3, <1>4, <1>5, <1>6 DEF PendingAt
<1>. QED  BY <1>7 DEF PendingInv

\* The command of tank t stays as it was, and is still to be entered if it was
Stays(t) ==
    /\ Open(t) /\ session'[t].cmd = session[t].cmd /\ ~Decides(This, t)
    /\ status[session[t].cmd] = "failed" => status'[session[t].cmd] = "failed"

LEMMA ShiftsKeepSessions ==
    ASSUME AnswerInv, Shifts,
           \A t \in Tank : Open(t)' => \/ Stays(t)
                                      \/ Earned(session[t].cmd)'
                                      \/ status'[session'[t].cmd] = "failed"
                                      \/ Entering(t)'
    PROVE  SessionInv'
<1>0. todo \in Seq(Operation) /\ todo # <<>> /\ todo' = Tail(todo) /\ This = todo[1]
  BY DEF AnswerInv, RecoveryInv, ExchangeInv, FlowInv, Shifts, This
<1>1. ASSUME NEW t \in Tank, Open(t)', Stays(t)
      PROVE  \/ Earned(session[t].cmd)' \/ status'[session'[t].cmd] = "failed" \/ Entering(t)'
  <2>1. Earned(session[t].cmd) \/ status[session[t].cmd] = "failed" \/ Entering(t)
    BY <1>1 DEF AnswerInv, SessionInv, Stays
  <2>2. CASE Earned(session[t].cmd)
    BY <1>1, <2>2 DEF Stays, Earned, Shifts
  <2>3. CASE status[session[t].cmd] = "failed"
    BY <1>1, <2>3 DEF Stays
  <2>4. CASE Entering(t)
    <3>1. EnteringBy(Tail(todo), t)
      BY <1>0, <1>1, <2>4, EntryNext DEF Stays, Entering
    <3>2. EnteringBy(todo, t)' <=> EnteringBy(Tail(todo), t)
      BY <1>0, <1>1 DEF Stays, EnteringBy, Decides, Activates, LeavesAlone
    <3>. QED  BY <3>1, <3>2 DEF Entering
  <2>. QED  BY <2>1, <2>2, <2>3, <2>4
<1>. QED  BY <1>1 DEF SessionInv

\* Reports go, or a report that is true is added
LEMMA TruthKept ==
    ASSUME AnswerInv, entered \subseteq entered',
           \A r \in outbox' \ outbox : r.status = "completed" => Earned(r.cmd)
    PROVE  CompletedWasActive'
BY DEF AnswerInv, CompletedWasActive, Earned, Temporary

QuietNames == {"remove", "resolve", "queue", "report", "advance", "acknowledge", "replace", "install"}

\* A transaction that records nothing of a command and activates nothing
LEMMA QuietGuards ==
    ASSUME AnswerInv, todo # <<>>, todo' = Tail(todo), UNCHANGED <<status, entered>>, This.do \in QuietNames,
           \A t \in Tank : Open(t)' => Open(t) /\ session'[t].cmd = session[t].cmd,
           \A r \in outbox' \ outbox : r.status = "completed" => Earned(r.cmd)
    PROVE  CompletedWasActive' /\ SessionInv' /\ PendingInv'
<1>1. Shifts
  <2>1. StatusesChange
    BY DEF StatusesChange, QuietNames
  <2>2. This.do \in ReportNames => This.do \in {"record", "status", "set", "transition"}
    BY DEF ReportNames
  <2>3. SessionsChange
    BY <2>2 DEF SessionsChange, QuietNames
  <2>. QED  BY <2>1, <2>3 DEF Shifts
<1>2. \A t \in Tank : Open(t)' => Stays(t)
  BY DEF Stays, Decides, Activates, QuietNames
<1>3. CompletedWasActive'
  BY TruthKept
<1>. QED  BY <1>1, <1>2, <1>3, ShiftsKeepPending, ShiftsKeepSessions

LEMMA RecordGuards ==
    ASSUME AnswerInv, RecordCommand
    PROVE  CompletedWasActive' /\ SessionInv' /\ PendingInv'
<1>1. /\ todo # <<>> /\ This.do = "record" /\ todo' = Tail(todo)
      /\ UNCHANGED <<session, outbox, entered>>
      /\ status' = [status EXCEPT ![This.cmd] = IF @ = "none" THEN This.status ELSE @]
  BY DEF RecordCommand, At, This, Done
<1>2. /\ status \in [Command -> Statuses] /\ session \in [Tank -> Owned]
      /\ This \in Operation
  BY <1>1, RestOfWork DEF AnswerInv, RecoveryInv, ExchangeInv, TypeInv, ExchangeTypeOK, FlowInv, This
<1>3. This.cmd \in Command /\ This.status \in Statuses
  BY <1>1, <1>2, Carries
<1>4. \A c \in Command : status'[c] = IF c = This.cmd /\ status[c] = "none" THEN This.status ELSE status[c]
  BY <1>1, <1>2, <1>3
<1>5. Shifts
  <2>1. StatusesChange
    <3>1. \A c \in Command : status[c] # "none" => status'[c] = status[c]
      BY <1>4
    <3>. QED  BY <1>1, <1>4, <3>1 DEF StatusesChange, UnwindNames
  <2>2. SessionsChange
    BY <1>1 DEF SessionsChange, Open, Activates
  <2>. QED  BY <1>1, <2>1, <2>2 DEF Shifts
<1>6. ASSUME NEW t \in Tank, Open(t)' PROVE Stays(t)
  <2>1. Open(t) /\ session'[t].cmd = session[t].cmd /\ session[t].cmd \in Command
    BY <1>1, <1>2, <1>6 DEF Open, Owned
  <2>2. ~Decides(This, t)
    BY <1>1 DEF Decides, Activates
  <2>. QED  BY <1>4, <2>1, <2>2 DEF Stays
<1>7. CompletedWasActive'
  BY <1>1, TruthKept
<1>. QED  BY <1>5, <1>6, <1>7, ShiftsKeepPending, ShiftsKeepSessions

LEMMA StatusGuards ==
    ASSUME AnswerInv, SetCommandStatus
    PROVE  CompletedWasActive' /\ SessionInv' /\ PendingInv'
<1>1. /\ todo # <<>> /\ This.do = "status" /\ todo' = Tail(todo)
      /\ UNCHANGED <<session, outbox, entered>>
      /\ status' = [status EXCEPT ![This.cmd] = This.status]
  BY DEF SetCommandStatus, At, This, Done, history
<1>2. /\ status \in [Command -> Statuses] /\ session \in [Tank -> Owned]
      /\ todo \in Seq(Operation) /\ This \in Operation /\ This = todo[1] /\ 1 \in 1 .. Len(todo)
  BY <1>1, RestOfWork DEF AnswerInv, RecoveryInv, ExchangeInv, TypeInv, ExchangeTypeOK, FlowInv, This
<1>. PICK c \in Command : c = This.cmd
  BY <1>1, <1>2, Carries
<1>3. \A d \in Command : status'[d] = IF d = c THEN This.status ELSE status[d]
  BY <1>1, <1>2
<1>4. StatusAt(todo, 1)
  BY <1>2 DEF AnswerInv, PendingInv, PendingAt
<1>5. Shifts
  <2>1. StatusesChange
    BY <1>1, <1>2, <1>3, <1>4 DEF StatusesChange, StatusAt
  <2>2. SessionsChange
    BY <1>1 DEF SessionsChange, Open, Activates
  <2>. QED  BY <1>1, <2>1, <2>2 DEF Shifts
<1>6. ASSUME NEW t \in Tank, Open(t)'
      PROVE  \/ Stays(t) \/ Earned(session[t].cmd)' \/ status'[session'[t].cmd] = "failed" \/ Entering(t)'
  <2>1. Open(t) /\ session'[t].cmd = session[t].cmd /\ session[t].cmd \in Command
    BY <1>1, <1>2, <1>6 DEF Open, Owned
  <2>2. CASE session[t].cmd # c
    <3>1. ~Decides(This, t)
      BY <1>1, <2>2 DEF Decides, Activates
    <3>. QED  BY <1>3, <2>1, <2>2, <3>1 DEF Stays
  <2>3. CASE session[t].cmd = c /\ This.status = "failed"
    BY <1>3, <2>1, <2>3
  <2>4. CASE session[t].cmd = c /\ Earned(c)
    BY <1>1, <2>1, <2>4 DEF Earned, Temporary
  <2>5. CASE session[t].cmd = c /\ 2 \in 1 .. Len(todo) /\ Activates(todo[2], TankOf[c])
    <3>1. TankOf[c] = t
      BY <2>1, <2>5 DEF AnswerInv, RecoveryInv, TankInv
    <3>2. 1 \in 1 .. Len(todo') /\ todo'[1] = todo[2]
      BY <1>1, <1>2, <2>5
    <3>3. 1 \in 1 .. Len(todo') /\ Decides(todo[1], t)'
      BY <2>5, <3>1, <3>2 DEF Decides, Activates
    <3>4. EnteringBy(todo, t)'
      BY <3>3 DEF EnteringBy
    <3>. QED  BY <3>4 DEF Entering
  <2>. QED  BY <1>1, <1>2, <1>4, <2>2, <2>3, <2>4, <2>5 DEF StatusAt
<1>7. CompletedWasActive'
  BY <1>1, TruthKept
<1>. QED  BY <1>5, <1>6, <1>7, ShiftsKeepPending, ShiftsKeepSessions

LEMMA SessionBeginGuards ==
    ASSUME AnswerInv, BeginSession
    PROVE  CompletedWasActive' /\ SessionInv' /\ PendingInv'
<1>1. /\ todo # <<>> /\ This.do = "begin" /\ todo' = Tail(todo) /\ UNCHANGED <<outbox, entered>>
  BY DEF BeginSession, At, This, Done, history
<1>2. /\ status \in [Command -> Statuses] /\ session \in [Tank -> Owned]
      /\ TankOf \in [Command -> Tank]
      /\ todo \in Seq(Operation) /\ This \in Operation /\ This = todo[1] /\ 1 \in 1 .. Len(todo)
  BY <1>1, RestOfWork, ExchangeAssumption
     DEF AnswerInv, RecoveryInv, ExchangeInv, TypeInv, ExchangeTypeOK, FlowInv, This
<1>. PICK c \in Command : c = This.cmd
  BY <1>1, <1>2, Carries
<1>3. /\ \A d \in Command : status'[d] = IF d = c THEN "accepted" ELSE status[d]
      /\ \A t \in Tank : t # TankOf[c] => session'[t] = session[t]
      /\ session'[TankOf[c]].cmd = c
  BY <1>2 DEF BeginSession
<1>4. 2 \in 1 .. Len(todo) /\ todo[2].do = "enter" /\ todo[2].cmd = c
  BY <1>1, <1>2 DEF AnswerInv, PendingInv, PendingAt, EntryAt
<1>5. Shifts
  <2>1. StatusesChange
    BY <1>1, <1>3 DEF StatusesChange, UnwindNames
  <2>2. SessionsChange
    BY <1>1 DEF SessionsChange, ReportNames
  <2>. QED  BY <1>1, <2>1, <2>2 DEF Shifts
<1>6. ASSUME NEW t \in Tank, Open(t)' PROVE Stays(t) \/ Entering(t)'
  <2>1. CASE t = TankOf[c]
    <3>1. 1 \in 1 .. Len(todo') /\ todo'[1] = todo[2]
      BY <1>1, <1>2, <1>4
    <3>2. Decides(todo[1], t)'
      BY <1>3, <1>4, <2>1, <3>1 DEF Decides
    <3>3. EnteringBy(todo, t)'
      BY <3>1, <3>2 DEF EnteringBy
    <3>. QED  BY <3>3 DEF Entering
  <2>2. CASE t # TankOf[c]
    <3>1. session'[t] = session[t] /\ Open(t) /\ session[t].cmd \in Command
      BY <1>2, <1>3, <1>6, <2>2 DEF Open, Owned
    <3>2. session[t].cmd # c
      BY <2>2, <3>1 DEF AnswerInv, RecoveryInv, TankInv
    <3>3. ~Decides(This, t)
      BY <1>1 DEF Decides, Activates
    <3>. QED  BY <1>3, <3>1, <3>2, <3>3 DEF Stays
  <2>. QED  BY <2>1, <2>2
<1>7. CompletedWasActive'
  BY <1>1, TruthKept
<1>. QED  BY <1>5, <1>6, <1>7, ShiftsKeepPending, ShiftsKeepSessions

LEMMA TransferGuards ==
    ASSUME AnswerInv, TransitionSession
    PROVE  CompletedWasActive' /\ SessionInv' /\ PendingInv'
<1>1. /\ todo # <<>> /\ This.do = "transition" /\ todo' = Tail(todo) /\ UNCHANGED <<outbox, status>>
      /\ entered' = IF This.phase = "active" THEN entered \cup {This.cmd} ELSE entered
  BY DEF TransitionSession, At, This, Done
<1>2. /\ session \in [Tank -> Owned] /\ TankOf \in [Command -> Tank]
      /\ todo \in Seq(Operation) /\ This \in Operation /\ This = todo[1] /\ 1 \in 1 .. Len(todo)
  BY <1>1, RestOfWork, ExchangeAssumption
     DEF AnswerInv, RecoveryInv, ExchangeInv, TypeInv, ExchangeTypeOK, FlowInv, This
<1>. PICK c \in Command : c = This.cmd
  BY <1>1, <1>2, Carries
<1>3. /\ \A t \in Tank : t # TankOf[c] => session'[t] = session[t]
      /\ Open(TankOf[c])' => Open(TankOf[c]) /\ session'[TankOf[c]].cmd = c
  <2>1. CASE Open(TankOf[c])
    <3>. PICK t \in Tank : t = TankOf[c]
      BY <1>2
    <3>1. session' = [session EXCEPT ![t].cmd = c, ![t].mode = This.mode, ![t].phase = This.phase]
      BY <2>1 DEF TransitionSession
    <3>2. session[t] \in Sessions
      BY <1>2 DEF Owned
    <3>3. session'[t] = [session[t] EXCEPT !.cmd = c, !.mode = This.mode, !.phase = This.phase]
      BY <1>2, <3>1
    <3>4. session'[t].cmd = c
      BY <3>2, <3>3 DEF Sessions
    <3>. QED  BY <1>2, <2>1, <3>1, <3>4
  <2>2. CASE ~Open(TankOf[c])
    BY <1>2, <2>2 DEF TransitionSession, Open
  <2>. QED  BY <2>1, <2>2
<1>4. Promotes(This) => Earned(c)'
  BY <1>1 DEF Promotes, Earned
<1>5. Promotes(This) \/ status[c] = "failed"
  BY <1>1, <1>2 DEF AnswerInv, PendingInv, PendingAt, TransferAt
<1>6. Shifts
  <2>1. StatusesChange
    BY <1>1 DEF StatusesChange
  <2>2. SessionsChange
    <3>1. ASSUME Promotes(This), NEW t \in Tank, Open(t)'
          PROVE  /\ Open(t)
                 /\ session'[t].cmd = session[t].cmd \/ Earned(session[t].cmd)'
                 /\ ~Activates(This, t)
                 /\ TankOf[c] = t => Earned(session[t].cmd)'
      <4>1. CASE t = TankOf[c]
        BY <1>1, <1>3, <1>4, <3>1, <4>1 DEF Earned, Activates
      <4>2. CASE t # TankOf[c]
        BY <1>1, <1>3, <3>1, <4>2 DEF Open, Activates
      <4>. QED  BY <4>1, <4>2
    <3>. QED  BY <3>1 DEF SessionsChange
  <2>. QED  BY <1>1, <2>1, <2>2 DEF Shifts
<1>7. ASSUME NEW t \in Tank, Open(t)'
      PROVE  Stays(t) \/ Earned(session[t].cmd)' \/ status'[session'[t].cmd] = "failed"
  <2>1. CASE t = TankOf[c]
    BY <1>1, <1>3, <1>4, <1>5, <1>7, <2>1 DEF Earned
  <2>2. CASE t # TankOf[c]
    BY <1>1, <1>3, <1>7, <2>2 DEF Stays, Open, Decides, Activates
  <2>. QED  BY <2>1, <2>2
<1>8. CompletedWasActive'
  BY <1>1, TruthKept
<1>. QED  BY <1>6, <1>7, <1>8, ShiftsKeepPending, ShiftsKeepSessions

LEMMA PhaseGuards ==
    ASSUME AnswerInv, SetPhase
    PROVE  CompletedWasActive' /\ SessionInv' /\ PendingInv'
<1>1. /\ todo # <<>> /\ This.do = "set" /\ todo' = Tail(todo) /\ UNCHANGED <<outbox, status>>
      /\ entered \subseteq entered'
      /\ This.phase = "active" => session[This.tank].cmd \in entered'
  BY DEF SetPhase, At, This, Done
<1>2. session \in [Tank -> Owned] /\ This \in Operation /\ This.tank \in Tank
  BY <1>1, RestOfWork, Carries DEF AnswerInv, RecoveryInv, ExchangeInv, TypeInv, FlowInv, This
<1>3. ASSUME NEW t \in Tank, Open(t)' PROVE Open(t) /\ session'[t].cmd = session[t].cmd
  <2>1. CASE Open(This.tank)
    BY <1>2, <1>3, <2>1 DEF SetPhase, Open
  <2>2. CASE ~Open(This.tank)
    BY <1>3, <2>2 DEF SetPhase, Open
  <2>. QED  BY <2>1, <2>2
<1>4. ASSUME NEW t \in Tank, Open(t)', Activates(This, t) PROVE Earned(session[t].cmd)'
  BY <1>1, <1>3, <1>4 DEF Activates, Earned
<1>5. Shifts
  <2>1. StatusesChange
    BY <1>1 DEF StatusesChange
  <2>2. SessionsChange
    BY <1>1, <1>3, <1>4 DEF SessionsChange
  <2>. QED  BY <1>1, <2>1, <2>2 DEF Shifts
<1>6. ASSUME NEW t \in Tank, Open(t)' PROVE Stays(t) \/ Earned(session[t].cmd)'
  <2>1. CASE Activates(This, t)
    BY <1>4, <1>6, <2>1
  <2>2. CASE ~Activates(This, t)
    BY <1>1, <1>3, <1>6, <2>2 DEF Stays, Decides
  <2>. QED  BY <2>1, <2>2
<1>7. CompletedWasActive'
  BY <1>1, TruthKept
<1>. QED  BY <1>5, <1>6, <1>7, ShiftsKeepPending, ShiftsKeepSessions

\* A report is true when it is made
LEMMA ReportGuards ==
    ASSUME AnswerInv, QueueAnswer \/ ReportSession
    PROVE  CompletedWasActive' /\ SessionInv' /\ PendingInv'
<1>1. todo # <<>> /\ This.do \in {"queue", "report"}
  BY DEF QueueAnswer, ReportSession, At, This
<1>2. /\ session \in [Tank -> Owned] /\ TankOf \in [Command -> Tank]
      /\ todo \in Seq(Operation) /\ Tail(todo) \in Seq(Operation)
      /\ This \in Operation /\ This = todo[1] /\ 1 \in 1 .. Len(todo)
  BY <1>1, RestOfWork, ExchangeAssumption
     DEF AnswerInv, RecoveryInv, ExchangeInv, TypeInv, ExchangeTypeOK, FlowInv, This
<1>3. ReportAt(todo, 1)
  BY <1>2 DEF AnswerInv, PendingInv, PendingAt
<1>4. ASSUME NEW t \in Tank, NEW c, NEW start, NEW phase, NEW s,
             QueueReport(t, c, start, phase, s), s = "completed" => Earned(c)
      PROVE  CompletedWasActive' /\ SessionInv' /\ PendingInv'
  <2>1. /\ todo' = Tail(todo) /\ UNCHANGED <<status, entered>>
        /\ outbox' = outbox \cup {[life |-> life, seq |-> sequence + 1, tank |-> t, cmd |-> c,
                                   start |-> start, shows |-> Shown(phase), status |-> s]}
        /\ session' = IF Open(t) THEN [session EXCEPT ![t].last = sequence + 1] ELSE session
    BY <1>4 DEF QueueReport, Done, history
  <2>2. \A r \in outbox' \ outbox : r.status = "completed" => Earned(r.cmd)
    <3>1. \A r \in outbox' \ outbox : r.cmd = c /\ r.status = s
      BY <2>1
    <3>. QED  BY <1>4, <3>1
  <2>3. ASSUME NEW u \in Tank, Open(u)' PROVE Open(u) /\ session'[u].cmd = session[u].cmd
    <3>1. CASE Open(t)
      <4>1. session' = [session EXCEPT ![t] = [session[t] EXCEPT !.last = sequence + 1]]
        BY <2>1, <3>1
      <4>2. session[t] \in Sessions
        BY <1>2 DEF Owned
      <4>3. [session[t] EXCEPT !.last = sequence + 1].cmd = session[t].cmd
        BY <4>2 DEF Sessions
      <4>. QED  BY <1>2, <2>3, <3>1, <4>1, <4>3 DEF Open
    <3>2. CASE ~Open(t)
      BY <2>1, <2>3, <3>2 DEF Open
    <3>. QED  BY <3>1, <3>2
  <2>. QED  BY <1>1, <2>1, <2>2, <2>3, QuietGuards DEF QuietNames
<1>5. CASE QueueAnswer
  <2>1. This.do = "queue" /\ This.cmd \in Command
    BY <1>2, <1>5, Carries DEF QueueAnswer, At, This
  <2>2. This.status = "completed" => Earned(This.cmd)
    BY <1>2, <1>3, <2>1 DEF ReportAt, Earned
  <2>. QED  BY <1>2, <1>4, <1>5, <2>1, <2>2 DEF QueueAnswer
<1>6. CASE ReportSession
  <2>1. This.do = "report" /\ This.tank \in Tank
    BY <1>2, <1>6, Carries DEF ReportSession, At, This
  <2>2. CASE Open(This.tank)
    <3>1. This.status = "completed" => Earned(session[This.tank].cmd)
      BY <1>2, <1>3, <2>1, <2>2 DEF ReportAt
    <3>. QED  BY <1>4, <1>6, <2>1, <2>2, <3>1 DEF ReportSession
  <2>3. CASE ~Open(This.tank)
    <3>1. todo' = <<>> \o Tail(todo) /\ UNCHANGED <<session, status, outbox, entered>>
      BY <1>6, <2>3 DEF ReportSession, Becomes, store, history
    <3>2. todo' = Tail(todo)
      BY <1>2, <3>1, ConcatEmptySeq
    <3>. QED  BY <1>1, <3>1, <3>2, QuietGuards DEF QuietNames, Open
  <2>. QED  BY <2>2, <2>3
<1>. QED  BY <1>5, <1>6

LEMMA AnswersOfTransactions ==
    ASSUME AnswerInv, Transaction
    PROVE  CompletedWasActive' /\ SessionInv' /\ PendingInv'
<1>1. session \in [Tank -> Owned]
  BY DEF AnswerInv, RecoveryInv, ExchangeInv, TypeInv
<1>2. CASE RecordCommand
  BY <1>2, RecordGuards
<1>3. CASE SetCommandStatus
  BY <1>3, StatusGuards
<1>4. CASE BeginSession
  BY <1>4, SessionBeginGuards
<1>5. CASE TransitionSession
  BY <1>5, TransferGuards
<1>6. CASE SetPhase
  BY <1>6, PhaseGuards
<1>7. CASE RemoveSession
  <2>1. /\ todo # <<>> /\ This.do = "remove" /\ todo' = Tail(todo) /\ UNCHANGED <<status, outbox, entered>>
        /\ session' = [session EXCEPT ![This.tank] = NoSession]
    BY <1>7 DEF RemoveSession, At, This, Done, history
  <2>2. ASSUME NEW t \in Tank, Open(t)' PROVE Open(t) /\ session'[t].cmd = session[t].cmd
    BY <1>1, <2>1, <2>2 DEF Open, NoSession
  <2>. QED  BY <2>1, <2>2, QuietGuards DEF QuietNames
<1>8. CASE QueueAnswer \/ ReportSession
  BY <1>8, ReportGuards
<1>9. CASE ResolveTank \/ AdvanceSequence \/ AcknowledgeReports \/ ReplaceRecoveryTanks \/ InstallConfig
  <2>1. /\ todo # <<>> /\ This.do \in QuietNames /\ todo' = Tail(todo)
        /\ UNCHANGED <<session, status, entered>> /\ outbox' \subseteq outbox
    BY <1>9 DEF ResolveTank, AdvanceSequence, AcknowledgeReports, ReplaceRecoveryTanks, InstallConfig,
                At, This, Done, history, QuietNames
  <2>. QED  BY <2>1, QuietGuards DEF Open
<1>. QED
  BY <1>2, <1>3, <1>4, <1>5, <1>6, <1>7, <1>8, <1>9 DEF Transaction

-------------------------------------------------------------------------------
(* The theorem. *)

\* What begins a handler asks for nothing yet
LEMMA AnswersOfBeginnings ==
    ASSUME AnswerInv, Tick \/ TickUnsafe \/ Apply, ExchangeInv'
    PROVE  CompletedWasActive' /\ SessionInv' /\ PendingInv'
<1>1. todo = <<>> /\ UNCHANGED <<store, history>>
  BY DEF Tick, TickUnsafe, Apply
<1>2. UNCHANGED <<session, status, outbox, entered>>
  BY <1>1 DEF store, history
<1>3. todo' \in Seq(Operation)'
  BY DEF ExchangeInv, FlowInv
<1>4. ASSUME NEW i \in 1 .. Len(todo')
      PROVE  todo'[i].do \in {"visit", "unwind", "accept", "advance", "acknowledge", "replace", "install"}
  <2>1. CASE Tick
    BY <1>4, <2>1 DEF Tick, Visit
  <2>2. CASE TickUnsafe
    BY <1>4, <2>2 DEF TickUnsafe, Visit, Unwind
  <2>3. CASE Apply
    BY <1>4, <2>3, ReplyTaken DEF AnswerInv
  <2>. QED  BY <2>1, <2>2, <2>3
<1>5. PendingInv'
  BY <1>4 DEF PendingInv, PendingAt, RefusalAt, EntryAt, StatusAt, TransferAt, Promotes, ReportAt
<1>6. CompletedWasActive'
  BY <1>2 DEF AnswerInv, CompletedWasActive
<1>7. SessionInv'
  <2>1. \A t \in Tank : ~Entering(t)
    BY <1>1 DEF Entering, EnteringBy
  <2>. QED  BY <1>2, <2>1 DEF AnswerInv, SessionInv, Earned, Open
<1>. QED  BY <1>5, <1>6, <1>7

LEMMA AnswersInitially == Init => AnswerInv
<1>. SUFFICES ASSUME Init PROVE AnswerInv
  OBVIOUS
<1>1. RecoveryInv
  BY RecoveryInitially
<1>2. \A t \in Tank : ~Open(t)
  BY DEF Init, Open, NoSession
<1>3. CompletedWasActive /\ SessionInv /\ PendingInv
  BY <1>2 DEF Init, CompletedWasActive, SessionInv, PendingInv
<1>. QED  BY <1>1, <1>3 DEF AnswerInv

LEMMA AnswersStep ==
    ASSUME "crash" \notin Faults
    PROVE  AnswerInv /\ [Next]_vars => AnswerInv'
<1>. SUFFICES ASSUME AnswerInv, [Next]_vars PROVE AnswerInv'
  OBVIOUS
<1>0. RecoveryInv' /\ ExchangeInv'
  BY RecoveryStep DEF AnswerInv, RecoveryInv
<1>1. CASE Transaction
  BY <1>0, <1>1, AnswersOfTransactions DEF AnswerInv
<1>2. CASE Call
  BY <1>0, <1>2, CallsGuard DEF AnswerInv
<1>3. CASE Tick \/ TickUnsafe \/ Apply
  BY <1>0, <1>3, AnswersOfBeginnings DEF AnswerInv
<1>4. CASE External \/ UNCHANGED vars
  <2>1. UNCHANGED <<session, status, outbox, entered, todo>>
    BY <1>4 DEF External, Serve, ReplyLost, Receive, Attend, vars, store, history
  <2>2. CompletedWasActive'
    BY <2>1 DEF AnswerInv, CompletedWasActive
  <2>3. SessionInv'
    BY <2>1 DEF AnswerInv, SessionInv, Entering, EnteringBy, Decides, Activates, LeavesAlone, Earned, Open
  <2>4. PendingInv'
    BY <2>1 DEF AnswerInv, PendingInv, PendingAt, RefusalAt, EntryAt, StatusAt, TransferAt, ReportAt,
                Earned, Open
  <2>. QED  BY <1>0, <2>2, <2>3, <2>4 DEF AnswerInv
<1>5. CASE LoseStore
  <2>1. session' = [t \in Tank |-> NoSession] /\ outbox' = {} /\ todo' = <<>>
    BY <1>5 DEF LoseStore
  <2>2. CompletedWasActive' /\ PendingInv'
    BY <2>1 DEF CompletedWasActive, PendingInv
  <2>3. SessionInv'
    BY <2>1 DEF SessionInv, Open, NoSession
  <2>. QED  BY <1>0, <2>2, <2>3 DEF AnswerInv
<1>6. ~Crash
  BY DEF Crash
<1>. QED  BY <1>1, <1>2, <1>3, <1>4, <1>5, <1>6 DEF Next, Handler

\* A temporary command is reported as completed only if its mode was active: not
\* when its entry failed, when another command or a refusal took the session over,
\* or when the session was restored before the mode was reached.  Without crashes:
\* one within an entry leaves a command that the restoration after the restart
\* reports as completed.
THEOREM CompletedModesWereActive ==
    ASSUME "crash" \notin Faults
    PROVE  Spec => []CompletedWasActive
<1>1. AnswerInv => CompletedWasActive
  BY DEF AnswerInv
<1>. QED  BY <1>1, AnswersInitially, AnswersStep, PTL DEF Spec

===============================================================================
