------------------------- MODULE ControlRecoveryProofs -------------------------
(* What is lost with the store, and who attends to it, for every set of tanks  *)
(* and commands:                                                               *)
(*                                                                             *)
(*   ReportedSessionsWait  Spec => ReportedSessionsGuarded                     *)
(*   OrphansAlwaysBlock    without a crash, Spec => []OrphansBlock             *)
(*   FinishIsInformed      Spec => FinishSeesLatest                            *)
(*                                                                             *)
(* RecoveryInv follows a tank that lost an open session through everything     *)
(* that could let go of it: the work pending, the reports under way, the reply *)
(* on the wire and what Waterlog awaits.  It starts from what Waterlog knew:   *)
(* the first two theorems are about sessions that Waterlog had on report when  *)
(* the store was lost (OnReport), and nothing like them holds of the others.   *)
EXTENDS ControlExchangeProofs

-------------------------------------------------------------------------------
(* The inductive invariant: the tanks that lost a session on report.           *)

\* op lets go of tank t: its mark goes, or Waterlog is told that it was attended
Settles(op, t) ==
    \/ op.do = "resolve" /\ op.tank = t
    \/ /\ op.do = "queue" /\ op.status = "completed"
       /\ Kind[op.cmd] = "finish" /\ TankOf[op.cmd] = t

\* The handler is about to record that somebody attended tank t
Attended(t) ==
    \E c \in Command : Kind[c] = "finish" /\ TankOf[c] = t /\ Head(todo) = Record(c, "completed")

Attests(r, t) ==
    r.status = "completed" /\ r.cmd \in Command /\ Kind[r.cmd] = "finish" /\ TankOf[r.cmd] = t

\* Waterlog awaits the recovery of a lost session it had on report, or will with
\* the first request of the new store; no report it has still to receive says otherwise,
\* and no reply under way leaves the tank out
LostInv ==
    \A t \in orphaned :
        /\ ~Open(t)
        /\ t \in atRisk \/ (sequence < floor /\ t \in KnownOpen /\ todo = <<>> /\ wire = Idle)
        /\ \A r \in outbox : ~Attests(r, t)
        /\ wire.kind = "reply" => t \in wire.recovery

\* Neither does anything the handler has still to do
WorkInv ==
    \A t \in orphaned, i \in 1 .. Len(todo) :
        /\ todo[i].do = "begin" => TankOf[todo[i].cmd] # t
        /\ todo[i].do = "replace" => t \in todo[i].tanks
        /\ todo[i].do \in {"accept", "resolve"} =>
               t \in recovery \/ \E j \in 1 .. i - 1 : todo[j].do = "replace"
        /\ Settles(todo[i], t) => i # 1 /\ Attended(t)

\* The recovery tanks of a reply are taken in before anything is accepted
OrderInv ==
    \A i \in 1 .. Len(todo) :
        todo[i].do = "replace" =>
            \A j \in 1 .. i - 1 : todo[j].do \in {"advance", "acknowledge"}

\* A crash while the store is made anew may lose the flag
BlockInv == "crash" \in Faults \/ OrphansBlock

-------------------------------------------------------------------------------
(* The inductive invariant: what is finished was seen.                         *)

TankInv == \A t \in Tank : Open(t) => TankOf[session[t].cmd] = t

NewestInv ==
    \A t \in Tank : newest[t].seq <= floor /\ (newest[t].shows # "normal" => newest[t].seq # 0)

\* A session that has reported made the last report of its tank
LastInv ==
    \A t \in Tank : Open(t) /\ session[t].last # 0 =>
        /\ \A r \in outbox : r.tank = t => r.seq <= session[t].last
        /\ newest[t].seq <= session[t].last

StatusInv == \A c \in Command : Kind[c] = "finish" => status[c] # "accepted"

\* Somebody has acknowledged a report before a finish is delivered, and what is
\* recorded as finished is what that report was about
FinishInv ==
    /\ \A c \in Command : token[c] # NoToken => token[c].seq # 0
    /\ wire.kind = "reply" =>
           \A i \in 1 .. Len(wire.commands) :
               Kind[wire.commands[i]] = "finish" => token[wire.commands[i]].seq # 0
    /\ \A i \in 1 .. Len(todo) :
           LET op == todo[i]
           IN  /\ op.do = "status" => Kind[op.cmd] # "finish"
               /\ op.do = "accept" /\ Kind[op.cmd] = "finish" => token[op.cmd].seq # 0
               /\ op.do = "record" /\ Kind[op.cmd] = "finish" => op.status # "accepted"
               /\ op.do = "record" /\ Kind[op.cmd] = "finish" /\ op.status = "completed" =>
                      /\ i = 1
                      /\ Open(TankOf[op.cmd]) =>
                             /\ session[TankOf[op.cmd]].last # 0
                             /\ token[op.cmd].seq = session[TankOf[op.cmd]].last

RecoveryInv ==
    /\ ExchangeInv
    /\ LostInv /\ WorkInv /\ OrderInv /\ BlockInv
    /\ TankInv /\ NewestInv /\ LastInv /\ StatusInv /\ FinishInv

-------------------------------------------------------------------------------
(* What a call turns out to do.  But for a finish that is accepted, it is all  *)
(* plain: it lets go of no tank and finishes nothing.                          *)

Plain ==
    {op \in Operation :
        /\ op.do \notin {"advance", "acknowledge", "replace", "accept", "resolve"}
        /\ op.do = "begin" => TankOf[op.cmd] \notin orphaned
        /\ op.do = "queue" => ~(op.status = "completed" /\ Kind[op.cmd] = "finish")
        /\ op.do = "status" => Kind[op.cmd] # "finish"
        /\ op.do = "record" /\ Kind[op.cmd] = "finish" => op.status = "failed"}

LEMMA PlainOperations ==
    ASSUME floor \in Nat
    PROVE
    /\ \A c \in Command : Record(c, "failed") \in Plain
    /\ \A c \in Command, s \in Statuses : Kind[c] # "finish" =>
           Record(c, s) \in Plain /\ SetStatus(c, s) \in Plain
    /\ \A c \in Command : Temporary(c) => Enter(c) \in Plain
    /\ \A c \in Command : Temporary(c) /\ TankOf[c] \notin orphaned => Begin(c) \in Plain
    /\ \A c \in Command : Reject(c) \in Plain
    /\ \A c \in Command, m \in Mode \cup {"normal"}, p \in Phases : Transition(c, m, p) \in Plain
    /\ \A t \in Tank, m \in Mode \cup {"normal"}, p \in Phases : SetSession(t, m, p) \in Plain
    /\ \A t \in Tank : Remove(t) \in Plain
    /\ \A t \in Tank, b \in BOOLEAN : Restore(t, b) \in Plain
    /\ \A S \in SUBSET Tank : Unwind(S) \in Plain /\ Visit(S) \in Plain
    /\ \A c \in Command, a \in Anyone, p \in Phases, s \in Statuses :
           s # "completed" \/ Kind[c] # "finish" => Queue(c, a, p, s) \in Plain
    /\ \A t \in Tank, s \in Statuses : Report(t, s) \in Plain
<1>. USE Operations DEF Plain
<1>0. "failed" \in Statuses
  BY DEF Statuses
<1>1. \A c \in Command : Record(c, "failed") \in Plain
  BY <1>0 DEF Record
<1>2. \A c \in Command, s \in Statuses : Kind[c] # "finish" =>
          Record(c, s) \in Plain /\ SetStatus(c, s) \in Plain
  BY DEF Record, SetStatus
<1>3. \A c \in Command : Temporary(c) => Enter(c) \in Plain
  BY DEF Enter
<1>4. \A c \in Command : Temporary(c) /\ TankOf[c] \notin orphaned => Begin(c) \in Plain
  BY DEF Begin
<1>5. \A c \in Command : Reject(c) \in Plain
  BY DEF Reject
<1>6. \A c \in Command, m \in Mode \cup {"normal"}, p \in Phases : Transition(c, m, p) \in Plain
  BY DEF Transition
<1>7. \A t \in Tank, m \in Mode \cup {"normal"}, p \in Phases : SetSession(t, m, p) \in Plain
  BY DEF SetSession
<1>8. \A t \in Tank : Remove(t) \in Plain
  BY DEF Remove
<1>9. \A t \in Tank, b \in BOOLEAN : Restore(t, b) \in Plain
  BY DEF Restore
<1>10. \A S \in SUBSET Tank : Unwind(S) \in Plain /\ Visit(S) \in Plain
  BY DEF Unwind, Visit
<1>11. \A c \in Command, a \in Anyone, p \in Phases, s \in Statuses :
           s # "completed" \/ Kind[c] # "finish" => Queue(c, a, p, s) \in Plain
  BY DEF Queue
<1>12. \A t \in Tank, s \in Statuses : Report(t, s) \in Plain
  BY DEF Report
<1>. QED
  BY <1>1, <1>2, <1>3, <1>4, <1>5, <1>6, <1>7, <1>8, <1>9, <1>10, <1>11, <1>12

LEMMA ShortSequences ==
    ASSUME NEW S
    PROVE  /\ <<>> \in Seq(S)
           /\ \A a \in S : <<a>> \in Seq(S)
           /\ \A a, b \in S : <<a, b>> \in Seq(S)
           /\ \A a, b, c \in S : <<a, b, c>> \in Seq(S)
           /\ \A a, b, c, d \in S : <<a, b, c, d>> \in Seq(S)
           /\ \A a, b \in Seq(S) : a \o b \in Seq(S)
BY ConcatProperties

CallNames == {"accept", "reject", "enter", "restore", "unwind", "visit"}

\* The call at hand becomes plain work, or the rest of the reply is given up
PlainCall ==
    /\ todo # <<>> /\ Head(todo).do \in CallNames
    /\ UNCHANGED <<store, wire, waterlog, history>>
    /\ \/ todo' = <<>>
       \/ \E ops \in Seq(Plain) : todo' = ops \o Tail(todo) \/ todo' = ops \o todo

\* Nothing is accepted before the reply that brought it has named the tanks
LEMMA AcceptsInformed ==
    ASSUME RecoveryInv, At("accept")
    PROVE  /\ orphaned \subseteq recovery
           /\ \A i \in 1 .. Len(todo) : todo[i].do # "replace"
<1>1. /\ todo \in Seq(Operation) /\ todo # <<>> /\ todo[1].do = "accept" /\ 1 \in 1 .. Len(todo)
  BY DEF RecoveryInv, ExchangeInv, FlowInv, At
<1>2. \A t \in orphaned : t \in recovery
  BY <1>1 DEF RecoveryInv, WorkInv
<1>3. ASSUME NEW i \in 1 .. Len(todo), todo[i].do = "replace" PROVE FALSE
  <2>1. i # 1 /\ 1 \in 1 .. i - 1
    BY <1>1, <1>3
  <2>2. todo[1].do \in {"advance", "acknowledge"}
    BY <1>3, <2>1 DEF RecoveryInv, OrderInv
  <2>. QED  BY <1>1, <2>2
<1>. QED  BY <1>2, <1>3

LEMMA AcceptsArePlain ==
    ASSUME RecoveryInv, AcceptCommand
    PROVE  PlainCall \/ \E c \in Command : FinishAccepted(c)
<1>0. /\ todo \in Seq(Operation) /\ floor \in Nat
      /\ session \in [Tank -> Owned] /\ token \in [Command -> Tokens]
      /\ TankOf \in [Command -> Tank]
      /\ "normal" \notin Mode /\ "finish" \notin Mode
  BY ExchangeAssumption DEF RecoveryInv, ExchangeInv, TypeInv, ExchangeTypeOK, FlowInv
<1>1. todo # <<>> /\ Head(todo).do = "accept" /\ At("accept")
  BY DEF AcceptCommand, Unreadable, AcceptKnown, AcceptRefused, AcceptUnfit, AcceptUnsafe,
         AcceptSameMode, AcceptTemporary, AcceptNormal, FinishIgnored, FinishAccepted,
         FinishRefused, New, At
<1>2. ASSUME NEW ops \in Seq(Plain), Becomes(ops) PROVE PlainCall
  BY <1>1, <1>2 DEF PlainCall, CallNames, Becomes
<1>. HIDE DEF PlainCall
<1>3. CASE Unreadable
  BY <1>1, <1>3 DEF Unreadable, PlainCall, CallNames
<1>4. CASE AcceptKnown
  BY <1>2, ShortSequences, <1>4 DEF AcceptKnown
<1>5. ASSUME NEW c \in Command PROVE /\ Reject(c) \in Plain /\ TankOf[c] \in Tank
                                    /\ c \in Anyone /\ token[c].start \in Anyone
  BY <1>0, PlainOperations DEF Anyone, Tokens
<1>6. \A c \in Command : AcceptRefused(c) \/ AcceptUnfit(c) => PlainCall
  BY <1>2, ShortSequences, <1>5 DEF AcceptRefused, AcceptUnfit
<1>7. ASSUME NEW c \in Command, AcceptUnsafe(c) PROVE PlainCall
  <2>1. Unwind(OpenTanks) \in Plain
    BY <1>0, PlainOperations DEF OpenTanks
  <2>. QED  BY <1>2, ShortSequences, <1>5, <1>7, <2>1 DEF AcceptUnsafe
<1>8. ASSUME NEW c \in Command, AcceptSameMode(c) PROVE PlainCall
  <2>1. session[TankOf[c]].mode \in Mode \cup {"normal"} /\ session[TankOf[c]].phase \in Phases
    BY <1>0, <1>5 DEF Owned, Sessions
  <2>2. Kind[c] # "finish"
    BY <1>0, <1>8 DEF AcceptSameMode, Temporary
  <2>3. /\ Record(c, "completed") \in Plain
        /\ Transition(c, session[TankOf[c]].mode, session[TankOf[c]].phase) \in Plain
        /\ Report(TankOf[c], "completed") \in Plain
    BY <1>0, <1>5, <2>1, <2>2, PlainOperations DEF Statuses
  <2>. QED  BY <1>2, ShortSequences, <1>8, <2>3 DEF AcceptSameMode
<1>9. ASSUME NEW c \in Command, AcceptTemporary(c) PROVE PlainCall
  <2>1. Temporary(c) /\ ~RecoveryRequired
    BY <1>0, <1>9 DEF AcceptTemporary, Temporary, Refused
  <2>2. orphaned = {}
    BY <1>1, <2>1, AcceptsInformed DEF RecoveryRequired
  <2>3. Begin(c) \in Plain /\ Enter(c) \in Plain
    BY <1>0, <2>1, <2>2, PlainOperations
  <2>. QED  BY <1>2, ShortSequences, <1>9, <2>3 DEF AcceptTemporary
<1>10. ASSUME NEW c \in Command, AcceptNormal(c) PROVE PlainCall
  <2>1. Kind[c] = "normal"
    BY <1>10 DEF AcceptNormal
  <2>2. /\ Record(c, "completed") \in Plain /\ Record(c, "accepted") \in Plain
        /\ Queue(c, c, "normal", "completed") \in Plain
        /\ Transition(c, "normal", "restoring") \in Plain
        /\ Restore(TankOf[c], TRUE) \in Plain
    BY <1>0, <1>5, <2>1, PlainOperations DEF Statuses, Phases
  <2>3. CASE ~Open(TankOf[c])
    BY <1>2, ShortSequences, <1>10, <2>2, <2>3 DEF AcceptNormal
  <2>4. CASE Open(TankOf[c])
    BY <1>2, ShortSequences, <1>10, <2>2, <2>4 DEF AcceptNormal
  <2>. QED  BY <2>3, <2>4
<1>11. \A c \in Command : FinishIgnored(c) => PlainCall
  BY <1>2, ShortSequences DEF FinishIgnored
<1>12. ASSUME NEW c \in Command, FinishRefused(c) PROVE PlainCall
  <2>1. /\ Record(c, "failed") \in Plain
        /\ Transition(c, "normal", "recovery_required") \in Plain
        /\ Report(TankOf[c], "failed") \in Plain
        /\ Queue(c, token[c].start, "recovery_required", "failed") \in Plain
    BY <1>0, <1>5, PlainOperations DEF Statuses, Phases
  <2>. DEFINE rest == IF Open(TankOf[c])
                      THEN <<Transition(c, "normal", "recovery_required"), Report(TankOf[c], "failed")>>
                      ELSE <<Queue(c, token[c].start, "recovery_required", "failed")>>
  <2>2. rest \in Seq(Plain)
    BY <2>1, ShortSequences
  <2>3. Becomes(<<Record(c, "failed")>> \o rest)
    BY <1>12 DEF FinishRefused
  <2>. HIDE DEF rest
  <2>4. <<Record(c, "failed")>> \o rest \in Seq(Plain)
    BY <2>1, <2>2, ShortSequences
  <2>. QED  BY <1>2, <2>3, <2>4
<1>. QED
  BY <1>3, <1>4, <1>6, <1>7, <1>8, <1>9, <1>10, <1>11, <1>12 DEF AcceptCommand

LEMMA CallsArePlain ==
    ASSUME RecoveryInv, Call
    PROVE  PlainCall \/ \E c \in Command : FinishAccepted(c)
<1>0. /\ todo \in Seq(Operation) /\ floor \in Nat
      /\ session \in [Tank -> Owned] /\ status \in [Command -> Statuses]
      /\ TankOf \in [Command -> Tank] /\ Kind \in [Command -> Mode \cup {"normal", "finish"}]
      /\ "normal" \notin Mode /\ "finish" \notin Mode
  BY ExchangeAssumption DEF RecoveryInv, ExchangeInv, TypeInv, ExchangeTypeOK, FlowInv
<1>1. ASSUME todo # <<>> PROVE This \in Operation
  BY <1>0, <1>1, RestOfWork DEF This
<1>2. ASSUME NEW ops \in Seq(Plain), Becomes(ops), todo # <<>>, This.do \in CallNames
      PROVE  PlainCall
  BY <1>2 DEF This, PlainCall, Becomes
<1>. HIDE DEF PlainCall
<1>3. ASSUME NEW t \in Tank PROVE /\ session[t].start \in Anyone /\ session[t].mode \in Mode \cup {"normal"}
                                 /\ session[t].phase \in Phases
  BY <1>0 DEF Owned, Sessions
<1>4. CASE AcceptCommand
  BY <1>4, AcceptsArePlain
<1>5. ASSUME NEW t \in Tank, EntryVisits(t) PROVE PlainCall
  <2>1. <<Restore(t, FALSE)>> \in Seq(Plain)
    BY <1>0, PlainOperations, ShortSequences
  <2>2. /\ todo # <<>> /\ Head(todo).do = "enter" /\ todo' = <<Restore(t, FALSE)>> \o todo
        /\ UNCHANGED <<store, wire, waterlog, history>>
    BY <1>5 DEF EntryVisits, At
  <2>. QED  BY <2>1, <2>2 DEF PlainCall, CallNames
<1>6. CASE EntrySucceeds
  <2>1. todo # <<>> /\ This.do = "enter" /\ This.cmd \in Command /\ Kind[This.cmd] \in Mode
    BY <1>1, <1>6, Carries DEF EntrySucceeds, At, This, Temporary
  <2>2. Kind[This.cmd] # "finish"
    BY <1>0, <2>1
  <2>3. /\ SetStatus(This.cmd, "completed") \in Plain
        /\ SetSession(TankOf[This.cmd], Kind[This.cmd], "active") \in Plain
        /\ Report(TankOf[This.cmd], "completed") \in Plain
    BY <1>0, <2>1, <2>2, PlainOperations DEF Statuses, Phases
  <2>. QED  BY <1>2, ShortSequences, <1>6, <2>1, <2>3 DEF EntrySucceeds, CallNames
<1>7. CASE EntryFails
  <2>1. todo # <<>> /\ This.do = "enter" /\ This.cmd \in Command /\ Kind[This.cmd] \in Mode
    BY <1>1, <1>7, Carries DEF EntryFails, At, This, Temporary
  <2>2. Kind[This.cmd] # "finish"
    BY <1>0, <2>1
  <2>3. /\ SetStatus(This.cmd, "failed") \in Plain
        /\ SetSession(TankOf[This.cmd], "normal", "restoring") \in Plain
        /\ Report(TankOf[This.cmd], "failed") \in Plain
        /\ Restore(TankOf[This.cmd], TRUE) \in Plain
    BY <1>0, <2>1, <2>2, PlainOperations DEF Statuses, Phases
  <2>. QED  BY <1>2, ShortSequences, <1>7, <2>1, <2>3 DEF EntryFails, CallNames
<1>8. CASE RejectOrUnwind
  <2>1. todo # <<>> /\ This.do = "reject" /\ This.cmd \in Command
    BY <1>1, <1>8, Carries DEF RejectOrUnwind, At, This
  <2>. DEFINE c == This.cmd
              t == TankOf[c]
              rest == IF ~Open(t) THEN <<Queue(c, c, "normal", "failed")>>
                      ELSE IF session[t].phase = "recovery_required"
                      THEN <<Queue(c, session[t].start, "recovery_required", "failed")>>
                      ELSE <<Transition(c, "normal", "restoring"), Report(t, "failed"),
                             Restore(t, TRUE)>>
  <2>2. t \in Tank /\ c \in Anyone
    BY <1>0, <2>1 DEF Anyone
  <2>3. /\ Record(c, "failed") \in Plain /\ Queue(c, c, "normal", "failed") \in Plain
        /\ Queue(c, session[t].start, "recovery_required", "failed") \in Plain
        /\ Transition(c, "normal", "restoring") \in Plain
        /\ Report(t, "failed") \in Plain /\ Restore(t, TRUE) \in Plain
    BY <1>0, <1>3, <2>1, <2>2, PlainOperations DEF Statuses, Phases
  <2>4. rest \in Seq(Plain)
    BY <2>3, ShortSequences
  <2>5. Becomes(<<Record(c, "failed")>> \o rest)
    BY <1>8 DEF RejectOrUnwind
  <2>. HIDE DEF rest
  <2>6. <<Record(c, "failed")>> \o rest \in Seq(Plain)
    BY <2>3, <2>4, ShortSequences
  <2>. QED  BY <1>2, <2>1, <2>5, <2>6 DEF CallNames
<1>9. CASE RestoreComplete
  <2>1. todo # <<>> /\ This.do = "restore" /\ This.tank \in Tank
    BY <1>1, <1>9, Carries DEF RestoreComplete, At, This
  <2>. DEFINE t == This.tank
              c == session[t].cmd
              answer == IF status[c] = "accepted" THEN <<SetStatus(c, "completed")>> ELSE <<>>
              rest == <<SetSession(t, "normal", "normal"),
                        Report(t, IF status[c] = "failed" THEN "failed" ELSE "completed"), Remove(t)>>
  <2>2. Becomes(answer \o rest)
    BY <1>9 DEF RestoreComplete
  <2>3. answer \in Seq(Plain)
    <3>1. c \in Command
      BY <1>0, <1>9, <2>1 DEF RestoreComplete, Open, Owned
    <3>2. status[c] = "accepted" => Kind[c] # "finish"
      BY <3>1 DEF RecoveryInv, StatusInv
    <3>3. status[c] = "accepted" => SetStatus(c, "completed") \in Plain
      BY <1>0, <3>1, <3>2, PlainOperations DEF Statuses
    <3>. QED  BY <3>3, ShortSequences
  <2>4. rest \in Seq(Plain)
    <3>1. /\ SetSession(t, "normal", "normal") \in Plain
          /\ Report(t, IF status[c] = "failed" THEN "failed" ELSE "completed") \in Plain
          /\ Remove(t) \in Plain
      BY <1>0, <2>1, PlainOperations DEF Statuses, Phases
    <3>. QED  BY <3>1, ShortSequences
  <2>. HIDE DEF answer, rest
  <2>. QED  BY <1>2, <2>1, <2>2, <2>3, <2>4, ShortSequences DEF CallNames
<1>10. CASE RestoreLater
  BY <1>2, ShortSequences, <1>10 DEF RestoreLater, At, This, CallNames
<1>11. ASSUME NEW phase \in {"restoring", "recovery_required"}, RestorePending(phase) PROVE PlainCall
  <2>1. todo # <<>> /\ This.do = "restore" /\ This.tank \in Tank
    BY <1>1, <1>11, Carries DEF RestorePending, At, This
  <2>2. /\ SetSession(This.tank, session[This.tank].mode, phase) \in Plain
        /\ Progress(This.tank) \in Plain
    BY <1>0, <1>3, <2>1, PlainOperations DEF Statuses, Phases, Progress
  <2>3. \/ Becomes(<<SetSession(This.tank, session[This.tank].mode, phase), Progress(This.tank)>>)
        \/ Becomes(<<SetSession(This.tank, session[This.tank].mode, phase)>>)
    BY <1>11 DEF RestorePending
  <2>. QED  BY <1>2, ShortSequences, <2>1, <2>2, <2>3 DEF CallNames
<1>12. CASE LoopDone
  BY <1>2, ShortSequences, <1>12 DEF LoopDone, At, This, CallNames
<1>13. ASSUME NEW t \in Tank, UnwindTank(t) PROVE PlainCall
  <2>1. todo # <<>> /\ This.do = "unwind" /\ This.tanks \subseteq Tank
    BY <1>1, <1>13, Carries DEF UnwindTank, At, This
  <2>2. /\ SetSession(t, "normal", "restoring") \in Plain /\ Restore(t, TRUE) \in Plain
        /\ Unwind(This.tanks \ {t}) \in Plain
    BY <1>0, <2>1, PlainOperations DEF Phases
  <2>. QED  BY <1>2, ShortSequences, <1>13, <2>1, <2>2 DEF UnwindTank, CallNames
<1>14. ASSUME NEW t \in Tank, NEW ops \in Seq(Plain), Visiting(t, ops) PROVE PlainCall
  <2>1. todo # <<>> /\ This.do = "visit" /\ This.tanks \subseteq Tank
    BY <1>1, <1>14, Carries DEF Visiting, At, This
  <2>2. Visit(This.tanks \ {t}) \in Plain
    BY <1>0, <2>1, PlainOperations
  <2>3. ops \o <<Visit(This.tanks \ {t})>> \in Seq(Plain)
    BY <2>2, ShortSequences
  <2>. QED  BY <1>2, <1>14, <2>1, <2>3 DEF Visiting, CallNames
<1>15. ASSUME NEW t \in Tank
       PROVE  /\ SetSession(t, "normal", "restoring") \in Plain
              /\ SetSession(t, session[t].mode, "recovery_required") \in Plain
              /\ Report(t, "failed") \in Plain
              /\ \A b \in BOOLEAN : Restore(t, b) \in Plain
  BY <1>0, <1>3, PlainOperations DEF Statuses, Phases
<1>16. ASSUME NEW t \in Tank PROVE VisitGone(t) \/ VisitUnfinished(t) \/ VisitActive(t) => PlainCall
  BY <1>14, <1>15, ShortSequences DEF VisitGone, VisitUnfinished, VisitActive
<1>17. ASSUME NEW t \in Tank PROVE VisitReplaced(t) \/ VisitSwitched(t) \/ VisitPending(t) => PlainCall
  BY <1>14, <1>15, ShortSequences DEF VisitReplaced, VisitSwitched, VisitPending
<1>18. ASSUME NEW t \in Tank, VisitSwitchedAgain(t) PROVE PlainCall
  <2>1. todo # <<>> /\ This.do = "restore" /\ This \in Plain
    <3>1. todo # <<>> /\ This.do = "restore"
      BY <1>18 DEF VisitSwitchedAgain, At, This
    <3>2. This = Restore(t, FALSE)
      BY <1>18 DEF VisitSwitchedAgain
    <3>. QED  BY <1>15, <3>1, <3>2
  <2>2. <<SetSession(t, session[t].mode, "recovery_required"), Report(t, "failed"), This>> \in Seq(Plain)
    BY <1>15, <2>1, ShortSequences
  <2>3. Becomes(<<SetSession(t, session[t].mode, "recovery_required"), Report(t, "failed"), This>>)
    BY <1>18, Zenon DEF VisitSwitchedAgain
  <2>. QED  BY <1>2, <2>1, <2>2, <2>3 DEF CallNames
<1>. QED
  BY <1>4, <1>5, <1>6, <1>7, <1>8, <1>9, <1>10, <1>11, <1>12, <1>13, <1>16, <1>17, <1>18 DEF Call

-------------------------------------------------------------------------------
(* Calls keep the invariant. *)

LEMMA Concatenated ==
    ASSUME NEW S, NEW a \in Seq(S), NEW b \in Seq(S)
    PROVE  \A i \in 1 .. Len(a \o b) :
               \/ i \in 1 .. Len(a) /\ (a \o b)[i] = a[i]
               \/ i - Len(a) \in 1 .. Len(b) /\ (a \o b)[i] = b[i - Len(a)]
<1>1. Len(a) \in Nat /\ Len(b) \in Nat /\ Len(a \o b) = Len(a) + Len(b)
  BY ConcatProperties
<1>2. \A i \in 1 .. Len(a) + Len(b) : (a \o b)[i] = IF i <= Len(a) THEN a[i] ELSE b[i - Len(a)]
  BY ConcatProperties
<1>. QED  BY <1>1, <1>2

LEMMA Shortened ==
    ASSUME NEW S, NEW a \in Seq(S), a # <<>>
    PROVE  \A i \in 1 .. Len(Tail(a)) : i + 1 \in 1 .. Len(a) /\ Tail(a)[i] = a[i + 1]
OBVIOUS

\* Whatever a plain call leaves to do is plain or was to be done before
LEMMA PlainWork ==
    ASSUME RecoveryInv, PlainCall
    PROVE  \A i \in 1 .. Len(todo') :
               todo'[i] \in Plain \/ \E k \in 1 .. Len(todo) : todo'[i] = todo[k]
<1>. DEFINE S == Operation
<1>0. todo \in Seq(S) /\ todo # <<>> /\ Tail(todo) \in Seq(S)
  BY RestOfWork DEF RecoveryInv, ExchangeInv, FlowInv, PlainCall
<1>1. ASSUME NEW ops \in Seq(Plain) PROVE ops \in Seq(S) /\ \A i \in 1 .. Len(ops) : ops[i] \in Plain
  BY DEF Plain
<1>. HIDE DEF S
<1>2. CASE todo' = <<>>
  BY <1>2
<1>3. ASSUME NEW ops \in Seq(Plain), todo' = ops \o Tail(todo)
      PROVE  \A i \in 1 .. Len(todo') :
                 todo'[i] \in Plain \/ \E k \in 1 .. Len(todo) : todo'[i] = todo[k]
  <2>1. ASSUME NEW i \in 1 .. Len(todo')
        PROVE  \/ i \in 1 .. Len(ops) /\ todo'[i] = ops[i]
               \/ i - Len(ops) \in 1 .. Len(Tail(todo)) /\ todo'[i] = Tail(todo)[i - Len(ops)]
    BY <1>0, <1>1, <1>3, Concatenated
  <2>2. \A i \in 1 .. Len(Tail(todo)) : i + 1 \in 1 .. Len(todo) /\ Tail(todo)[i] = todo[i + 1]
    BY <1>0, Shortened
  <2>. QED  BY <1>1, <2>1, <2>2
<1>4. ASSUME NEW ops \in Seq(Plain), todo' = ops \o todo
      PROVE  \A i \in 1 .. Len(todo') :
                 todo'[i] \in Plain \/ \E k \in 1 .. Len(todo) : todo'[i] = todo[k]
  <2>1. ASSUME NEW i \in 1 .. Len(todo')
        PROVE  \/ i \in 1 .. Len(ops) /\ todo'[i] = ops[i]
               \/ i - Len(ops) \in 1 .. Len(todo) /\ todo'[i] = todo[i - Len(ops)]
    BY <1>0, <1>1, <1>4, Concatenated
  <2>. QED  BY <1>1, <2>1
<1>. QED  BY <1>2, <1>3, <1>4 DEF PlainCall

\* While a call is at hand no reply is half taken in and nobody was just attended
LEMMA CallAtHand ==
    ASSUME RecoveryInv, todo # <<>>, Head(todo).do \in CallNames
    PROVE  /\ \A t \in Tank : ~Attended(t)
           /\ \A k \in 1 .. Len(todo) :
                  /\ todo[k].do # "replace"
                  /\ todo[k].do \in {"accept", "resolve"} => orphaned \subseteq recovery
                  /\ \A t \in orphaned : ~Settles(todo[k], t)
                  /\ todo[k].do = "record" /\ Kind[todo[k].cmd] = "finish" =>
                         todo[k].status # "completed"
<1>0. todo \in Seq(Operation) /\ 1 \in 1 .. Len(todo) /\ Head(todo) = todo[1]
  BY DEF RecoveryInv, ExchangeInv, FlowInv
<1>1. \A t \in Tank : ~Attended(t)
  BY DEF Attended, CallNames, Record
<1>2. ASSUME NEW k \in 1 .. Len(todo) PROVE todo[k].do # "replace"
  <2>1. CASE k = 1
    BY <1>0, <2>1 DEF CallNames
  <2>2. CASE k # 1
    <3>1. 1 \in 1 .. k - 1
      BY <1>0, <2>2
    <3>2. todo[k].do = "replace" => todo[1].do \in {"advance", "acknowledge"}
      BY <3>1 DEF RecoveryInv, OrderInv
    <3>. QED  BY <1>0, <3>2 DEF CallNames
  <2>. QED  BY <2>1, <2>2
<1>3. ASSUME NEW k \in 1 .. Len(todo), todo[k].do \in {"accept", "resolve"}
      PROVE  orphaned \subseteq recovery
  <2>1. \A j \in 1 .. k - 1 : j \in 1 .. Len(todo)
    BY <1>0
  <2>. QED  BY <1>2, <1>3, <2>1 DEF RecoveryInv, WorkInv
<1>4. ASSUME NEW k \in 1 .. Len(todo), NEW t \in orphaned PROVE ~Settles(todo[k], t)
  <2>1. t \in Tank
    BY DEF RecoveryInv, ExchangeInv, TypeInv, ExchangeTypeOK
  <2>. QED  BY <1>1, <2>1 DEF RecoveryInv, WorkInv
<1>5. ASSUME NEW k \in 1 .. Len(todo), todo[k].do = "record", Kind[todo[k].cmd] = "finish"
      PROVE  todo[k].status # "completed"
  <2>1. todo[k].status = "completed" => k = 1
    BY <1>5 DEF RecoveryInv, FinishInv
  <2>. QED  BY <1>0, <1>5, <2>1 DEF CallNames
<1>. QED  BY <1>1, <1>2, <1>3, <1>4, <1>5

LEMMA PlainCallsKeep ==
    ASSUME RecoveryInv, PlainCall, ExchangeInv'
    PROVE  RecoveryInv'
<1>0. /\ todo # <<>> /\ Head(todo).do \in CallNames
      /\ UNCHANGED <<store, wire, waterlog, history>>
      /\ orphaned \subseteq Tank
  BY DEF PlainCall, RecoveryInv, ExchangeInv, TypeInv, ExchangeTypeOK
<1>1. ASSUME NEW i \in 1 .. Len(todo')
      PROVE  todo'[i] \in Plain \/ \E k \in 1 .. Len(todo) : todo'[i] = todo[k]
  BY <1>1, PlainWork
<1>2. UNCHANGED <<session, status, outbox, sequence, flag, recovery, wire, orphaned, floor, newest, atRisk, token>>
  BY <1>0 DEF store, waterlog, history
<1>3. LostInv'
  <2>1. \A t \in orphaned : t \in atRisk
    BY <1>0 DEF RecoveryInv, LostInv
  <2>. QED  BY <1>2, <2>1 DEF RecoveryInv, LostInv, Open, Attests
<1>4. WorkInv'
  <2>1. ASSUME NEW t \in orphaned, NEW i \in 1 .. Len(todo')
        PROVE  /\ todo'[i].do = "begin" => TankOf[todo'[i].cmd] # t
               /\ todo'[i].do # "replace"
               /\ todo'[i].do \in {"accept", "resolve"} => t \in recovery
               /\ ~Settles(todo'[i], t)
    <3>1. CASE todo'[i] \in Plain
      BY <3>1 DEF Plain, Settles
    <3>2. ASSUME NEW k \in 1 .. Len(todo), todo'[i] = todo[k]
          PROVE  /\ todo'[i].do = "begin" => TankOf[todo'[i].cmd] # t
                 /\ todo'[i].do # "replace"
                 /\ todo'[i].do \in {"accept", "resolve"} => t \in recovery
                 /\ ~Settles(todo'[i], t)
      <4>1. todo[k].do = "begin" => TankOf[todo[k].cmd] # t
        BY DEF RecoveryInv, WorkInv
      <4>2. /\ todo[k].do # "replace"
            /\ todo[k].do \in {"accept", "resolve"} => t \in recovery
            /\ ~Settles(todo[k], t)
        BY <1>0, CallAtHand
      <4>. QED  BY <3>2, <4>1, <4>2
    <3>. QED  BY <1>1, <3>1, <3>2
  <2>2. \A op, t : Settles(op, t)' = Settles(op, t)
    BY DEF Settles
  <2>. QED  BY <1>2, <2>1, <2>2 DEF WorkInv, Settles
<1>5. OrderInv'
  <2>1. ASSUME NEW i \in 1 .. Len(todo') PROVE todo'[i].do # "replace"
    BY <1>0, <1>1, CallAtHand DEF Plain
  <2>. QED  BY <2>1 DEF OrderInv
<1>6. FinishInv'
  <2>1. ASSUME NEW i \in 1 .. Len(todo')
        PROVE  /\ todo'[i].do = "status" => Kind[todo'[i].cmd] # "finish"
               /\ todo'[i].do = "accept" /\ Kind[todo'[i].cmd] = "finish" =>
                      token[todo'[i].cmd].seq # 0
               /\ todo'[i].do = "record" /\ Kind[todo'[i].cmd] = "finish" =>
                      todo'[i].status \notin {"accepted", "completed"}
    <3>1. CASE todo'[i] \in Plain
      BY <3>1 DEF Plain
    <3>2. ASSUME NEW k \in 1 .. Len(todo), todo'[i] = todo[k]
          PROVE  /\ todo[k].do = "status" => Kind[todo[k].cmd] # "finish"
                 /\ todo[k].do = "accept" /\ Kind[todo[k].cmd] = "finish" =>
                        token[todo[k].cmd].seq # 0
                 /\ todo[k].do = "record" /\ Kind[todo[k].cmd] = "finish" =>
                        todo[k].status \notin {"accepted", "completed"}
      <4>1. todo[k].do = "record" /\ Kind[todo[k].cmd] = "finish" => todo[k].status # "completed"
        BY <1>0, CallAtHand
      <4>. QED  BY <4>1 DEF RecoveryInv, FinishInv
    <3>. QED  BY <1>1, <3>1, <3>2
  <2>. QED  BY <1>2, <2>1 DEF RecoveryInv, FinishInv
<1>7. BlockInv' /\ TankInv' /\ NewestInv' /\ LastInv' /\ StatusInv'
  BY <1>2 DEF RecoveryInv, BlockInv, OrphansBlock, RecoveryRequired, TankInv, NewestInv, LastInv,
              StatusInv, Open
<1>. QED  BY <1>3, <1>4, <1>5, <1>6, <1>7 DEF RecoveryInv

LEMMA FinishKeeps ==
    ASSUME RecoveryInv, NEW c \in Command, FinishAccepted(c), ExchangeInv'
    PROVE  RecoveryInv'
<1>. DEFINE t == TankOf[c]
            first == Record(c, "completed")
            answer == Queue(c, token[c].start, "normal", "completed")
            rest == IF Open(t)
                    THEN <<Transition(c, "normal", "normal"), Report(t, "completed"), Resolve(t), Remove(t)>>
                    ELSE <<answer, Resolve(t)>>
            Fresh(op) == op \in Plain \/ op = Resolve(t) \/ op = answer
<1>0. /\ todo \in Seq(Operation) /\ todo # <<>> /\ Tail(todo) \in Seq(Operation)
      /\ floor \in Nat /\ token \in [Command -> Tokens] /\ t \in Tank /\ orphaned \subseteq Tank
      /\ status \in [Command -> Statuses]
  BY ExchangeAssumption, RestOfWork
     DEF RecoveryInv, ExchangeInv, TypeInv, ExchangeTypeOK, FlowInv, FinishAccepted, New, At
<1>1. /\ At("accept") /\ Head(todo).cmd = c /\ Head(todo).do \in CallNames /\ Kind[c] = "finish"
      /\ Acknowledges(c)
      /\ todo' = (<<first>> \o rest) \o Tail(todo)
      /\ UNCHANGED <<store, wire, waterlog, history>>
  BY DEF FinishAccepted, New, At, This, Becomes, CallNames
<1>2. UNCHANGED <<session, status, outbox, sequence, flag, recovery, wire, orphaned, floor, newest, atRisk, token>>
  BY <1>1 DEF store, waterlog, history
<1>3. /\ first \in Operation /\ Resolve(t) \in Operation /\ answer \in Operation
      /\ Transition(c, "normal", "normal") \in Plain /\ Report(t, "completed") \in Plain
      /\ Remove(t) \in Plain
  <2>1. token[c].start \in Anyone
    BY <1>0 DEF Tokens
  <2>. QED  BY <1>0, <2>1, Operations, PlainOperations DEF Statuses, Phases
<1>4. rest \in Seq(Operation) /\ \A i \in 1 .. Len(rest) : Fresh(rest[i])
  <2>1. CASE Open(t)
    <3>1. rest = <<Transition(c, "normal", "normal"), Report(t, "completed"), Resolve(t), Remove(t)>>
      BY <2>1
    <3>2. Plain \subseteq Operation
      BY DEF Plain
    <3>3. rest \in Seq(Operation)
      BY <1>3, <3>1, <3>2, ShortSequences
    <3>4. \A i \in 1 .. Len(rest) :
              rest[i] \in {Transition(c, "normal", "normal"), Report(t, "completed"), Resolve(t), Remove(t)}
      BY <3>1
    <3>. QED  BY <1>3, <3>3, <3>4
  <2>2. CASE ~Open(t)
    <3>1. rest = <<answer, Resolve(t)>>
      BY <2>2
    <3>2. rest \in Seq(Operation)
      BY <1>3, <3>1, ShortSequences
    <3>3. \A i \in 1 .. Len(rest) : rest[i] \in {answer, Resolve(t)}
      BY <3>1
    <3>. QED  BY <3>2, <3>3
  <2>. QED  BY <2>1, <2>2
<1>. HIDE DEF rest, Fresh
<1>5. /\ <<first>> \o rest \in Seq(Operation) /\ Len(<<first>> \o rest) = 1 + Len(rest)
      /\ Len(rest) \in Nat
      /\ \A i \in 1 .. Len(<<first>> \o rest) :
             \/ i = 1 /\ (<<first>> \o rest)[i] = first
             \/ i # 1 /\ Fresh((<<first>> \o rest)[i])
  <2>1. <<first>> \in Seq(Operation) /\ Len(<<first>>) = 1 /\ <<first>>[1] = first
    BY <1>3, ShortSequences
  <2>2. \A i \in 1 .. Len(<<first>> \o rest) :
            \/ i \in 1 .. Len(<<first>>) /\ (<<first>> \o rest)[i] = <<first>>[i]
            \/ /\ i - Len(<<first>>) \in 1 .. Len(rest)
               /\ (<<first>> \o rest)[i] = rest[i - Len(<<first>>)]
    BY <1>4, <2>1, Concatenated
  <2>3. <<first>> \o rest \in Seq(Operation) /\ Len(<<first>> \o rest) = 1 + Len(rest)
        /\ Len(rest) \in Nat
    BY <1>4, <2>1, ConcatProperties
  <2>4. ASSUME NEW i \in 1 .. Len(<<first>> \o rest)
        PROVE  \/ i = 1 /\ (<<first>> \o rest)[i] = first
               \/ i # 1 /\ Fresh((<<first>> \o rest)[i])
    <3>1. CASE i \in 1 .. Len(<<first>>) /\ (<<first>> \o rest)[i] = <<first>>[i]
      <4>1. i = 1
        BY <2>1, <3>1
      <4>. QED  BY <2>1, <3>1, <4>1
    <3>2. CASE i - 1 \in 1 .. Len(rest) /\ (<<first>> \o rest)[i] = rest[i - 1]
      <4>1. i # 1
        BY <2>3, <3>2
      <4>. QED  BY <1>4, <3>2, <4>1
    <3>. QED  BY <2>1, <2>2, <3>1, <3>2
  <2>. QED  BY <2>3, <2>4
<1>6. /\ todo' \in Seq(Operation) /\ Head(todo') = first
      /\ \A i \in 1 .. Len(todo') :
             \/ i = 1 /\ todo'[i] = first
             \/ i # 1 /\ (Fresh(todo'[i]) \/ \E k \in 1 .. Len(todo) : todo'[i] = todo[k])
  <2>. DEFINE ops == <<first>> \o rest
  <2>1. ops \in Seq(Operation) /\ Len(ops) \in Nat \ {0} /\ todo' = ops \o Tail(todo)
    BY <1>1, <1>5
  <2>2. \A i \in 1 .. Len(ops) : (i = 1 /\ ops[i] = first) \/ (i # 1 /\ Fresh(ops[i]))
    BY <1>5
  <2>. HIDE DEF ops
  <2>3. \A i \in 1 .. Len(todo') :
            \/ i \in 1 .. Len(ops) /\ todo'[i] = ops[i]
            \/ i - Len(ops) \in 1 .. Len(Tail(todo)) /\ todo'[i] = Tail(todo)[i - Len(ops)]
    BY <1>0, <2>1, Concatenated
  <2>4. \A i \in 1 .. Len(Tail(todo)) : i + 1 \in 1 .. Len(todo) /\ Tail(todo)[i] = todo[i + 1]
    BY <1>0, Shortened
  <2>5. ASSUME NEW i \in 1 .. Len(todo')
        PROVE  \/ i = 1 /\ todo'[i] = first
               \/ i # 1 /\ (Fresh(todo'[i]) \/ \E k \in 1 .. Len(todo) : todo'[i] = todo[k])
    <3>1. CASE i \in 1 .. Len(ops) /\ todo'[i] = ops[i]
      BY <2>2, <3>1
    <3>2. CASE i - Len(ops) \in 1 .. Len(Tail(todo)) /\ todo'[i] = Tail(todo)[i - Len(ops)]
      <4>1. i # 1
        BY <2>1, <3>2
      <4>. QED  BY <2>4, <3>2, <4>1
    <3>. QED  BY <2>3, <3>1, <3>2
  <2>6. todo' \in Seq(Operation) /\ Len(todo') = Len(ops) + Len(Tail(todo))
    BY <1>0, <2>1, ConcatProperties
  <2>7. Len(Tail(todo)) \in Nat
    BY <1>0
  <2>8. 1 \in 1 .. Len(todo') /\ Head(todo') = todo'[1]
    BY <2>1, <2>6, <2>7
  <2>. QED  BY <2>5, <2>6, <2>8
<1>. USE DEF Fresh
<1>7. LostInv'
  <2>1. \A u \in orphaned : u \in atRisk
    BY <1>1 DEF RecoveryInv, LostInv, At
  <2>. QED  BY <1>2, <2>1 DEF RecoveryInv, LostInv, Open, Attests
<1>8. Attended(t)' /\ \A u : Settles(Resolve(t), u) \/ Settles(answer, u) => u = t
  BY <1>1, <1>6 DEF Attended, Settles, Resolve, Queue
<1>9. WorkInv'
  <2>0. orphaned \subseteq recovery
    BY <1>1, AcceptsInformed
  <2>1. ASSUME NEW u \in orphaned, NEW i \in 1 .. Len(todo')
        PROVE  /\ todo'[i].do = "begin" => TankOf[todo'[i].cmd] # u
               /\ todo'[i].do # "replace"
               /\ Settles(todo'[i], u) => i # 1 /\ Attended(u)'
    <3>1. CASE i = 1 /\ todo'[i] = first
      BY <3>1 DEF Record, Settles
    <3>2. CASE i # 1 /\ todo'[i] \in Plain
      BY <3>2 DEF Plain, Settles
    <3>3. CASE i # 1 /\ (todo'[i] = Resolve(t) \/ todo'[i] = answer)
      <4>1. todo'[i].do \notin {"begin", "replace"}
        BY <3>3 DEF Resolve, Queue
      <4>. QED  BY <1>8, <3>3, <4>1
    <3>4. ASSUME i # 1, NEW k \in 1 .. Len(todo), todo'[i] = todo[k]
          PROVE  /\ todo'[i].do = "begin" => TankOf[todo'[i].cmd] # u
                 /\ todo'[i].do # "replace"
                 /\ ~Settles(todo'[i], u)
      <4>1. todo[k].do = "begin" => TankOf[todo[k].cmd] # u
        BY DEF RecoveryInv, WorkInv
      <4>2. todo[k].do # "replace" /\ ~Settles(todo[k], u)
        BY <1>0, <1>1, CallAtHand
      <4>. QED  BY <3>4, <4>1, <4>2
    <3>. QED  BY <1>6, <3>1, <3>2, <3>3, <3>4
  <2>. QED  BY <1>2, <2>0, <2>1 DEF WorkInv, Settles, Attended
<1>10. OrderInv'
  <2>1. ASSUME NEW i \in 1 .. Len(todo') PROVE todo'[i].do # "replace"
    <3>1. first.do # "replace" /\ \A op : Fresh(op) => op.do # "replace"
      BY DEF Plain, Record, Resolve, Queue
    <3>2. \A k \in 1 .. Len(todo) : todo[k].do # "replace"
      BY <1>0, <1>1, CallAtHand
    <3>. QED  BY <1>6, <3>1, <3>2
  <2>. QED  BY <2>1 DEF OrderInv
<1>11. FinishInv'
  <2>0. Open(t) => session[t].last # 0 /\ token[c].seq = session[t].last
    <3>1. todo[1] = Head(todo) /\ 1 \in 1 .. Len(todo)
      BY <1>0
    <3>2. token[c].seq # 0
      BY <1>1, <3>1 DEF RecoveryInv, FinishInv, At
    <3>. QED  BY <1>1, <3>2 DEF Acknowledges
  <2>1. ASSUME NEW i \in 1 .. Len(todo')
        PROVE  /\ todo'[i].do = "status" => Kind[todo'[i].cmd] # "finish"
               /\ todo'[i].do = "accept" /\ Kind[todo'[i].cmd] = "finish" =>
                      token[todo'[i].cmd].seq # 0
               /\ todo'[i].do = "record" /\ Kind[todo'[i].cmd] = "finish" =>
                      /\ todo'[i].status # "accepted"
                      /\ todo'[i].status = "completed" => i = 1 /\ todo'[i].cmd = c
    <3>1. CASE i = 1 /\ todo'[i] = first
      BY <3>1 DEF Record
    <3>2. CASE todo'[i] \in Plain \/ todo'[i] = Resolve(t) \/ todo'[i] = answer
      BY <3>2 DEF Plain, Resolve, Queue
    <3>3. ASSUME NEW k \in 1 .. Len(todo), todo'[i] = todo[k]
          PROVE  /\ todo[k].do = "status" => Kind[todo[k].cmd] # "finish"
                 /\ todo[k].do = "accept" /\ Kind[todo[k].cmd] = "finish" =>
                        token[todo[k].cmd].seq # 0
                 /\ todo[k].do = "record" /\ Kind[todo[k].cmd] = "finish" =>
                        todo[k].status \notin {"accepted", "completed"}
      <4>1. todo[k].do = "record" /\ Kind[todo[k].cmd] = "finish" => todo[k].status # "completed"
        BY <1>0, <1>1, CallAtHand
      <4>. QED  BY <4>1 DEF RecoveryInv, FinishInv
    <3>. QED  BY <1>6, <3>1, <3>2, <3>3
  <2>. QED  BY <1>2, <2>0, <2>1 DEF RecoveryInv, FinishInv, Open
<1>12. BlockInv' /\ TankInv' /\ NewestInv' /\ LastInv' /\ StatusInv'
  BY <1>2 DEF RecoveryInv, BlockInv, OrphansBlock, RecoveryRequired, TankInv, NewestInv, LastInv,
              StatusInv, Open
<1>. QED  BY <1>7, <1>9, <1>10, <1>11, <1>12 DEF RecoveryInv

-------------------------------------------------------------------------------
(* Transactions keep the invariant. *)

\* The transaction at hand is done: what is left was there before
LEMMA DoneKeeps ==
    ASSUME RecoveryInv, todo # <<>>, Done, orphaned' \subseteq orphaned,
           \A t \in Tank : Attended(t) => t \notin orphaned',
           IF Head(todo).do = "replace" THEN recovery' = Head(todo).tanks
           ELSE \A t \in orphaned' : t \in recovery => t \in recovery'
    PROVE  /\ WorkInv' /\ OrderInv' /\ FinishInv'
           /\ \A t \in orphaned : t \in Tank /\ ~Open(t) /\ t \in atRisk
<1>0. /\ todo \in Seq(Operation) /\ todo' = Tail(todo) /\ UNCHANGED <<wire, waterlog>>
      /\ 1 \in 1 .. Len(todo) /\ todo[1] = Head(todo) /\ orphaned \subseteq Tank
  BY DEF Done, RecoveryInv, ExchangeInv, TypeInv, ExchangeTypeOK, FlowInv
<1>1. ASSUME NEW i \in 1 .. Len(todo') PROVE i + 1 \in 1 .. Len(todo) /\ todo'[i] = todo[i + 1] /\ i + 1 # 1
  <2>1. i + 1 \in 1 .. Len(todo) /\ Tail(todo)[i] = todo[i + 1]
    BY <1>0, <1>1, Shortened
  <2>2. i \in Nat /\ i >= 1
    BY <1>1
  <2>. QED  BY <1>0, <2>1, <2>2
<1>2. WorkInv'
  <2>1. ASSUME NEW t \in orphaned', NEW i \in 1 .. Len(todo')
        PROVE  /\ todo'[i].do = "begin" => TankOf[todo'[i].cmd] # t
               /\ todo'[i].do = "replace" => t \in todo'[i].tanks
               /\ todo'[i].do \in {"accept", "resolve"} =>
                      t \in recovery' \/ \E j \in 1 .. i - 1 : todo'[j].do = "replace"
               /\ ~Settles(todo'[i], t)
    <3>0. t \in orphaned /\ t \in Tank
      BY <1>0
    <3>1. /\ todo[i + 1].do = "begin" => TankOf[todo[i + 1].cmd] # t
          /\ todo[i + 1].do = "replace" => t \in todo[i + 1].tanks
          /\ Settles(todo[i + 1], t) => Attended(t)
          /\ todo[i + 1].do \in {"accept", "resolve"} =>
                 t \in recovery \/ \E j \in 1 .. i : todo[j].do = "replace"
      <4>1. i + 1 \in 1 .. Len(todo) /\ (i + 1) - 1 = i
        BY <1>1
      <4>. QED  BY <3>0, <4>1 DEF RecoveryInv, WorkInv
    <3>2. ASSUME todo[i + 1].do \in {"accept", "resolve"}
          PROVE  t \in recovery' \/ \E j \in 1 .. i - 1 : todo'[j].do = "replace"
      <4>1. CASE Head(todo).do = "replace"
        <5>1. t \in Head(todo).tanks
          BY <1>0, <3>0, <4>1 DEF RecoveryInv, WorkInv
        <5>. QED  BY <4>1, <5>1
      <4>2. CASE Head(todo).do # "replace" /\ t \in recovery
        BY <4>2
      <4>3. ASSUME Head(todo).do # "replace", NEW j \in 1 .. i, todo[j].do = "replace"
            PROVE  \E n \in 1 .. i - 1 : todo'[n].do = "replace"
        <5>1. j # 1
          BY <1>0, <4>3
        <5>2. j - 1 \in 1 .. i - 1 /\ j - 1 \in 1 .. Len(todo') /\ (j - 1) + 1 = j
          BY <2>1, <5>1
        <5>3. todo'[j - 1] = todo[(j - 1) + 1]
          BY <1>1, <5>2
        <5>4. todo'[j - 1].do = "replace"
          BY <4>3, <5>2, <5>3
        <5>. QED  BY <5>2, <5>4
      <4>. QED  BY <3>1, <3>2, <4>1, <4>2, <4>3
    <3>. QED  BY <1>1, <3>0, <3>1, <3>2
  <2>. QED  BY <2>1 DEF WorkInv, Settles
<1>3. OrderInv'
  <2>1. ASSUME NEW i \in 1 .. Len(todo'), todo'[i].do = "replace", NEW j \in 1 .. i - 1
        PROVE  todo'[j].do \in {"advance", "acknowledge"}
    <3>1. j \in 1 .. Len(todo') /\ j + 1 \in 1 .. (i + 1) - 1
      BY <2>1
    <3>2. i + 1 \in 1 .. Len(todo) /\ todo[i + 1].do = "replace"
      BY <1>1, <2>1
    <3>3. todo[j + 1].do \in {"advance", "acknowledge"}
      BY <3>1, <3>2 DEF RecoveryInv, OrderInv
    <3>. QED  BY <1>1, <3>1, <3>3
  <2>. QED  BY <2>1 DEF OrderInv
<1>4. FinishInv'
  <2>1. ASSUME NEW i \in 1 .. Len(todo')
        PROVE  /\ todo'[i].do = "status" => Kind[todo'[i].cmd] # "finish"
               /\ todo'[i].do = "accept" /\ Kind[todo'[i].cmd] = "finish" => token[todo'[i].cmd].seq # 0
               /\ todo'[i].do = "record" /\ Kind[todo'[i].cmd] = "finish" =>
                      todo'[i].status \notin {"accepted", "completed"}
    BY <1>1 DEF RecoveryInv, FinishInv
  <2>2. UNCHANGED <<token, wire>>
    BY <1>0 DEF waterlog
  <2>. QED  BY <2>1, <2>2 DEF RecoveryInv, FinishInv
<1>5. \A t \in orphaned : t \in Tank /\ ~Open(t) /\ t \in atRisk
  BY <1>0 DEF RecoveryInv, LostInv
<1>. QED  BY <1>2, <1>3, <1>4, <1>5

\* A report says of no tank that it was attended while its lost session is not,
\* and is the last one of its tank
LEMMA ReportKeeps ==
    ASSUME RecoveryInv, ExchangeInv', todo # <<>>, Head(todo).do \notin {"record", "replace", "advance"},
           NEW t \in Tank, NEW c \in Anyone, NEW start, NEW phase, NEW s,
           QueueReport(t, c, start, phase, s),
           \A u \in orphaned : ~(s = "completed" /\ c \in Command /\ Kind[c] = "finish" /\ TankOf[c] = u)
    PROVE  RecoveryInv'
<1>. DEFINE new == [life |-> life, seq |-> sequence + 1, tank |-> t, cmd |-> c,
                    start |-> start, shows |-> Shown(phase), status |-> s]
<1>1. /\ sequence' = sequence + 1
      /\ outbox' = outbox \cup {new}
      /\ session' = (IF Open(t) THEN [session EXCEPT ![t].last = sequence + 1] ELSE session)
      /\ UNCHANGED <<status, flag, recovery, config, history, wire, waterlog>>
      /\ Done
  BY DEF QueueReport, Done
<1>2. /\ sequence \in Nat /\ floor \in Nat /\ session \in [Tank -> Owned] /\ outbox \subseteq Reports
      /\ newest \in [Tank -> [start : Anyone, seq : Nat, shows : Shows]]
      /\ NoCommand \notin Command
  BY ExchangeAssumption DEF RecoveryInv, ExchangeInv, TypeInv, ExchangeTypeOK
<1>3. UNCHANGED <<status, flag, recovery, wire, orphaned, floor, newest, atRisk, token>>
  BY <1>1 DEF waterlog, history
<1>4. /\ WorkInv' /\ OrderInv' /\ FinishInv'
      /\ \A u \in orphaned : u \in Tank /\ ~Open(u) /\ u \in atRisk
  <2>1. \A u \in Tank : ~Attended(u)
    BY DEF Attended, Record
  <2>. QED  BY <1>1, <1>3, <2>1, DoneKeeps
<1>5. new.tank = t /\ new.seq = sequence + 1 /\ new.cmd = c /\ new.status = s
  OBVIOUS
<1>. HIDE DEF new
<1>6. /\ \A u \in Tank : Open(u)' = Open(u) /\ session'[u].cmd = session[u].cmd
      /\ \A u \in Tank : Open(u) => session'[u].last = IF u = t THEN sequence + 1 ELSE session[u].last
  BY <1>1, <1>2 DEF Open, Owned, Sessions
<1>7. LostInv'
  <2>1. \A u \in orphaned : ~Attests(new, u)
    BY <1>5 DEF Attests
  <2>2. \A u \in orphaned, r \in outbox : ~Attests(r, u)
    BY DEF RecoveryInv, LostInv
  <2>3. \A u \in orphaned : wire.kind = "reply" => u \in wire.recovery
    BY DEF RecoveryInv, LostInv
  <2>. QED  BY <1>1, <1>3, <1>4, <1>6, <2>1, <2>2, <2>3 DEF LostInv, Attests
<1>8. LastInv'
  <2>1. floor <= sequence
    BY <1>2 DEF RecoveryInv, ExchangeInv, NumberInv, Advance
  <2>2. \A r \in outbox : r.seq \in 1 .. sequence
    BY DEF RecoveryInv, ExchangeInv, NumberInv
  <2>3. newest[t].seq \in Nat /\ newest[t].seq <= floor
    BY <1>2 DEF RecoveryInv, NewestInv
  <2>4. ASSUME NEW u \in Tank, Open(u), session'[u].last # 0, NEW r \in outbox', r.tank = u
        PROVE  r.seq <= session'[u].last
    <3>1. CASE u = t
      BY <1>1, <1>2, <1>5, <1>6, <2>2, <2>4, <3>1
    <3>2. CASE u # t
      BY <1>1, <1>5, <1>6, <2>4, <3>2 DEF RecoveryInv, LastInv
    <3>. QED  BY <3>1, <3>2
  <2>5. ASSUME NEW u \in Tank, Open(u), session'[u].last # 0
        PROVE  newest[u].seq <= session'[u].last
    <3>1. CASE u = t
      BY <1>2, <1>6, <2>1, <2>3, <2>5, <3>1
    <3>2. CASE u # t
      BY <1>6, <2>5, <3>2 DEF RecoveryInv, LastInv
    <3>. QED  BY <3>1, <3>2
  <2>. QED  BY <1>3, <1>6, <2>4, <2>5 DEF LastInv
<1>9. TankInv'
  BY <1>6 DEF RecoveryInv, TankInv
<1>10. BlockInv' /\ NewestInv' /\ StatusInv'
  BY <1>3 DEF RecoveryInv, BlockInv, OrphansBlock, RecoveryRequired, NewestInv, StatusInv
<1>. QED  BY <1>4, <1>7, <1>8, <1>9, <1>10 DEF RecoveryInv

LEMMA HeadAtHand ==
    ASSUME RecoveryInv, todo # <<>>
    PROVE  /\ This \in Operation /\ This = todo[1] /\ This = Head(todo) /\ 1 \in 1 .. Len(todo)
           /\ \A t \in orphaned : ~Settles(This, t)
           /\ \A t \in orphaned : This.do = "begin" => TankOf[This.cmd] # t
           /\ \A t \in orphaned : This.do = "replace" => t \in This.tanks
           /\ \A t \in orphaned : This.do = "resolve" => t \in recovery
<1>1. todo \in Seq(Operation) /\ 1 \in 1 .. Len(todo) /\ This = todo[1] /\ This = Head(todo)
  BY DEF RecoveryInv, ExchangeInv, FlowInv, This
<1>2. ASSUME NEW t \in orphaned
      PROVE  /\ ~Settles(This, t) /\ (This.do = "begin" => TankOf[This.cmd] # t)
             /\ This.do = "replace" => t \in This.tanks
             /\ This.do = "resolve" => t \in recovery
  BY <1>1 DEF RecoveryInv, WorkInv
<1>. QED  BY <1>1, <1>2, RestOfWork

\* A transaction that writes no report
LEMMA QuietKeeps ==
    ASSUME RecoveryInv, ExchangeInv', todo # <<>>, Done, orphaned' \subseteq orphaned,
           \A t \in Tank : Attended(t) => t \notin orphaned',
           IF Head(todo).do = "replace" THEN recovery' = Head(todo).tanks
           ELSE \A t \in orphaned' : t \in recovery => t \in recovery',
           outbox' \subseteq outbox,
           \A t \in Tank : Open(t)' => /\ Open(t) \/ t \notin orphaned
                                       /\ TankOf[session'[t].cmd] = t
                                       /\ \/ session'[t].last = session[t].last /\ Open(t)
                                          \/ session'[t].last = 0,
           \A c \in Command : Kind[c] = "finish" => status'[c] # "accepted",
           BlockInv'
    PROVE  RecoveryInv'
<1>1. /\ WorkInv' /\ OrderInv' /\ FinishInv'
      /\ \A t \in orphaned : t \in Tank /\ ~Open(t) /\ t \in atRisk
  BY DoneKeeps
<1>2. UNCHANGED <<wire, floor, newest, atRisk, token>>
  BY DEF Done, waterlog
<1>3. LostInv'
  <2>1. \A t \in orphaned' : t \in orphaned /\ t \in Tank /\ ~Open(t)' /\ t \in atRisk
    BY <1>1
  <2>2. \A t \in orphaned : /\ \A r \in outbox : ~Attests(r, t)
                            /\ wire.kind = "reply" => t \in wire.recovery
    BY DEF RecoveryInv, LostInv
  <2>. QED  BY <1>2, <2>1, <2>2 DEF LostInv, Attests
<1>4. TankInv' /\ NewestInv' /\ StatusInv'
  BY <1>2 DEF RecoveryInv, TankInv, NewestInv, StatusInv
<1>5. LastInv'
  BY <1>2 DEF RecoveryInv, LastInv
<1>. QED  BY <1>1, <1>3, <1>4, <1>5 DEF RecoveryInv

LEMMA TransactionsGuard ==
    ASSUME RecoveryInv, Transaction, ExchangeInv'
    PROVE  RecoveryInv'
<1>0. /\ todo # <<>> /\ session \in [Tank -> Owned] /\ status \in [Command -> Statuses]
      /\ TankOf \in [Command -> Tank] /\ "finish" \notin Mode
      /\ orphaned \subseteq Tank /\ sequence \in Nat
  BY ExchangeAssumption
     DEF Transaction, RecordCommand, SetCommandStatus, BeginSession, TransitionSession, SetPhase, RemoveSession,
         ResolveTank, QueueAnswer, ReportSession, AdvanceSequence, AcknowledgeReports,
         ReplaceRecoveryTanks, InstallConfig, At, RecoveryInv, ExchangeInv, TypeInv, ExchangeTypeOK
<1>1. /\ This \in Operation /\ This = todo[1] /\ This = Head(todo) /\ 1 \in 1 .. Len(todo)
      /\ \A t \in orphaned : ~Settles(This, t)
      /\ \A t \in orphaned : This.do = "begin" => TankOf[This.cmd] # t
      /\ \A t \in orphaned : This.do = "replace" => t \in This.tanks
      /\ \A t \in orphaned : This.do = "resolve" => t \in recovery
  BY <1>0, HeadAtHand
<1>2. ASSUME This.do # "record" PROVE \A t \in Tank : ~Attended(t)
  BY <1>1, <1>2 DEF Attended, Record
<1>3. /\ \A t \in Tank : Open(t) => TankOf[session[t].cmd] = t
      /\ \A c \in Command : Kind[c] = "finish" => status[c] # "accepted"
      /\ \A t \in orphaned : ~Open(t)
  BY DEF RecoveryInv, TankInv, StatusInv, LostInv
<1>4. ASSUME UNCHANGED <<flag, recovery>>, orphaned' \subseteq orphaned PROVE BlockInv'
  BY <1>4 DEF RecoveryInv, BlockInv, OrphansBlock, RecoveryRequired
<1>5. ASSUME UNCHANGED session
      PROVE  \A t \in Tank : Open(t)' => /\ Open(t) /\ TankOf[session'[t].cmd] = t
                                         /\ session'[t].last = session[t].last
  BY <1>3, <1>5 DEF Open
<1>6. CASE RecordCommand
  <2>1. /\ This.do = "record" /\ This.cmd \in Command /\ Done
        /\ UNCHANGED <<session, outbox, recovery, flag>>
        /\ status' = [status EXCEPT ![This.cmd] = IF @ = "none" THEN This.status ELSE @]
        /\ orphaned' = IF Kind[This.cmd] = "finish" /\ This.status = "completed"
                       THEN orphaned \ {TankOf[This.cmd]} ELSE orphaned
    BY <1>1, <1>6, Carries DEF RecordCommand, At
  <2>2. \A t \in Tank : Attended(t) => t \notin orphaned'
    BY <1>1, <2>1 DEF Attended, Record
  <2>3. Kind[This.cmd] = "finish" => This.status # "accepted"
    BY <1>1, <2>1 DEF RecoveryInv, FinishInv
  <2>4. \A c \in Command : Kind[c] = "finish" => status'[c] # "accepted"
    BY <1>0, <1>3, <2>1, <2>3
  <2>5. orphaned' \subseteq orphaned
    BY <2>1
  <2>6. /\ \A t \in orphaned' : t \in recovery => t \in recovery'
        /\ Head(todo).do # "replace" /\ outbox' \subseteq outbox
    BY <1>1, <2>1
  <2>. QED  BY <1>0, <1>4, <1>5, <2>1, <2>2, <2>4, <2>5, <2>6, QuietKeeps
<1>7. ASSUME This.do # "record", This.do # "replace", Done, UNCHANGED <<orphaned, recovery, flag>>,
             outbox' \subseteq outbox,
             \A t \in Tank : Open(t)' => /\ Open(t) \/ t \notin orphaned
                                         /\ TankOf[session'[t].cmd] = t
                                         /\ \/ session'[t].last = session[t].last /\ Open(t)
                                            \/ session'[t].last = 0,
             \A c \in Command : Kind[c] = "finish" => status'[c] # "accepted"
      PROVE  RecoveryInv'
  <2>1. BlockInv' /\ orphaned' \subseteq orphaned
    BY <1>4, <1>7
  <2>2. /\ Head(todo).do # "replace" /\ \A t \in orphaned' : t \in recovery => t \in recovery'
        /\ \A t \in Tank : Attended(t) => t \notin orphaned'
    BY <1>1, <1>2, <1>7
  <2>. QED  BY <1>0, <1>7, <2>1, <2>2, QuietKeeps
<1>8. CASE SetCommandStatus
  <2>1. /\ This.do = "status" /\ This.cmd \in Command /\ Done
        /\ UNCHANGED <<session, outbox, recovery, flag, orphaned>>
        /\ status' = [status EXCEPT ![This.cmd] = This.status]
    BY <1>1, <1>8, Carries DEF SetCommandStatus, At, history
  <2>2. Kind[This.cmd] # "finish"
    BY <1>1, <2>1 DEF RecoveryInv, FinishInv
  <2>3. \A c \in Command : Kind[c] = "finish" => status'[c] # "accepted"
    BY <1>0, <1>3, <2>1, <2>2
  <2>. QED  BY <1>5, <1>7, <2>1, <2>3
<1>9. CASE BeginSession
  <2>. DEFINE c == This.cmd
              new == [start |-> IF Open(TankOf[c]) THEN session[TankOf[c]].start ELSE c, cmd |-> c,
                      mode |-> Kind[c], last |-> 0,
                      phase |-> IF Open(TankOf[c]) THEN "switching" ELSE "starting"]
  <2>1. /\ This.do = "begin" /\ c \in Command /\ Kind[c] \in Mode /\ Done
        /\ UNCHANGED <<outbox, recovery, flag, orphaned>>
        /\ status' = [status EXCEPT ![c] = "accepted"]
        /\ session' = [session EXCEPT ![TankOf[c]] = new]
    BY <1>1, <1>9, Carries DEF BeginSession, At, history, Temporary
  <2>2. new.cmd = c /\ new.last = 0
    OBVIOUS
  <2>. HIDE DEF new
  <2>3. \A k \in Command : Kind[k] = "finish" => status'[k] # "accepted"
    BY <1>0, <1>3, <2>1
  <2>4. TankOf[c] \in Tank /\ TankOf[c] \notin orphaned
    BY <1>0, <1>1, <2>1
  <2>5. ASSUME NEW t \in Tank, Open(t)'
        PROVE  /\ Open(t) \/ t \notin orphaned
               /\ TankOf[session'[t].cmd] = t
               /\ \/ session'[t].last = session[t].last /\ Open(t)
                  \/ session'[t].last = 0
    <3>1. CASE t = TankOf[c]
      BY <1>0, <2>1, <2>2, <2>4, <3>1
    <3>2. CASE t # TankOf[c]
      <4>1. session'[t] = session[t]
        BY <1>0, <2>1, <3>2
      <4>. QED  BY <1>3, <2>5, <4>1 DEF Open
    <3>. QED  BY <3>1, <3>2
  <2>. QED  BY <1>7, <2>1, <2>3, <2>5
<1>10. CASE TransitionSession
  <2>. DEFINE t == TankOf[This.cmd]
  <2>1. /\ This.do = "transition" /\ This.cmd \in Command /\ t \in Tank /\ Done
        /\ UNCHANGED <<status, outbox, recovery, flag, orphaned>>
        /\ session' = IF Open(t)
                      THEN [session EXCEPT ![t].cmd = This.cmd, ![t].mode = This.mode,
                                           ![t].phase = This.phase]
                      ELSE session
    BY <1>0, <1>1, <1>10, Carries DEF TransitionSession, At
  <2>2. ASSUME NEW u \in Tank, Open(u)'
        PROVE  Open(u) /\ TankOf[session'[u].cmd] = u /\ session'[u].last = session[u].last
    <3>1. CASE u = t /\ Open(t)
      <4>1. session'[u].cmd = This.cmd /\ session'[u].last = session[u].last
        BY <1>0, <2>1, <3>1 DEF Owned, Sessions
      <4>. QED  BY <3>1, <4>1
    <3>2. CASE u # t \/ ~Open(t)
      <4>1. session'[u] = session[u]
        BY <1>0, <2>1, <3>2
      <4>. QED  BY <1>3, <2>2, <4>1 DEF Open
    <3>. QED  BY <3>1, <3>2
  <2>. QED  BY <1>3, <1>7, <2>1, <2>2
<1>11. CASE SetPhase
  <2>. DEFINE t == This.tank
  <2>1. /\ This.do = "set" /\ t \in Tank /\ Done
        /\ UNCHANGED <<status, outbox, recovery, flag, orphaned>>
        /\ session' = IF Open(t)
                      THEN [session EXCEPT ![t].mode = This.mode, ![t].phase = This.phase]
                      ELSE session
    BY <1>0, <1>1, <1>11, Carries DEF SetPhase, At
  <2>2. ASSUME NEW u \in Tank, Open(u)'
        PROVE  Open(u) /\ TankOf[session'[u].cmd] = u /\ session'[u].last = session[u].last
    <3>1. CASE u = t /\ Open(t)
      <4>1. session'[u].cmd = session[u].cmd /\ session'[u].last = session[u].last
        BY <1>0, <2>1, <3>1 DEF Owned, Sessions
      <4>. QED  BY <1>3, <3>1, <4>1
    <3>2. CASE u # t \/ ~Open(t)
      <4>1. session'[u] = session[u]
        BY <1>0, <2>1, <3>2
      <4>. QED  BY <1>3, <2>2, <4>1 DEF Open
    <3>. QED  BY <3>1, <3>2
  <2>. QED  BY <1>3, <1>7, <2>1, <2>2
<1>12. CASE RemoveSession
  <2>1. /\ This.do = "remove" /\ Done /\ UNCHANGED <<status, outbox, recovery, flag, orphaned>>
        /\ session' = [session EXCEPT ![This.tank] = NoSession]
    BY <1>1, <1>12 DEF RemoveSession, At, history
  <2>2. ASSUME NEW u \in Tank, Open(u)'
        PROVE  Open(u) /\ TankOf[session'[u].cmd] = u /\ session'[u].last = session[u].last
    <3>1. u # This.tank
      BY <1>0, <2>1, <2>2 DEF Open, NoSession
    <3>2. session'[u] = session[u]
      BY <1>0, <2>1, <3>1
    <3>. QED  BY <1>3, <2>2, <3>2 DEF Open
  <2>. QED  BY <1>3, <1>7, <2>1, <2>2
<1>13. CASE ResolveTank
  <2>1. /\ This.do = "resolve" /\ Done /\ UNCHANGED <<session, status, outbox, orphaned>>
        /\ recovery' = recovery \ {This.tank}
    BY <1>1, <1>13 DEF ResolveTank, At, history
  <2>2. \A t \in orphaned : t \in recovery'
    BY <1>1, <2>1 DEF Settles
  <2>3. BlockInv'
    BY <2>1, <2>2 DEF BlockInv, OrphansBlock, RecoveryRequired
  <2>4. /\ Head(todo).do # "replace" /\ orphaned' \subseteq orphaned /\ outbox' \subseteq outbox
        /\ \A t \in orphaned' : t \in recovery => t \in recovery'
        /\ \A t \in Tank : Attended(t) => t \notin orphaned'
        /\ \A c \in Command : Kind[c] = "finish" => status'[c] # "accepted"
    BY <1>1, <1>2, <1>3, <2>1, <2>2
  <2>. QED  BY <1>0, <1>5, <2>1, <2>3, <2>4, QuietKeeps
<1>14. CASE QueueAnswer
  <2>1. /\ This.do = "queue" /\ This.cmd \in Command /\ TankOf[This.cmd] \in Tank /\ This.cmd \in Anyone
        /\ QueueReport(TankOf[This.cmd], This.cmd, This.start, This.phase, This.status)
    BY <1>0, <1>1, <1>14, Carries DEF QueueAnswer, At, Anyone
  <2>2. \A u \in orphaned : ~(/\ This.status = "completed" /\ This.cmd \in Command
                              /\ Kind[This.cmd] = "finish" /\ TankOf[This.cmd] = u)
    BY <1>1, <2>1 DEF Settles
  <2>. QED  BY <1>0, <1>1, <2>1, <2>2, ReportKeeps
<1>15. CASE ReportSession
  <2>1. This.do = "report" /\ This.tank \in Tank
    BY <1>1, <1>15, Carries DEF ReportSession, At
  <2>2. CASE Open(This.tank)
    <3>1. /\ session[This.tank].cmd \in Anyone
          /\ TankOf[session[This.tank].cmd] = This.tank /\ This.tank \notin orphaned
      BY <1>0, <1>3, <2>1, <2>2 DEF Owned, Sessions
    <3>2. QueueReport(This.tank, session[This.tank].cmd, session[This.tank].start,
                      session[This.tank].phase, This.status)
      BY <1>15, <2>2 DEF ReportSession
    <3>. QED  BY <1>0, <1>1, <2>1, <3>1, <3>2, ReportKeeps
  <2>3. CASE ~Open(This.tank)
    <3>1. todo' = <<>> \o Tail(todo) /\ UNCHANGED <<store, wire, waterlog, history>>
      BY <1>15, <2>3 DEF ReportSession, Becomes
    <3>2. todo' = Tail(todo)
      BY <1>0, <3>1, RestOfWork DEF RecoveryInv, ExchangeInv, FlowInv
    <3>3. Done /\ UNCHANGED <<session, status, outbox, recovery, flag, orphaned>>
      BY <3>1, <3>2 DEF Done, store, history
    <3>. QED  BY <1>3, <1>5, <1>7, <2>1, <3>3
  <2>. QED  BY <2>2, <2>3
<1>16. CASE AdvanceSequence
  <2>1. /\ This.do = "advance" /\ Done
        /\ UNCHANGED <<session, status, outbox, recovery, flag, orphaned>>
    BY <1>1, <1>16 DEF AdvanceSequence, At, history
  <2>. QED  BY <1>3, <1>5, <1>7, <2>1
<1>17. CASE AcknowledgeReports
  <2>1. /\ This.do = "acknowledge" /\ Done /\ outbox' \subseteq outbox
        /\ UNCHANGED <<session, status, recovery, flag, orphaned>>
    BY <1>1, <1>17 DEF AcknowledgeReports, At, history
  <2>. QED  BY <1>3, <1>5, <1>7, <2>1
<1>18. CASE ReplaceRecoveryTanks
  <2>1. /\ This.do = "replace" /\ Done /\ UNCHANGED <<session, status, outbox, orphaned>>
        /\ recovery' = This.tanks
    BY <1>1, <1>18 DEF ReplaceRecoveryTanks, At, history
  <2>2. BlockInv'
    BY <1>1, <2>1 DEF BlockInv, OrphansBlock, RecoveryRequired
  <2>3. /\ Head(todo).do = "replace" /\ recovery' = Head(todo).tanks
        /\ orphaned' \subseteq orphaned /\ outbox' \subseteq outbox
        /\ \A t \in Tank : Attended(t) => t \notin orphaned'
        /\ \A c \in Command : Kind[c] = "finish" => status'[c] # "accepted"
    BY <1>1, <1>2, <1>3, <2>1
  <2>. QED  BY <1>0, <1>5, <2>1, <2>2, <2>3, QuietKeeps
<1>19. CASE InstallConfig
  <2>1. /\ This.do = "install" /\ Done
        /\ UNCHANGED <<session, status, outbox, recovery, flag, orphaned>>
    BY <1>1, <1>19 DEF InstallConfig, At, history
  <2>. QED  BY <1>3, <1>5, <1>7, <2>1
<1>. QED
  BY <1>6, <1>8, <1>9, <1>10, <1>11, <1>12, <1>13, <1>14, <1>15, <1>16, <1>17, <1>18, <1>19
     DEF Transaction

-------------------------------------------------------------------------------
(* The steps between handlers keep the invariant. *)

\* A handler begins, or a crash ends it: what it has to do says nothing of the
\* tanks that wait and finishes nothing
LEMMA BeginsGuard ==
    ASSUME RecoveryInv, ExchangeInv', UNCHANGED <<store, waterlog, history>>,
           wire' = wire \/ wire' = Idle, todo' = <<>> \/ ~(sequence < floor),
           \A i \in 1 .. Len(todo') : todo'[i].do \in {"unwind", "visit"}
    PROVE  RecoveryInv'
<1>1. UNCHANGED <<session, status, outbox, sequence, flag, recovery, orphaned, floor, newest, atRisk, token>>
  BY DEF store, waterlog, history
<1>2. LostInv'
  BY <1>1 DEF RecoveryInv, LostInv, Open, Attests, KnownOpen, Idle
<1>3. WorkInv' /\ OrderInv'
  BY DEF WorkInv, OrderInv, Settles
<1>4. FinishInv'
  BY <1>1 DEF RecoveryInv, FinishInv, Idle
<1>5. BlockInv' /\ TankInv' /\ NewestInv' /\ LastInv' /\ StatusInv'
  BY <1>1 DEF RecoveryInv, BlockInv, OrphansBlock, RecoveryRequired, TankInv, NewestInv, LastInv,
              StatusInv, Open
<1>. QED  BY <1>2, <1>3, <1>4, <1>5 DEF RecoveryInv

LEMMA TicksGuard ==
    ASSUME RecoveryInv, ExchangeInv', Tick \/ TickUnsafe \/ Crash
    PROVE  RecoveryInv'
<1>1. OpenTanks # {} => ~(sequence < floor)
  BY DEF RecoveryInv, ExchangeInv, NumberInv, OpenTanks
<1>2. Visit(OpenTanks).do = "visit" /\ Unwind(OpenTanks).do = "unwind"
  BY DEF Visit, Unwind
<1>3. CASE Tick
  <2>1. \A i \in 1 .. Len(todo') : todo'[i].do \in {"unwind", "visit"}
    BY <1>2, <1>3 DEF Tick
  <2>. QED  BY <1>1, <1>3, <2>1, BeginsGuard DEF Tick
<1>4. CASE TickUnsafe
  <2>1. \A i \in 1 .. Len(todo') : todo'[i].do \in {"unwind", "visit"}
    BY <1>2, <1>4 DEF TickUnsafe
  <2>. QED  BY <1>1, <1>4, <2>1, BeginsGuard DEF TickUnsafe
<1>5. CASE Crash
  <2>1. \A i \in 1 .. Len(todo') : todo'[i].do \in {"unwind", "visit"}
    BY <1>5 DEF Crash
  <2>. QED  BY <1>5, <2>1, BeginsGuard DEF Crash
<1>. QED  BY <1>3, <1>4, <1>5

\* A reply becomes what it says of reports and tanks, and then its commands
LEMMA ReplyTaken ==
    ASSUME RecoveryInv, Apply
    PROVE  \A i \in 1 .. Len(todo') :
               \/ i = 1 /\ todo'[i].do = "advance"
               \/ i = 2 /\ todo'[i].do = "acknowledge"
               \/ i = 3 /\ todo'[i].do = "replace" /\ todo'[i].tanks = wire.recovery
               \/ i = 4 /\ todo'[i].do = "install"
               \/ /\ i > 4 /\ todo'[i].do = "accept"
                  /\ \E k \in 1 .. Len(wire.commands) : todo'[i].cmd = wire.commands[k]
<1>. DEFINE first == <<Advance(wire.floor), Acknowledge(wire.acks),
                       ReplaceRecovery(wire.recovery), Install(wire.config)>>
            rest == [i \in 1 .. Len(wire.commands) |-> Accept(wire.commands[i])]
<1>1. wire.kind = "reply" /\ todo' = first \o rest
  BY DEF Apply
<1>2. wire.commands \in Seq(Command)
  BY <1>1 DEF RecoveryInv, ExchangeInv, FlowInv, ReplyOf, Idle
<1>3. /\ Len(first) = 4 /\ first[1].do = "advance" /\ first[2].do = "acknowledge"
      /\ first[3] = ReplaceRecovery(wire.recovery) /\ first[4].do = "install"
  BY DEF Advance, Acknowledge, Install
<1>4. /\ Len(rest) \in Nat
      /\ \A i \in 1 .. Len(rest) : i \in 1 .. Len(wire.commands) /\ rest[i] = Accept(wire.commands[i])
  BY <1>2
<1>5. \A i \in 1 .. Len(todo') :
          \/ i \in 1 .. 4 /\ todo'[i] = first[i]
          \/ i - 4 \in 1 .. Len(rest) /\ todo'[i] = rest[i - 4]
  <2>. DEFINE S == {first[1], first[2], first[3], first[4]} \cup {Accept(c) : c \in Command}
  <2>1. first \in Seq(S)
    OBVIOUS
  <2>2. rest \in Seq(S)
    BY <1>2
  <2>3. Len(first) = 4 /\ todo' = first \o rest
    BY <1>1, <1>3
  <2>. HIDE DEF first, rest, S
  <2>4. \A i \in 1 .. Len(first \o rest) :
            \/ i \in 1 .. Len(first) /\ (first \o rest)[i] = first[i]
            \/ i - Len(first) \in 1 .. Len(rest) /\ (first \o rest)[i] = rest[i - Len(first)]
    BY <2>1, <2>2, Concatenated
  <2>. QED  BY <2>3, <2>4
<1>. HIDE DEF first, rest
<1>. SUFFICES ASSUME NEW i \in 1 .. Len(todo')
              PROVE  \/ i = 1 /\ todo'[i].do = "advance"
                     \/ i = 2 /\ todo'[i].do = "acknowledge"
                     \/ i = 3 /\ todo'[i].do = "replace" /\ todo'[i].tanks = wire.recovery
                     \/ i = 4 /\ todo'[i].do = "install"
                     \/ /\ i > 4 /\ todo'[i].do = "accept"
                        /\ \E k \in 1 .. Len(wire.commands) : todo'[i].cmd = wire.commands[k]
  OBVIOUS
<1>6. CASE i \in 1 .. 4 /\ todo'[i] = first[i]
  <2>1. i \in {1, 2, 3, 4}
    BY <1>6
  <2>. QED  BY <1>3, <1>6, <2>1 DEF ReplaceRecovery
<1>7. CASE i - 4 \in 1 .. Len(rest) /\ todo'[i] = rest[i - 4]
  <2>1. i > 4 /\ i - 4 \in 1 .. Len(wire.commands) /\ todo'[i] = Accept(wire.commands[i - 4])
    BY <1>4, <1>7
  <2>. QED  BY <2>1 DEF Accept
<1>. QED  BY <1>5, <1>6, <1>7

\* A reply names every tank that waits
LEMMA ApplyGuards ==
    ASSUME RecoveryInv, ExchangeInv', Apply
    PROVE  RecoveryInv'
<1>1. wire.kind = "reply" /\ wire' = Idle /\ UNCHANGED <<store, waterlog, history>>
  BY DEF Apply
<1>2. UNCHANGED <<session, status, outbox, sequence, flag, recovery, orphaned, floor, newest, atRisk, token>>
  BY <1>1 DEF store, waterlog, history
<1>3. /\ wire.commands \in Seq(Command) /\ wire # Idle
      /\ \A i \in 1 .. Len(wire.commands) :
             Kind[wire.commands[i]] = "finish" => token[wire.commands[i]].seq # 0
  BY <1>1 DEF RecoveryInv, ExchangeInv, FlowInv, FinishInv, ReplyOf, Idle
<1>4. \A t \in orphaned : t \in wire.recovery /\ t \in atRisk
  BY <1>1, <1>3 DEF RecoveryInv, LostInv
<1>5. LostInv'
  BY <1>1, <1>2, <1>4 DEF RecoveryInv, LostInv, Open, Attests, Idle
<1>6. ASSUME NEW i \in 1 .. Len(todo')
      PROVE  \/ i = 1 /\ todo'[i].do = "advance"
             \/ i = 2 /\ todo'[i].do = "acknowledge"
             \/ i = 3 /\ todo'[i].do = "replace" /\ todo'[i].tanks = wire.recovery
             \/ i = 4 /\ todo'[i].do = "install"
             \/ /\ i > 4 /\ todo'[i].do = "accept"
                /\ \E k \in 1 .. Len(wire.commands) : todo'[i].cmd = wire.commands[k]
  BY ReplyTaken
<1>7. WorkInv' /\ OrderInv'
  <2>1. ASSUME NEW t \in orphaned, NEW i \in 1 .. Len(todo')
        PROVE  /\ todo'[i].do # "begin"
               /\ todo'[i].do = "replace" => t \in todo'[i].tanks
               /\ todo'[i].do \in {"accept", "resolve"} => \E j \in 1 .. i - 1 : todo'[j].do = "replace"
               /\ ~Settles(todo'[i], t)
    <3>1. CASE i \in 1 .. 4
      BY <1>4, <1>6, <3>1 DEF Settles
    <3>2. CASE i > 4
      <4>1. 3 \in 1 .. i - 1 /\ 3 \in 1 .. Len(todo')
        BY <3>2
      <4>2. todo'[3].do = "replace"
        BY <1>6, <4>1
      <4>3. todo'[i].do = "accept"
        BY <1>6, <3>2
      <4>. QED  BY <4>1, <4>2, <4>3 DEF Settles
    <3>. QED  BY <3>1, <3>2
  <2>2. ASSUME NEW i \in 1 .. Len(todo'), todo'[i].do = "replace", NEW j \in 1 .. i - 1
        PROVE  todo'[j].do \in {"advance", "acknowledge"}
    <3>1. i = 3
      BY <1>6, <2>2
    <3>2. j \in {1, 2} /\ j \in 1 .. Len(todo')
      BY <2>2, <3>1
    <3>. QED  BY <1>6, <3>2
  <2>3. WorkInv'
    BY <1>2, <2>1 DEF WorkInv, Settles
  <2>. QED  BY <2>2, <2>3 DEF OrderInv
<1>8. FinishInv'
  <2>1. ASSUME NEW i \in 1 .. Len(todo')
        PROVE  /\ todo'[i].do \notin {"status", "record"}
               /\ todo'[i].do = "accept" /\ Kind[todo'[i].cmd] = "finish" =>
                      token[todo'[i].cmd].seq # 0
    BY <1>3, <1>6
  <2>2. \A c \in Command : token[c] # NoToken => token[c].seq # 0
    BY DEF RecoveryInv, FinishInv
  <2>. QED  BY <1>1, <1>2, <2>1, <2>2 DEF FinishInv, Idle
<1>9. BlockInv' /\ TankInv' /\ NewestInv' /\ LastInv' /\ StatusInv'
  BY <1>2 DEF RecoveryInv, BlockInv, OrphansBlock, RecoveryRequired, TankInv, NewestInv, LastInv,
              StatusInv, Open
<1>. QED  BY <1>5, <1>7, <1>8, <1>9 DEF RecoveryInv

\* With a request Waterlog gets to know of every session that was lost; what it
\* receives tells of no tank that it was attended before it was
LEMMA ReceiveGuards ==
    ASSUME RecoveryInv, ExchangeInv', Receive,
           wire'.kind = "reply" =>
               /\ wire'.recovery = atRisk'
               /\ \A i \in 1 .. Len(wire'.commands) :
                      Kind[wire'.commands[i]] = "finish" => token[wire'.commands[i]].seq # 0
    PROVE  RecoveryInv'
<1>0. /\ floor \in Nat /\ sequence \in Nat /\ Batch \subseteq outbox /\ outbox \subseteq Reports
      /\ newest \in [Tank -> [start : Anyone, seq : Nat, shows : Shows]]
      /\ NoCommand \notin Command /\ ExchangeInv
  BY ExchangeAssumption DEF RecoveryInv, ExchangeInv, TypeInv, ExchangeTypeOK, Batch
<1>1. /\ todo = <<>>
      /\ UNCHANGED <<session, status, outbox, sequence, flag, recovery, todo, orphaned, token>>
  BY DEF Receive, store, history
<1>2. \A t \in orphaned : t \in atRisk'
  <2>1. ASSUME NEW t \in orphaned PROVE t \in atRisk \cup (IF sequence < floor THEN KnownOpen ELSE {})
    BY DEF RecoveryInv, LostInv
  <2>2. ASSUME NEW t \in orphaned, NEW d \in Command, Kind[d] = "finish", TankOf[d] = t,
               NEW r \in Batch, r.cmd = d, r.status = "completed"
        PROVE  FALSE
    BY <1>0, <2>2 DEF RecoveryInv, LostInv, Attests
  <2>. QED  BY <2>1, <2>2 DEF Receive
<1>3. LostInv'
  <2>1. \A t \in orphaned : ~Open(t) /\ \A r \in outbox : ~Attests(r, t)
    BY DEF RecoveryInv, LostInv
  <2>. QED  BY <1>1, <1>2, <2>1 DEF LostInv, Open, Attests
<1>4. WorkInv' /\ OrderInv'
  BY <1>1 DEF WorkInv, OrderInv
<1>5. FinishInv'
  BY <1>1 DEF RecoveryInv, FinishInv
<1>6. NewestInv' /\ LastInv'
  <2>1. ASSUME NEW t \in Tank
        PROVE  /\ newest'[t].seq <= floor' /\ (newest'[t].shows # "normal" => newest'[t].seq # 0)
               /\ newest'[t].seq = newest[t].seq
                  \/ \E r \in outbox : r.tank = t /\ newest'[t].seq = r.seq
    <3>1. floor' \in Nat /\ floor <= floor' /\ \A r \in Batch : r.seq \in 1 .. sequence /\ r.seq <= floor'
      BY <1>0, FloorRises
    <3>2. CASE newest'[t] = newest[t]
      <4>1. newest[t].seq \in Nat /\ newest[t].seq <= floor
            /\ (newest[t].shows # "normal" => newest[t].seq # 0)
        BY <1>0 DEF RecoveryInv, NewestInv
      <4>. QED  BY <1>0, <3>1, <3>2, <4>1
    <3>3. ASSUME NEW r \in Batch, r.tank = t,
                 newest'[t] = [start |-> r.start, seq |-> r.seq, shows |-> r.shows]
          PROVE  /\ newest'[t].seq <= floor' /\ newest'[t].seq # 0
                 /\ r \in outbox /\ newest'[t].seq = r.seq
      <4>1. newest'[t].seq = r.seq
        BY <3>3
      <4>2. r.seq \in 1 .. sequence /\ r.seq <= floor'
        BY <3>1
      <4>. QED  BY <1>0, <4>1, <4>2
    <3>. QED  BY <1>0, <3>2, <3>3, NewestReceived
  <2>2. ASSUME NEW t \in Tank, Open(t), session[t].last # 0
        PROVE  /\ \A r \in outbox : r.tank = t => r.seq <= session[t].last
               /\ newest'[t].seq <= session[t].last
    <3>1. /\ \A r \in outbox : r.tank = t => r.seq <= session[t].last
          /\ newest[t].seq <= session[t].last
      BY <2>2 DEF RecoveryInv, LastInv
    <3>. QED  BY <2>1, <3>1
  <2>. QED  BY <1>1, <2>1, <2>2 DEF NewestInv, LastInv, Open
<1>7. BlockInv' /\ TankInv' /\ StatusInv'
  BY <1>1 DEF RecoveryInv, BlockInv, OrphansBlock, RecoveryRequired, TankInv, StatusInv, Open
<1>. QED  BY <1>3, <1>4, <1>5, <1>6, <1>7 DEF RecoveryInv

LEMMA AttendGuards ==
    ASSUME RecoveryInv, ExchangeInv', NEW c \in Command, Attend(c)
    PROVE  RecoveryInv'
<1>1. /\ todo = <<>>
      /\ token' = [token EXCEPT ![c] = [start |-> newest[TankOf[c]].start, seq |-> newest[TankOf[c]].seq]]
      /\ newest[TankOf[c]].seq # 0
      /\ UNCHANGED <<session, status, outbox, sequence, flag, recovery, todo, wire, orphaned,
                     floor, newest, atRisk>>
  BY DEF Attend, store, history
<1>2. token \in [Command -> Tokens] /\ wire \in {Idle} \cup ReplyOf
  BY DEF RecoveryInv, ExchangeInv, TypeInv, ExchangeTypeOK, FlowInv
<1>3. \A d \in Command : token'[d].seq # 0 \/ token'[d] = token[d]
  BY <1>1, <1>2
<1>4. FinishInv'
  <2>1. \A d \in Command : token'[d] # NoToken => token'[d].seq # 0
    BY <1>3 DEF RecoveryInv, FinishInv
  <2>2. ASSUME wire.kind = "reply", NEW i \in 1 .. Len(wire.commands), Kind[wire.commands[i]] = "finish"
        PROVE  token'[wire.commands[i]].seq # 0
    <3>1. wire.commands \in Seq(Command)
      BY <1>2, <2>2 DEF ReplyOf, Idle
    <3>2. wire.commands[i] \in Command
      BY <3>1
    <3>3. token[wire.commands[i]].seq # 0
      BY <2>2 DEF RecoveryInv, FinishInv
    <3>. QED  BY <1>3, <3>2, <3>3
  <2>. QED  BY <1>1, <2>1, <2>2 DEF FinishInv
<1>5. WorkInv' /\ OrderInv'
  BY <1>1 DEF WorkInv, OrderInv
<1>6. LostInv' /\ BlockInv' /\ TankInv' /\ NewestInv' /\ LastInv' /\ StatusInv'
  BY <1>1 DEF RecoveryInv, LostInv, BlockInv, OrphansBlock, RecoveryRequired, TankInv, NewestInv,
              LastInv, StatusInv, Open, Attests, KnownOpen
<1>. QED  BY <1>4, <1>5, <1>6 DEF RecoveryInv

LEMMA ExternalGuards ==
    ASSUME RecoveryInv, ExchangeInv', External
    PROVE  RecoveryInv'
<1>1. ASSUME NEW commands \in Deliveries, NEW revision \in 0 .. MaxConfig, Serve(commands, revision)
      PROVE  RecoveryInv'
  <2>1. /\ Receive
        /\ wire' = [kind |-> "reply", acks |-> {Id(r) : r \in Batch}, floor |-> floor',
                    recovery |-> atRisk', config |-> revision, commands |-> commands]
        /\ \A i \in 1 .. Len(commands) : Kind[commands[i]] = "finish" => token[commands[i]] # NoToken
    BY <1>1 DEF Serve, Deliverable
  <2>2. commands \in Seq(Command)
    BY ExchangeAssumption DEF Deliveries
  <2>3. \A i \in 1 .. Len(commands) : Kind[commands[i]] = "finish" => token[commands[i]].seq # 0
    BY <2>1, <2>2 DEF RecoveryInv, FinishInv
  <2>. QED  BY <2>1, <2>3, ReceiveGuards
<1>2. CASE ReplyLost
  <2>1. Receive /\ wire' = Idle
    BY <1>2 DEF ReplyLost, Receive
  <2>. QED  BY <2>1, ReceiveGuards DEF Idle
<1>. QED  BY <1>1, <1>2, AttendGuards DEF External

\* The loss of a session that Waterlog has on report leaves the new store behind
\* its floor
LEMMA LossGuards ==
    ASSUME RecoveryInv, ExchangeInv', LoseStore
    PROVE  RecoveryInv'
<1>0. /\ floor \in Nat /\ sequence \in Nat /\ orphaned \subseteq Tank
      /\ newest \in [Tank -> [start : Anyone, seq : Nat, shows : Shows]]
  BY DEF RecoveryInv, ExchangeInv, TypeInv, ExchangeTypeOK
<1>1. /\ session' = [t \in Tank |-> NoSession] /\ outbox' = {} /\ sequence' = 0
      /\ todo' = <<>> /\ wire' = Idle /\ status' = [c \in Command |-> "none"]
      /\ orphaned' = orphaned \cup OnReport
      /\ UNCHANGED <<floor, newest, atRisk, token>>
      /\ flag' \in (IF "crash" \in Faults THEN BOOLEAN ELSE {TRUE})
  BY DEF LoseStore, waterlog
<1>2. \A t \in Tank : ~Open(t)'
  BY <1>1 DEF Open, NoSession
<1>3. LostInv'
  <2>1. ASSUME NEW t \in KnownOpen PROVE 0 < floor
    <3>1. t \in Tank /\ newest[t].seq \in Nat /\ newest[t].seq # 0 /\ newest[t].seq <= floor
      BY <1>0 DEF RecoveryInv, NewestInv, KnownOpen
    <3>. QED  BY <1>0, <3>1
  <2>2. ASSUME NEW t \in orphaned' PROVE t \in Tank /\ (t \in atRisk \/ (0 < floor /\ t \in KnownOpen))
    <3>1. CASE t \in orphaned
      BY <1>0, <2>1, <3>1 DEF RecoveryInv, LostInv
    <3>2. CASE t \in OnReport
      BY <2>1, <3>2 DEF OnReport, OpenTanks
    <3>. QED  BY <1>1, <2>2, <3>1, <3>2
  <2>. QED  BY <1>1, <1>2, <2>2 DEF LostInv, KnownOpen, Idle
<1>4. WorkInv' /\ OrderInv'
  BY <1>1 DEF WorkInv, OrderInv
<1>5. FinishInv'
  BY <1>1 DEF RecoveryInv, FinishInv, Idle
<1>6. BlockInv' /\ StatusInv'
  BY <1>1 DEF BlockInv, OrphansBlock, RecoveryRequired, StatusInv
<1>7. TankInv' /\ NewestInv' /\ LastInv'
  BY <1>1, <1>2 DEF RecoveryInv, TankInv, NewestInv, LastInv
<1>. QED  BY <1>3, <1>4, <1>5, <1>6, <1>7 DEF RecoveryInv

LEMMA RecoveryInitially == Init => RecoveryInv
<1>. SUFFICES ASSUME Init PROVE RecoveryInv
  OBVIOUS
<1>1. ExchangeInv
  BY ExchangeInitially
<1>2. \A t \in Tank : ~Open(t)
  BY DEF Init, Open, NoSession
<1>3. LostInv /\ WorkInv /\ OrderInv /\ BlockInv /\ StatusInv
  BY DEF Init, LostInv, WorkInv, OrderInv, BlockInv, OrphansBlock, StatusInv
<1>4. TankInv /\ NewestInv /\ LastInv
  BY <1>2 DEF Init, TankInv, NewestInv, LastInv, NoReport
<1>5. FinishInv
  BY DEF Init, FinishInv, Idle
<1>. QED  BY <1>1, <1>3, <1>4, <1>5 DEF RecoveryInv

LEMMA RecoveryStep == RecoveryInv /\ [Next]_vars => RecoveryInv'
<1>. SUFFICES ASSUME RecoveryInv, [Next]_vars PROVE RecoveryInv'
  OBVIOUS
<1>0. ExchangeInv'
  BY ExchangeStep DEF RecoveryInv
<1>1. CASE Handler
  BY <1>0, <1>1, TransactionsGuard, CallsArePlain, PlainCallsKeep, FinishKeeps DEF Handler
<1>2. CASE Tick \/ TickUnsafe \/ Crash
  BY <1>0, <1>2, TicksGuard
<1>3. CASE Apply
  BY <1>0, <1>3, ApplyGuards
<1>4. CASE External
  BY <1>0, <1>4, ExternalGuards
<1>5. CASE LoseStore
  BY <1>0, <1>5, LossGuards
<1>6. CASE UNCHANGED vars
  <2>1. UNCHANGED <<session, status, outbox, sequence, flag, recovery, orphaned, floor, newest,
                    atRisk, token, todo, wire>>
    BY <1>6 DEF vars, store, waterlog, history
  <2>2. LostInv' /\ BlockInv' /\ TankInv' /\ NewestInv' /\ LastInv' /\ StatusInv'
    BY <2>1 DEF RecoveryInv, LostInv, BlockInv, OrphansBlock, RecoveryRequired, TankInv, NewestInv,
                LastInv, StatusInv, Open, Attests, KnownOpen
  <2>3. WorkInv' /\ OrderInv' /\ FinishInv'
    BY <2>1 DEF RecoveryInv, WorkInv, OrderInv, FinishInv, Settles, Attended, Open
  <2>. QED  BY <1>0, <2>2, <2>3 DEF RecoveryInv
<1>. QED  BY <1>1, <1>2, <1>3, <1>4, <1>5, <1>6 DEF Next

LEMMA RecoveryAlways == Spec => []RecoveryInv
BY RecoveryInitially, RecoveryStep, PTL DEF Spec

-------------------------------------------------------------------------------
(* The theorems. *)

\* As long as a tank that lost an open session with the store has not been
\* attended, recovery is required: no reply, however old, and no finish of another
\* tank says otherwise.  This is about sessions Waterlog had on report when the
\* store was lost; of any other the bridge knows until the first reply, which
\* clears the flag (control_store.py:482).  Without crashes: one while the store is made anew may
\* lose the flag, and recovery is then required from the next reply on.
THEOREM OrphansAlwaysBlock ==
    ASSUME "crash" \notin Faults
    PROVE  Spec => []OrphansBlock
<1>1. RecoveryInv => OrphansBlock
  BY DEF RecoveryInv, BlockInv
<1>. QED  BY <1>1, RecoveryAlways, PTL

\* The steps that change what is recorded of a command or of a lost session
LEMMA WhoWrites ==
    ASSUME [Next]_vars
    PROVE  \/ RecordCommand \/ SetCommandStatus \/ BeginSession \/ LoseStore
           \/ status' = status /\ orphaned' = orphaned
<1>1. ASSUME Transaction
      PROVE  RecordCommand \/ SetCommandStatus \/ BeginSession \/ UNCHANGED <<status, orphaned>>
  BY <1>1 DEF Transaction, TransitionSession, SetPhase, RemoveSession, ResolveTank, QueueAnswer, QueueReport,
              ReportSession, AdvanceSequence, AcknowledgeReports, ReplaceRecoveryTanks,
              InstallConfig, Becomes, store, history
<1>2. ASSUME AcceptCommand PROVE UNCHANGED <<store, history>>
  BY <1>2 DEF AcceptCommand, Unreadable, AcceptKnown, AcceptRefused, AcceptUnfit, AcceptUnsafe,
              AcceptSameMode, AcceptTemporary, AcceptNormal, FinishIgnored, FinishAccepted,
              FinishRefused, Becomes
<1>3. ASSUME Call PROVE UNCHANGED <<store, history>>
  BY <1>2, <1>3 DEF Call, EntryVisits, EntrySucceeds, EntryFails, RejectOrUnwind, RestoreComplete,
                    RestoreLater, RestorePending, LoopDone, UnwindTank, VisitGone, VisitUnfinished,
                    VisitActive, VisitReplaced, VisitSwitched, VisitSwitchedAgain, VisitPending,
                    Visiting, Becomes
<1>4. ASSUME Tick \/ TickUnsafe \/ Apply \/ External \/ Crash PROVE UNCHANGED <<store, history>>
  BY <1>4 DEF Tick, TickUnsafe, Apply, External, Serve, Receive, Attend, ReplyLost, Crash
<1>. QED  BY <1>1, <1>3, <1>4 DEF Next, Handler, vars, store, history

\* A tank that lost an open session Waterlog had on report begins no mode until
\* it has been attended, whatever crashes, lost replies, restarts and further
\* losses of the store come in between.  A session lost before its first report
\* arrived is not covered: there a redelivered command begins a mode.
THEOREM ReportedSessionsWait == Spec => ReportedSessionsGuarded
<1>. DEFINE A == \A t \in Tank : ~Open(t) /\ Open(t)' => t \notin orphaned
<1>1. RecoveryInv /\ RecoveryInv' /\ [Next]_vars => A
  <2>. SUFFICES ASSUME RecoveryInv, RecoveryInv', [Next]_vars, NEW t \in Tank,
                       ~Open(t), Open(t)', t \in orphaned
                PROVE  FALSE
    OBVIOUS
  <2>1. CASE t \in orphaned'
    BY <2>1 DEF RecoveryInv, LostInv
  <2>2. CASE t \notin orphaned'
    <3>1. session' = session
      BY <2>2, WhoWrites DEF RecordCommand, SetCommandStatus, BeginSession, LoseStore, history
    <3>. QED  BY <3>1 DEF Open
  <2>. QED  BY <2>1, <2>2
<1>2. RecoveryInv /\ RecoveryInv' /\ [Next]_vars => [A]_vars
  BY <1>1
<1>. HIDE DEF A
<1>3. Spec => [][A]_vars
  BY <1>2, RecoveryAlways, PTL DEF Spec
<1>. QED  BY <1>3 DEF A, ReportedSessionsGuarded

\* Whoever finishes the recovery of an open session has acknowledged its last
\* report: nothing the bridge said of the tank since, still in the outbox or at
\* Waterlog, is newer.
THEOREM FinishIsInformed == Spec => FinishSeesLatest
<1>. DEFINE Seen(c) == /\ \A r \in outbox : r.tank = TankOf[c] => r.seq <= token[c].seq
                       /\ newest[TankOf[c]].seq <= token[c].seq
            A == \A c \in Command :
                    Kind[c] = "finish" /\ Open(TankOf[c]) /\ status[c] = "none" /\ status'[c] = "completed"
                        => Seen(c)
<1>1. RecoveryInv /\ [Next]_vars => A
  <2>. SUFFICES ASSUME RecoveryInv, [Next]_vars, NEW c \in Command, Kind[c] = "finish",
                       Open(TankOf[c]), status[c] = "none", status'[c] = "completed"
                PROVE  Seen(c)
    BY DEF A
  <2>0. /\ todo \in Seq(Operation) /\ TankOf[c] \in Tank /\ status \in [Command -> Statuses]
        /\ "finish" \notin Mode
    BY ExchangeAssumption DEF RecoveryInv, ExchangeInv, TypeInv, ExchangeTypeOK, FlowInv
  <2>1. status'[c] # status[c]
    OBVIOUS
  <2>2. CASE RecordCommand
    <3>1. /\ todo # <<>> /\ 1 \in 1 .. Len(todo) /\ todo[1] = This /\ This.do = "record"
          /\ status' = [status EXCEPT ![This.cmd] = IF @ = "none" THEN This.status ELSE @]
      BY <2>0, <2>2, HeadAtHand DEF RecordCommand, At
    <3>2. This.cmd = c /\ This.status = "completed"
      BY <2>0, <2>1, <3>1
    <3>3. session[TankOf[c]].last # 0 /\ token[c].seq = session[TankOf[c]].last
      BY <3>1, <3>2 DEF RecoveryInv, FinishInv
    <3>. QED  BY <2>0, <3>3 DEF RecoveryInv, LastInv
  <2>3. CASE SetCommandStatus
    <3>1. /\ todo # <<>> /\ 1 \in 1 .. Len(todo) /\ todo[1] = This /\ This.do = "status"
          /\ status' = [status EXCEPT ![This.cmd] = This.status]
      BY <2>0, <2>3, HeadAtHand DEF SetCommandStatus, At
    <3>2. This.cmd = c
      BY <2>0, <2>1, <3>1
    <3>. QED  BY <3>1, <3>2 DEF RecoveryInv, FinishInv
  <2>4. CASE BeginSession
    BY <2>0, <2>4 DEF BeginSession
  <2>5. CASE LoseStore
    BY <2>5 DEF LoseStore
  <2>. QED  BY <2>1, <2>2, <2>3, <2>4, <2>5, WhoWrites
<1>2. RecoveryInv /\ [Next]_vars => [A]_vars
  BY <1>1
<1>. HIDE DEF A
<1>3. Spec => [][A]_vars
  BY <1>2, RecoveryAlways, PTL DEF Spec
<1>. QED  BY <1>3 DEF A, FinishSeesLatest

===============================================================================
