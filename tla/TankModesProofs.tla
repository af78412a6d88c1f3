--------------------------- MODULE TankModesProofs ---------------------------
(* Proofs about TankModes, for every set of tanks, outlets, modes and faults.  *)
(*                                                                             *)
(*   TypeCorrect            Spec => []TypeOK                                   *)
(*   BaselinesHonoured      Spec => []NeverTurnedOn                            *)
(*   ObligationsStay        Spec => ObligationsLeaveRestored                   *)
(*   NothingForgotten       without a stale view, Spec => []NoForgottenOutlet  *)
(*                                                                             *)
(* The inductive invariant has two parts.  StoreInv is about the store alone   *)
(* and holds under every fault: whatever a restoration has behind it is        *)
(* restored as long as it still counts as complete, so that what is deleted    *)
(* (Trim, RemoveSession) is restored.  OwedInv relates the store to the        *)
(* physical outlets, which it can only while a reading shows them as they are. *)
EXTENDS TankModes, TLAPS

Restoring == pc \in {"resolve", "restore", "on_call", "on_ok", "on_failed"}
Calling == pc \in {"on_call", "on_ok", "on_failed"}

\* The obligations a running restoration is about
InScope(o) ==
    /\ TankOf[o] = rst.tank
    /\ obl[o].base # "none"
    /\ rst.back = "switch" => ~obl[o].active

BaselineInv == \A o \in Outlet : obl[o].base = origin[o]

RestoreInv ==
    Restoring /\ rst.complete =>
        \A o \in Outlet : InScope(o) /\ o \notin rst.todo /\ o # rst.cur
                              => obl[o].result = "restored"

CallInv ==
    /\ Calling => rst.cur \in Outlet /\ obl[rst.cur].base = "on"
    /\ Restoring /\ ~Calling => rst.cur = NoOutlet
    /\ Restoring /\ rst.back = "switch" => rst.tank = job.tank

TrimInv ==
    pc = "trim" =>
        \A o \in Outlet :
            TankOf[o] = job.tank /\ obl[o].base # "none" /\ ~obl[o].active
                => obl[o].result = "restored"

RemoveInv ==
    pc = "remove" =>
        /\ rst.back # "switch"
        /\ \/ rst.tank \in acked
           \/ \A o \in Outlet : TankOf[o] = rst.tank /\ obl[o].base # "none"
                                    => obl[o].result = "restored"

StoreInv ==
    /\ TypeOK
    /\ BaselineInv
    /\ RestoreInv
    /\ CallInv
    /\ TrimInv
    /\ RemoveInv

OwedInv ==
    /\ shown = phys
    /\ \A o \in Outlet : owed[o] => /\ phys[o] = "off"
                                    /\ obl[o].base = "on"
                                    /\ obl[o].result # "restored"
    /\ pc = "off_call" => job.cur \in Outlet /\ obl[job.cur].result # "restored"
    /\ pc = "on_ok" => ~owed[rst.cur]
    /\ pc = "remove" => \A o \in Outlet : TankOf[o] = rst.tank => ~owed[o]

-------------------------------------------------------------------------------
(* Types of the updates the actions are made of.                               *)

LEMMA SessionType ==
    ASSUME TypeOK, NEW t, NEW m \in Mode \cup {"normal"}, NEW p \in Phases,
           SetSession(t, m, p)
    PROVE  session' \in [Tank -> Session]
BY DEF TypeOK, SetSession, Session

LEMMA PhaseType ==
    ASSUME TypeOK, NEW t, NEW p \in Phases, SetPhase(t, p)
    PROVE  session' \in [Tank -> Session]
<1>1. \A u \in Tank : session[u].mode \in Mode \cup {"normal"}
  BY DEF TypeOK, Session
<1>2. CASE t \in Tank
  BY <1>1, <1>2, SessionType DEF SetPhase
<1>3. CASE t \notin Tank
  BY <1>3 DEF TypeOK, SetPhase, SetSession
<1> QED
  BY <1>2, <1>3

LEMMA ResultType ==
    ASSUME TypeOK, NEW o, NEW r \in Results, NEW e \in Errors, MarkResult(o, r, e)
    PROVE  obl' \in [Outlet -> Obligation]
<1>1. CASE o \in Outlet
  <2> DEFINE new == [obl[o] EXCEPT !.result = r, !.error = e]
  <2>1. new \in Obligation
    <3>1. obl[o] \in Obligation
      BY <1>1 DEF TypeOK
    <3> QED
      BY <3>1 DEF Obligation
  <2>2. obl' = [obl EXCEPT ![o] = new]
    BY <1>1 DEF TypeOK, MarkResult
  <2> HIDE DEF new
  <2> QED
    BY <2>1, <2>2 DEF TypeOK
<1>2. CASE o \notin Outlet
  BY <1>2 DEF TypeOK, MarkResult
<1> QED
  BY <1>1, <1>2

LEMMA RetryType ==
    ASSUME TypeOK, NEW S, NEW e \in Errors, Retry(S, e)
    PROVE  obl' \in [Outlet -> Obligation]
<1>1. \A o \in Outlet : [obl[o] EXCEPT !.error = e, !.wait = TRUE] \in Obligation
  <2>1. obl \in [Outlet -> Obligation]
    BY DEF TypeOK
  <2> QED
    BY <2>1 DEF Obligation
<1> QED
  BY <1>1 DEF TypeOK, Retry

LEMMA NoObligationType == NoObligation \in Obligation
BY DEF NoObligation, Obligation, Results, Errors

LEMMA NoSessionType == NoSession \in Session
BY DEF NoSession, Session, Phases

LEMMA NoJobType == NoJob \in Job
BY DEF NoJob, Job

LEMMA NoRestorationType == NoRestoration \in Restoration
BY DEF NoRestoration, Restoration, Backs

LEMMA StartType ==
    ASSUME NEW t \in Tank \cup {NoTank}, NEW S \in SUBSET Outlet, NEW i \in BOOLEAN,
           NEW b \in Backs, StartRestore(t, S, i, b)
    PROVE  rst' \in Restoration /\ pc' \in Places
BY DEF StartRestore, Restoration, Places

LEMMA VisitedType ==
    ASSUME TypeOK, NEW o, NEW c \in BOOLEAN, Visited(o, c)
    PROVE  /\ rst' \in Restoration
           /\ UNCHANGED <<session, pc, job, visit, phys, shown, owed, origin, acked, cmds>>
BY DEF TypeOK, Visited, Restoration, world, history

LEMMA ReturnType ==
    ASSUME TypeOK, rst.back # "switch", Return
    PROVE  rst' \in Restoration /\ pc' \in Places /\ job' \in Job
BY NoRestorationType, NoJobType DEF TypeOK, Return, Restoration, Backs, Places

LEMMA CallType ==
    ASSUME TypeOK, NEW o, NEW v \in {"on", "off"}, NEW a \in BOOLEAN,
           Confirmed(o, v) \/ Uncertain(o, v, a)
    PROVE  phys' \in [Outlet -> {"on", "off"}] /\ shown' \in [Outlet -> {"on", "off"}]
<1>1. phys' \in [Outlet -> {"on", "off"}]
  BY DEF TypeOK, Confirmed, Uncertain
<1> QED
  BY <1>1 DEF TypeOK, Confirmed, Uncertain

LEMMA FlagsType ==
    ASSUME NEW r \in Obligation, NEW b \in BOOLEAN
    PROVE  /\ [r EXCEPT !.intent = b, !.result = "none"] \in Obligation
           /\ [r EXCEPT !.due = b] \in Obligation
           /\ [r EXCEPT !.wait = b] \in Obligation
BY DEF Obligation, Results

-------------------------------------------------------------------------------
(* Type correctness.  RemoveSession goes on where _restore was called; that    *)
(* this is not inside a switch is the one fact the types depend on.            *)

TypeInv == TypeOK /\ (pc = "remove" => rst.back # "switch")

LEMMA InitType == Init => TypeInv
BY ConstantsAssumption, NoObligationType, NoSessionType, NoJobType, NoRestorationType
   DEF Init, TypeInv, TypeOK, Places

LEMMA RestoreStepType == TypeInv /\ RestoreStep => TypeInv'
<1> SUFFICES ASSUME TypeInv, RestoreStep PROVE TypeInv'
  OBVIOUS
<1> USE DEF TypeInv, TypeOK, durable, world, history
<1>1. CASE Resolve
  BY <1>1 DEF Resolve, Places
<1>2. CASE ResolveFails
  BY <1>2, RetryType DEF ResolveFails, Restoration, Errors, Places
<1>3. ASSUME NEW o \in Outlet, SkipOutlet(o) PROVE TypeInv'
  BY <1>3, VisitedType DEF SkipOutlet, Turn
<1>4. ASSUME NEW o \in Outlet, FoundRestored(o) PROVE TypeInv'
  BY <1>4, VisitedType, ResultType DEF FoundRestored, Turn, Results, Errors
<1>5. ASSUME NEW o \in Outlet, HoldOutlet(o) PROVE TypeInv'
  BY <1>5, VisitedType DEF HoldOutlet, Differs, Turn
<1>6. ASSUME NEW o \in Outlet, FoundSwitched(o) PROVE TypeInv'
  BY <1>6, VisitedType, ResultType DEF FoundSwitched, Differs, Turn, Results, Errors
<1>7. ASSUME NEW o \in Outlet, RestoreUnknown(o) PROVE TypeInv'
  BY <1>7, VisitedType, RetryType DEF RestoreUnknown, Differs, Turn, Errors
<1>8. ASSUME NEW o \in Outlet, PumpNotRestored(o) PROVE TypeInv'
  BY <1>8, VisitedType, RetryType DEF PumpNotRestored, Restorable, Differs, Turn, Errors
<1>9. ASSUME NEW o \in Outlet, RestoreOutlet(o) PROVE TypeInv'
  <2>1. rst' \in Restoration
    BY <1>9 DEF RestoreOutlet, Restoration
  <2>2. obl' \in [Outlet -> Obligation]
    BY <1>9 DEF RestoreOutlet, Obligation, Results
  <2> QED
    BY <1>9, <2>1, <2>2 DEF RestoreOutlet, Places
<1>10. CASE RestoreConfirmed
  BY <1>10, CallType DEF RestoreConfirmed, Places
<1>11. ASSUME NEW applied \in BOOLEAN, RestoreUncertain(applied) PROVE TypeInv'
  BY <1>11, CallType DEF RestoreUncertain, Places
<1>12. CASE RecordRestored
  <2>1. rst' \in Restoration
    BY <1>12 DEF RecordRestored, Restoration
  <2> QED
    BY <1>12, <2>1, ResultType DEF RecordRestored, Places, Results, Errors
<1>13. CASE RecordRestoreFailed
  <2>1. rst' \in Restoration
    BY <1>13 DEF RecordRestoreFailed, Restoration
  <2> QED
    BY <1>13, <2>1, RetryType DEF RecordRestoreFailed, Places, Errors
<1>14. CASE SwitchRestored
  BY <1>14, NoRestorationType DEF SwitchRestored, RestoreDone, Places
<1>15. CASE EndSession
  BY <1>15, SessionType DEF EndSession, RestoreDone, Places, Phases
<1>16. CASE RemoveSession
  <2>1. session' \in [Tank -> Session]
    BY <1>16, NoSessionType DEF RemoveSession
  <2>2. obl' \in [Outlet -> Obligation]
    BY <1>16, NoObligationType DEF RemoveSession
  <2>3. origin' \in [Outlet -> {"none", "on", "off"}]
    BY <1>16 DEF RemoveSession
  <2>4. rst' \in Restoration /\ pc' \in Places /\ job' \in Job /\ pc' # "remove"
    BY <1>16, ReturnType DEF RemoveSession, Return, Restoration, Backs
  <2> QED
    BY <1>16, <2>1, <2>2, <2>3, <2>4 DEF RemoveSession
<1>17. CASE KeepSession
  <2>1. session' \in [Tank -> Session]
    <3>1. PICK p \in Phases \cup {session[rst.tank].phase} : SetPhase(rst.tank, p)
      BY <1>17 DEF KeepSession, Phases
    <3>2. CASE rst.tank \in Tank
      BY <3>1, <3>2, PhaseType DEF Session
    <3>3. CASE rst.tank \notin Tank
      BY <3>1, <3>3 DEF SetPhase, SetSession
    <3> QED
      BY <3>2, <3>3
  <2>2. rst' \in Restoration /\ pc' \in Places /\ job' \in Job /\ pc' # "remove"
    BY <1>17, ReturnType DEF KeepSession, Return, Restoration, Backs
  <2> QED
    BY <1>17, <2>1, <2>2 DEF KeepSession
<1> QED
  BY <1>1, <1>2, <1>3, <1>4, <1>5, <1>6, <1>7, <1>8, <1>9, <1>10, <1>11, <1>12,
     <1>13, <1>14, <1>15, <1>16, <1>17 DEF RestoreStep

LEMMA ObligatedType == \A t : Obligated(t) \in SUBSET Outlet
BY DEF Obligated, Outlets

LEMMA CmdsType ==
    ASSUME TypeOK, NEW t \in Tank, cmds[t] < MaxCommands,
           cmds' = [cmds EXCEPT ![t] = @ + 1]
    PROVE  cmds' \in [Tank -> 0..MaxCommands]
<1>1. cmds[t] + 1 \in 0..MaxCommands
  BY ConstantsAssumption DEF TypeOK
<1> QED
  BY <1>1 DEF TypeOK

LEMMA CommandType == TypeInv /\ Command => TypeInv'
<1> SUFFICES ASSUME TypeInv, NEW t \in Tank,
                    \/ \E m \in Mode, sel \in Profiles : AcceptTemporary(t, m, sel)
                    \/ AcceptRefused(t) \/ AcceptNormal(t)
                    \/ FinishManual(t) \/ FinishManualFails(t)
             PROVE  TypeInv'
  BY DEF Command
<1> USE ConstantsAssumption DEF TypeInv, TypeOK, durable, volatile, world, history
<1>1. ASSUME NEW m \in Mode, NEW sel \in Profiles, AcceptTemporary(t, m, sel)
      PROVE  TypeInv'
  <2>1. job' \in Job
    BY <1>1 DEF AcceptTemporary, NoJob, Job
  <2>2. cmds' \in [Tank -> 0..MaxCommands]
    BY <1>1, CmdsType DEF AcceptTemporary
  <2> QED
    BY <1>1, <2>1, <2>2 DEF AcceptTemporary, Places
<1>2. CASE AcceptRefused(t)
  <2>1. job' \in Job
    BY <1>2 DEF AcceptRefused, NoJob, Job
  <2> QED
    BY <1>2, <2>1 DEF AcceptRefused, Places
<1>3. CASE AcceptNormal(t)
  <2>1. rst' \in Restoration /\ pc' \in Places
    BY <1>3, StartType, ObligatedType DEF AcceptNormal, Backs
  <2>2. pc' # "remove"
    BY <1>3 DEF AcceptNormal, StartRestore
  <2> QED
    BY <1>3, <2>1, <2>2, SessionType DEF AcceptNormal, Phases
<1>4. CASE FinishManual(t)
  <2>1. rst' \in Restoration /\ rst'.back # "switch"
    BY <1>4 DEF FinishManual, NoRestoration, Restoration, Backs
  <2>2. owed' \in [Outlet -> BOOLEAN]
    BY <1>4 DEF FinishManual
  <2> QED
    BY <1>4, <2>1, <2>2, SessionType DEF FinishManual, Phases, Places
<1>5. CASE FinishManualFails(t)
  BY <1>5, SessionType DEF FinishManualFails, Phases
<1> QED
  BY <1>1, <1>2, <1>3, <1>4, <1>5

LEMMA TemporaryStepType == TypeInv /\ TemporaryStep => TypeInv'
<1> SUFFICES ASSUME TypeInv, TemporaryStep PROVE TypeInv'
  OBVIOUS
<1> USE DEF TypeInv, TypeOK, durable, volatile, world, history
<1>1. CASE PreflightUnsafe
  BY <1>1 DEF PreflightUnsafe, ClockUnsafe, Sessions, Places
<1>2. CASE PreflightRefused
  BY <1>2 DEF PreflightRefused, Places
<1>3. CASE Preflight
  <2>1. job' \in Job
    BY <1>3 DEF Preflight, Job
  <2> QED
    BY <1>3, <2>1 DEF Preflight, Places
<1>4. CASE SameMode
  BY <1>4, NoJobType DEF SameMode, Places
<1>5. CASE BeginSession
  <2>1. session' \in [Tank -> Session]
    BY <1>5, SessionType DEF BeginSession, Job, Phases
  <2>2. \A o \in Outlet : Planned(o) \in Obligation
    BY DEF Planned, Baseline, NoObligation, Obligation, Results, Errors
  <2>3. \A o \in Outlet : Carried(o) \in Obligation
    BY DEF Carried, NoObligation, Obligation, Results, Errors
  <2>4. obl' \in [Outlet -> Obligation]
    BY <1>5, <2>2, <2>3 DEF BeginSession
  <2>5. origin' \in [Outlet -> {"none", "on", "off"}]
    BY <1>5 DEF BeginSession
  <2>6. job' \in Job
    BY <1>5 DEF BeginSession, Job
  <2>7. CASE Open(job.tank)
    <3>1. StartRestore(job.tank, Obligated(job.tank) \ job.sel, TRUE, "switch") /\ visit' = visit
      BY <1>5, <2>7 DEF BeginSession
    <3>2. rst' \in Restoration /\ pc' \in Places
      BY <3>1, StartType, ObligatedType DEF Job, Backs
    <3>3. pc' # "remove"
      BY <3>1 DEF StartRestore
    <3> QED
      BY <1>5, <2>1, <2>4, <2>5, <2>6, <3>1, <3>2, <3>3 DEF BeginSession
  <2>8. CASE ~Open(job.tank)
    <3>1. pc' = "check" /\ visit' \in SUBSET Tank /\ rst' = rst
      BY <1>5, <2>8 DEF BeginSession, Sessions
    <3> QED
      BY <1>5, <2>1, <2>4, <2>5, <2>6, <3>1 DEF BeginSession, Places
  <2> QED
    BY <2>7, <2>8
<1>6. CASE Trim
  <2>1. obl' \in [Outlet -> Obligation]
    BY <1>6, NoObligationType DEF Trim
  <2>2. origin' \in [Outlet -> {"none", "on", "off"}]
    BY <1>6 DEF Trim
  <2> QED
    BY <1>6, <2>1, <2>2 DEF Trim, Sessions, Places
<1>7. ASSUME NEW t \in Tank, EntryVisit(t) PROVE TypeInv'
  <2>1. CASE StartRestore(t, Obligated(t), FALSE, "check")
    <3>1. rst' \in Restoration /\ pc' \in Places
      BY <2>1, StartType, ObligatedType DEF Backs
    <3>2. pc' # "remove"
      BY <2>1 DEF StartRestore
    <3> QED
      BY <1>7, <3>1, <3>2 DEF EntryVisit
  <2>2. CASE UNCHANGED <<pc, rst>>
    BY <1>7, <2>2 DEF EntryVisit
  <2> QED
    BY <1>7, <2>1, <2>2 DEF EntryVisit
<1>8. CASE EntryExpired
  BY <1>8 DEF EntryExpired, Places
<1>9. CASE EntryGoesOn
  BY <1>9 DEF EntryGoesOn, Places
<1>10. CASE Activate
  BY <1>10, SessionType, NoJobType DEF Activate, Job, Phases, Places
<1>11. ASSUME NEW o \in Outlet, Preserve(o) PROVE TypeInv'
  <2>1. job' \in Job
    BY <1>11 DEF Preserve, Job
  <2> QED
    BY <1>11, <2>1, ResultType DEF Preserve, Results, Errors, Sessions, Places
<1>12. ASSUME NEW o \in Outlet, SwitchOff(o) PROVE TypeInv'
  <2>1. job' \in Job
    BY <1>12 DEF SwitchOff, Job
  <2>2. obl' \in [Outlet -> Obligation]
    <3> DEFINE new == [obl[o] EXCEPT !.intent = TRUE, !.result = "none"]
    <3>1. new \in Obligation
      BY FlagsType
    <3>2. obl' = [obl EXCEPT ![o] = new]
      BY <1>12 DEF SwitchOff
    <3> HIDE DEF new
    <3> QED
      BY <3>1, <3>2
  <2> QED
    BY <1>12, <2>1, <2>2 DEF SwitchOff, Places
<1>13. CASE OffConfirmed
  BY <1>13, CallType DEF OffConfirmed, Places
<1>14. ASSUME NEW applied \in BOOLEAN, OffUncertain(applied) PROVE TypeInv'
  BY <1>14, CallType DEF OffUncertain, Places
<1>15. CASE RecordOff
  <2>1. job' \in Job
    BY <1>15 DEF RecordOff, Job
  <2> QED
    BY <1>15, <2>1, ResultType DEF RecordOff, Results, Errors, Sessions, Places
<1>16. ASSUME Unwind \/ RejectAndUnwind PROVE TypeInv'
  <2>1. rst' \in Restoration /\ pc' \in Places
    BY <1>16, StartType, ObligatedType DEF Unwind, RejectAndUnwind, Job, Backs
  <2>2. pc' # "remove"
    BY <1>16 DEF Unwind, RejectAndUnwind, StartRestore
  <2> QED
    BY <1>16, <2>1, <2>2, SessionType DEF Unwind, RejectAndUnwind, Phases
<1>17. CASE RejectOnly
  BY <1>17, NoJobType DEF RejectOnly, Places
<1> QED
  BY <1>1, <1>2, <1>3, <1>4, <1>5, <1>6, <1>7, <1>8, <1>9, <1>10, <1>11, <1>12,
     <1>13, <1>14, <1>15, <1>16, <1>17 DEF TemporaryStep

LEMMA TickStepType == TypeInv /\ (TickStart \/ TickUnsafe \/ TickStep) => TypeInv'
<1> SUFFICES ASSUME TypeInv, TickStart \/ TickUnsafe \/ TickStep PROVE TypeInv'
  OBVIOUS
<1> USE DEF TypeInv, TypeOK, durable, volatile, world, history
<1>1. ASSUME TickStart \/ TickUnsafe PROVE TypeInv'
  BY <1>1 DEF TickStart, TickUnsafe, ClockUnsafe, Sessions, Places
<1>2. ASSUME NEW t \in Tank, GuardTank(t) \/ TickUnfinished(t) PROVE TypeInv'
  <2>1. rst' \in Restoration /\ pc' \in Places
    BY <1>2, StartType, ObligatedType DEF GuardTank, TickUnfinished, Backs
  <2>2. pc' # "remove"
    BY <1>2 DEF GuardTank, TickUnfinished, StartRestore
  <2> QED
    BY <1>2, <2>1, <2>2, SessionType DEF GuardTank, TickUnfinished, Phases
<1>3. ASSUME NEW t \in Tank, TickPending(t) PROVE TypeInv'
  <2>1. rst' \in Restoration /\ pc' \in Places
    BY <1>3, StartType, ObligatedType DEF TickPending, Backs
  <2>2. pc' # "remove"
    BY <1>3 DEF TickPending, StartRestore
  <2> QED
    BY <1>3, <2>1, <2>2 DEF TickPending
<1>4. ASSUME NEW t \in Tank, TickActive(t) PROVE TypeInv'
  <2>1. rst' \in Restoration
    BY <1>4, ObligatedType DEF TickActive, NoRestoration, Restoration, Backs
  <2> QED
    BY <1>4, <2>1 DEF TickActive, Places
<1>5. ASSUME NEW t \in Tank, TickActiveFails(t) PROVE TypeInv'
  BY <1>5, RetryType, PhaseType DEF TickActiveFails, Errors, Phases
<1>6. ASSUME NEW o \in Outlet, WatchQuiet(o) PROVE TypeInv'
  <2>1. rst' \in Restoration
    BY <1>6 DEF WatchQuiet, Restoration
  <2> QED
    BY <1>6, <2>1 DEF WatchQuiet
<1>7. ASSUME NEW o \in Outlet, WatchExternal(o) PROVE TypeInv'
  <2>1. rst' \in Restoration
    BY <1>7 DEF WatchExternal, Restoration
  <2> QED
    BY <1>7, <2>1, ResultType DEF WatchExternal, Results, Errors, Places
<1>8. CASE GuardDone
  BY <1>8 DEF GuardDone, Sessions, Places
<1>9. CASE Hold
  BY <1>9, PhaseType DEF Hold, Phases, Places
<1>10. CASE WatchDone
  <2>1. rst' \in Restoration /\ pc' \in Places
    BY <1>10, StartType, ObligatedType DEF WatchDone, Backs, Restoration
  <2>2. pc' # "remove"
    BY <1>10 DEF WatchDone, StartRestore
  <2> QED
    BY <1>10, <2>1, <2>2 DEF WatchDone
<1>11. CASE TickDone
  BY <1>11 DEF TickDone, Places
<1> QED
  BY <1>1, <1>2, <1>3, <1>4, <1>5, <1>6, <1>7, <1>8, <1>9, <1>10, <1>11 DEF TickStep

LEMMA EnvironmentType == TypeInv /\ Environment => TypeInv'
<1> SUFFICES ASSUME TypeInv, Environment PROVE TypeInv'
  OBVIOUS
<1> USE DEF TypeInv, TypeOK, durable, volatile, world, history
<1>1. CASE Crash
  BY <1>1, NoJobType, NoRestorationType DEF Crash, Places
<1>5. CASE CrashMarking
  BY <1>5, RetryType, NoJobType, NoRestorationType DEF CrashMarking, Errors, Places
<1>2. ASSUME NEW o \in Outlet, UserSwitch(o) PROVE TypeInv'
  BY <1>2 DEF UserSwitch
<1>3. ASSUME NEW o \in Outlet, ViewCatchesUp(o) PROVE TypeInv'
  BY <1>3 DEF ViewCatchesUp
<1>4. ASSUME NEW o \in Outlet, DeadlinePasses(o) \/ RetryExpires(o) PROVE TypeInv'
  <2>1. obl' \in [Outlet -> Obligation]
    <3>1. PICK new \in Obligation : obl' = [obl EXCEPT ![o] = new]
      BY <1>4, FlagsType DEF DeadlinePasses, RetryExpires
    <3> QED
      BY <3>1
  <2> QED
    BY <1>4, <2>1 DEF DeadlinePasses, RetryExpires
<1> QED
  BY <1>1, <1>2, <1>3, <1>4, <1>5 DEF Environment

LEMMA StepType == TypeInv /\ [Next]_vars => TypeInv'
<1>1. TypeInv /\ UNCHANGED vars => TypeInv'
  BY DEF TypeInv, TypeOK, vars, durable, volatile, world, history
<1> QED
  BY <1>1, RestoreStepType, CommandType, TemporaryStepType, TickStepType, EnvironmentType
     DEF Next, Handler

\* Every variable of the executor keeps its type, in every behaviour.
THEOREM TypeCorrect == Spec => []TypeOK
<1>1. TypeInv => TypeOK
  BY DEF TypeInv
<1> QED
  BY InitType, StepType, <1>1, PTL DEF Spec

-------------------------------------------------------------------------------
(* What the updates change, field by field.                                    *)

LEMMA MarkResultEffect ==
    ASSUME TypeOK, NEW o \in Outlet, NEW r, NEW e, MarkResult(o, r, e)
    PROVE  \A q \in Outlet :
              /\ obl'[q].base = obl[q].base
              /\ obl'[q].active = obl[q].active
              /\ obl'[q].result = IF q = o THEN r ELSE obl[q].result
BY DEF TypeOK, MarkResult, Obligation

LEMMA RetryEffect ==
    ASSUME TypeOK, NEW S, NEW e, Retry(S, e)
    PROVE  \A q \in Outlet :
              /\ obl'[q].base = obl[q].base
              /\ obl'[q].active = obl[q].active
              /\ obl'[q].result = obl[q].result
BY DEF TypeOK, Retry, Obligation

LEMMA VisitedEffect ==
    ASSUME TypeOK, NEW o, NEW c, Visited(o, c)
    PROVE  /\ rst'.todo = rst.todo \ {o}
           /\ rst'.complete <=> rst.complete /\ c
           /\ rst'.tank = rst.tank /\ rst'.cur = rst.cur /\ rst'.back = rst.back
           /\ UNCHANGED <<session, pc, job, visit, phys, shown, owed, origin, acked, cmds>>
BY DEF TypeOK, Visited, Restoration, world, history

LEMMA StartEffect ==
    ASSUME NEW t, NEW S, NEW i, NEW b, StartRestore(t, S, i, b)
    PROVE  /\ pc' = "resolve"
           /\ rst'.tank = t /\ rst'.todo = S /\ rst'.cur = NoOutlet /\ rst'.back = b
BY DEF StartRestore

LEMMA TimeEffect ==
    ASSUME TypeOK, NEW o \in Outlet, DeadlinePasses(o) \/ RetryExpires(o)
    PROVE  \A q \in Outlet :
              /\ obl'[q].base = obl[q].base
              /\ obl'[q].active = obl[q].active
              /\ obl'[q].result = obl[q].result
<1>1. obl \in [Outlet -> Obligation]
  BY DEF TypeOK
<1> QED
  BY <1>1 DEF DeadlinePasses, RetryExpires, Obligation

LEMMA RestoreOutletEffect ==
    ASSUME TypeOK, NEW o \in Outlet, RestoreOutlet(o)
    PROVE  /\ rst'.tank = rst.tank /\ rst'.todo = rst.todo \ {o} /\ rst'.cur = o
           /\ rst'.back = rst.back /\ rst'.complete = rst.complete
           /\ \A q \in Outlet : /\ obl'[q].base = obl[q].base
                                 /\ obl'[q].active = obl[q].active
                                 /\ q # o => obl'[q].result = obl[q].result
<1>1. obl \in [Outlet -> Obligation] /\ rst \in Restoration
  BY DEF TypeOK
<1>2. /\ rst'.tank = rst.tank /\ rst'.todo = rst.todo \ {o} /\ rst'.cur = o
      /\ rst'.back = rst.back /\ rst'.complete = rst.complete
  BY <1>1 DEF RestoreOutlet, Restoration
<1> QED
  BY <1>1, <1>2 DEF RestoreOutlet, Obligation

-------------------------------------------------------------------------------
(* The store keeps its promise.                                                *)

StoreFacts == BaselineInv /\ RestoreInv /\ CallInv /\ TrimInv /\ RemoveInv

LEMMA InitStore == Init => StoreInv
<1> SUFFICES ASSUME Init PROVE StoreInv
  OBVIOUS
<1>1. TypeOK
  BY InitType DEF TypeInv
<1> QED
  BY <1>1 DEF Init, StoreInv, BaselineInv, RestoreInv, CallInv, TrimInv, RemoveInv,
     Restoring, Calling, NoObligation

\* A restoration of a whole tank has nothing behind it yet
LEMMA StartStore ==
    ASSUME StoreInv, NEW t, NEW i, NEW b, b # "switch", StartRestore(t, Obligated(t), i, b),
           obl' = obl, origin' = origin
    PROVE  StoreFacts'
<1>1. BaselineInv'
  BY DEF StoreInv, BaselineInv
<1>2. /\ pc' = "resolve"
      /\ rst'.tank = t /\ rst'.todo = Obligated(t) /\ rst'.cur = NoOutlet /\ rst'.back = b
  BY StartEffect
<1>3. RestoreInv'
  BY <1>2 DEF RestoreInv, InScope, Obligated, Outlets
<1> QED
  BY <1>1, <1>2, <1>3 DEF StoreFacts, CallInv, TrimInv, RemoveInv, Restoring, Calling

LEMMA RestoreStepStore == StoreInv /\ RestoreStep => StoreFacts'
<1> SUFFICES ASSUME StoreInv, RestoreStep PROVE StoreFacts'
  OBVIOUS
<1> USE ConstantsAssumption
    DEF StoreInv, StoreFacts, BaselineInv, RestoreInv, CallInv, TrimInv, RemoveInv, Restoring, Calling,
        InScope, durable, world, history
<1>0. rst \in Restoration /\ TypeOK
  BY DEF TypeOK
<1>1. CASE Resolve
  BY <1>1 DEF Resolve
<1>2. CASE ResolveFails
  BY <1>0, <1>2, RetryEffect DEF ResolveFails, Restoration
<1>3. ASSUME NEW o \in Outlet, SkipOutlet(o) PROVE StoreFacts'
  <2>1. /\ rst'.todo = rst.todo \ {o}
        /\ rst'.complete <=> rst.complete /\ obl[o].result = "restored"
        /\ rst'.tank = rst.tank /\ rst'.cur = rst.cur /\ rst'.back = rst.back
        /\ UNCHANGED <<session, pc, job, visit, phys, shown, owed, origin, acked, cmds>>
    BY <1>0, <1>3, VisitedEffect DEF SkipOutlet
  <2> QED
    BY <1>3, <2>1 DEF SkipOutlet, Turn
<1>4. ASSUME NEW o \in Outlet, FoundRestored(o) PROVE StoreFacts'
  <2>1. \A q \in Outlet : /\ obl'[q].base = obl[q].base
                          /\ obl'[q].active = obl[q].active
                          /\ obl'[q].result = IF q = o THEN "restored" ELSE obl[q].result
    BY <1>0, <1>4, MarkResultEffect DEF FoundRestored
  <2>2. /\ rst'.todo = rst.todo \ {o}
        /\ rst'.complete <=> rst.complete /\ TRUE
        /\ rst'.tank = rst.tank /\ rst'.cur = rst.cur /\ rst'.back = rst.back
        /\ UNCHANGED <<session, pc, job, visit, phys, shown, owed, origin, acked, cmds>>
    BY <1>0, <1>4, VisitedEffect DEF FoundRestored
  <2>3. pc = "restore" /\ o \in rst.todo
    BY <1>4 DEF FoundRestored, Turn
  <2> QED
    BY <2>1, <2>2, <2>3
<1>5. ASSUME NEW o \in Outlet, HoldOutlet(o) PROVE StoreFacts'
  BY <1>0, <1>5, VisitedEffect DEF HoldOutlet, Differs, Turn
<1>6. ASSUME NEW o \in Outlet, FoundSwitched(o) PROVE StoreFacts'
  <2>1. \A q \in Outlet : /\ obl'[q].base = obl[q].base
                          /\ obl'[q].active = obl[q].active
                          /\ obl'[q].result = IF q = o THEN "external" ELSE obl[q].result
    BY <1>0, <1>6, MarkResultEffect DEF FoundSwitched
  <2>2. /\ rst'.todo = rst.todo \ {o}
        /\ rst'.complete <=> rst.complete /\ FALSE
        /\ rst'.tank = rst.tank /\ rst'.cur = rst.cur /\ rst'.back = rst.back
        /\ UNCHANGED <<session, pc, job, visit, phys, shown, owed, origin, acked, cmds>>
    BY <1>0, <1>6, VisitedEffect DEF FoundSwitched
  <2>3. pc = "restore" /\ o \in rst.todo
    BY <1>6 DEF FoundSwitched, Differs, Turn
  <2> QED
    BY <2>1, <2>2, <2>3
<1>7. ASSUME NEW o \in Outlet, RestoreUnknown(o) PROVE StoreFacts'
  <2>1. \A q \in Outlet : /\ obl'[q].base = obl[q].base
                          /\ obl'[q].active = obl[q].active
                          /\ obl'[q].result = obl[q].result
    BY <1>0, <1>7, RetryEffect DEF RestoreUnknown
  <2>2. /\ rst'.todo = rst.todo \ {o}
        /\ rst'.complete <=> rst.complete /\ FALSE
        /\ rst'.tank = rst.tank /\ rst'.cur = rst.cur /\ rst'.back = rst.back
        /\ UNCHANGED <<session, pc, job, visit, phys, shown, owed, origin, acked, cmds>>
    BY <1>0, <1>7, VisitedEffect DEF RestoreUnknown
  <2>3. pc = "restore"
    BY <1>7 DEF RestoreUnknown, Differs, Turn
  <2> QED
    BY <2>1, <2>2, <2>3
<1>8. ASSUME NEW o \in Outlet, PumpNotRestored(o) PROVE StoreFacts'
  <2>1. \A q \in Outlet : /\ obl'[q].base = obl[q].base
                          /\ obl'[q].active = obl[q].active
                          /\ obl'[q].result = obl[q].result
    BY <1>0, <1>8, RetryEffect DEF PumpNotRestored
  <2>2. /\ rst'.todo = rst.todo \ {o}
        /\ rst'.complete <=> rst.complete /\ FALSE
        /\ rst'.tank = rst.tank /\ rst'.cur = rst.cur /\ rst'.back = rst.back
        /\ UNCHANGED <<session, pc, job, visit, phys, shown, owed, origin, acked, cmds>>
    BY <1>0, <1>8, VisitedEffect DEF PumpNotRestored
  <2>3. pc = "restore"
    BY <1>8 DEF PumpNotRestored, Restorable, Differs, Turn
  <2> QED
    BY <2>1, <2>2, <2>3
<1>9. ASSUME NEW o \in Outlet, RestoreOutlet(o) PROVE StoreFacts'
  <2>1. /\ rst'.tank = rst.tank /\ rst'.todo = rst.todo \ {o} /\ rst'.cur = o
        /\ rst'.back = rst.back /\ rst'.complete = rst.complete
        /\ \A q \in Outlet : /\ obl'[q].base = obl[q].base
                              /\ obl'[q].active = obl[q].active
                              /\ q # o => obl'[q].result = obl[q].result
    BY <1>0, <1>9, RestoreOutletEffect
  <2> QED
    BY <1>9, <2>1 DEF RestoreOutlet, Restorable, Differs, Turn
<1>10. CASE RestoreConfirmed
  BY <1>10 DEF RestoreConfirmed
<1>11. ASSUME NEW applied \in BOOLEAN, RestoreUncertain(applied) PROVE StoreFacts'
  BY <1>11 DEF RestoreUncertain
<1>12. CASE RecordRestored
  <2>1. /\ rst'.tank = rst.tank /\ rst'.todo = rst.todo /\ rst'.cur = NoOutlet
        /\ rst'.back = rst.back /\ rst'.complete = rst.complete
    BY <1>0, <1>12 DEF RecordRestored, Restoration
  <2> QED
    BY <1>0, <1>12, <2>1, MarkResultEffect DEF RecordRestored
<1>13. CASE RecordRestoreFailed
  <2>1. /\ rst'.tank = rst.tank /\ rst'.cur = NoOutlet
        /\ rst'.back = rst.back /\ rst'.complete = FALSE
    BY <1>0, <1>13 DEF RecordRestoreFailed, Restoration
  <2> QED
    BY <1>0, <1>13, <2>1, RetryEffect DEF RecordRestoreFailed
<1>14. CASE SwitchRestored
  BY <1>14 DEF SwitchRestored, RestoreDone
<1>15. CASE EndSession
  BY <1>15 DEF EndSession, RestoreDone
<1>16. CASE RemoveSession
  BY <1>0, <1>16 DEF RemoveSession, Return, NoObligation, NoRestoration, Restoration, Backs, TypeOK
<1>17. CASE KeepSession
  BY <1>0, <1>17 DEF KeepSession, Return, RestoreDone, NoRestoration, Restoration, Backs
<1> QED
  BY <1>1, <1>2, <1>3, <1>4, <1>5, <1>6, <1>7, <1>8, <1>9, <1>10, <1>11, <1>12,
     <1>13, <1>14, <1>15, <1>16, <1>17 DEF RestoreStep

LEMMA CommandStore == StoreInv /\ Command => StoreFacts'
<1> SUFFICES ASSUME StoreInv, NEW t \in Tank,
                    \/ \E m \in Mode, sel \in Profiles : AcceptTemporary(t, m, sel)
                    \/ AcceptRefused(t) \/ AcceptNormal(t)
                    \/ FinishManual(t) \/ FinishManualFails(t)
             PROVE  StoreFacts'
  BY DEF Command
<1>3. CASE AcceptNormal(t)
  BY <1>3, StartStore DEF AcceptNormal, history
<1> USE ConstantsAssumption
    DEF StoreInv, StoreFacts, BaselineInv, RestoreInv, CallInv, TrimInv, RemoveInv, Restoring, Calling,
        InScope, durable, volatile, world, history
<1>1. ASSUME NEW m \in Mode, NEW sel \in Profiles, AcceptTemporary(t, m, sel)
      PROVE  StoreFacts'
  BY <1>1 DEF AcceptTemporary
<1>2. CASE AcceptRefused(t)
  BY <1>2 DEF AcceptRefused
<1>4. CASE FinishManual(t)
  BY <1>4 DEF FinishManual, NoRestoration
<1>5. CASE FinishManualFails(t)
  BY <1>5 DEF FinishManualFails
<1> QED
  BY <1>1, <1>2, <1>3, <1>4, <1>5

LEMMA TemporaryStepStore == StoreInv /\ TemporaryStep => StoreFacts'
<1> SUFFICES ASSUME StoreInv, TemporaryStep PROVE StoreFacts'
  OBVIOUS
<1>16. ASSUME Unwind \/ RejectAndUnwind PROVE StoreFacts'
  BY <1>16, StartStore DEF Unwind, RejectAndUnwind, history
<1>7. ASSUME NEW t \in Tank, EntryVisit(t) PROVE StoreFacts'
  <2>1. CASE StartRestore(t, Obligated(t), FALSE, "check")
    BY <1>7, <2>1, StartStore DEF EntryVisit, durable, history
  <2>2. CASE UNCHANGED <<pc, rst>>
    BY <1>7, <2>2 DEF EntryVisit, StoreInv, StoreFacts, BaselineInv, RestoreInv, CallInv,
       TrimInv, RemoveInv, Restoring, Calling, InScope, durable, history
  <2> QED
    BY <1>7, <2>1, <2>2 DEF EntryVisit
<1> USE ConstantsAssumption
    DEF StoreInv, StoreFacts, BaselineInv, RestoreInv, CallInv, TrimInv, RemoveInv, Restoring, Calling,
        InScope, durable, volatile, world, history
<1>1. CASE PreflightUnsafe
  BY <1>1 DEF PreflightUnsafe, ClockUnsafe
<1>2. CASE PreflightRefused
  BY <1>2 DEF PreflightRefused
<1>3. CASE Preflight
  BY <1>3 DEF Preflight
<1>4. CASE SameMode
  BY <1>4 DEF SameMode
<1>5. CASE BeginSession
  <2>1. \A o \in Outlet :
           /\ o \in job.sel => obl'[o] = Planned(o)
           /\ o \in Obligated(job.tank) \ job.sel => obl'[o] = Carried(o)
           /\ o \notin job.sel \cup Obligated(job.tank) => obl'[o] = obl[o]
    BY <1>5 DEF BeginSession
  <2>2. \A o \in Outlet : obl'[o].base = origin'[o]
    BY <1>5, <2>1 DEF BeginSession, Planned, Baseline, Carried, NoObligation, Obligated, Outlets, TypeOK
  <2>3. CASE Open(job.tank)
    <3>1. StartRestore(job.tank, Obligated(job.tank) \ job.sel, TRUE, "switch")
      BY <1>5, <2>3 DEF BeginSession
    <3>2. job'.tank = job.tank
      BY <1>5 DEF BeginSession, TypeOK, Job
    <3>3. \A o \in Outlet : o \in job.sel => obl'[o].active
      <4>1. \A o : Planned(o).active
        BY DEF Planned, NoObligation
      <4> QED
        BY <2>1, <4>1
    <3>4. \A o \in Outlet \ (job.sel \cup Obligated(job.tank)) :
             TankOf[o] = job.tank => obl'[o].base = "none"
      BY <2>1 DEF Obligated, Outlets
    <3> QED
      <4>1. /\ pc' = "resolve" /\ rst'.tank = job.tank /\ rst'.back = "switch"
            /\ rst'.todo = Obligated(job.tank) \ job.sel /\ rst'.cur = NoOutlet
        BY <3>1 DEF StartRestore
      <4>2. RestoreInv'
        BY <3>3, <3>4, <4>1
      <4> QED
        BY <2>2, <3>2, <4>1, <4>2
  <2>4. CASE ~Open(job.tank)
    BY <1>5, <2>2, <2>4 DEF BeginSession
  <2> QED
    BY <2>3, <2>4
<1>6. CASE Trim
  BY <1>6 DEF Trim, NoObligation
<1>8. CASE EntryExpired
  BY <1>8 DEF EntryExpired
<1>9. CASE EntryGoesOn
  BY <1>9 DEF EntryGoesOn
<1>10. CASE Activate
  BY <1>10 DEF Activate
<1>11. ASSUME NEW o \in Outlet, Preserve(o) PROVE StoreFacts'
  BY <1>11, MarkResultEffect DEF Preserve
<1>12. ASSUME NEW o \in Outlet, SwitchOff(o) PROVE StoreFacts'
  <2>1. \A q \in Outlet : obl'[q].base = obl[q].base
    BY <1>12 DEF SwitchOff, TypeOK, Obligation
  <2> QED
    BY <1>12, <2>1 DEF SwitchOff
<1>13. CASE OffConfirmed
  BY <1>13 DEF OffConfirmed
<1>14. ASSUME NEW applied \in BOOLEAN, OffUncertain(applied) PROVE StoreFacts'
  BY <1>14 DEF OffUncertain
<1>15. CASE RecordOff
  <2>1. \A q \in Outlet : obl'[q].base = obl[q].base
    BY <1>15 DEF RecordOff, MarkResult, TypeOK, Obligation
  <2> QED
    BY <1>15, <2>1 DEF RecordOff
<1>17. CASE RejectOnly
  BY <1>17 DEF RejectOnly
<1> QED
  BY <1>1, <1>2, <1>3, <1>4, <1>5, <1>6, <1>7, <1>8, <1>9, <1>10, <1>11, <1>12,
     <1>13, <1>14, <1>15, <1>16, <1>17 DEF TemporaryStep

LEMMA TickStepStore == StoreInv /\ (TickStart \/ TickUnsafe \/ TickStep) => StoreFacts'
<1> SUFFICES ASSUME StoreInv, TickStart \/ TickUnsafe \/ TickStep PROVE StoreFacts'
  OBVIOUS
<1>2. ASSUME NEW t \in Tank, GuardTank(t) \/ TickUnfinished(t) PROVE StoreFacts'
  BY <1>2, StartStore DEF GuardTank, TickUnfinished, history
<1>3. ASSUME NEW t \in Tank, TickPending(t) PROVE StoreFacts'
  <2>1. PICK i : StartRestore(t, Obligated(t), i, "tick")
    BY <1>3 DEF TickPending
  <2> QED
    BY <1>3, <2>1, StartStore DEF TickPending, durable, history
<1>10. CASE WatchDone
  <2>1. PICK i : StartRestore(rst.tank, Obligated(rst.tank), i, "tick")
    BY <1>10 DEF WatchDone
  <2> QED
    BY <1>10, <2>1, StartStore DEF WatchDone, durable, history
<1> USE ConstantsAssumption
    DEF StoreInv, StoreFacts, BaselineInv, RestoreInv, CallInv, TrimInv, RemoveInv, Restoring, Calling,
        InScope, durable, volatile, world, history
<1>1. ASSUME TickStart \/ TickUnsafe PROVE StoreFacts'
  BY <1>1 DEF TickStart, TickUnsafe, ClockUnsafe
<1>4. ASSUME NEW t \in Tank, TickActive(t) PROVE StoreFacts'
  BY <1>4 DEF TickActive
<1>5. ASSUME NEW t \in Tank, TickActiveFails(t) PROVE StoreFacts'
  BY <1>5, RetryEffect DEF TickActiveFails
<1>6. ASSUME NEW o \in Outlet, WatchQuiet(o) PROVE StoreFacts'
  BY <1>6 DEF WatchQuiet
<1>7. ASSUME NEW o \in Outlet, WatchExternal(o) PROVE StoreFacts'
  BY <1>7, MarkResultEffect DEF WatchExternal
<1>8. CASE GuardDone
  BY <1>8 DEF GuardDone
<1>9. CASE Hold
  BY <1>9 DEF Hold
<1>11. CASE TickDone
  BY <1>11 DEF TickDone
<1> QED
  BY <1>1, <1>2, <1>3, <1>4, <1>5, <1>6, <1>7, <1>8, <1>9, <1>10, <1>11 DEF TickStep

LEMMA EnvironmentStore == StoreInv /\ Environment => StoreFacts'
<1> SUFFICES ASSUME StoreInv, Environment PROVE StoreFacts'
  OBVIOUS
<1> USE DEF StoreInv, StoreFacts, BaselineInv, RestoreInv, CallInv, TrimInv, RemoveInv, Restoring,
        Calling, InScope, durable, volatile, world, history
<1>1. CASE Crash
  BY <1>1 DEF Crash
<1>4. CASE CrashMarking
  <2>1. /\ UNCHANGED <<origin, acked>>
        /\ pc' = "idle"
        /\ \A q \in Outlet : obl'[q].base = obl[q].base /\ obl'[q].result = obl[q].result
    BY <1>4, RetryEffect DEF CrashMarking
  <2> QED
    BY <2>1
<1>2. ASSUME NEW o \in Outlet, UserSwitch(o) \/ ViewCatchesUp(o) PROVE StoreFacts'
  BY <1>2 DEF UserSwitch, ViewCatchesUp
<1>3. ASSUME NEW o \in Outlet, DeadlinePasses(o) \/ RetryExpires(o) PROVE StoreFacts'
  <2>1. UNCHANGED <<pc, job, rst, origin, acked>>
    BY <1>3 DEF DeadlinePasses, RetryExpires
  <2> QED
    BY <1>3, <2>1, TimeEffect
<1> QED
  BY <1>1, <1>2, <1>3, <1>4 DEF Environment

LEMMA StepStore == StoreInv /\ [Next]_vars => StoreFacts'
<1>1. StoreInv /\ UNCHANGED vars => StoreFacts'
  BY DEF StoreInv, StoreFacts, BaselineInv, RestoreInv, CallInv, TrimInv, RemoveInv, Restoring,
     Calling, InScope, vars, durable, volatile, world, history
<1> QED
  BY <1>1, RestoreStepStore, CommandStore, TemporaryStepStore, TickStepStore, EnvironmentStore
     DEF Next, Handler

LEMMA StoreInvariant == Spec => []StoreInv
<1>1. StoreInv /\ TypeOK' /\ [Next]_vars => StoreInv'
  BY StepStore DEF StoreInv, StoreFacts
<1> QED
  BY InitStore, TypeCorrect, <1>1, PTL DEF Spec

\* An outlet that was off when the bridge took it over is never switched on, by
\* no sequence of switches of mode, failures, crashes and restarts.
THEOREM BaselinesHonoured == Spec => []NeverTurnedOn
<1>1. StoreInv => NeverTurnedOn
  BY DEF StoreInv, CallInv, Calling, BaselineInv, NeverTurnedOn
<1> QED
  BY StoreInvariant, <1>1, PTL

\* The only steps after which an outlet has no obligation any more
LEMMA Kept ==
    ASSUME StoreInv, [Next]_vars, ~Trim, ~RemoveSession, NEW o \in Outlet,
           obl[o].base # "none"
    PROVE  obl'[o].base # "none"
<1>0. TypeOK
  BY DEF StoreInv
<1> USE <1>0
<1>1. CASE obl' = obl
  BY <1>1
<1>2. ASSUME NEW q \in Outlet, NEW r, NEW e, MarkResult(q, r, e) PROVE obl'[o].base # "none"
  BY <1>2, MarkResultEffect
<1>3. ASSUME NEW S, NEW e, Retry(S, e) PROVE obl'[o].base # "none"
  BY <1>3, RetryEffect
<1>4. ASSUME NEW q \in Outlet, DeadlinePasses(q) \/ RetryExpires(q) PROVE obl'[o].base # "none"
  BY <1>4, TimeEffect
<1>5. ASSUME NEW q \in Outlet, RestoreOutlet(q) PROVE obl'[o].base # "none"
  BY <1>5 DEF RestoreOutlet, TypeOK, Obligation
<1>6. ASSUME NEW q \in Outlet, SwitchOff(q) PROVE obl'[o].base # "none"
  BY <1>6 DEF SwitchOff, TypeOK, Obligation
<1>7. CASE RecordRestored
  BY <1>7 DEF RecordRestored, MarkResult, TypeOK, Obligation
<1>8. CASE RecordOff
  BY <1>8 DEF RecordOff, MarkResult, TypeOK, Obligation
<1>9. CASE BeginSession
  <2>1. Planned(o).base # "none" /\ Carried(o).base = obl[o].base
    BY DEF Planned, Carried, Baseline, NoObligation
  <2>2. obl'[o] \in {Planned(o), Carried(o), obl[o]}
    BY <1>9 DEF BeginSession
  <2> QED
    BY <2>1, <2>2
<1>10. CASE RestoreStep
  BY <1>1, <1>2, <1>3, <1>5, <1>7, <1>10 DEF RestoreStep, Resolve, ResolveFails, SkipOutlet,
     FoundRestored, HoldOutlet, FoundSwitched, RestoreUnknown, PumpNotRestored,
     RestoreConfirmed, RestoreUncertain, RecordRestoreFailed, SwitchRestored, EndSession,
     KeepSession, durable
<1>11. CASE TemporaryStep
  BY <1>1, <1>2, <1>6, <1>8, <1>9, <1>11 DEF TemporaryStep, PreflightUnsafe, PreflightRefused,
     Preflight, SameMode, EntryVisit, EntryExpired, EntryGoesOn, Activate, Preserve,
     OffConfirmed, OffUncertain, Unwind, RejectAndUnwind, RejectOnly, durable
<1>12. CASE TickStart \/ TickUnsafe \/ TickStep
  BY <1>1, <1>2, <1>3, <1>12 DEF TickStart, TickUnsafe, TickStep, GuardTank, TickUnfinished,
     TickPending, TickActive, TickActiveFails, WatchQuiet, WatchExternal, GuardDone, Hold,
     WatchDone, TickDone, durable
<1>13. CASE Command
  BY <1>1, <1>13 DEF Command, AcceptTemporary, AcceptRefused, AcceptNormal, FinishManual,
     FinishManualFails, durable
<1>14. CASE Environment
  BY <1>1, <1>3, <1>4, <1>14 DEF Environment, Crash, CrashMarking, UserSwitch, ViewCatchesUp, durable
<1>15. CASE UNCHANGED vars
  BY <1>1, <1>15 DEF vars, durable
<1> QED
  BY <1>10, <1>11, <1>12, <1>13, <1>14, <1>15 DEF Next, Handler

\* The store never loses an obligation that is not restored, unless a person
\* acknowledged the tank: under every fault, a stale view included.
THEOREM ObligationsStay == Spec => ObligationsLeaveRestored
<1> DEFINE Leaves == \A o \in Outlet :
              obl[o].base # "none" /\ obl'[o].base = "none"
                  => obl[o].result = "restored" \/ TankOf[o] \in acked
<1>1. StoreInv /\ [Next]_vars => Leaves
  <2> SUFFICES ASSUME StoreInv, [Next]_vars, NEW o \in Outlet,
                      obl[o].base # "none", obl'[o].base = "none"
               PROVE  obl[o].result = "restored" \/ TankOf[o] \in acked
    OBVIOUS
  <2>1. Trim \/ RemoveSession
    BY Kept
  <2>2. CASE Trim
    BY <2>2 DEF Trim, StoreInv, TrimInv, Obligated, Outlets
  <2>3. CASE RemoveSession
    BY <2>3 DEF RemoveSession, StoreInv, RemoveInv
  <2> QED
    BY <2>1, <2>2, <2>3
<1>2. StoreInv /\ [Next]_vars => [Leaves]_vars
  BY <1>1
<1> QED
  BY StoreInvariant, <1>2, PTL DEF Spec, ObligationsLeaveRestored

-------------------------------------------------------------------------------
(* Without a stale view nothing the bridge switched off is forgotten.  A       *)
(* reading then shows the physical outlet, so an outlet that reads as its      *)
(* baseline needs no restoration; this is what a stale view breaks.            *)

LEMMA InitOwed == Init => OwedInv
BY DEF Init, OwedInv

\* A step that only moves the handler on
LEMMA QuietOwed ==
    ASSUME OwedInv, UNCHANGED <<phys, shown, owed, obl>>,
           pc' \notin {"off_call", "on_ok", "remove"}
    PROVE  OwedInv'
BY DEF OwedInv

\* A step that changes neither a baseline nor makes an owed outlet restored
LEMMA StoreOwed ==
    ASSUME OwedInv, UNCHANGED <<phys, shown, owed>>,
           \A o \in Outlet : owed[o] => obl'[o].base = obl[o].base /\ obl'[o].result # "restored",
           pc' \notin {"off_call", "on_ok", "remove"}
    PROVE  OwedInv'
BY DEF OwedInv

LEMMA RestoreStepOwed ==
    ASSUME "stale" \notin Faults, StoreInv, OwedInv, RestoreStep
    PROVE  OwedInv'
<1>0. TypeOK /\ rst \in Restoration
  BY DEF StoreInv, TypeOK
<1> USE <1>0 DEF durable, world, history
<1>1. CASE Resolve
  BY <1>1, QuietOwed DEF Resolve
<1>2. CASE ResolveFails
  BY <1>2, RetryEffect, StoreOwed DEF ResolveFails, OwedInv
<1>3. ASSUME NEW o \in Outlet, SkipOutlet(o) \/ HoldOutlet(o) PROVE OwedInv'
  <2>1. PICK c : Visited(o, c)
    BY <1>3 DEF SkipOutlet, HoldOutlet
  <2>2. pc = "restore" /\ obl' = obl
    BY <1>3 DEF SkipOutlet, HoldOutlet, Differs, Turn
  <2> QED
    BY <2>1, <2>2, QuietOwed DEF Visited
<1>4. ASSUME NEW o \in Outlet, FoundRestored(o) PROVE OwedInv'
  <2>1. ~owed[o]
    BY <1>4 DEF FoundRestored, Readings, OwedInv
  <2>2. pc = "restore" /\ MarkResult(o, "restored", "none")
    BY <1>4 DEF FoundRestored, Turn
  <2>3. \A q \in Outlet : owed[q] => obl'[q].base = obl[q].base /\ obl'[q].result # "restored"
    BY <2>1, <2>2, MarkResultEffect DEF OwedInv
  <2> QED
    BY <1>4, <2>2, <2>3, StoreOwed DEF FoundRestored, Visited
<1>5. ASSUME NEW o \in Outlet, FoundSwitched(o) PROVE OwedInv'
  <2>1. pc = "restore" /\ MarkResult(o, "external", "external")
    BY <1>5 DEF FoundSwitched, Differs, Turn
  <2>2. \A q \in Outlet : owed[q] => obl'[q].base = obl[q].base /\ obl'[q].result # "restored"
    BY <2>1, MarkResultEffect DEF OwedInv
  <2> QED
    BY <1>5, <2>1, <2>2, StoreOwed DEF FoundSwitched, Visited
<1>6. ASSUME NEW o \in Outlet, RestoreUnknown(o) \/ PumpNotRestored(o) PROVE OwedInv'
  <2>1. pc = "restore" /\ Retry({o}, "pending") /\ Visited(o, FALSE)
    BY <1>6 DEF RestoreUnknown, PumpNotRestored, Restorable, Differs, Turn
  <2>2. \A q \in Outlet : owed[q] => obl'[q].base = obl[q].base /\ obl'[q].result # "restored"
    BY <2>1, RetryEffect DEF OwedInv
  <2> QED
    BY <2>1, <2>2, StoreOwed DEF Visited
<1>7. ASSUME NEW o \in Outlet, RestoreOutlet(o) PROVE OwedInv'
  <2>1. \A q \in Outlet : owed[q] => obl'[q].base = obl[q].base /\ obl'[q].result # "restored"
    BY <1>7 DEF RestoreOutlet, OwedInv, TypeOK, Obligation
  <2> QED
    BY <1>7, <2>1, StoreOwed DEF RestoreOutlet
<1>8. CASE RestoreConfirmed
  <2>1. rst.cur \in Outlet
    BY <1>8 DEF RestoreConfirmed, StoreInv, CallInv, Calling
  <2> QED
    BY <1>8, <2>1 DEF RestoreConfirmed, Confirmed, OwedInv, TypeOK
<1>9. ASSUME NEW applied \in BOOLEAN, RestoreUncertain(applied) PROVE OwedInv'
  <2>1. rst.cur \in Outlet
    BY <1>9 DEF RestoreUncertain, StoreInv, CallInv, Calling
  <2>2. shown' = phys'
    BY <1>9, <2>1 DEF RestoreUncertain, Uncertain, OwedInv, TypeOK
  <2>3. \A q \in Outlet : owed'[q] => owed[q] /\ phys'[q] = phys[q]
    BY <1>9, <2>1 DEF RestoreUncertain, Uncertain, TypeOK
  <2> QED
    BY <1>9, <2>2, <2>3 DEF RestoreUncertain, OwedInv
<1>10. CASE RecordRestored
  <2>1. \A q \in Outlet : owed[q] => obl'[q].base = obl[q].base /\ obl'[q].result # "restored"
    BY <1>10 DEF RecordRestored, MarkResult, OwedInv, TypeOK, Obligation
  <2> QED
    BY <1>10, <2>1, StoreOwed DEF RecordRestored
<1>11. CASE RecordRestoreFailed
  <2>1. \A q \in Outlet : owed[q] => obl'[q].base = obl[q].base /\ obl'[q].result # "restored"
    BY <1>11, RetryEffect DEF RecordRestoreFailed, OwedInv
  <2> QED
    BY <1>11, <2>1, StoreOwed DEF RecordRestoreFailed
<1>12. CASE SwitchRestored
  BY <1>12, QuietOwed DEF SwitchRestored
<1>13. CASE EndSession
  <2>1. \A o \in Outlet : TankOf[o] = rst.tank => ~owed[o]
    BY <1>13, ConstantsAssumption DEF EndSession, RestoreDone, OwedInv, StoreInv, RestoreInv,
       CallInv, Restoring, Calling, InScope
  <2> QED
    BY <1>13, <2>1 DEF EndSession, OwedInv
<1>14. CASE RemoveSession
  <2>1. \A o \in Outlet : owed[o] => TankOf[o] # rst.tank
    BY <1>14 DEF RemoveSession, OwedInv
  <2>2. pc' \notin {"off_call", "on_ok", "remove"}
    BY <1>14 DEF RemoveSession, Return, StoreInv, RemoveInv, Restoration, Backs
  <2>3. \A o \in Outlet : owed[o] => obl'[o] = obl[o]
    BY <1>14, <2>1 DEF RemoveSession
  <2> QED
    BY <1>14, <2>2, <2>3, StoreOwed DEF RemoveSession, OwedInv
<1>15. CASE KeepSession
  <2>1. pc' \notin {"off_call", "on_ok", "remove"}
    BY <1>15 DEF KeepSession, Return, Restoration, Backs
  <2> QED
    BY <1>15, <2>1, QuietOwed DEF KeepSession
<1> QED
  BY <1>1, <1>2, <1>3, <1>4, <1>5, <1>6, <1>7, <1>8, <1>9, <1>10, <1>11, <1>12,
     <1>13, <1>14, <1>15 DEF RestoreStep

LEMMA CommandOwed ==
    ASSUME StoreInv, OwedInv, Command
    PROVE  OwedInv'
<1> USE DEF durable, volatile, world, history
<1>1. ASSUME NEW t \in Tank, NEW m \in Mode, NEW sel \in Profiles, AcceptTemporary(t, m, sel)
      PROVE  OwedInv'
  BY <1>1, QuietOwed DEF AcceptTemporary
<1>2. ASSUME NEW t \in Tank, AcceptRefused(t) PROVE OwedInv'
  BY <1>2, QuietOwed DEF AcceptRefused
<1>3. ASSUME NEW t \in Tank, AcceptNormal(t) PROVE OwedInv'
  BY <1>3, QuietOwed DEF AcceptNormal, StartRestore
<1>4. ASSUME NEW t \in Tank, FinishManual(t) PROVE OwedInv'
  <2>1. \A o \in Outlet : owed'[o] <=> owed[o] /\ TankOf[o] # t
    BY <1>4 DEF FinishManual
  <2>2. rst'.tank = t /\ pc' = "remove"
    BY <1>4 DEF FinishManual, NoRestoration
  <2> QED
    BY <1>4, <2>1, <2>2 DEF FinishManual, OwedInv
<1>5. ASSUME NEW t \in Tank, FinishManualFails(t) PROVE OwedInv'
  BY <1>5 DEF FinishManualFails, OwedInv
<1> QED
  BY <1>1, <1>2, <1>3, <1>4, <1>5 DEF Command

LEMMA TemporaryStepOwed ==
    ASSUME "stale" \notin Faults, StoreInv, OwedInv, TemporaryStep
    PROVE  OwedInv'
<1>0. TypeOK
  BY DEF StoreInv
<1> USE <1>0 DEF durable, volatile, world, history
<1>1. CASE PreflightUnsafe \/ PreflightRefused \/ Preflight \/ SameMode \/ RejectOnly
  BY <1>1, QuietOwed DEF PreflightUnsafe, ClockUnsafe, PreflightRefused, Preflight, SameMode,
     RejectOnly
<1>2. CASE BeginSession
  <2>1. \A o \in Outlet : obl[o].base # "none" =>
           /\ obl'[o].base = obl[o].base
           /\ obl'[o].result = "none" \/ obl'[o] = obl[o]
    BY <1>2 DEF BeginSession, Planned, Carried, Baseline, NoObligation
  <2>2. \A q \in Outlet : owed[q] => obl'[q].base = obl[q].base /\ obl'[q].result # "restored"
    BY <2>1 DEF OwedInv
  <2>3. pc' \in {"resolve", "check"}
    BY <1>2 DEF BeginSession, StartRestore
  <2> QED
    BY <1>2, <2>2, <2>3, StoreOwed DEF BeginSession
<1>3. CASE Trim
  <2>1. \A q \in Outlet : owed[q] => obl'[q] = obl[q]
    BY <1>3 DEF Trim, OwedInv, StoreInv, TrimInv, Obligated, Outlets
  <2> QED
    BY <1>3, <2>1, StoreOwed DEF Trim, OwedInv
<1>4. ASSUME NEW t \in Tank, EntryVisit(t) PROVE OwedInv'
  <2>1. pc' \in {"resolve", "check"}
    BY <1>4 DEF EntryVisit, StartRestore
  <2> QED
    BY <1>4, <2>1, QuietOwed DEF EntryVisit
<1>5. CASE EntryExpired \/ EntryGoesOn \/ Activate
  BY <1>5, QuietOwed DEF EntryExpired, EntryGoesOn, Activate
<1>6. ASSUME NEW o \in Outlet, Preserve(o) PROVE OwedInv'
  <2>1. \A q \in Outlet : owed[q] => obl'[q].base = obl[q].base /\ obl'[q].result # "restored"
    BY <1>6, MarkResultEffect DEF Preserve, OwedInv
  <2> QED
    BY <1>6, <2>1, StoreOwed DEF Preserve
<1>7. ASSUME NEW o \in Outlet, SwitchOff(o) PROVE OwedInv'
  <2>1. \A q \in Outlet : /\ obl'[q].base = obl[q].base
                          /\ obl'[q].result = IF q = o THEN "none" ELSE obl[q].result
    BY <1>7 DEF SwitchOff, TypeOK, Obligation
  <2>2. job'.cur = o
    BY <1>7 DEF SwitchOff, TypeOK, Job
  <2>3. job'.cur \in Outlet /\ obl'[job'.cur].result # "restored"
    BY <2>1, <2>2
  <2>4. /\ UNCHANGED <<phys, shown, owed>>
        /\ pc' = "off_call"
    BY <1>7 DEF SwitchOff
  <2> QED
    BY <2>1, <2>3, <2>4 DEF OwedInv
<1>8. CASE OffConfirmed
  <2>1. /\ job.cur \in Outlet
        /\ obl[job.cur].result # "restored"
        /\ obl[job.cur].base = origin[job.cur]
    BY <1>8 DEF OffConfirmed, OwedInv, StoreInv, BaselineInv
  <2> QED
    BY <1>8, <2>1 DEF OffConfirmed, Confirmed, OwedInv, TypeOK
<1>9. ASSUME NEW applied \in BOOLEAN, OffUncertain(applied) PROVE OwedInv'
  <2>1. /\ job.cur \in Outlet
        /\ obl[job.cur].result # "restored"
        /\ obl[job.cur].base = origin[job.cur]
    BY <1>9 DEF OffUncertain, OwedInv, StoreInv, BaselineInv
  <2>2. shown' = phys'
    BY <1>9, <2>1 DEF OffUncertain, Uncertain, OwedInv, TypeOK
  <2>3. phys' = IF applied THEN [phys EXCEPT ![job.cur] = "off"] ELSE phys
    BY <1>9 DEF OffUncertain, Uncertain
  <2> QED
    BY <1>9, <2>1, <2>2, <2>3 DEF OffUncertain, OwedInv, TypeOK
<1>10. CASE RecordOff
  <2>1. \A q \in Outlet : owed[q] => obl'[q].base = obl[q].base /\ obl'[q].result # "restored"
    BY <1>10 DEF RecordOff, MarkResult, OwedInv, TypeOK, Obligation
  <2> QED
    BY <1>10, <2>1, StoreOwed DEF RecordOff
<1>11. CASE Unwind \/ RejectAndUnwind
  BY <1>11, QuietOwed DEF Unwind, RejectAndUnwind, StartRestore
<1> QED
  BY <1>1, <1>2, <1>3, <1>4, <1>5, <1>6, <1>7, <1>8, <1>9, <1>10, <1>11 DEF TemporaryStep

LEMMA TickStepOwed ==
    ASSUME "stale" \notin Faults, StoreInv, OwedInv, TickStart \/ TickUnsafe \/ TickStep
    PROVE  OwedInv'
<1>0. TypeOK
  BY DEF StoreInv
<1> USE <1>0 DEF durable, volatile, world, history
<1>1. CASE TickStart \/ TickUnsafe \/ GuardDone \/ Hold \/ WatchDone \/ TickDone
  BY <1>1, QuietOwed DEF TickStart, TickUnsafe, ClockUnsafe, GuardDone, Hold, WatchDone,
     TickDone, StartRestore
<1>2. ASSUME NEW t \in Tank,
             GuardTank(t) \/ TickUnfinished(t) \/ TickPending(t) \/ TickActive(t)
      PROVE  OwedInv'
  BY <1>2, QuietOwed DEF GuardTank, TickUnfinished, TickPending, TickActive, StartRestore
<1>3. ASSUME NEW t \in Tank, TickActiveFails(t) PROVE OwedInv'
  <2>1. \A q \in Outlet : owed[q] => obl'[q].base = obl[q].base /\ obl'[q].result # "restored"
    BY <1>3, RetryEffect DEF TickActiveFails, OwedInv
  <2> QED
    BY <1>3, <2>1, StoreOwed DEF TickActiveFails
<1>4. ASSUME NEW o \in Outlet, WatchQuiet(o) PROVE OwedInv'
  BY <1>4, QuietOwed DEF WatchQuiet
<1>5. ASSUME NEW o \in Outlet, WatchExternal(o) PROVE OwedInv'
  <2>1. \A q \in Outlet : owed[q] => obl'[q].base = obl[q].base /\ obl'[q].result # "restored"
    BY <1>5, MarkResultEffect DEF WatchExternal, OwedInv
  <2> QED
    BY <1>5, <2>1, StoreOwed DEF WatchExternal
<1> QED
  BY <1>1, <1>2, <1>3, <1>4, <1>5 DEF TickStep

LEMMA EnvironmentOwed ==
    ASSUME StoreInv, OwedInv, Environment
    PROVE  OwedInv'
<1>0. TypeOK
  BY DEF StoreInv
<1> USE <1>0 DEF durable, volatile, world, history
<1>1. CASE Crash
  BY <1>1, QuietOwed DEF Crash
<1>5. CASE CrashMarking
  <2>1. /\ UNCHANGED <<phys, shown, owed>>
        /\ pc' = "idle"
        /\ \A q \in Outlet : obl'[q].base = obl[q].base /\ obl'[q].result = obl[q].result
    BY <1>5, RetryEffect DEF CrashMarking
  <2> QED
    BY <2>1 DEF OwedInv
<1>2. ASSUME NEW o \in Outlet, UserSwitch(o) PROVE OwedInv'
  <2>1. \A q \in Outlet : owed'[q] => owed[q] /\ phys'[q] = phys[q]
    BY <1>2 DEF UserSwitch, TypeOK
  <2>2. shown' = phys'
    BY <1>2 DEF UserSwitch, OwedInv, TypeOK
  <2>3. \A q \in Outlet : ~owed[q] => ~owed'[q]
    BY <2>1
  <2>4. pc = "on_ok" => rst.cur \in Outlet
    BY DEF StoreInv, CallInv, Calling
  <2> QED
    BY <1>2, <2>1, <2>2, <2>3, <2>4 DEF UserSwitch, OwedInv
<1>3. ASSUME NEW o \in Outlet, ViewCatchesUp(o) PROVE OwedInv'
  BY <1>3 DEF ViewCatchesUp, OwedInv, TypeOK
<1>4. ASSUME NEW o \in Outlet, DeadlinePasses(o) \/ RetryExpires(o) PROVE OwedInv'
  <2>1. UNCHANGED <<pc, job, rst, phys, shown, owed>>
    BY <1>4 DEF DeadlinePasses, RetryExpires
  <2> QED
    BY <1>4, <2>1, TimeEffect DEF OwedInv
<1> QED
  BY <1>1, <1>2, <1>3, <1>4, <1>5 DEF Environment

\* As long as Home Assistant shows the outlets as they are, the bridge never
\* forgets an outlet that it has left off: not in a crash, not after an
\* uncertain call, not in a switch of modes, for any number of tanks, outlets
\* and commands.
THEOREM NothingForgotten == "stale" \notin Faults => (Spec => []NoForgottenOutlet)
<1> SUFFICES ASSUME "stale" \notin Faults PROVE Spec => []NoForgottenOutlet
  OBVIOUS
<1>1. StoreInv /\ OwedInv /\ UNCHANGED vars => OwedInv'
  BY DEF OwedInv, vars, durable, volatile, world, history
<1>2. StoreInv /\ OwedInv /\ [Next]_vars => OwedInv'
  BY <1>1, RestoreStepOwed, CommandOwed, TemporaryStepOwed, TickStepOwed, EnvironmentOwed
     DEF Next, Handler
<1>3. OwedInv => NoForgottenOutlet
  BY DEF OwedInv, NoForgottenOutlet
<1> QED
  BY InitOwed, StoreInvariant, <1>2, <1>3, PTL DEF Spec

===============================================================================
