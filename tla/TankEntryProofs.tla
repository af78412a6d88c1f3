--------------------------- MODULE TankEntryProofs ---------------------------
(* What an entry promises about the outlets it selects, for every set of       *)
(* tanks, outlets and modes:                                                   *)
(*                                                                             *)
(*   EntriesAreWhole       Spec => []ActiveIsEntered                           *)
(*   HoldsAreOthersDoing   without a stale view,                               *)
(*                         Spec => []HoldNeverCoversOwed                       *)
(*   PumpsComeFirst        without a stale view or anybody else, and with      *)
(*                         profiles that take the dependents of a pump along,  *)
(*                         Spec => DependentNeverAlone                         *)
(*   OthersAreServed       ServiceSpec => EntryServesOthers                    *)
(*                                                                             *)
(* An entry gives the lock's turn to restorations of other tanks, and begins   *)
(* with a restoration of the outlets the new mode leaves alone; ScopeInv and   *)
(* SelectInv keep these two sets of outlets apart.  What the entry has behind  *)
(* it is then recorded (DealtInv), not held (HoldInv) and off (OffInv).  Of    *)
(* the other tanks, TurnInv follows the loop between two of its writes.        *)
EXTENDS TankPromiseProofs, EntryService

\* A restoration stays with its tank, and one that begins a switch of modes
\* with the outlets the mode leaves alone
ScopeInv ==
    Restoring => \A o \in Outlet : o \in rst.todo \/ (Calling /\ o = rst.cur) =>
        /\ TankOf[o] = rst.tank
        /\ rst.back = "switch" => ~obl[o].active

\* What an entry selected is planned for it until it ends
SelectInv ==
    /\ \A o \in Outlet : obl[o].base = "none" => ~obl[o].active
    /\ pc \in {"preflight", "begin"} \/ Entering => job.mode # "normal" /\ job.sel \in Profiles
    /\ Entering => \A o \in Outlet : o \in Ahead => o \in job.sel
    /\ Entering => \A o \in Outlet : o \in job.sel => /\ TankOf[o] = job.tank
                                                      /\ obl[o].base # "none"
                                                      /\ obl[o].active

\* A handler works for a tank
HomeInv ==
    /\ pc \in {"preflight", "begin", "fail", "reject"} \/ Entering => job.tank \in Tank
    /\ pc \in {"watch", "hold"} \/ Busy => rst.tank \in Tank

\* Nothing is restored before its deadline while a mode is active
PhaseInv ==
    /\ \A t \in Tank : session[t].phase = "active" => session[t].mode # "normal"
    /\ Entering => session[job.tank].phase # "active"
    /\ Restoring /\ rst.imm => session[rst.tank].phase # "active"

\* Whatever an entry has behind it is recorded
DealtInv ==
    Entering => \A o \in Outlet :
        TankOf[o] = job.tank /\ obl[o].active /\ o \notin Ahead /\ ~(pc = "off_ok" /\ o = job.cur)
            => obl[o].result # "none"

PlaceInv == HomeInv /\ ScopeInv /\ SelectInv /\ PhaseInv
EntryFacts == StoreInv /\ EntryInv /\ PlaceInv

-------------------------------------------------------------------------------
(* What a step may do to an obligation, to a session and to a handler.         *)

Replanned == BeginSession \/ Trim \/ RemoveSession

LEMMA MarkFields ==
    ASSUME TypeOK, NEW q \in Outlet, NEW r, NEW e, MarkResult(q, r, e), NEW o \in Outlet
    PROVE  /\ obl'[o].due = obl[o].due
           /\ obl'[o].result = IF o = q THEN r ELSE obl[o].result
           /\ obl'[o].error = IF o = q THEN e ELSE obl[o].error
BY DEF TypeOK, MarkResult, Obligation

LEMMA RetryFields ==
    ASSUME TypeOK, NEW S, NEW e, Retry(S, e), NEW o \in Outlet
    PROVE  /\ obl'[o].due = obl[o].due
           /\ obl'[o].result = obl[o].result
           /\ obl'[o].error \in {e, obl[o].error}
BY DEF TypeOK, Retry, Obligation

LEMMA TimeFields ==
    ASSUME TypeOK, NEW q \in Outlet, DeadlinePasses(q) \/ RetryExpires(q), NEW o \in Outlet
    PROVE  /\ obl[o].due => obl'[o].due
           /\ obl'[o].due => obl[o].due \/ DeadlinePasses(o)
           /\ obl'[o].result = obl[o].result
           /\ obl'[o].error = obl[o].error
<1>1. obl \in [Outlet -> Obligation]
  BY DEF TypeOK
<1> QED
  BY <1>1 DEF DeadlinePasses, RetryExpires, Obligation

\* A deadline passes by itself and once passed stays so; a result is taken back only before a call;
\* only two steps take a change for somebody else's
LEMMA FieldsKept ==
    ASSUME StoreInv, [Next]_vars, ~Replanned, NEW o \in Outlet
    PROVE  /\ obl[o].due => obl'[o].due
           /\ obl'[o].due => obl[o].due \/ DeadlinePasses(o)
           /\ obl'[o].result = "none" => obl[o].result = "none" \/ RestoreOutlet(o) \/ SwitchOff(o)
           /\ obl'[o].error = "external" => \/ obl[o].error = "external"
                                            \/ FoundSwitched(o) \/ WatchExternal(o)
<1> DEFINE Same == /\ obl[o].due => obl'[o].due
                   /\ obl'[o].due => obl[o].due \/ DeadlinePasses(o)
                   /\ obl'[o].result = "none" =>
                        obl[o].result = "none" \/ RestoreOutlet(o) \/ SwitchOff(o)
                   /\ obl'[o].error = "external" => \/ obl[o].error = "external"
                                                    \/ FoundSwitched(o) \/ WatchExternal(o)
<1>0. TypeOK
  BY DEF StoreInv
<1> USE <1>0
<1>1. CASE obl' = obl
  BY <1>1
<1>2. ASSUME NEW q \in Outlet, NEW r, NEW e, MarkResult(q, r, e), r # "none", e # "external"
      PROVE Same
  BY <1>2, MarkFields
<1>3. ASSUME NEW S, NEW e, Retry(S, e), e # "external" PROVE Same
  BY <1>3, RetryFields
<1>4. ASSUME NEW q \in Outlet, DeadlinePasses(q) \/ RetryExpires(q) PROVE Same
  BY <1>4, TimeFields
<1>5. ASSUME NEW q \in Outlet, RestoreOutlet(q) PROVE Same
  <2>1. q # o => obl'[o] = obl[o]
    BY <1>5 DEF RestoreOutlet, TypeOK
  <2>2. obl'[o].due = obl[o].due /\ obl'[o].error = obl[o].error
    BY <1>5 DEF RestoreOutlet, TypeOK, Obligation
  <2> QED
    BY <1>5, <2>1, <2>2
<1>6. ASSUME NEW q \in Outlet, SwitchOff(q) PROVE Same
  <2>1. q # o => obl'[o] = obl[o]
    BY <1>6 DEF SwitchOff, TypeOK
  <2>2. obl'[o].due = obl[o].due /\ obl'[o].error = obl[o].error
    BY <1>6 DEF SwitchOff, TypeOK, Obligation
  <2> QED
    BY <1>6, <2>1, <2>2
<1>7. ASSUME NEW q \in Outlet, FoundSwitched(q) \/ WatchExternal(q) PROVE Same
  <2>1. MarkResult(q, "external", "external")
    BY <1>7 DEF FoundSwitched, WatchExternal
  <2> QED
    BY <1>7, <2>1, MarkFields
<1>8. CASE RecordRestored
  BY <1>8 DEF RecordRestored, MarkResult, TypeOK, Obligation
<1>9. CASE RecordOff
  BY <1>9 DEF RecordOff, MarkResult, TypeOK, Obligation
<1>10. CASE RestoreStep
  BY <1>1, <1>2, <1>3, <1>5, <1>7, <1>8, <1>10 DEF RestoreStep, Replanned, Resolve, ResolveFails,
     SkipOutlet, FoundRestored, HoldOutlet, RestoreUnknown, PumpNotRestored,
     RestoreConfirmed, RestoreUncertain, RecordRestoreFailed, SwitchRestored, EndSession,
     KeepSession, durable
<1>11. CASE TemporaryStep
  BY <1>1, <1>2, <1>6, <1>9, <1>11 DEF TemporaryStep, Replanned, PreflightUnsafe,
     PreflightRefused, Preflight, SameMode, EntryVisit, EntryExpired, EntryGoesOn, Activate,
     Preserve, OffConfirmed, OffUncertain, Unwind, RejectAndUnwind, RejectOnly, durable
<1>12. CASE TickStart \/ TickUnsafe \/ TickStep
  BY <1>1, <1>3, <1>7, <1>12 DEF TickStart, TickUnsafe, TickStep, GuardTank, TickUnfinished,
     TickPending, TickActive, TickActiveFails, WatchQuiet, GuardDone, Hold,
     WatchDone, TickDone, durable
<1>13. CASE Command
  BY <1>1, <1>13 DEF Command, AcceptTemporary, AcceptRefused, AcceptNormal, FinishManual,
     FinishManualFails, durable
<1>14. CASE Environment
  BY <1>1, <1>3, <1>4, <1>14 DEF Environment, Crash, CrashMarking, UserSwitch, ViewCatchesUp, durable
<1>15. CASE UNCHANGED vars
  BY <1>1, <1>15 DEF vars, durable
<1> QED
  BY <1>10, <1>11, <1>12, <1>13, <1>14, <1>15 DEF Next, Handler

LEMMA SetEffect ==
    ASSUME TypeOK, NEW t, NEW m, NEW p, SetSession(t, m, p), p # "active", NEW u \in Tank
    PROVE  session'[u].phase = "active" => u # t /\ session'[u] = session[u]
BY DEF TypeOK, SetSession

\* Only the end of an entry makes a mode active
LEMMA ActiveKept ==
    ASSUME StoreInv, [Next]_vars, ~Activate, NEW u \in Tank, session'[u].phase = "active"
    PROVE  session[u].phase = "active" /\ session'[u].mode = session[u].mode
<1> DEFINE Stays == session[u].phase = "active" /\ session'[u].mode = session[u].mode
<1>0. TypeOK
  BY DEF StoreInv
<1> USE <1>0
<1>1. CASE session' = session
  BY <1>1
<1>2. ASSUME NEW t, NEW m, NEW p, SetSession(t, m, p), p # "active" PROVE Stays
  BY <1>2, SetEffect
<1>3. ASSUME NEW t \in Tank, AcceptNormal(t) \/ FinishManual(t) \/ FinishManualFails(t)
                                    \/ GuardTank(t) \/ TickUnfinished(t) \/ TickActiveFails(t)
      PROVE Stays
  BY <1>2, <1>3 DEF AcceptNormal, FinishManual, FinishManualFails, GuardTank, TickUnfinished,
     TickActiveFails, SetPhase
<1>4. CASE EndSession \/ RemoveSession \/ KeepSession
  BY <1>2, <1>4 DEF EndSession, RemoveSession, KeepSession, SetPhase, SetSession, NoSession, TypeOK, Session
<1>5. CASE BeginSession \/ Unwind \/ RejectAndUnwind
  BY <1>2, <1>5 DEF BeginSession, Unwind, RejectAndUnwind
<1>6. CASE Hold
  BY <1>2, <1>6 DEF Hold, SetPhase
<1>10. CASE RestoreStep
  BY <1>1, <1>4, <1>10 DEF RestoreStep, Resolve, ResolveFails, SkipOutlet, FoundRestored,
     HoldOutlet, FoundSwitched, RestoreUnknown, PumpNotRestored, RestoreOutlet, Visited,
     RestoreConfirmed, RestoreUncertain, RecordRestored, RecordRestoreFailed, SwitchRestored, durable
<1>11. CASE TemporaryStep
  BY <1>1, <1>5, <1>11 DEF TemporaryStep, PreflightUnsafe, PreflightRefused, Preflight, SameMode,
     Trim, EntryVisit, EntryExpired, EntryGoesOn, Preserve, SwitchOff, OffConfirmed, OffUncertain,
     RecordOff, RejectOnly, durable
<1>12. CASE TickStart \/ TickUnsafe \/ TickStep
  BY <1>1, <1>3, <1>6, <1>12 DEF TickStart, TickUnsafe, TickStep, TickPending, TickActive,
     WatchQuiet, WatchExternal, GuardDone, WatchDone, TickDone, durable
<1>13. CASE Command
  BY <1>1, <1>3, <1>13 DEF Command, AcceptTemporary, AcceptRefused, durable
<1>14. CASE Environment
  BY <1>1, <1>14 DEF Environment, Crash, CrashMarking, UserSwitch, ViewCatchesUp,
     DeadlinePasses, RetryExpires, durable
<1>15. CASE UNCHANGED vars
  BY <1>1, <1>15 DEF vars, durable
<1> QED
  BY <1>10, <1>11, <1>12, <1>13, <1>14, <1>15 DEF Next, Handler

\* An entry that is still under way has not changed its mind
LEMMA EntryFlow ==
    ASSUME StoreInv, EntryInv, [Next]_vars, ~BeginSession, Entering'
    PROVE  /\ Entering
           /\ job'.tank = job.tank /\ job'.mode = job.mode /\ job'.sel = job.sel
           /\ job'.on = job.on
           /\ \A o : o \in job'.left => o \in job.left
           /\ \A o : o \in Ahead' => o \in Ahead
<1> DEFINE Goes == /\ Entering
                   /\ job'.tank = job.tank /\ job'.mode = job.mode /\ job'.sel = job.sel
                   /\ job'.on = job.on
                   /\ \A o : o \in job'.left => o \in job.left
                   /\ \A o : o \in Ahead' => o \in Ahead
<1> SUFFICES Goes
  OBVIOUS
<1> HIDE DEF Goes
<1>0. TypeOK /\ rst \in Restoration /\ job \in Job
  BY DEF StoreInv, TypeOK
<1> USE <1>0
<1>1. ASSUME Busy, job' = job, rst'.back = rst.back, pc' # "off_call",
             pc' \in {"resolve", "restore", "on_call", "on_ok", "on_failed", "remove"}
      PROVE  Goes
  BY <1>1 DEF Goes, Entering, Ahead, Busy, Restoring
<1>2. ASSUME Busy, Return PROVE Goes
  <2>1. rst.back = "check"
    BY <1>2 DEF Return, Entering, Busy, Restoring, Restoration, Backs, NoRestoration
  <2> QED
    BY <1>2, <2>1 DEF Goes, Return, Entering, Ahead, Busy, Restoring
<1>3. ASSUME NEW o, NEW c, pc = "restore", Visited(o, c) PROVE Goes
  BY <1>1, <1>3, VisitedEffect DEF Busy, Restoring
<1>4. CASE pc' = "resolve" /\ rst'.back \notin {"check", "switch"}
  BY <1>4 DEF Entering, Busy, Restoring
<1>5. CASE pc' \in {"idle", "preflight", "begin", "fail", "reject", "guard", "tick", "watch", "hold"}
  BY <1>5 DEF Entering, Busy, Restoring
<1>6. ASSUME pc' = pc, job' = job, rst' = rst PROVE Goes
  BY <1>6 DEF Goes, Entering, Ahead, Busy, Restoring
<1>10. CASE RestoreStep
  <2>1. CASE Resolve \/ RestoreConfirmed \/ \E applied \in BOOLEAN : RestoreUncertain(applied)
    BY <1>1, <2>1 DEF Resolve, RestoreConfirmed, RestoreUncertain, Busy, Restoring
  <2>2. CASE ResolveFails \/ RecordRestored \/ RecordRestoreFailed
    BY <1>1, <2>2 DEF ResolveFails, RecordRestored, RecordRestoreFailed, Busy, Restoring, Restoration
  <2>3. ASSUME NEW o \in Outlet, RestoreOutlet(o) PROVE Goes
    BY <1>1, <2>3, RestoreOutletEffect DEF RestoreOutlet, Restorable, Differs, Turn, Busy, Restoring
  <2>4. CASE SwitchRestored
    BY <1>5, <2>4 DEF Goes, SwitchRestored, RestoreDone, Entering, Ahead, Busy, Restoring
  <2>5. CASE EndSession
    BY <1>1, <2>5 DEF EndSession, RestoreDone, Busy, Restoring
  <2>6. CASE RemoveSession \/ KeepSession
    BY <1>2, <2>6 DEF RemoveSession, KeepSession, RestoreDone, Busy, Restoring
  <2> QED
    BY <1>3, <1>10, <2>1, <2>2, <2>3, <2>4, <2>5, <2>6 DEF RestoreStep, SkipOutlet, FoundRestored,
       HoldOutlet, FoundSwitched, RestoreUnknown, PumpNotRestored, Restorable, Differs, Turn
<1>11. CASE TemporaryStep
  <2>1. CASE PreflightUnsafe \/ PreflightRefused \/ Preflight \/ SameMode \/ EntryExpired
             \/ Activate \/ RejectOnly \/ \E applied \in BOOLEAN : OffUncertain(applied)
    BY <1>5, <2>1 DEF PreflightUnsafe, ClockUnsafe, PreflightRefused, Preflight, SameMode,
       EntryExpired, Activate, RejectOnly, OffUncertain
  <2>2. CASE Unwind \/ RejectAndUnwind
    BY <1>4, <2>2 DEF Unwind, RejectAndUnwind, StartRestore
  <2>3. CASE Trim \/ EntryGoesOn \/ OffConfirmed \/ \E t \in Tank : EntryVisit(t)
    BY <2>3 DEF Goes, Trim, EntryGoesOn, OffConfirmed, EntryVisit, StartRestore, Entering, Ahead,
       durable, volatile
  <2>4. CASE RecordOff
    BY <2>4 DEF Goes, RecordOff, Entering, Ahead, Job
  <2>5. ASSUME NEW o \in Outlet, Preserve(o) PROVE Goes
    BY <2>5 DEF Goes, Preserve, EntryTurn, Entering, Ahead, Job
  <2>6. ASSUME NEW o \in Outlet, SwitchOff(o) PROVE Goes
    BY <2>6 DEF Goes, SwitchOff, EntryTurn, Entering, Ahead, Job
  <2> QED
    BY <1>11, <2>1, <2>2, <2>3, <2>4, <2>5, <2>6 DEF TemporaryStep
<1>12. CASE TickStart \/ TickUnsafe \/ TickStep
  <2>1. ASSUME NEW t \in Tank, GuardTank(t) \/ TickUnfinished(t) \/ TickPending(t) PROVE Goes
    BY <1>4, <2>1 DEF GuardTank, TickUnfinished, TickPending, StartRestore
  <2>2. CASE WatchDone
    BY <1>4, <2>2 DEF WatchDone, StartRestore
  <2> QED
    BY <1>5, <1>12, <2>1, <2>2 DEF TickStart, TickUnsafe, ClockUnsafe, TickStep, TickActive,
       TickActiveFails, WatchQuiet, WatchExternal, GuardDone, Hold, TickDone
<1>13. CASE Command
  <2>1. ASSUME NEW t \in Tank, FinishManual(t) PROVE Goes
    BY <2>1 DEF FinishManual, NoRestoration, Entering, Busy, Restoring
  <2>2. ASSUME NEW t \in Tank, AcceptNormal(t) PROVE Goes
    BY <1>4, <2>2 DEF AcceptNormal, StartRestore
  <2>3. ASSUME NEW t \in Tank, AcceptRefused(t) \/ FinishManualFails(t) PROVE Goes
    BY <1>5, <2>3 DEF AcceptRefused, FinishManualFails, volatile
  <2>4. ASSUME NEW t \in Tank, NEW m \in Mode, NEW sel \in Profiles, AcceptTemporary(t, m, sel)
        PROVE  Goes
    BY <1>5, <2>4 DEF AcceptTemporary
  <2> QED
    BY <1>13, <2>1, <2>2, <2>3, <2>4 DEF Command
<1>14. CASE Environment
  BY <1>5, <1>6, <1>14 DEF Environment, Crash, CrashMarking, UserSwitch, ViewCatchesUp, DeadlinePasses,
     RetryExpires, volatile
<1>15. CASE UNCHANGED vars
  BY <1>6, <1>15 DEF vars, volatile
<1> QED
  BY <1>10, <1>11, <1>12, <1>13, <1>14, <1>15 DEF Next, Handler

\* A restoration of a whole tank that begins in this step
Begins ==
    \E t \in Tank, i \in BOOLEAN, b \in Backs :
        /\ StartRestore(t, Obligated(t), i, b)
        /\ b # "switch"
        /\ obl' = obl
        /\ i => session'[t].phase # "active"

\* A restoration that is still under way has its tank and its outlets
LEMMA RestorationFlow ==
    ASSUME StoreInv, HomeInv, PhaseInv, [Next]_vars, ~BeginSession, Restoring', ~Begins
    PROVE  /\ Restoring /\ ~Replanned /\ ~Activate
           /\ rst'.tank = rst.tank /\ rst'.back = rst.back /\ rst'.imm = rst.imm
           /\ \A o : o \in rst'.todo => o \in rst.todo
           /\ Calling' => rst'.cur \in rst.todo \/ (Calling /\ rst'.cur = rst.cur)
<1> DEFINE Goes == /\ Restoring /\ ~Replanned /\ ~Activate
                   /\ rst'.tank = rst.tank /\ rst'.back = rst.back /\ rst'.imm = rst.imm
                   /\ \A o : o \in rst'.todo => o \in rst.todo
                   /\ Calling' => rst'.cur \in rst.todo \/ (Calling /\ rst'.cur = rst.cur)
<1> SUFFICES Goes
  OBVIOUS
<1> HIDE DEF Goes
<1>0. TypeOK /\ rst \in Restoration /\ job \in Job
  BY DEF StoreInv, TypeOK
<1> USE <1>0
<1>1. ~Trim /\ ~Activate /\ ~RemoveSession
  BY DEF Trim, Activate, RemoveSession, Return, Restoring, StoreInv, RemoveInv, Restoration, Backs
<1>2. ASSUME Restoring, rst' = rst, pc' = pc \/ ~Calling' \/ (Calling /\ rst'.cur = rst.cur) PROVE Goes
  BY <1>1, <1>2 DEF Goes, Replanned, Calling
<1>3. ASSUME NEW o, NEW c, pc = "restore", Visited(o, c) PROVE Goes
  BY <1>1, <1>3 DEF Goes, Visited, Replanned, Calling, Restoring, Restoration
<1>4. ASSUME NEW t \in Tank, NEW b \in Backs, b # "switch", obl' = obl,
             SetSession(t, "normal", "restoring"), StartRestore(t, Obligated(t), TRUE, b)
      PROVE  Goes
  <2>1. session'[t].phase # "active"
    BY <1>4 DEF SetSession, TypeOK
  <2> QED
    BY <1>4, <2>1 DEF Begins
<1>5. CASE pc' \notin {"resolve", "restore", "on_call", "on_ok", "on_failed"}
  BY <1>5 DEF Restoring
<1>10. CASE RestoreStep
  <2>1. CASE Resolve \/ RestoreConfirmed \/ \E applied \in BOOLEAN : RestoreUncertain(applied)
    BY <1>2, <2>1 DEF Resolve, RestoreConfirmed, RestoreUncertain, Calling, Restoring
  <2>2. CASE ResolveFails \/ RecordRestored \/ RecordRestoreFailed
    BY <1>1, <2>2 DEF Goes, ResolveFails, RecordRestored, RecordRestoreFailed, Replanned, Calling,
       Restoring, Restoration
  <2>3. ASSUME NEW o \in Outlet, RestoreOutlet(o) PROVE Goes
    BY <1>1, <2>3 DEF Goes, RestoreOutlet, Restorable, Differs, Turn, Replanned, Calling, Restoring,
       Restoration
  <2>4. CASE SwitchRestored \/ EndSession
    BY <1>5, <2>4 DEF SwitchRestored, EndSession
  <2>5. CASE KeepSession
    BY <1>5, <2>5 DEF KeepSession, RestoreDone, Return, Restoration, Backs
  <2> QED
    BY <1>1, <1>3, <1>10, <2>1, <2>2, <2>3, <2>4, <2>5 DEF RestoreStep, SkipOutlet, FoundRestored,
       HoldOutlet, FoundSwitched, RestoreUnknown, PumpNotRestored, Restorable, Differs, Turn
<1>11. CASE TemporaryStep
  <2>1. CASE Unwind \/ RejectAndUnwind
    <3>1. job.tank \in Tank
      BY <2>1 DEF Unwind, RejectAndUnwind, HomeInv
    <3>2. /\ SetSession(job.tank, "normal", "restoring")
          /\ StartRestore(job.tank, Obligated(job.tank), TRUE, "done") /\ obl' = obl
      BY <2>1 DEF Unwind, RejectAndUnwind
    <3> QED
      BY <1>4, <3>1, <3>2 DEF Backs
  <2>2. ASSUME NEW t \in Tank, EntryVisit(t) PROVE Goes
    <3>1. CASE StartRestore(t, Obligated(t), FALSE, "check")
      BY <2>2, <3>1 DEF EntryVisit, Begins, Backs, durable
    <3>2. CASE UNCHANGED <<pc, rst>>
      BY <1>5, <2>2, <3>2 DEF EntryVisit
    <3> QED
      BY <2>2, <3>1, <3>2 DEF EntryVisit
  <2> QED
    BY <1>1, <1>5, <1>11, <2>1, <2>2 DEF TemporaryStep, PreflightUnsafe, ClockUnsafe,
       PreflightRefused, Preflight, SameMode, EntryExpired, EntryGoesOn, RejectOnly, OffConfirmed,
       OffUncertain, RecordOff, Preserve, SwitchOff
<1>12. CASE TickStart \/ TickUnsafe \/ TickStep
  <2>1. ASSUME NEW t \in Tank, GuardTank(t) \/ TickUnfinished(t) PROVE Goes
    BY <1>4, <2>1 DEF GuardTank, TickUnfinished, Backs
  <2>2. ASSUME NEW t \in Tank, TickPending(t) PROVE Goes
    BY <2>2 DEF TickPending, Begins, Backs, durable
  <2>3. CASE WatchDone
    BY <2>3 DEF WatchDone, Begins, Backs, durable, HomeInv, PhaseInv
  <2> QED
    BY <1>5, <1>12, <2>1, <2>2, <2>3 DEF TickStart, TickUnsafe, ClockUnsafe, TickStep, TickActive,
       TickActiveFails, WatchQuiet, WatchExternal, GuardDone, Hold, TickDone
<1>13. CASE Command
  <2>1. ASSUME NEW t \in Tank, AcceptNormal(t) PROVE Goes
    BY <1>4, <2>1 DEF AcceptNormal, Backs
  <2>2. ASSUME NEW t \in Tank, AcceptRefused(t) \/ FinishManual(t) \/ FinishManualFails(t) PROVE Goes
    BY <1>5, <2>2 DEF AcceptRefused, FinishManual, FinishManualFails, volatile
  <2>3. ASSUME NEW t \in Tank, NEW m \in Mode, NEW sel \in Profiles, AcceptTemporary(t, m, sel)
        PROVE  Goes
    BY <1>5, <2>3 DEF AcceptTemporary
  <2> QED
    BY <1>13, <2>1, <2>2, <2>3 DEF Command
<1>14. CASE Environment
  BY <1>2, <1>5, <1>14 DEF Environment, Crash, CrashMarking, UserSwitch, ViewCatchesUp, DeadlinePasses,
     RetryExpires, volatile, Restoring
<1>15. CASE UNCHANGED vars
  BY <1>2, <1>15 DEF vars, volatile, Restoring
<1> QED
  BY <1>10, <1>11, <1>12, <1>13, <1>14, <1>15 DEF Next, Handler

-------------------------------------------------------------------------------
(* PlaceInv is inductive.                                                      *)

LEMMA InitPlace == Init => PlaceInv
BY DEF Init, PlaceInv, HomeInv, ScopeInv, SelectInv, PhaseInv, Entering, Busy, Restoring,
   NoObligation, NoSession

\* What BeginSession plans
LEMMA BeginEffect ==
    ASSUME EntryFacts, BeginSession
    PROVE  /\ job.tank \in Tank /\ session'[job.tank].phase # "active"
           /\ job'.tank = job.tank /\ job'.mode = job.mode /\ job'.sel = job.sel
           /\ job'.on = job.on /\ job'.left = job.sel /\ pc' \in {"resolve", "check"}
           /\ pc' = "resolve" => /\ rst'.tank = job.tank /\ rst'.back = "switch"
                                 /\ rst'.todo = Obligated(job.tank) \ job.sel
           /\ \A o \in Outlet : o \in job.sel =>
                 /\ TankOf[o] = job.tank /\ obl'[o].base # "none" /\ obl'[o].active
                 /\ obl'[o].error = "none"
           /\ \A o \in Outlet : o \in Obligated(job.tank) /\ o \notin job.sel =>
                 ~obl'[o].active /\ obl'[o].error = "none"
           /\ \A o \in Outlet : o \notin Obligated(job.tank) /\ o \notin job.sel => obl'[o] = obl[o]
<1>0. TypeOK /\ job \in Job
  BY DEF EntryFacts, StoreInv, TypeOK
<1>1. job.tank \in Tank
  BY DEF BeginSession, EntryFacts, PlaceInv, HomeInv
<1>2. session'[job.tank].phase # "active"
  BY <1>0, <1>1 DEF BeginSession, SetSession, TypeOK
<1>3. /\ job'.tank = job.tank /\ job'.mode = job.mode /\ job'.sel = job.sel
      /\ job'.on = job.on /\ job'.left = job.sel
  BY <1>0 DEF BeginSession, Job
<1>4. /\ pc' \in {"resolve", "check"}
      /\ pc' = "resolve" => /\ rst'.tank = job.tank /\ rst'.back = "switch"
                            /\ rst'.todo = Obligated(job.tank) \ job.sel
  BY DEF BeginSession, StartRestore
<1>5. \A o \in Outlet : o \in job.sel => TankOf[o] = job.tank
  BY DEF BeginSession, EntryFacts, EntryInv, SelectionInv
<1>6. \A o \in Outlet :
         /\ o \in job.sel => obl'[o] = Planned(o)
         /\ o \in Obligated(job.tank) /\ o \notin job.sel => obl'[o] = Carried(o)
         /\ o \notin Obligated(job.tank) /\ o \notin job.sel => obl'[o] = obl[o]
  BY DEF BeginSession
<1>7. \A o \in Outlet : /\ Planned(o).base # "none" /\ Planned(o).active
                        /\ Planned(o).error = "none"
                        /\ ~Carried(o).active /\ Carried(o).error = "none"
  BY DEF Planned, Carried, Baseline, NoObligation
<1> QED
  BY <1>1, <1>2, <1>3, <1>4, <1>5, <1>6, <1>7

\* An obligation that leaves with its session or its mode was not selected
LEMMA RemovalEffect ==
    ASSUME EntryFacts, Trim \/ RemoveSession, NEW o \in Outlet
    PROVE  /\ obl'[o] = obl[o] \/ (obl'[o] = NoObligation /\ ~obl'[o].active)
           /\ Entering' /\ TankOf[o] = job.tank /\ obl[o].active => obl'[o] = obl[o]
<1>1. CASE Trim
  BY <1>1 DEF Trim, NoObligation
<1>2. CASE RemoveSession
  <2>1. Entering' => rst.back = "check"
    BY <1>2 DEF RemoveSession, Return, EntryFacts, StoreInv, RemoveInv, TypeOK, Restoration, Backs,
       Entering, Busy, Restoring, NoRestoration
  <2>2. rst.back = "check" => rst.tank # job.tank
    BY <1>2 DEF RemoveSession, EntryFacts, EntryInv, OtherInv, Busy
  <2> QED
    BY <1>2, <2>1, <2>2 DEF RemoveSession, NoObligation
<1> QED
  BY <1>1, <1>2

LEMMA HomeStep == ASSUME EntryFacts, [Next]_vars PROVE HomeInv'
<1>0. TypeOK /\ rst \in Restoration /\ job \in Job
  BY DEF EntryFacts, StoreInv, TypeOK
<1>1. ASSUME Entering' PROVE job'.tank \in Tank
  <2>1. CASE BeginSession
    BY <2>1, BeginEffect
  <2>2. CASE ~BeginSession
    BY <1>1, <2>2, EntryFlow DEF EntryFacts, PlaceInv, HomeInv
  <2> QED
    BY <2>1, <2>2
<1>2. ASSUME pc' \in {"preflight", "begin", "fail", "reject"} PROVE job'.tank \in Tank
  <2> DEFINE Goal == job'.tank \in Tank
  <2>1. ASSUME pc \in {"preflight", "begin", "fail", "reject"} \/ Entering, job'.tank = job.tank
        PROVE  Goal
    BY <2>1 DEF EntryFacts, PlaceInv, HomeInv
  <2>2. CASE RestoreStep
    <3>1. SwitchRestored
      BY <1>0, <1>2, <2>2 DEF RestoreStep, Resolve, ResolveFails, SkipOutlet, FoundRestored,
         HoldOutlet, FoundSwitched, RestoreUnknown, PumpNotRestored, Restorable, Differs, Turn,
         Visited, RestoreOutlet, RestoreConfirmed, RestoreUncertain, RecordRestored,
         RecordRestoreFailed, EndSession, RemoveSession, KeepSession, Return, Restoration, Backs
    <3> QED
      BY <2>1, <3>1 DEF SwitchRestored, RestoreDone, Entering, Busy, Restoring
  <2>3. CASE TemporaryStep
    <3>1. \/ Preflight \/ PreflightRefused \/ EntryExpired
          \/ \E applied \in BOOLEAN : OffUncertain(applied)
      BY <1>2, <2>3 DEF TemporaryStep, PreflightUnsafe, ClockUnsafe, SameMode, BeginSession,
         StartRestore, Trim, EntryVisit, EntryGoesOn, Activate, Preserve, SwitchOff, OffConfirmed,
         RecordOff, Unwind, RejectAndUnwind, RejectOnly
    <3> QED
      BY <1>0, <2>1, <3>1 DEF Preflight, PreflightRefused, EntryExpired, OffUncertain, durable,
         Entering, Job
  <2>4. CASE TickStart \/ TickUnsafe \/ TickStep
    <3>1. GuardDone
      BY <1>2, <2>4 DEF TickStart, TickUnsafe, ClockUnsafe, TickStep, GuardTank, TickUnfinished,
         TickPending, TickActive, TickActiveFails, StartRestore, WatchQuiet, WatchExternal, Hold,
         WatchDone, TickDone
    <3> QED
      BY <1>0, <1>2, <3>1 DEF GuardDone, durable, Job
  <2>5. CASE Command
    <3>1. ASSUME NEW t \in Tank, NEW m \in Mode, NEW sel \in Profiles, AcceptTemporary(t, m, sel)
          PROVE  Goal
      BY <3>1 DEF AcceptTemporary, NoJob
    <3>2. ASSUME NEW t \in Tank, AcceptRefused(t) PROVE Goal
      BY <3>2 DEF AcceptRefused, NoJob
    <3>3. ASSUME NEW t \in Tank, AcceptNormal(t) \/ FinishManual(t) \/ FinishManualFails(t)
          PROVE  Goal
      BY <1>2, <3>3 DEF AcceptNormal, StartRestore, FinishManual, FinishManualFails, volatile
    <3> QED
      BY <2>5, <3>1, <3>2, <3>3 DEF Command
  <2>6. CASE Environment \/ UNCHANGED vars
    BY <1>2, <2>1, <2>6 DEF Environment, Crash, CrashMarking, UserSwitch, ViewCatchesUp, DeadlinePasses,
       RetryExpires, vars, volatile
  <2> QED
    BY <2>2, <2>3, <2>4, <2>5, <2>6 DEF Next, Handler
<1>3. ASSUME pc' \in {"watch", "hold"} \/ Busy' PROVE rst'.tank \in Tank
  <2> DEFINE Goal == rst'.tank \in Tank
  <2>1. CASE Restoring' /\ BeginSession
    BY <2>1, BeginEffect DEF Restoring
  <2>2. CASE Restoring' /\ Begins
    BY <2>2 DEF Begins, StartRestore
  <2>3. CASE Restoring' /\ ~BeginSession /\ ~Begins
    BY <2>3, RestorationFlow DEF EntryFacts, PlaceInv, HomeInv, Busy
  <2>4. CASE ~Restoring'
    <3>0. pc' \in {"watch", "hold", "remove"}
      BY <1>3, <2>4 DEF Busy
    <3>1. ASSUME pc \in {"watch", "hold"} \/ Busy, rst'.tank = rst.tank PROVE Goal
      BY <3>1 DEF EntryFacts, PlaceInv, HomeInv
    <3>2. CASE RestoreStep
      <4>1. EndSession
        BY <1>0, <3>0, <3>2 DEF RestoreStep, Resolve, ResolveFails, SkipOutlet, FoundRestored,
           HoldOutlet, FoundSwitched, RestoreUnknown, PumpNotRestored, Restorable, Differs, Turn,
           Visited, RestoreOutlet, RestoreConfirmed, RestoreUncertain, RecordRestored,
           RecordRestoreFailed, SwitchRestored, RemoveSession, KeepSession, Return, Restoration, Backs
      <4> QED
        BY <3>1, <4>1 DEF EndSession, RestoreDone, Busy, Restoring
    <3>3. CASE TemporaryStep
      BY <3>0, <3>3 DEF TemporaryStep, PreflightUnsafe, ClockUnsafe, PreflightRefused, Preflight,
         SameMode, BeginSession, StartRestore, Trim, EntryVisit, EntryExpired, EntryGoesOn, Activate,
         Preserve, SwitchOff, OffConfirmed, OffUncertain, RecordOff, Unwind, RejectAndUnwind, RejectOnly
    <3>4. CASE TickStart \/ TickUnsafe \/ TickStep
      <4>1. ASSUME NEW t \in Tank, TickActive(t) PROVE Goal
        BY <4>1 DEF TickActive, NoRestoration
      <4>2. ASSUME NEW o \in Outlet, WatchQuiet(o) \/ WatchExternal(o) PROVE Goal
        BY <1>0, <3>1, <4>2 DEF WatchQuiet, WatchExternal, Restoration
      <4>3. CASE Hold
        BY <3>1, <4>3 DEF Hold
      <4> QED
        BY <3>0, <3>4, <4>1, <4>2, <4>3 DEF TickStart, TickUnsafe, ClockUnsafe, TickStep, GuardTank,
           TickUnfinished, TickPending, TickActiveFails, StartRestore, GuardDone, WatchDone, TickDone
    <3>5. CASE Command
      BY <3>0, <3>5 DEF Command, AcceptTemporary, AcceptRefused, AcceptNormal, StartRestore,
         FinishManual, NoRestoration, FinishManualFails, volatile
    <3>6. CASE Environment \/ UNCHANGED vars
      BY <3>0, <3>1, <3>6 DEF Environment, Crash, CrashMarking, UserSwitch, ViewCatchesUp, DeadlinePasses,
         RetryExpires, vars, volatile, Busy
    <3> QED
      BY <3>2, <3>3, <3>4, <3>5, <3>6 DEF Next, Handler
  <2> QED
    BY <2>1, <2>2, <2>3, <2>4
<1> QED
  BY <1>1, <1>2, <1>3 DEF HomeInv

LEMMA ScopeStep == ASSUME EntryFacts, [Next]_vars PROVE ScopeInv'
<1> SUFFICES ASSUME Restoring', NEW o \in Outlet, o \in rst'.todo \/ (Calling' /\ o = rst'.cur)
             PROVE  TankOf[o] = rst'.tank /\ (rst'.back = "switch" => ~obl'[o].active)
  BY DEF ScopeInv
<1>1. CASE BeginSession
  BY <1>1, BeginEffect DEF Restoring, Calling, Obligated, Outlets
<1>2. CASE Begins
  BY <1>2 DEF Begins, StartRestore, Obligated, Outlets, Calling
<1>3. CASE ~BeginSession /\ ~Begins
  <2>1. /\ Restoring /\ ~Replanned
        /\ rst'.tank = rst.tank /\ rst'.back = rst.back
        /\ o \in rst.todo \/ (Calling /\ o = rst.cur)
    BY <1>3, RestorationFlow DEF EntryFacts, PlaceInv
  <2>2. obl'[o].active = obl[o].active
    BY <2>1, PlansKept DEF Replanned, EntryFacts
  <2> QED
    BY <2>1, <2>2 DEF EntryFacts, PlaceInv, ScopeInv
<1> QED
  BY <1>1, <1>2, <1>3

LEMMA SelectStep == ASSUME EntryFacts, [Next]_vars PROVE SelectInv'
<1>0. TypeOK /\ job \in Job
  BY DEF EntryFacts, StoreInv, TypeOK
<1>1. ASSUME NEW o \in Outlet, obl'[o].base = "none" PROVE ~obl'[o].active
  <2>1. CASE BeginSession
    BY <1>1, <2>1, BeginEffect DEF EntryFacts, PlaceInv, SelectInv
  <2>2. CASE Trim \/ RemoveSession
    BY <1>1, <2>2, RemovalEffect DEF EntryFacts, PlaceInv, SelectInv
  <2>3. CASE ~Replanned
    BY <1>1, <2>3, PlansKept DEF Replanned, EntryFacts, PlaceInv, SelectInv
  <2> QED
    BY <2>1, <2>2, <2>3 DEF Replanned
<1>2. CASE Entering' /\ BeginSession
  <2>1. job.mode # "normal" /\ job.sel \in Profiles
    BY <1>2 DEF BeginSession, EntryFacts, PlaceInv, SelectInv
  <2>2. pc' \in {"resolve", "check"} /\ job'.left = job.sel /\ job'.sel = job.sel
        /\ job'.mode = job.mode /\ job'.tank = job.tank
    BY <1>2, BeginEffect
  <2> QED
    BY <1>1, <1>2, <2>1, <2>2, BeginEffect DEF SelectInv, Ahead
<1>3. CASE Entering' /\ ~BeginSession
  <2>1. /\ Entering
        /\ job'.tank = job.tank /\ job'.mode = job.mode /\ job'.sel = job.sel
        /\ \A o : o \in Ahead' => o \in Ahead
    BY <1>3, EntryFlow DEF EntryFacts
  <2>2. \A o \in Outlet : o \in job.sel => obl'[o].base # "none" /\ obl'[o].active
    <3>1. CASE Trim \/ RemoveSession
      BY <1>3, <2>1, <3>1, RemovalEffect DEF EntryFacts, PlaceInv, SelectInv
    <3>2. CASE ~Replanned
      BY <2>1, <3>2, PlansKept DEF Replanned, EntryFacts, PlaceInv, SelectInv
    <3> QED
      BY <1>3, <3>1, <3>2 DEF Replanned
  <2> QED
    BY <1>1, <2>1, <2>2 DEF EntryFacts, PlaceInv, SelectInv
<1>4. CASE ~Entering' /\ pc' \in {"preflight", "begin"}
  <2> SUFFICES job'.mode # "normal" /\ job'.sel \in Profiles
    BY <1>1, <1>4 DEF SelectInv
  <2>1. ASSUME pc \in {"preflight", "begin"}, job'.mode = job.mode, job'.sel = job.sel
        PROVE  job'.mode # "normal" /\ job'.sel \in Profiles
    BY <2>1 DEF EntryFacts, PlaceInv, SelectInv
  <2>2. ASSUME NEW t \in Tank, NEW m \in Mode, NEW sel \in Profiles, AcceptTemporary(t, m, sel)
        PROVE  job'.mode # "normal" /\ job'.sel \in Profiles
    BY <2>2, ConstantsAssumption DEF AcceptTemporary, NoJob
  <2>3. CASE Preflight
    BY <1>0, <2>1, <2>3 DEF Preflight, Job
  <2>4. CASE RestoreStep \/ TickStart \/ TickUnsafe \/ TickStep
    BY <1>0, <1>4, <2>4 DEF EntryFacts, StoreInv, TypeOK, RestoreStep, Resolve, ResolveFails,
       SkipOutlet, FoundRestored,
       HoldOutlet, FoundSwitched, RestoreUnknown, PumpNotRestored, Restorable, Differs, Turn,
       Visited, RestoreOutlet, RestoreConfirmed, RestoreUncertain, RecordRestored,
       RecordRestoreFailed, SwitchRestored, EndSession, RemoveSession, KeepSession, Return,
       Restoration, Backs, TickStart, TickUnsafe, ClockUnsafe, TickStep, GuardTank, TickUnfinished,
       TickPending, TickActive, TickActiveFails, StartRestore, WatchQuiet, WatchExternal, GuardDone,
       Hold, WatchDone, TickDone
  <2>5. CASE TemporaryStep
    BY <1>4, <2>3, <2>5 DEF TemporaryStep, PreflightUnsafe, ClockUnsafe, PreflightRefused,
       SameMode, BeginSession, StartRestore, Trim, EntryVisit, EntryExpired, EntryGoesOn, Activate,
       Preserve, SwitchOff, OffConfirmed, OffUncertain, RecordOff, Unwind, RejectAndUnwind, RejectOnly
  <2>6. CASE Command
    BY <1>4, <2>2, <2>6 DEF Command, AcceptRefused, AcceptNormal, StartRestore, FinishManual,
       FinishManualFails, volatile
  <2>7. CASE Environment \/ UNCHANGED vars
    BY <1>4, <2>1, <2>7 DEF Environment, Crash, CrashMarking, UserSwitch, ViewCatchesUp, DeadlinePasses,
       RetryExpires, vars, volatile
  <2> QED
    BY <2>4, <2>5, <2>6, <2>7 DEF Next, Handler
<1> QED
  BY <1>1, <1>2, <1>3, <1>4 DEF SelectInv

LEMMA PhaseStep == ASSUME EntryFacts, [Next]_vars PROVE PhaseInv'
<1>0. TypeOK /\ job \in Job
  BY DEF EntryFacts, StoreInv, TypeOK
<1>1. ASSUME NEW t \in Tank, session'[t].phase = "active" PROVE session'[t].mode # "normal"
  <2>1. CASE Activate
    <3>1. job.mode # "normal"
      BY <2>1 DEF Activate, EntryFacts, PlaceInv, SelectInv, Entering
    <3> QED
      BY <1>0, <1>1, <2>1, <3>1 DEF Activate, SetSession, TypeOK, EntryFacts, PlaceInv, PhaseInv
  <2>2. CASE ~Activate
    BY <1>1, <2>2, ActiveKept DEF EntryFacts, PlaceInv, PhaseInv
  <2> QED
    BY <2>1, <2>2
<1>2. ASSUME Entering' PROVE session'[job'.tank].phase # "active"
  <2>1. CASE BeginSession
    BY <2>1, BeginEffect
  <2>2. CASE ~BeginSession
    <3>1. Entering /\ job'.tank = job.tank
      BY <1>2, <2>2, EntryFlow DEF EntryFacts
    <3>2. ~Activate
      BY <1>2 DEF Activate, Entering, Busy, Restoring
    <3>3. job.tank \in Tank
      BY <3>1 DEF EntryFacts, PlaceInv, HomeInv
    <3> QED
      BY <3>1, <3>2, <3>3, ActiveKept DEF EntryFacts, PlaceInv, PhaseInv
  <2> QED
    BY <2>1, <2>2
<1>3. ASSUME Restoring', rst'.imm PROVE session'[rst'.tank].phase # "active"
  <2>1. CASE BeginSession
    BY <1>3, <2>1, BeginEffect DEF Restoring
  <2>2. CASE Begins
    BY <1>3, <2>2 DEF Begins, StartRestore
  <2>3. CASE ~BeginSession /\ ~Begins
    <3>1. Restoring /\ ~Activate /\ rst'.tank = rst.tank /\ rst'.imm = rst.imm
      BY <1>3, <2>3, RestorationFlow DEF EntryFacts, PlaceInv
    <3>2. rst.tank \in Tank
      BY <3>1 DEF EntryFacts, PlaceInv, HomeInv, Busy
    <3> QED
      BY <1>3, <3>1, <3>2, ActiveKept DEF EntryFacts, PlaceInv, PhaseInv
  <2> QED
    BY <2>1, <2>2, <2>3
<1> QED
  BY <1>1, <1>2, <1>3 DEF PhaseInv

LEMMA PlaceInvariant == Spec => []EntryFacts
<1>1. EntryFacts /\ [Next]_vars => PlaceInv'
  BY HomeStep, ScopeStep, SelectStep, PhaseStep DEF PlaceInv
<1>2. StoreInv /\ EntryInv /\ PlaceInv => EntryFacts
  BY DEF EntryFacts
<1> QED
  BY InitPlace, StoreInvariant, EntryInvariant, <1>1, <1>2, PTL DEF Spec

-------------------------------------------------------------------------------
(* An active mode is entered.                                                  *)

LEMMA DealtStep == ASSUME EntryFacts, DealtInv, [Next]_vars PROVE DealtInv'
<1>0. TypeOK /\ job \in Job
  BY DEF EntryFacts, StoreInv, TypeOK
<1> SUFFICES ASSUME Entering', NEW o \in Outlet, TankOf[o] = job'.tank, obl'[o].active,
                    o \notin Ahead', ~(pc' = "off_ok" /\ o = job'.cur)
             PROVE  obl'[o].result # "none"
  BY DEF DealtInv
<1>1. CASE BeginSession
  <2>1. o \notin job.sel /\ TankOf[o] = job.tank
    BY <1>1, BeginEffect DEF Ahead
  <2>2. o \notin Obligated(job.tank) /\ obl'[o] = obl[o]
    BY <1>1, <2>1, BeginEffect
  <2> QED
    BY <2>1, <2>2 DEF Obligated, Outlets, EntryFacts, PlaceInv, SelectInv
<1>2. CASE ~BeginSession
  <2>1. Entering /\ job'.tank = job.tank
    BY <1>2, EntryFlow DEF EntryFacts
  <2>2. CASE Trim \/ RemoveSession
    <3>1. obl'[o] = obl[o]
      BY <2>1, <2>2, RemovalEffect DEF NoObligation
    <3>2. o \notin Ahead /\ ~(pc = "off_ok" /\ o = job.cur)
      <4>1. job'.left = job.left
        BY <2>2, <2>1 DEF Trim, RemoveSession, Return, Entering, Busy, Restoring, EntryFacts,
           StoreInv, RemoveInv, TypeOK, Restoration, Backs, NoRestoration, NoJob
      <4> QED
        BY <2>2, <4>1 DEF Trim, RemoveSession, Ahead
    <3> QED
      BY <2>1, <3>1, <3>2 DEF DealtInv
  <2>3. CASE ~Replanned
    <3>1. obl[o].active
      BY <2>3, PlansKept DEF Replanned, EntryFacts
    <3>2. ~RestoreOutlet(o)
      <4>1. RestoreOutlet(o) => Restoring /\ Busy /\ o \in rst.todo /\ pc = "restore"
        BY DEF RestoreOutlet, Restorable, Differs, Turn, Busy, Restoring
      <4>2. RestoreOutlet(o) => rst.back \in {"check", "switch"}
        BY <2>1, <4>1 DEF Entering
      <4> QED
        BY <2>1, <3>1, <4>1, <4>2 DEF EntryFacts, PlaceInv, ScopeInv, EntryInv, OtherInv, StoreInv, CallInv
    <3>3. ~SwitchOff(o)
      <4>1. SwitchOff(o) => job'.cur = o /\ pc' = "off_call"
        BY <1>0 DEF SwitchOff, Job
      <4> QED
        BY <4>1 DEF Ahead
    <3>4. CASE Preserve(o)
      BY <1>0, <3>4, MarkFields DEF Preserve
    <3>5. CASE RecordOff /\ o = job.cur
      BY <1>0, <3>5, MarkFields DEF RecordOff
    <3>6. CASE ~Preserve(o) /\ ~(RecordOff /\ o = job.cur)
      <4>1. o \notin Ahead
        <5>1. ASSUME NEW q \in Outlet, Preserve(q) \/ SwitchOff(q), o \in Ahead PROVE FALSE
          <6>1. q # o
            BY <3>3, <3>6, <5>1
          <6>2. pc = "enter" /\ job'.left = job.left \ {q}
            BY <1>0, <5>1 DEF Preserve, SwitchOff, EntryTurn, Job
          <6> QED
            BY <5>1, <6>1, <6>2 DEF Ahead
        <5>2. ASSUME OffConfirmed, o \in Ahead PROVE FALSE
          BY <5>2 DEF OffConfirmed, Ahead
        <5>3. ASSUME pc # "off_call", job' = job PROVE o \notin Ahead
          BY <5>3 DEF Ahead
        <5>4. ASSUME pc' = pc, job' = job PROVE o \notin Ahead
          BY <5>4 DEF Ahead
        <5>5. CASE RestoreStep
          <6>1. pc # "off_call"
            BY <5>5 DEF RestoreStep, Resolve, ResolveFails, SkipOutlet, FoundRestored,
               HoldOutlet, FoundSwitched, RestoreUnknown, PumpNotRestored, Restorable, Differs, Turn,
               RestoreOutlet, RestoreConfirmed, RestoreUncertain, RecordRestored,
               RecordRestoreFailed, SwitchRestored, EndSession, RemoveSession, KeepSession, RestoreDone
          <6>2. job' = job
            <7>1. CASE KeepSession
              BY <1>0, <2>1, <7>1 DEF KeepSession, RestoreDone, Return, Entering, Busy, Restoring,
                 EntryFacts, StoreInv, TypeOK, Restoration, Backs, NoRestoration
            <7>2. ASSUME NEW q \in Outlet, NEW c, Visited(q, c) PROVE job' = job
              BY <7>2 DEF Visited
            <7>3. CASE Resolve \/ ResolveFails \/ RestoreConfirmed \/ RecordRestored
                       \/ RecordRestoreFailed \/ SwitchRestored \/ EndSession
              BY <7>3 DEF Resolve, ResolveFails, RestoreConfirmed, RecordRestored,
                 RecordRestoreFailed, SwitchRestored, EndSession
            <7>4. ASSUME NEW q \in Outlet, RestoreOutlet(q) PROVE job' = job
              BY <7>4 DEF RestoreOutlet
            <7>5. ASSUME NEW applied \in BOOLEAN, RestoreUncertain(applied) PROVE job' = job
              BY <7>5 DEF RestoreUncertain
            <7> QED
              BY <2>3, <5>5, <7>1, <7>2, <7>3, <7>4, <7>5 DEF Replanned, RestoreStep, SkipOutlet,
                 FoundRestored, HoldOutlet, FoundSwitched, RestoreUnknown, PumpNotRestored
          <6> QED
            BY <5>3, <6>1, <6>2
        <5>6. CASE TemporaryStep
          <6>1. CASE RecordOff
            BY <1>0, <6>1 DEF RecordOff, Ahead, Job
          <6>2. CASE \E t \in Tank : EntryVisit(t)
            BY <5>3, <6>2 DEF EntryVisit
          <6>3. CASE EntryGoesOn
            BY <5>3, <6>3 DEF EntryGoesOn
          <6> QED
            BY <2>3, <5>1, <5>2, <5>6, <6>1, <6>2, <6>3 DEF TemporaryStep, Replanned, PreflightUnsafe,
               ClockUnsafe, PreflightRefused, Preflight, SameMode, EntryExpired, Activate,
               OffUncertain, Unwind, RejectAndUnwind, StartRestore, RejectOnly, Entering, Busy,
               Restoring
        <5>7. CASE TickStart \/ TickUnsafe \/ TickStep
          BY <2>1, <5>7 DEF TickStart, TickUnsafe, TickStep, GuardTank, TickUnfinished, TickPending,
             TickActive, TickActiveFails, WatchQuiet, WatchExternal, GuardDone, Hold, WatchDone,
             TickDone, Entering, Busy, Restoring
        <5>8. CASE Command
          BY <2>1, <5>8 DEF Command, AcceptTemporary, AcceptRefused, AcceptNormal, FinishManual,
             FinishManualFails, Entering, Busy, Restoring
        <5>9. CASE Environment \/ UNCHANGED vars
          BY <5>4, <5>9 DEF Environment, Crash, CrashMarking, UserSwitch, ViewCatchesUp, DeadlinePasses,
             RetryExpires, vars, volatile, Entering, Busy, Restoring
        <5> QED
          BY <5>5, <5>6, <5>7, <5>8, <5>9 DEF Next, Handler
      <4>2. ~(pc = "off_ok" /\ o = job.cur)
        <5> SUFFICES ASSUME pc = "off_ok", o = job.cur PROVE FALSE
          OBVIOUS
        <5>1. pc' = pc /\ job' = job
          BY <3>6 DEF Next, Handler, RestoreStep, Resolve, ResolveFails, SkipOutlet, FoundRestored,
             HoldOutlet, FoundSwitched, RestoreUnknown, PumpNotRestored, Restorable, Differs, Turn,
             RestoreOutlet, RestoreConfirmed, RestoreUncertain, RecordRestored,
             RecordRestoreFailed, SwitchRestored, EndSession, RemoveSession, KeepSession, RestoreDone,
             TemporaryStep, PreflightUnsafe, PreflightRefused, Preflight, SameMode, BeginSession, Trim,
             EntryVisit, EntryExpired, EntryGoesOn, Activate, Preserve, SwitchOff, EntryTurn,
             OffConfirmed, OffUncertain, Unwind, RejectAndUnwind, RejectOnly,
             TickStart, TickUnsafe, TickStep, GuardTank, TickUnfinished, TickPending,
             TickActive, TickActiveFails, WatchQuiet, WatchExternal, GuardDone, Hold, WatchDone,
             TickDone, Command, AcceptTemporary, AcceptRefused, AcceptNormal, FinishManual,
             FinishManualFails, Environment, Crash, CrashMarking, UserSwitch, ViewCatchesUp, DeadlinePasses,
             RetryExpires, vars, volatile, Entering, Busy, Restoring
        <5> QED
          BY <5>1
      <4>3. obl[o].result # "none"
        BY <2>1, <3>1, <4>1, <4>2 DEF DealtInv
      <4> QED
        BY <2>3, <3>2, <3>3, <4>3, FieldsKept DEF EntryFacts
    <3> QED
      BY <3>4, <3>5, <3>6
  <2> QED
    BY <1>2, <2>2, <2>3 DEF Replanned
<1> QED
  BY <1>1, <1>2

LEMMA EnteredStep ==
    ASSUME EntryFacts, DealtInv, ActiveIsEntered, [Next]_vars
    PROVE  ActiveIsEntered'
<1>0. TypeOK /\ job \in Job /\ \A o \in Outlet : TankOf[o] \in Tank
  BY ConstantsAssumption DEF EntryFacts, StoreInv, TypeOK
<1> SUFFICES ASSUME NEW o \in Outlet, session'[TankOf[o]].phase = "active", obl'[o].active,
                    ~obl'[o].due
             PROVE  obl'[o].result # "none"
  BY DEF ActiveIsEntered
<1>1. CASE Activate /\ TankOf[o] = job.tank
  <2>1. pc = "check" /\ job.left = {} /\ obl' = obl
    BY <1>1 DEF Activate
  <2> QED
    BY <1>1, <2>1 DEF DealtInv, Entering, Ahead
<1>2. CASE Activate /\ TankOf[o] # job.tank
  <2>1. obl' = obl /\ session[TankOf[o]].phase = "active"
    BY <1>0, <1>2 DEF Activate, SetSession, TypeOK
  <2> QED
    BY <2>1 DEF ActiveIsEntered
<1>3. CASE ~Activate
  <2>1. session[TankOf[o]].phase = "active"
    BY <1>0, <1>3, ActiveKept DEF EntryFacts
  <2>2. CASE BeginSession
    <3>1. obl'[o] = obl[o]
      BY <2>2, BeginEffect DEF Obligated, Outlets
    <3> QED
      BY <2>1, <3>1 DEF ActiveIsEntered
  <2>3. CASE Trim \/ RemoveSession
    <3>1. obl'[o] = obl[o]
      BY <2>3, RemovalEffect
    <3> QED
      BY <2>1, <3>1 DEF ActiveIsEntered
  <2>4. CASE ~Replanned
    <3>1. obl[o].active
      BY <2>4, PlansKept DEF Replanned, EntryFacts
    <3>2. ~obl[o].due
      BY <2>4, FieldsKept DEF EntryFacts
    <3>3. obl[o].result # "none"
      BY <2>1, <3>1, <3>2 DEF ActiveIsEntered
    <3>4. ~RestoreOutlet(o)
      <4>1. RestoreOutlet(o) => Restoring /\ o \in rst.todo /\ (rst.imm \/ obl[o].due)
        BY DEF RestoreOutlet, Restorable, Differs, Turn, Runnable, Restoring
      <4> QED
        BY <2>1, <3>2, <4>1 DEF EntryFacts, PlaceInv, ScopeInv, PhaseInv
    <3>5. ~SwitchOff(o)
      <4>1. SwitchOff(o) => Entering /\ o \in Ahead
        BY DEF SwitchOff, EntryTurn, Entering, Ahead
      <4> QED
        BY <2>1, <4>1 DEF EntryFacts, EntryInv, AheadInv, PlaceInv, PhaseInv
    <3> QED
      BY <2>4, <3>3, <3>4, <3>5, FieldsKept DEF EntryFacts
  <2> QED
    BY <2>2, <2>3, <2>4 DEF Replanned
<1> QED
  BY <1>1, <1>2, <1>3

\* A mode that is published as active has dealt with every outlet it selected,
\* under every fault, late views included: an entry that was interrupted or
\* failed half way is never taken for one that succeeded.
THEOREM EntriesAreWhole == Spec => []ActiveIsEntered
<1>1. Init => DealtInv /\ ActiveIsEntered
  BY ConstantsAssumption DEF Init, DealtInv, ActiveIsEntered, Entering, Busy, Restoring,
     NoSession, NoObligation
<1>2. EntryFacts /\ DealtInv /\ ActiveIsEntered /\ [Next]_vars => DealtInv' /\ ActiveIsEntered'
  BY DealtStep, EnteredStep
<1> QED
  BY PlaceInvariant, <1>1, <1>2, PTL DEF Spec

-------------------------------------------------------------------------------
(* A hold is never the bridge's own doing.                                     *)

\* What an entry has still to switch off is not held for a person
HoldInv ==
    /\ HoldNeverCoversOwed
    /\ Entering => \A o \in Outlet : o \in Ahead => obl[o].error # "external"

\* An outlet starts to be owed only as the entry switches it off
LEMMA OwedKept ==
    ASSUME StoreInv, [Next]_vars, NEW o \in Outlet, owed'[o]
    PROVE  owed[o] \/ (o = job.cur /\ pc = "off_call" /\ ~Replanned /\ obl' = obl)
<1> DEFINE Stays == owed[o] \/ (o = job.cur /\ pc = "off_call" /\ ~Replanned /\ obl' = obl)
<1> SUFFICES Stays
  OBVIOUS
<1>0. owed \in [Outlet -> BOOLEAN]
  BY DEF StoreInv, TypeOK
<1>1. CASE owed' = owed
  BY <1>1
<1>2. CASE RestoreConfirmed
  BY <1>0, <1>2 DEF RestoreConfirmed
<1>3. ASSUME NEW applied \in BOOLEAN, RestoreUncertain(applied) PROVE Stays
  BY <1>0, <1>3 DEF RestoreUncertain
<1>4. CASE OffConfirmed
  BY <1>0, <1>4 DEF OffConfirmed, Replanned, BeginSession, Trim, RemoveSession, durable
<1>5. ASSUME NEW applied \in BOOLEAN, OffUncertain(applied) PROVE Stays
  BY <1>0, <1>5 DEF OffUncertain, Replanned, BeginSession, Trim, RemoveSession, durable
<1>6. ASSUME NEW t \in Tank, FinishManual(t) PROVE Stays
  BY <1>0, <1>6 DEF FinishManual
<1>7. ASSUME NEW q \in Outlet, UserSwitch(q) PROVE Stays
  BY <1>0, <1>7 DEF UserSwitch
<1>10. CASE RestoreStep
  BY <1>1, <1>2, <1>3, <1>10 DEF RestoreStep, Resolve, ResolveFails, SkipOutlet, FoundRestored,
     HoldOutlet, FoundSwitched, RestoreUnknown, PumpNotRestored, Visited, RestoreOutlet,
     RecordRestored, RecordRestoreFailed, SwitchRestored, EndSession, RemoveSession, KeepSession,
     history
<1>11. CASE TemporaryStep
  BY <1>1, <1>4, <1>5, <1>11 DEF TemporaryStep, PreflightUnsafe, PreflightRefused, Preflight,
     SameMode, BeginSession, Trim, EntryVisit, EntryExpired, EntryGoesOn, Activate, Preserve,
     SwitchOff, RecordOff, Unwind, RejectAndUnwind, RejectOnly, history
<1>12. CASE TickStart \/ TickUnsafe \/ TickStep
  BY <1>1, <1>12 DEF TickStart, TickUnsafe, TickStep, GuardTank, TickUnfinished, TickPending,
     TickActive, TickActiveFails, WatchQuiet, WatchExternal, GuardDone, Hold, WatchDone, TickDone,
     history
<1>13. CASE Command
  BY <1>1, <1>6, <1>13 DEF Command, AcceptTemporary, AcceptRefused, AcceptNormal,
     FinishManualFails, history
<1>14. CASE Environment
  BY <1>1, <1>7, <1>14 DEF Environment, Crash, CrashMarking, ViewCatchesUp,
     DeadlinePasses, RetryExpires, history
<1>15. CASE UNCHANGED vars
  BY <1>1, <1>15 DEF vars, history
<1> QED
  BY <1>10, <1>11, <1>12, <1>13, <1>14, <1>15 DEF Next, Handler

LEMMA HoldStep ==
    ASSUME EntryFacts, OwedInv, HoldInv, [Next]_vars
    PROVE  HoldInv'
<1>1. ASSUME NEW o \in Outlet, ~Replanned, obl[o].error # "external", obl'[o].error = "external"
      PROVE  ~owed[o] /\ ~(Entering /\ o \in Ahead)
  <2>1. FoundSwitched(o) \/ WatchExternal(o)
    BY <1>1, FieldsKept DEF EntryFacts
  <2>2. CASE FoundSwitched(o)
    <3>1. obl[o].base = "off" /\ pc = "restore" /\ o \in rst.todo
      BY <2>2 DEF FoundSwitched, Differs, Turn
    <3>2. ~owed[o]
      BY <3>1 DEF OwedInv
    <3>3. ASSUME Entering, o \in Ahead PROVE FALSE
      <4>1. rst.back \in {"check", "switch"} /\ Busy /\ Restoring
        BY <3>1, <3>3 DEF Entering, Busy, Restoring
      <4>2. TankOf[o] = job.tank /\ obl[o].active
        BY <3>3 DEF EntryFacts, EntryInv, AheadInv
      <4>3. TankOf[o] = rst.tank /\ (rst.back = "switch" => ~obl[o].active)
        BY <3>1, <4>1 DEF EntryFacts, PlaceInv, ScopeInv
      <4> QED
        BY <4>1, <4>2, <4>3 DEF EntryFacts, EntryInv, OtherInv
    <3> QED
      BY <3>2, <3>3
  <2>3. CASE WatchExternal(o)
    <3>1. pc = "watch" /\ "on" \in Readings(o)
      BY <2>3 DEF WatchExternal
    <3>2. shown[o] = "on"
      BY <3>1 DEF Readings
    <3> QED
      BY <3>1, <3>2 DEF OwedInv, Entering, Busy, Restoring
  <2> QED
    BY <2>1, <2>2, <2>3
<1>2. ASSUME NEW o \in Outlet, Replanned, obl'[o].error = "external"
      PROVE  obl[o].error = "external"
  <2>1. CASE BeginSession
    BY <1>2, <2>1, BeginEffect
  <2>2. CASE Trim \/ RemoveSession
    BY <1>2, <2>2, RemovalEffect DEF NoObligation
  <2> QED
    BY <1>2, <2>1, <2>2 DEF Replanned
<1>3. ASSUME NEW o \in Outlet, owed'[o] PROVE obl'[o].error # "external"
  <2>1. CASE owed[o]
    BY <1>1, <1>2, <2>1 DEF HoldInv, HoldNeverCoversOwed
  <2>2. CASE ~owed[o]
    <3>1. o = job.cur /\ pc = "off_call" /\ obl' = obl
      BY <1>3, <2>2, OwedKept DEF EntryFacts
    <3> QED
      BY <3>1 DEF HoldInv, Entering, Ahead
  <2> QED
    BY <2>1, <2>2
<1>4. ASSUME Entering', NEW o \in Outlet, o \in Ahead' PROVE obl'[o].error # "external"
  <2>1. CASE BeginSession
    BY <1>4, <2>1, BeginEffect DEF Ahead
  <2>2. CASE ~BeginSession
    <3>1. Entering /\ o \in Ahead
      BY <1>4, <2>2, EntryFlow DEF EntryFacts
    <3> QED
      BY <1>1, <1>2, <3>1 DEF HoldInv
  <2> QED
    BY <2>1, <2>2
<1> QED
  BY <1>3, <1>4 DEF HoldInv, HoldNeverCoversOwed

\* As long as Home Assistant shows the outlets as they are, an outlet the bridge
\* left off is never held for an attended recovery as somebody else's change:
\* its own restoration stays due.
THEOREM HoldsAreOthersDoing == "stale" \notin Faults => (Spec => []HoldNeverCoversOwed)
<1> SUFFICES ASSUME "stale" \notin Faults PROVE Spec => []HoldNeverCoversOwed
  OBVIOUS
<1>1. Spec => []OwedInv
  BY OwedInvariant
<1>2. Init => HoldInv
  BY DEF Init, HoldInv, HoldNeverCoversOwed, Entering, Busy, Restoring
<1>3. EntryFacts /\ OwedInv /\ HoldInv /\ [Next]_vars => HoldInv'
  BY HoldStep
<1>4. HoldInv => HoldNeverCoversOwed
  BY DEF HoldInv
<1> QED
  BY PlaceInvariant, <1>1, <1>2, <1>3, <1>4, PTL DEF Spec

-------------------------------------------------------------------------------
(* No heater runs without its pump.                                            *)

\* A command that stops a pump stops what depends on it
Closed == \A sel \in Profiles, o \in Outlet : Requires[o] \in sel => o \in sel

\* What an entry has behind it is off, and so is what it found off; it stops
\* the dependents of a pump before the pump, and a restoration starts a
\* dependent after it
OffInv ==
    /\ pc = "begin" => \A o \in Outlet : o \in job.sel /\ o \notin job.on => phys[o] = "off"
    /\ Entering => \A o \in Outlet : o \in job.sel /\ (o \notin Ahead \/ o \notin job.on)
                                         => phys[o] = "off"
    /\ pc = "off_call" => \A o \in Outlet : o \in job.left => Requires[o] # job.cur
    /\ pc = "on_call" /\ Requires[rst.cur] # NoOutlet => phys[Requires[rst.cur]] = "on"

\* Outlets change only as they are called
LEMMA PhysKept ==
    ASSUME "external" \notin Faults, StoreInv, [Next]_vars
    PROVE  \/ phys' = phys
           \/ OffConfirmed \/ \E applied \in BOOLEAN : OffUncertain(applied)
           \/ RestoreConfirmed \/ \E applied \in BOOLEAN : RestoreUncertain(applied)
<1>10. CASE RestoreStep
  BY <1>10 DEF RestoreStep, Resolve, ResolveFails, SkipOutlet, FoundRestored,
     HoldOutlet, FoundSwitched, RestoreUnknown, PumpNotRestored, Visited, RestoreOutlet,
     RecordRestored, RecordRestoreFailed, SwitchRestored, EndSession, RemoveSession, KeepSession,
     world
<1>11. CASE TemporaryStep
  BY <1>11 DEF TemporaryStep, PreflightUnsafe, PreflightRefused, Preflight,
     SameMode, BeginSession, Trim, EntryVisit, EntryExpired, EntryGoesOn, Activate, Preserve,
     SwitchOff, RecordOff, Unwind, RejectAndUnwind, RejectOnly, world
<1>12. CASE TickStart \/ TickUnsafe \/ TickStep
  BY <1>12 DEF TickStart, TickUnsafe, TickStep, GuardTank, TickUnfinished, TickPending,
     TickActive, TickActiveFails, WatchQuiet, WatchExternal, GuardDone, Hold, WatchDone, TickDone,
     world
<1>13. CASE Command
  BY <1>13 DEF Command, AcceptTemporary, AcceptRefused, AcceptNormal, FinishManual,
     FinishManualFails, world, durable
<1>14. CASE Environment
  BY <1>14 DEF Environment, Crash, CrashMarking, UserSwitch, ViewCatchesUp,
     DeadlinePasses, RetryExpires, world
<1>15. CASE UNCHANGED vars
  BY <1>15 DEF vars, world
<1> QED
  BY <1>10, <1>11, <1>12, <1>13, <1>14, <1>15 DEF Next, Handler

\* A call switches the outlet it is about to the state it names
LEMMA Driven ==
    ASSUME "external" \notin Faults, StoreInv, [Next]_vars, NEW o \in Outlet
    PROVE  \/ phys'[o] = phys[o]
           \/ pc = "off_call" /\ o = job.cur /\ phys'[o] = "off"
           \/ pc = "on_call" /\ o = rst.cur /\ phys'[o] = "on"
<1>1. phys \in [Outlet -> {"on", "off"}]
  BY DEF StoreInv, TypeOK
<1> QED
  BY <1>1, PhysKept DEF OffConfirmed, OffUncertain, RestoreConfirmed, RestoreUncertain,
     Confirmed, Uncertain

\* How a handler comes to the places OffInv is about
LEMMA Arrives ==
    ASSUME StoreInv, [Next]_vars
    PROVE  /\ pc' = "begin" => Preflight \/ (pc = "begin" /\ job' = job)
           /\ pc' = "off_call" => (\E o \in Outlet : SwitchOff(o)) \/ (pc = "off_call" /\ job' = job)
           /\ pc' = "on_call" => (\E o \in Outlet : RestoreOutlet(o)) \/ (pc = "on_call" /\ rst' = rst)
<1> DEFINE Comes ==
      /\ pc' = "begin" => Preflight \/ (pc = "begin" /\ job' = job)
      /\ pc' = "off_call" => (\E o \in Outlet : SwitchOff(o)) \/ (pc = "off_call" /\ job' = job)
      /\ pc' = "on_call" => (\E o \in Outlet : RestoreOutlet(o)) \/ (pc = "on_call" /\ rst' = rst)
<1> SUFFICES Comes
  OBVIOUS
<1>1. rst.back \in Backs
  BY DEF StoreInv, TypeOK, Restoration
<1>2. CASE pc' \notin {"begin", "off_call", "on_call"}
  BY <1>2
<1>3. CASE UNCHANGED volatile
  BY <1>3 DEF volatile
<1>4. ASSUME NEW o \in Outlet, RestoreOutlet(o) PROVE Comes
  BY <1>4 DEF RestoreOutlet
<1>5. ASSUME NEW o \in Outlet, SwitchOff(o) PROVE Comes
  BY <1>5 DEF SwitchOff
<1>6. CASE Preflight
  BY <1>6 DEF Preflight
<1> HIDE DEF Comes
<1>10. CASE RestoreStep
  <2>1. ASSUME NEW o, NEW c, pc = "restore", Visited(o, c) PROVE Comes
    BY <1>2, <2>1 DEF Visited
  <2>2. CASE RemoveSession \/ KeepSession
    BY <1>1, <1>2, <2>2 DEF RemoveSession, KeepSession, Return, Backs
  <2>3. CASE Resolve \/ ResolveFails \/ RestoreConfirmed \/ RecordRestored \/ RecordRestoreFailed
             \/ SwitchRestored \/ EndSession \/ \E applied \in BOOLEAN : RestoreUncertain(applied)
    BY <1>2, <2>3 DEF Resolve, ResolveFails, RestoreConfirmed, RecordRestored, RecordRestoreFailed,
       SwitchRestored, EndSession, RestoreUncertain
  <2> QED
    BY <1>4, <1>10, <2>1, <2>2, <2>3 DEF RestoreStep, SkipOutlet, FoundRestored, HoldOutlet,
       FoundSwitched, RestoreUnknown, PumpNotRestored, Restorable, Differs, Turn
<1>11. CASE TemporaryStep
  <2>1. ASSUME NEW t \in Tank, EntryVisit(t) PROVE Comes
    BY <1>2, <2>1 DEF EntryVisit, StartRestore
  <2>2. CASE BeginSession
    BY <1>2, <2>2 DEF BeginSession, StartRestore
  <2>3. CASE PreflightUnsafe \/ PreflightRefused \/ SameMode \/ Trim \/ EntryExpired \/ EntryGoesOn
             \/ Activate \/ (\E o \in Outlet : Preserve(o)) \/ OffConfirmed
             \/ (\E applied \in BOOLEAN : OffUncertain(applied)) \/ RecordOff \/ RejectOnly
    BY <1>2, <2>3 DEF PreflightUnsafe, ClockUnsafe, PreflightRefused, SameMode, Trim, EntryExpired,
       EntryGoesOn, Activate, Preserve, OffConfirmed, OffUncertain, RecordOff, RejectOnly
  <2>4. CASE Unwind \/ RejectAndUnwind
    BY <1>2, <2>4 DEF Unwind, RejectAndUnwind, StartRestore
  <2> QED
    BY <1>5, <1>6, <1>11, <2>1, <2>2, <2>3, <2>4 DEF TemporaryStep
<1>12. CASE TickStart \/ TickUnsafe \/ TickStep
  BY <1>2, <1>12 DEF TickStart, TickUnsafe, ClockUnsafe, TickStep, GuardTank, TickUnfinished,
     TickPending, TickActive, TickActiveFails, StartRestore, WatchQuiet, WatchExternal, GuardDone,
     Hold, WatchDone, TickDone
<1>13. CASE Command
  BY <1>2, <1>3, <1>13 DEF Command, AcceptTemporary, AcceptRefused, AcceptNormal, StartRestore,
     FinishManual, FinishManualFails
<1>14. CASE Environment \/ UNCHANGED vars
  BY <1>2, <1>3, <1>14 DEF Environment, Crash, CrashMarking, UserSwitch, ViewCatchesUp, DeadlinePasses,
     RetryExpires, vars
<1> QED
  BY <1>10, <1>11, <1>12, <1>13, <1>14 DEF Next, Handler

\* An entry leaves an outlet behind it as it finds it off or switches it off
LEMMA LeavesAhead ==
    ASSUME EntryFacts, [Next]_vars, ~BeginSession, Entering', NEW o \in Outlet,
           o \in Ahead, o \notin Ahead'
    PROVE  Preserve(o) \/ (OffConfirmed /\ o = job.cur)
<1> DEFINE Leaves == Preserve(o) \/ (OffConfirmed /\ o = job.cur)
<1> SUFFICES Leaves
  OBVIOUS
<1>0. TypeOK /\ job \in Job /\ rst \in Restoration
  BY DEF EntryFacts, StoreInv, TypeOK
<1>1. CASE job' = job /\ pc # "off_call"
  BY <1>1 DEF Ahead
<1>2. CASE job' = job /\ pc' = pc
  BY <1>2 DEF Ahead
<1>10. CASE RestoreStep
  <2>1. ASSUME NEW q \in Outlet, NEW c, pc = "restore", Visited(q, c) PROVE Leaves
    BY <1>1, <2>1 DEF Visited
  <2>2. CASE EndSession \/ SwitchRestored \/ Resolve \/ ResolveFails \/ RestoreConfirmed
             \/ RecordRestored \/ RecordRestoreFailed
    BY <1>1, <2>2 DEF EndSession, SwitchRestored, RestoreDone, Resolve, ResolveFails,
       RestoreConfirmed, RecordRestored, RecordRestoreFailed
  <2>3. CASE RemoveSession \/ KeepSession
    <3>1. rst.back # "done"
      BY <2>3 DEF RemoveSession, KeepSession, Return, Entering, Busy, Restoring
    <3> QED
      BY <1>1, <2>3, <3>1 DEF RemoveSession, KeepSession, RestoreDone, Return
  <2>4. ASSUME NEW q \in Outlet, RestoreOutlet(q) PROVE Leaves
    BY <1>1, <2>4 DEF RestoreOutlet, Restorable, Differs, Turn
  <2>5. ASSUME NEW applied \in BOOLEAN, RestoreUncertain(applied) PROVE Leaves
    BY <1>1, <2>5 DEF RestoreUncertain
  <2> QED
    BY <1>10, <2>1, <2>2, <2>3, <2>4, <2>5 DEF RestoreStep, SkipOutlet, FoundRestored,
       HoldOutlet, FoundSwitched, RestoreUnknown, PumpNotRestored, Restorable, Differs, Turn
<1>11. CASE TemporaryStep
  <2>1. CASE RecordOff
    BY <1>0, <2>1 DEF RecordOff, Ahead, Job
  <2>2. ASSUME NEW q \in Outlet, Preserve(q) PROVE Leaves
    <3>1. job'.left = job.left \ {q} /\ pc = "enter"
      BY <1>0, <2>2 DEF Preserve, EntryTurn, Job
    <3>2. o = q
      BY <3>1 DEF Ahead
    <3> QED
      BY <2>2, <3>2
  <2>3. ASSUME NEW q \in Outlet, SwitchOff(q) PROVE Leaves
    <3>1. job'.left = job.left \ {q} /\ job'.cur = q /\ pc = "enter" /\ pc' = "off_call"
      BY <1>0, <2>3 DEF SwitchOff, EntryTurn, Job
    <3> QED
      BY <3>1 DEF Ahead
  <2>4. CASE OffConfirmed
    BY <2>4 DEF OffConfirmed, Ahead
  <2>5. CASE Trim \/ EntryGoesOn \/ \E t \in Tank : EntryVisit(t)
    BY <1>1, <2>5 DEF Trim, EntryGoesOn, EntryVisit, durable
  <2>6. CASE PreflightUnsafe \/ PreflightRefused \/ Preflight \/ SameMode \/ EntryExpired \/ Activate
             \/ RejectOnly \/ \E applied \in BOOLEAN : OffUncertain(applied)
    BY <2>6 DEF PreflightUnsafe, ClockUnsafe, PreflightRefused, Preflight, SameMode, EntryExpired,
       Activate, RejectOnly, OffUncertain, Entering, Busy, Restoring
  <2>7. CASE Unwind \/ RejectAndUnwind
    BY <2>7 DEF Unwind, RejectAndUnwind, StartRestore, Entering, Busy, Restoring
  <2> QED
    BY <1>11, <2>1, <2>2, <2>3, <2>4, <2>5, <2>6, <2>7 DEF TemporaryStep
<1>12. CASE TickStart \/ TickUnsafe \/ TickStep
  BY <1>1, <1>12, EntryFlow DEF TickStart, TickUnsafe, TickStep, GuardTank, TickUnfinished,
     TickPending, TickActive, TickActiveFails, WatchQuiet, WatchExternal, GuardDone, Hold, WatchDone,
     TickDone, EntryFacts
<1>13. CASE Command
  <2>1. ASSUME NEW t \in Tank, FinishManualFails(t) PROVE Leaves
    BY <1>2, <2>1 DEF FinishManualFails, volatile
  <2>2. ASSUME NEW t \in Tank, FinishManual(t) PROVE Leaves
    BY <1>1, <2>2 DEF FinishManual
  <2>3. ASSUME NEW t \in Tank, AcceptRefused(t) \/ AcceptNormal(t) PROVE Leaves
    BY <2>3 DEF AcceptRefused, AcceptNormal, StartRestore, Entering, Busy, Restoring
  <2>4. ASSUME NEW t \in Tank, NEW m \in Mode, NEW sel \in Profiles, AcceptTemporary(t, m, sel)
        PROVE  Leaves
    BY <2>4 DEF AcceptTemporary, Entering, Busy, Restoring
  <2> QED
    BY <1>13, <2>1, <2>2, <2>3, <2>4 DEF Command
<1>14. CASE Environment \/ UNCHANGED vars
  BY <1>2, <1>14 DEF Environment, Crash, CrashMarking, UserSwitch, ViewCatchesUp, DeadlinePasses,
     RetryExpires, vars, volatile, Entering, Busy, Restoring
<1> QED
  BY <1>10, <1>11, <1>12, <1>13, <1>14 DEF Next, Handler

LEMMA OffStep ==
    ASSUME "external" \notin Faults, EntryFacts, OwedInv, OffInv, [Next]_vars
    PROVE  OffInv'
<1>0. TypeOK /\ job \in Job /\ rst \in Restoration
  BY DEF EntryFacts, StoreInv, TypeOK
<1>1. ASSUME pc' = "begin", NEW o \in Outlet, o \in job'.sel, o \notin job'.on PROVE phys'[o] = "off"
  <2>1. phys'[o] = phys[o]
    BY <1>0, <1>1, Driven, Arrives DEF EntryFacts, Preflight
  <2>2. CASE Preflight
    BY <1>0, <1>1, <2>1, <2>2 DEF Preflight, Job, OwedInv, TypeOK
  <2>3. CASE pc = "begin" /\ job' = job
    BY <1>1, <2>1, <2>3 DEF OffInv
  <2> QED
    BY <1>1, <2>2, <2>3, Arrives DEF EntryFacts
<1>2. ASSUME Entering', NEW o \in Outlet, o \in job'.sel, o \notin Ahead' \/ o \notin job'.on
      PROVE  phys'[o] = "off"
  <2>1. CASE BeginSession
    <3>1. phys' = phys /\ pc = "begin"
      BY <2>1 DEF BeginSession, world
    <3>2. job'.sel = job.sel /\ job'.on = job.on /\ job'.left = job.sel
      BY <2>1, BeginEffect
    <3> QED
      BY <1>2, <3>1, <3>2 DEF Ahead, OffInv
  <2>2. CASE ~BeginSession
    <3>1. Entering /\ job'.tank = job.tank /\ job'.sel = job.sel /\ job'.on = job.on
      BY <1>2, <2>2, EntryFlow DEF EntryFacts
    <3>2. CASE o \in Ahead /\ o \in job.on
      <4>1. o \notin Ahead'
        BY <1>2, <3>1, <3>2
      <4>2. Preserve(o) \/ (OffConfirmed /\ o = job.cur)
        BY <1>2, <2>2, <3>2, <4>1, LeavesAhead
      <4> QED
        BY <1>0, <3>2, <4>2 DEF Preserve, OffConfirmed, Confirmed, TypeOK
    <3>3. CASE o \notin Ahead \/ o \notin job.on
      <4>1. phys[o] = "off"
        BY <1>2, <3>1, <3>3 DEF OffInv
      <4>2. ~(pc = "on_call" /\ o = rst.cur)
        <5> SUFFICES ASSUME pc = "on_call", o = rst.cur PROVE FALSE
          OBVIOUS
        <5>1. Restoring /\ Calling /\ Busy /\ rst.back \in {"check", "switch"}
          BY <3>1 DEF Restoring, Calling, Busy, Entering
        <5>2. TankOf[o] = rst.tank /\ (rst.back = "switch" => ~obl[o].active)
          BY <5>1 DEF EntryFacts, PlaceInv, ScopeInv
        <5>3. TankOf[o] = job.tank /\ obl[o].active
          BY <1>2, <3>1 DEF EntryFacts, PlaceInv, SelectInv
        <5> QED
          BY <5>1, <5>2, <5>3 DEF EntryFacts, EntryInv, OtherInv
      <4> QED
        BY <4>1, <4>2, Driven DEF EntryFacts
    <3> QED
      BY <3>2, <3>3
  <2> QED
    BY <2>1, <2>2
<1>3. ASSUME pc' = "off_call", NEW o \in Outlet, o \in job'.left PROVE Requires[o] # job'.cur
  <2>1. ASSUME NEW q \in Outlet, SwitchOff(q) PROVE Requires[o] # job'.cur
    BY <1>0, <1>3, <2>1 DEF SwitchOff, EntryTurn, Job
  <2> QED
    BY <1>3, <2>1, Arrives DEF OffInv, EntryFacts
<1>4. ASSUME pc' = "on_call", Requires[rst'.cur] # NoOutlet PROVE phys'[Requires[rst'.cur]] = "on"
  <2>1. ASSUME NEW q \in Outlet, RestoreOutlet(q) PROVE phys'[Requires[rst'.cur]] = "on"
    BY <1>0, <1>4, <2>1 DEF RestoreOutlet, Restoration, Readings, OwedInv, world
  <2>2. CASE pc = "on_call" /\ rst' = rst
    <3>1. phys' = phys
      BY <1>4, <2>2, PhysKept DEF EntryFacts, OffConfirmed, OffUncertain, RestoreConfirmed,
         RestoreUncertain
    <3> QED
      BY <1>4, <2>2, <3>1 DEF OffInv
  <2> QED
    BY <1>4, <2>1, <2>2, Arrives DEF EntryFacts
<1> QED
  BY <1>1, <1>2, <1>3, <1>4 DEF OffInv

\* A pump is stopped after what depends on it, and started before
LEMMA AloneStep ==
    ASSUME "external" \notin Faults, Closed, EntryFacts, OffInv, [Next]_vars, NEW o \in Outlet,
           Requires[o] # NoOutlet, phys'[o] = "on", phys'[Requires[o]] = "off"
    PROVE  phys[o] = "on" /\ phys[Requires[o]] = "off"
<1> DEFINE pump == Requires[o]
<1>0. pump \in Outlet /\ o # pump
  <2>1. pump \in Outlet
    BY ConstantsAssumption
  <2>2. {o} \in (SUBSET Outlet) \ {{}}
    OBVIOUS
  <2> QED
    BY <2>1, <2>2, ConstantsAssumption
<1>1. phys[o] \in {"on", "off"} /\ phys[pump] \in {"on", "off"}
  BY <1>0 DEF EntryFacts, StoreInv, TypeOK
<1>2. CASE phys[o] = "off"
  <2>1. pc = "on_call" /\ o = rst.cur
    BY <1>2, Driven DEF EntryFacts
  <2>2. phys[pump] = "on"
    BY <2>1 DEF OffInv
  <2> QED
    BY <1>0, <2>1, <2>2, Driven DEF EntryFacts
<1>3. CASE phys[o] = "on" /\ phys[pump] = "on"
  <2>1. pc = "off_call" /\ pump = job.cur
    BY <1>0, <1>3, Driven DEF EntryFacts
  <2>2. Entering /\ pump \in Ahead
    BY <2>1 DEF Entering, Ahead
  <2>3. pump \in job.sel /\ job.sel \in Profiles
    BY <1>0, <2>2 DEF EntryFacts, PlaceInv, SelectInv
  <2>4. o \in job.sel
    BY <2>3 DEF Closed
  <2>5. o \notin job.left
    BY <2>1 DEF OffInv
  <2>6. o \notin Ahead
    BY <1>0, <2>1, <2>5 DEF Ahead
  <2> QED
    BY <1>3, <2>2, <2>4, <2>6 DEF OffInv
<1> QED
  BY <1>1, <1>2, <1>3

\* As long as Home Assistant shows the outlets as they are and nobody else
\* operates them, and every profile that stops a pump stops what depends on it,
\* the bridge never leaves a heater running on a pump that is off: not in an
\* entry, a switch of modes, a restoration, nor where one of them is cut short.
THEOREM PumpsComeFirst ==
    "stale" \notin Faults /\ "external" \notin Faults /\ Closed => (Spec => DependentNeverAlone)
<1> SUFFICES ASSUME "stale" \notin Faults, "external" \notin Faults, Closed
             PROVE  Spec => DependentNeverAlone
  OBVIOUS
<1>1. Spec => []OwedInv
  BY OwedInvariant
<1>2. Init => OffInv
  BY DEF Init, OffInv, Entering, Busy, Restoring
<1>3. EntryFacts /\ OwedInv /\ OffInv /\ [Next]_vars => OffInv'
  BY OffStep
<1> DEFINE Step == \A o \in Outlet :
          LET Alone(p) == Requires[o] # NoOutlet /\ p[o] = "on" /\ p[Requires[o]] = "off"
          IN  Alone(phys') => Alone(phys)
<1>4. EntryFacts /\ OffInv /\ [Next]_vars => [Step]_vars
  BY AloneStep
<1> QED
  BY PlaceInvariant, <1>1, <1>2, <1>3, <1>4, PTL DEF Spec, DependentNeverAlone
-------------------------------------------------------------------------------
(* An entry serves the other tanks.                                            *)

\* What has a deadline is written down, and its session is open
HeldInv ==
    \A o \in Outlet : /\ obl[o].due => obl[o].base # "none"
                      /\ obl[o].base # "none" => Open(TankOf[o])

\* An outlet that was overdue at the last write waits until the loop over the
\* other tanks reaches its own, and until the restoration it gets there is done
TurnInv ==
    /\ LateTypeOK
    /\ pc \in {"idle", "preflight", "begin", "trim", "enter"} => late = {}
    /\ Busy /\ rst.back = "switch" => late = {}
    /\ Entering => \A o \in late : /\ obl[o].due
                                  /\ obl[o].base # "none"
                                  /\ TankOf[o] # job.tank
    /\ pc = "check" => \A o \in late : TankOf[o] \in visit
    /\ Busy /\ rst.back = "check" =>
          \A o \in late : IF TankOf[o] = rst.tank THEN Restoring ELSE TankOf[o] \in visit

\* Only its removal closes a session
LEMMA OpenKept ==
    ASSUME StoreInv, [Next]_vars, ~RemoveSession, NEW u \in Tank, Open(u)
    PROVE  Open(u)'
<1>0. TypeOK
  BY DEF StoreInv
<1> USE <1>0
<1>1. CASE session' = session
  BY <1>1 DEF Open
<1>2. ASSUME NEW t, NEW m, NEW p, SetSession(t, m, p), p # "none" PROVE Open(u)'
  BY <1>2 DEF SetSession, Open, TypeOK
<1>3. ASSUME NEW t \in Tank, AcceptNormal(t) \/ FinishManual(t) \/ FinishManualFails(t)
                                    \/ GuardTank(t) \/ TickUnfinished(t) \/ TickActiveFails(t)
      PROVE Open(u)'
  BY <1>2, <1>3 DEF AcceptNormal, FinishManual, FinishManualFails, GuardTank, TickUnfinished,
     TickActiveFails, SetPhase
<1>4. CASE EndSession \/ KeepSession
  BY <1>4 DEF EndSession, KeepSession, SetPhase, SetSession, Open, TypeOK
<1>5. CASE BeginSession \/ Unwind \/ RejectAndUnwind \/ Activate
  BY <1>2, <1>5 DEF BeginSession, Unwind, RejectAndUnwind, Activate
<1>6. CASE Hold
  BY <1>2, <1>6 DEF Hold, SetPhase
<1>10. CASE RestoreStep
  BY <1>1, <1>4, <1>10 DEF RestoreStep, Resolve, ResolveFails, SkipOutlet, FoundRestored,
     HoldOutlet, FoundSwitched, RestoreUnknown, PumpNotRestored, RestoreOutlet, Visited,
     RestoreConfirmed, RestoreUncertain, RecordRestored, RecordRestoreFailed, SwitchRestored, durable
<1>11. CASE TemporaryStep
  BY <1>1, <1>5, <1>11 DEF TemporaryStep, PreflightUnsafe, PreflightRefused, Preflight, SameMode,
     Trim, EntryVisit, EntryExpired, EntryGoesOn, Preserve, SwitchOff, OffConfirmed, OffUncertain,
     RecordOff, RejectOnly, durable
<1>12. CASE TickStart \/ TickUnsafe \/ TickStep
  BY <1>1, <1>3, <1>6, <1>12 DEF TickStart, TickUnsafe, TickStep, TickPending, TickActive,
     WatchQuiet, WatchExternal, GuardDone, WatchDone, TickDone, durable
<1>13. CASE Command
  BY <1>1, <1>3, <1>13 DEF Command, AcceptTemporary, AcceptRefused, durable
<1>14. CASE Environment
  BY <1>1, <1>14 DEF Environment, Crash, CrashMarking, UserSwitch, ViewCatchesUp,
     DeadlinePasses, RetryExpires, durable
<1>15. CASE UNCHANGED vars
  BY <1>1, <1>15 DEF vars, durable
<1> QED
  BY <1>10, <1>11, <1>12, <1>13, <1>14, <1>15 DEF Next, Handler

LEMMA HeldStep == ASSUME EntryFacts, HeldInv, [Next]_vars PROVE HeldInv'
<1>0. TypeOK /\ StoreInv
  BY DEF EntryFacts, StoreInv
<1> SUFFICES ASSUME NEW o \in Outlet
             PROVE  /\ obl'[o].due => obl'[o].base # "none"
                    /\ obl'[o].base # "none" => Open(TankOf[o])'
  BY DEF HeldInv
<1>1. TankOf[o] \in Tank
  BY ConstantsAssumption
<1>2. CASE BeginSession
  <2>1. job.tank \in Tank /\ session'[job.tank].phase # "none"
    BY <1>0, <1>2, BeginEffect DEF BeginSession, SetSession, TypeOK
  <2>2. \A u \in Tank : Open(u) => Open(u)'
    BY <1>0, <1>2, OpenKept DEF BeginSession, RemoveSession
  <2>3. /\ o \in job.sel => obl'[o] = Planned(o) /\ TankOf[o] = job.tank
        /\ o \in Obligated(job.tank) /\ o \notin job.sel => obl'[o] = Carried(o)
        /\ o \notin Obligated(job.tank) /\ o \notin job.sel => obl'[o] = obl[o]
    BY <1>2, BeginEffect DEF BeginSession
  <2>4. ~Planned(o).due /\ Carried(o).base = obl[o].base
    BY DEF Planned, Carried, NoObligation
  <2>5. CASE o \in job.sel
    <3>1. ~obl'[o].due /\ Open(TankOf[o])'
      BY <2>1, <2>3, <2>4, <2>5 DEF Open
    <3> QED
      BY <3>1
  <2>6. CASE o \notin job.sel
    <3>1. obl'[o].base = obl[o].base
      BY <2>3, <2>4, <2>6
    <3>2. obl'[o].due => obl[o].base # "none"
      BY <2>3, <2>6 DEF HeldInv, Obligated
    <3> QED
      BY <1>1, <2>2, <3>1, <3>2 DEF HeldInv
  <2> QED
    BY <2>5, <2>6
<1>3. CASE Trim \/ RemoveSession
  <2>1. CASE obl'[o] = NoObligation
    BY <2>1 DEF NoObligation
  <2>2. CASE obl'[o] # NoObligation
    <3>1. obl'[o] = obl[o]
      BY <1>3, <2>2, RemovalEffect
    <3>2. RemoveSession => TankOf[o] # rst.tank
      BY <2>2 DEF RemoveSession
    <3>3. session'[TankOf[o]] = session[TankOf[o]]
      BY <1>0, <1>1, <1>3, <3>2 DEF Trim, RemoveSession, TypeOK
    <3> QED
      BY <3>1, <3>3 DEF HeldInv, Open
  <2> QED
    BY <2>1, <2>2
<1>4. CASE ~BeginSession /\ ~Trim /\ ~RemoveSession
  <2>1. obl'[o].base = obl[o].base
    BY <1>0, <1>4, PlansKept
  <2>2. obl'[o].due => obl[o].due \/ DeadlinePasses(o)
    BY <1>0, <1>4, FieldsKept DEF Replanned
  <2>3. Open(TankOf[o]) => Open(TankOf[o])'
    BY <1>0, <1>1, <1>4, OpenKept
  <2> QED
    BY <2>1, <2>2, <2>3 DEF HeldInv, DeadlinePasses
<1> QED
  BY <1>2, <1>3, <1>4

\* Where the loop of an entry over the other tanks comes from and how it goes on
LEMMA TurnFlow ==
    ASSUME StoreInv, [Next]_vars
    PROVE  /\ pc' \in {"preflight", "begin", "trim"} =>
                 pc \in {"idle", "preflight", "begin", "trim"} \/ (Busy /\ rst.back = "switch")
           /\ pc' = "enter" => pc = "enter" \/ EntryGoesOn
           /\ Busy' /\ rst'.back = "switch" => BeginSession \/ (Busy /\ rst.back = "switch")
           /\ pc' = "check" =>
                 \/ BeginSession \/ Trim \/ RecordOff
                 \/ \E o \in Outlet : Preserve(o)
                 \/ \E t \in Tank : EntryVisit(t)
                 \/ pc = "check" /\ visit' = visit
                 \/ Busy /\ rst.back = "check" /\ visit' = visit /\ (pc = "remove" \/ RestoreDone)
           /\ Busy' /\ rst'.back = "check" =>
                 \/ \E t \in Tank : EntryVisit(t)
                 \/ /\ Busy /\ rst.back = "check" /\ rst'.tank = rst.tank /\ visit' = visit
                    /\ pc' = "remove" => pc = "remove" \/ RestoreDone
<1> DEFINE Goes ==
           /\ pc' \in {"preflight", "begin", "trim"} =>
                 pc \in {"idle", "preflight", "begin", "trim"} \/ (Busy /\ rst.back = "switch")
           /\ pc' = "enter" => pc = "enter" \/ EntryGoesOn
           /\ Busy' /\ rst'.back = "switch" => BeginSession \/ (Busy /\ rst.back = "switch")
           /\ pc' = "check" =>
                 \/ BeginSession \/ Trim \/ RecordOff
                 \/ \E o \in Outlet : Preserve(o)
                 \/ \E t \in Tank : EntryVisit(t)
                 \/ pc = "check" /\ visit' = visit
                 \/ Busy /\ rst.back = "check" /\ visit' = visit /\ (pc = "remove" \/ RestoreDone)
           /\ Busy' /\ rst'.back = "check" =>
                 \/ \E t \in Tank : EntryVisit(t)
                 \/ /\ Busy /\ rst.back = "check" /\ rst'.tank = rst.tank /\ visit' = visit
                    /\ pc' = "remove" => pc = "remove" \/ RestoreDone
<1> SUFFICES Goes
  OBVIOUS
<1> HIDE DEF Goes
<1>0. TypeOK /\ rst \in Restoration /\ job \in Job
  BY DEF StoreInv, TypeOK
<1> USE <1>0
<1>1. ASSUME Busy, pc' \in {"resolve", "restore", "on_call", "on_ok", "on_failed", "remove"},
             rst'.back = rst.back, rst'.tank = rst.tank, visit' = visit,
             pc' = "remove" => RestoreDone
      PROVE  Goes
  BY <1>1 DEF Goes, Busy, Restoring
<1>2. ASSUME Busy, Return, visit' = visit, pc = "remove" \/ RestoreDone, rst.back # "switch"
      PROVE  Goes
  <2>1. pc' \in {"idle", "tick", "guard"} \/ (pc' = "check" /\ rst.back = "check")
    BY <1>2 DEF Return, Restoration, Backs
  <2> QED
    BY <1>2, <2>1 DEF Goes, Busy, Restoring
<1>3. ASSUME NEW o, NEW c, pc = "restore", Visited(o, c) PROVE Goes
  BY <1>1, <1>3, VisitedEffect DEF Busy, Restoring
<1>4. CASE pc' = "resolve" /\ rst'.back \notin {"check", "switch"}
  BY <1>4 DEF Goes
<1>5. CASE pc' \in {"idle", "fail", "reject", "guard", "tick", "watch", "hold", "off_call", "off_ok"}
  BY <1>5 DEF Goes, Busy, Restoring
<1>6. ASSUME pc' = pc, rst' = rst, visit' = visit PROVE Goes
  BY <1>6 DEF Goes, Busy, Restoring
<1>10. CASE RestoreStep
  <2>1. CASE Resolve \/ RestoreConfirmed \/ \E applied \in BOOLEAN : RestoreUncertain(applied)
    BY <1>1, <2>1 DEF Resolve, RestoreConfirmed, RestoreUncertain, Busy, Restoring
  <2>2. CASE ResolveFails \/ RecordRestored \/ RecordRestoreFailed
    BY <1>1, <2>2 DEF ResolveFails, RecordRestored, RecordRestoreFailed, Busy, Restoring, Restoration
  <2>3. ASSUME NEW o \in Outlet, RestoreOutlet(o) PROVE Goes
    BY <1>1, <2>3, RestoreOutletEffect DEF RestoreOutlet, Restorable, Differs, Turn, Busy, Restoring
  <2>4. CASE SwitchRestored
    BY <2>4 DEF Goes, SwitchRestored, RestoreDone, Busy, Restoring
  <2>5. CASE EndSession
    BY <1>1, <2>5 DEF EndSession, RestoreDone, Busy, Restoring
  <2>6. CASE RemoveSession
    BY <1>2, <2>6 DEF RemoveSession, StoreInv, RemoveInv, Busy
  <2>7. CASE KeepSession
    BY <1>2, <2>7 DEF KeepSession, RestoreDone, Busy, Restoring
  <2> QED
    BY <1>3, <1>10, <2>1, <2>2, <2>3, <2>4, <2>5, <2>6, <2>7 DEF RestoreStep, SkipOutlet,
       FoundRestored, HoldOutlet, FoundSwitched, RestoreUnknown, PumpNotRestored, Restorable,
       Differs, Turn
<1>11. CASE TemporaryStep
  <2>1. CASE PreflightUnsafe \/ PreflightRefused \/ SameMode \/ EntryExpired \/ Activate
             \/ RejectOnly \/ OffConfirmed \/ \E applied \in BOOLEAN : OffUncertain(applied)
    BY <1>5, <2>1 DEF PreflightUnsafe, ClockUnsafe, PreflightRefused, SameMode,
       EntryExpired, Activate, RejectOnly, OffConfirmed, OffUncertain
  <2>2. CASE Unwind \/ RejectAndUnwind
    BY <1>4, <2>2 DEF Unwind, RejectAndUnwind, StartRestore
  <2>3. CASE Preflight \/ EntryGoesOn
    BY <2>3 DEF Goes, Preflight, EntryGoesOn, Busy, Restoring
  <2>4. CASE BeginSession \/ Trim \/ RecordOff
    BY <2>4 DEF Goes, BeginSession, Trim, RecordOff, StartRestore, Busy, Restoring
  <2>5. ASSUME NEW t \in Tank, EntryVisit(t) PROVE Goes
    BY <2>5 DEF Goes, EntryVisit, StartRestore, Busy, Restoring
  <2>6. ASSUME NEW o \in Outlet, Preserve(o) PROVE Goes
    BY <2>6 DEF Goes, Preserve, Busy, Restoring
  <2>7. ASSUME NEW o \in Outlet, SwitchOff(o) PROVE Goes
    BY <1>5, <2>7 DEF SwitchOff
  <2> QED
    BY <1>11, <2>1, <2>2, <2>3, <2>4, <2>5, <2>6, <2>7 DEF TemporaryStep
<1>12. CASE TickStart \/ TickUnsafe \/ TickStep
  <2>1. ASSUME NEW t \in Tank, GuardTank(t) \/ TickUnfinished(t) \/ TickPending(t) PROVE Goes
    BY <1>4, <2>1 DEF GuardTank, TickUnfinished, TickPending, StartRestore
  <2>2. CASE WatchDone
    BY <1>4, <2>2 DEF WatchDone, StartRestore
  <2> QED
    BY <1>5, <1>12, <2>1, <2>2 DEF TickStart, TickUnsafe, ClockUnsafe, TickStep, TickActive,
       TickActiveFails, WatchQuiet, WatchExternal, GuardDone, Hold, TickDone
<1>13. CASE Command
  <2>1. ASSUME NEW t \in Tank, FinishManual(t) PROVE Goes
    BY <2>1 DEF Goes, FinishManual, NoRestoration, Busy, Restoring
  <2>2. ASSUME NEW t \in Tank, AcceptNormal(t) PROVE Goes
    BY <1>4, <2>2 DEF AcceptNormal, StartRestore
  <2>3. ASSUME NEW t \in Tank, AcceptRefused(t) \/ FinishManualFails(t) PROVE Goes
    BY <1>5, <2>3 DEF AcceptRefused, FinishManualFails, volatile
  <2>4. ASSUME NEW t \in Tank, NEW m \in Mode, NEW sel \in Profiles, AcceptTemporary(t, m, sel)
        PROVE  Goes
    BY <2>4 DEF Goes, AcceptTemporary, Busy, Restoring
  <2> QED
    BY <1>13, <2>1, <2>2, <2>3, <2>4 DEF Command
<1>14. CASE Environment
  BY <1>5, <1>6, <1>14 DEF Environment, Crash, CrashMarking, UserSwitch, ViewCatchesUp, DeadlinePasses,
     RetryExpires, volatile
<1>15. CASE UNCHANGED vars
  BY <1>6, <1>15 DEF vars, volatile
<1> QED
  BY <1>10, <1>11, <1>12, <1>13, <1>14, <1>15 DEF Next, Handler

LEMMA TurnStep ==
    ASSUME EntryFacts, HeldInv, TurnInv, [Next /\ Observe]_<<vars, late>>
    PROVE  TurnInv'
<1>0. TypeOK /\ StoreInv /\ EntryInv /\ [Next]_vars
  BY DEF EntryFacts, StoreInv
<1>1. CASE UNCHANGED <<vars, late>>
  BY <1>1 DEF vars, durable, volatile, TurnInv, LateTypeOK, Entering, Busy, Restoring
<1>2. CASE Observe /\ WritesOff
  <2>1. ~Replanned /\ Entering' /\ ~Busy'
    BY <1>2 DEF WritesOff, Replanned, BeginSession, Trim, RemoveSession, Entering, Busy, Restoring
  <2>2. job'.tank = job.tank
    BY <1>0, <2>1, EntryFlow DEF Replanned
  <2>3. \A o \in Outlet : Overdue(o) => obl'[o].due /\ obl'[o].base # "none" /\ TankOf[o] # job'.tank
    BY <1>0, <2>1, <2>2, FieldsKept, PlansKept DEF Overdue, HeldInv, Replanned
  <2> QED
    BY <1>2, <2>1, <2>3 DEF Observe, WritesOff, TurnInv, LateTypeOK
<1>3. CASE Observe /\ ~WritesOff
  <2>1. /\ \A o \in late' : o \in late /\ o \in Outlet
        /\ pc' = "idle" => late' = {}
        /\ RestoreDone => \A o \in late' : TankOf[o] # rst.tank
    BY <1>3 DEF Observe, TurnInv, LateTypeOK, Outlets
  <2>2. pc' \in {"preflight", "begin", "trim", "enter"} => late' = {}
    <3>1. EntryGoesOn => late = {}
      BY DEF EntryGoesOn, TurnInv
    <3> QED
      BY <1>0, <2>1, <3>1, TurnFlow DEF TurnInv
  <2>3. Busy' /\ rst'.back = "switch" => late' = {}
    BY <1>0, <2>1, TurnFlow DEF TurnInv, BeginSession
  <2>4. ASSUME Entering', NEW o \in late'
        PROVE  obl'[o].due /\ obl'[o].base # "none" /\ TankOf[o] # job'.tank
    <3>1. ~BeginSession /\ ~Trim
      BY <2>1, <2>4 DEF BeginSession, Trim, TurnInv
    <3>2. Entering /\ job'.tank = job.tank
      BY <1>0, <2>4, <3>1, EntryFlow
    <3>3. obl[o].due /\ obl[o].base # "none" /\ TankOf[o] # job.tank
      BY <2>1, <2>4, <3>2 DEF TurnInv
    <3>4. CASE RemoveSession
      <4>1. rst.back = "check"
        BY <1>0, <2>4, <3>4 DEF RemoveSession, Return, StoreInv, RemoveInv, TypeOK, Restoration,
           Backs, Entering, Busy, Restoring, NoRestoration
      <4>2. TankOf[o] # rst.tank
        BY <2>1, <2>4, <3>4, <4>1 DEF RemoveSession, TurnInv, Busy, Restoring
      <4>3. obl'[o] = obl[o]
        BY <2>1, <3>4, <4>2 DEF RemoveSession
      <4> QED
        BY <3>2, <3>3, <4>3
    <3>5. CASE ~RemoveSession
      BY <1>0, <2>1, <3>1, <3>2, <3>3, <3>5, FieldsKept, PlansKept DEF Replanned
    <3> QED
      BY <3>4, <3>5
  <2>5. ASSUME pc' = "check", NEW o \in late' PROVE TankOf[o] \in visit'
    <3>1. o \in late /\ o \in Outlet /\ TankOf[o] \in Tank
      BY <2>1, <2>5, ConstantsAssumption
    <3>2. ~BeginSession /\ ~Trim /\ ~\E q \in Outlet : Preserve(q)
      BY <3>1 DEF BeginSession, Trim, Preserve, EntryTurn, TurnInv
    <3>3. CASE RecordOff
      <4>1. TankOf[o] # job.tank /\ obl[o].base # "none"
        BY <3>1, <3>3 DEF RecordOff, TurnInv, Entering
      <4>2. TankOf[o] \in Sessions
        BY <3>1, <4>1 DEF HeldInv, Sessions
      <4> QED
        BY <3>3, <4>1, <4>2 DEF RecordOff
    <3>4. ASSUME NEW t \in Tank, EntryVisit(t) PROVE TankOf[o] \in visit'
      <4>1. TankOf[o] \in visit /\ obl[o].due /\ obl[o].base # "none"
        BY <3>1, <3>4 DEF EntryVisit, TurnInv, Entering
      <4>2. TankOf[o] # t
        BY <2>5, <3>1, <3>4, <4>1 DEF EntryVisit, StartRestore, Obligated, Outlets
      <4> QED
        BY <3>4, <4>1, <4>2 DEF EntryVisit
    <3>5. CASE pc = "check" /\ visit' = visit
      BY <3>1, <3>5 DEF TurnInv
    <3>6. CASE Busy /\ rst.back = "check" /\ visit' = visit /\ (pc = "remove" \/ RestoreDone)
      BY <2>1, <2>5, <3>1, <3>6 DEF TurnInv, Restoring
    <3> QED
      BY <1>0, <2>5, <3>2, <3>3, <3>4, <3>5, <3>6, TurnFlow
  <2>6. ASSUME Busy', rst'.back = "check", NEW o \in late'
        PROVE  IF TankOf[o] = rst'.tank THEN Restoring' ELSE TankOf[o] \in visit'
    <3>1. o \in late /\ o \in Outlet /\ TankOf[o] \in Tank
      BY <2>1, <2>6, ConstantsAssumption
    <3>2. ASSUME NEW t \in Tank, EntryVisit(t)
          PROVE  IF TankOf[o] = rst'.tank THEN Restoring' ELSE TankOf[o] \in visit'
      <4>1. TankOf[o] \in visit /\ pc' = "resolve" /\ rst'.tank = t
        BY <2>6, <3>1, <3>2 DEF EntryVisit, StartRestore, TurnInv, Busy, Restoring
      <4> QED
        BY <3>2, <4>1 DEF EntryVisit, Restoring
    <3>3. CASE /\ Busy /\ rst.back = "check" /\ rst'.tank = rst.tank /\ visit' = visit
               /\ pc' = "remove" => pc = "remove" \/ RestoreDone
      <4>1. TankOf[o] = rst.tank => Restoring /\ ~RestoreDone
        BY <2>1, <2>6, <3>1, <3>3 DEF TurnInv
      <4>2. TankOf[o] = rst.tank => pc' # "remove"
        BY <3>3, <4>1 DEF Restoring
      <4> QED
        BY <2>6, <3>1, <3>3, <4>2 DEF TurnInv, Busy
    <3> QED
      BY <1>0, <2>6, <3>2, <3>3, TurnFlow
  <2> QED
    BY <2>1, <2>2, <2>3, <2>4, <2>5, <2>6 DEF TurnInv, LateTypeOK
<1> QED
  BY <1>1, <1>2, <1>3

\* However long an entry waits for its outlets, and whatever fails, crashes or
\* is late meanwhile, every outlet of another tank that was overdue at one write
\* has had its turn, its backoff permitting, before the next.
THEOREM OthersAreServed == ServiceSpec => EntryServesOthers
<1>1. ServiceSpec => Spec
  <2>1. [Next /\ Observe]_<<vars, late>> => [Next]_vars
    OBVIOUS
  <2> QED
    BY <2>1, PTL DEF ServiceSpec, Spec
<1>2. Init => HeldInv
  BY DEF Init, HeldInv, NoObligation
<1>3. EntryFacts /\ HeldInv /\ [Next]_vars => HeldInv'
  BY HeldStep
<1>4. Spec => []HeldInv
  BY PlaceInvariant, <1>2, <1>3, PTL DEF Spec
<1>5. Init /\ late = {} => TurnInv
  BY DEF Init, TurnInv, LateTypeOK
<1>6. EntryFacts /\ HeldInv /\ TurnInv /\ [Next /\ Observe]_<<vars, late>> => TurnInv'
  BY TurnStep
<1>7. TurnInv => [WritesOff => ~\E o \in late : Overdue(o)]_<<vars, late>>
  BY DEF TurnInv, WritesOff
<1> QED
  BY PlaceInvariant, <1>1, <1>4, <1>5, <1>6, <1>7, PTL DEF ServiceSpec, EntryServesOthers
===============================================================================
