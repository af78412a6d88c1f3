-------------------------- MODULE TankPromiseProofs --------------------------
(* TankModes implements OutletPromise, for every set of tanks, outlets, modes  *)
(* and faults but a stale view:                                                *)
(*                                                                             *)
(*   PromiseImplemented     without a stale view, Spec => PromiseKept          *)
(*                                                                             *)
(* StoreInv and OwedInv of TankModesProofs carry the restorations.  What is    *)
(* left is the entry: while a handler switches outlets off, each one it has    *)
(* still to switch is an obligation of its tank, although the lock lets the    *)
(* restorations of other tanks run, and end, between two calls (EntryInv).     *)
EXTENDS TankModesProofs

Busy == Restoring \/ pc = "remove"
Entering ==
    \/ pc \in {"trim", "check", "enter", "off_call", "off_ok"}
    \/ Busy /\ rst.back \in {"check", "switch"}

\* The outlets the entry has still to switch off
Ahead == job.left \cup (IF pc = "off_call" THEN {job.cur} ELSE {})

SelectionInv == pc \in {"preflight", "begin"} => \A o \in job.sel : TankOf[o] = job.tank

AheadInv ==
    Entering => \A o \in Outlet : o \in Ahead => /\ TankOf[o] = job.tank
                                                 /\ obl[o].base # "none"
                                                 /\ obl[o].active

\* A restoration that runs inside the entry is another tank's
OtherInv ==
    /\ pc = "check" => job.tank \notin visit
    /\ Busy /\ rst.back = "check" => job.tank \notin visit /\ rst.tank # job.tank

OnCallInv == pc = "on_call" => obl[rst.cur].result = "none"

EntryInv == SelectionInv /\ AheadInv /\ OtherInv /\ OnCallInv

-------------------------------------------------------------------------------
(* The plan of an outlet: what an entry relies on.                             *)

\* Only three steps write or delete a plan
LEMMA PlansKept ==
    ASSUME StoreInv, [Next]_vars, ~Trim, ~RemoveSession, ~BeginSession, NEW o \in Outlet
    PROVE  obl'[o].base = obl[o].base /\ obl'[o].active = obl[o].active
<1> DEFINE Same == obl'[o].base = obl[o].base /\ obl'[o].active = obl[o].active
<1>0. TypeOK
  BY DEF StoreInv
<1> USE <1>0
<1>1. CASE obl' = obl
  BY <1>1
<1>2. ASSUME NEW q \in Outlet, NEW r, NEW e, MarkResult(q, r, e) PROVE Same
  BY <1>2, MarkResultEffect
<1>3. ASSUME NEW S, NEW e, Retry(S, e) PROVE Same
  BY <1>3, RetryEffect
<1>4. ASSUME NEW q \in Outlet, DeadlinePasses(q) \/ RetryExpires(q) PROVE Same
  BY <1>4, TimeEffect
<1>5. ASSUME NEW q \in Outlet, RestoreOutlet(q) PROVE Same
  BY <1>5 DEF RestoreOutlet, TypeOK, Obligation
<1>6. ASSUME NEW q \in Outlet, SwitchOff(q) PROVE Same
  BY <1>6 DEF SwitchOff, TypeOK, Obligation
<1>7. CASE RecordRestored
  BY <1>7 DEF RecordRestored, MarkResult, TypeOK, Obligation
<1>8. CASE RecordOff
  BY <1>8 DEF RecordOff, MarkResult, TypeOK, Obligation
<1>10. CASE RestoreStep
  BY <1>1, <1>2, <1>3, <1>5, <1>7, <1>10 DEF RestoreStep, Resolve, ResolveFails, SkipOutlet,
     FoundRestored, HoldOutlet, FoundSwitched, RestoreUnknown, PumpNotRestored,
     RestoreConfirmed, RestoreUncertain, RecordRestoreFailed, SwitchRestored, EndSession,
     KeepSession, durable
<1>11. CASE TemporaryStep
  BY <1>1, <1>2, <1>6, <1>8, <1>11 DEF TemporaryStep, PreflightUnsafe, PreflightRefused,
     Preflight, SameMode, EntryVisit, EntryExpired, EntryGoesOn, Activate, Preserve,
     OffConfirmed, OffUncertain, Unwind, RejectAndUnwind, RejectOnly, durable
<1>12. CASE TickStart \/ TickUnsafe \/ TickStep
  BY <1>1, <1>2, <1>3, <1>12 DEF TickStart, TickUnsafe, TickStep, GuardTank, TickUnfinished,
     TickPending, TickActive, TickActiveFails, WatchQuiet, WatchExternal, GuardDone, Hold,
     WatchDone, TickDone, durable
<1>13. CASE Command
  BY <1>1, <1>13 DEF Command, AcceptTemporary, AcceptRefused, AcceptNormal, FinishManual,
     FinishManualFails, durable
<1>14. CASE Environment
  BY <1>1, <1>3, <1>4, <1>14 DEF Environment, Crash, CrashMarking, UserSwitch, ViewCatchesUp, durable
<1>15. CASE UNCHANGED vars
  BY <1>1, <1>15 DEF vars, durable
<1> QED
  BY <1>10, <1>11, <1>12, <1>13, <1>14, <1>15 DEF Next, Handler

-------------------------------------------------------------------------------
(* EntryInv is inductive.                                                      *)

LEMMA InitEntry == Init => EntryInv
BY DEF Init, EntryInv, SelectionInv, AheadInv, OtherInv, OnCallInv, Entering, Busy, Restoring

\* A step that leaves the plans alone and goes on with the same restoration
LEMMA SameRestoration ==
    ASSUME EntryInv, Busy, pc' \in {"resolve", "restore", "on_ok", "on_failed", "remove"},
           UNCHANGED <<job, visit, rst.tank, rst.back>>,
           \A o \in Outlet : obl'[o].base = obl[o].base /\ obl'[o].active = obl[o].active
    PROVE  EntryInv'
BY DEF EntryInv, SelectionInv, AheadInv, OtherInv, OnCallInv, Entering, Ahead, Busy, Restoring

\* A step after which no entry is under way
LEMMA NoEntry ==
    ASSUME EntryInv, pc' \notin {"trim", "check", "enter", "off_call", "off_ok", "on_call",
                                 "preflight", "begin"},
           ~Busy' \/ rst'.back \notin {"check", "switch"}
    PROVE  EntryInv'
BY DEF EntryInv, SelectionInv, AheadInv, OtherInv, OnCallInv, Entering

\* The handler goes on where _restore was called
LEMMA ReturnEntry ==
    ASSUME StoreInv, EntryInv, Busy, rst.back # "switch", Return, visit' = visit,
           \A o \in Outlet : TankOf[o] # rst.tank => obl'[o] = obl[o]
    PROVE  EntryInv'
<1>1. rst.back \in Backs
  BY DEF StoreInv, TypeOK, Restoration
<1>2. ~Busy'
  BY <1>1 DEF Return, Busy, Restoring, Backs
<1>3. CASE rst.back = "check"
  <2>1. /\ job' = job /\ pc' = "check"
        /\ job.tank \notin visit /\ rst.tank # job.tank
        /\ \A o \in Outlet : o \in job.left => /\ TankOf[o] = job.tank
                                               /\ obl[o].base # "none"
                                               /\ obl[o].active
    BY <1>3 DEF Return, EntryInv, OtherInv, AheadInv, Entering, Ahead
  <2> QED
    BY <1>2, <2>1 DEF EntryInv, SelectionInv, AheadInv, OtherInv, OnCallInv, Ahead
<1>4. CASE rst.back # "check"
  <2>1. pc' \in {"idle", "tick", "guard"}
    BY <1>1, <1>4 DEF Return, Backs
  <2> QED
    BY <1>2, <2>1, NoEntry
<1> QED
  BY <1>3, <1>4

LEMMA RestoreStepEntry == StoreInv /\ EntryInv /\ RestoreStep => EntryInv'
<1> SUFFICES ASSUME StoreInv, EntryInv, RestoreStep PROVE EntryInv'
  OBVIOUS
<1>0. TypeOK /\ rst \in Restoration
  BY DEF StoreInv, TypeOK
<1>1. RemoveSession \/ \A o \in Outlet : obl'[o].base = obl[o].base /\ obl'[o].active = obl[o].active
  <2>1. RemoveSession \/ (~RemoveSession /\ ~Trim /\ ~BeginSession)
    BY DEF RestoreStep, Trim, BeginSession, Resolve, ResolveFails, SkipOutlet, FoundRestored,
       HoldOutlet, FoundSwitched, RestoreUnknown, PumpNotRestored, RestoreOutlet, Restorable,
       Differs, Turn, RestoreConfirmed, RestoreUncertain, RecordRestored, RecordRestoreFailed,
       SwitchRestored, EndSession, KeepSession, RestoreDone
  <2> QED
    BY <2>1, PlansKept DEF Next, Handler
<1>2. ASSUME NEW o \in Outlet, NEW c, pc = "restore", Visited(o, c), ~RemoveSession PROVE EntryInv'
  <2>1. /\ rst'.tank = rst.tank /\ rst'.back = rst.back
        /\ UNCHANGED <<pc, job, visit>>
    BY <1>0, <1>2, VisitedEffect
  <2> QED
    BY <1>1, <1>2, <2>1, SameRestoration DEF Busy, Restoring
<1>3. ASSUME NEW o \in Outlet,
             \/ SkipOutlet(o) \/ FoundRestored(o) \/ HoldOutlet(o) \/ FoundSwitched(o)
             \/ RestoreUnknown(o) \/ PumpNotRestored(o)
      PROVE  EntryInv'
  <2>1. pc = "restore" /\ \E c : Visited(o, c)
    BY <1>3 DEF SkipOutlet, FoundRestored, HoldOutlet, FoundSwitched, RestoreUnknown,
       PumpNotRestored, Restorable, Differs, Turn
  <2> QED
    BY <1>2, <2>1 DEF RemoveSession
<1> USE DEF durable, world, history
<1>4. CASE Resolve
  BY <1>1, <1>4, SameRestoration DEF Resolve, RemoveSession, Busy, Restoring
<1>5. CASE ResolveFails
  <2>1. rst'.tank = rst.tank /\ rst'.back = rst.back
    BY <1>0, <1>5 DEF ResolveFails, Restoration
  <2> QED
    BY <1>1, <1>5, <2>1, SameRestoration DEF ResolveFails, RemoveSession, Busy, Restoring
<1>6. ASSUME NEW o \in Outlet, RestoreOutlet(o) PROVE EntryInv'
  <2>1. /\ rst'.tank = rst.tank /\ rst'.back = rst.back /\ rst'.cur = o
        /\ UNCHANGED <<job, visit>> /\ pc' = "on_call" /\ pc = "restore"
    BY <1>0, <1>6 DEF RestoreOutlet, Restorable, Differs, Turn, Restoration
  <2>2. obl'[o].result = "none"
    BY <1>0, <1>6 DEF RestoreOutlet, TypeOK, Obligation
  <2> QED
    BY <1>1, <2>1, <2>2 DEF RemoveSession, EntryInv, SelectionInv, AheadInv, OtherInv, OnCallInv,
       Entering, Ahead, Busy, Restoring
<1>7. CASE RestoreConfirmed
  BY <1>1, <1>7, SameRestoration DEF RestoreConfirmed, RemoveSession, Busy, Restoring
<1>8. ASSUME NEW applied \in BOOLEAN, RestoreUncertain(applied) PROVE EntryInv'
  BY <1>1, <1>8, SameRestoration DEF RestoreUncertain, RemoveSession, Busy, Restoring
<1>9. CASE RecordRestored \/ RecordRestoreFailed
  <2>1. rst'.tank = rst.tank /\ rst'.back = rst.back
    BY <1>0, <1>9 DEF RecordRestored, RecordRestoreFailed, Restoration
  <2> QED
    BY <1>1, <1>9, <2>1, SameRestoration
       DEF RecordRestored, RecordRestoreFailed, RemoveSession, Busy, Restoring
<1>10. CASE SwitchRestored
  <2>1. UNCHANGED <<job, obl>> /\ pc' \in {"trim", "fail"}
    BY <1>10 DEF SwitchRestored
  <2>2. Entering /\ ~(pc = "off_call") /\ ~Busy'
    BY <1>10, <2>1 DEF SwitchRestored, RestoreDone, Entering, Busy, Restoring
  <2> QED
    BY <2>1, <2>2 DEF EntryInv, SelectionInv, AheadInv, OtherInv, OnCallInv, Entering, Ahead
<1>11. CASE EndSession
  BY <1>1, <1>11, SameRestoration DEF EndSession, RestoreDone, RemoveSession, Busy, Restoring
<1>12. CASE RemoveSession
  BY <1>12, ReturnEntry DEF RemoveSession, StoreInv, RemoveInv, Busy
<1>13. CASE KeepSession
  BY <1>13, ReturnEntry DEF KeepSession, RestoreDone, Busy, Restoring
<1> QED
  BY <1>3, <1>4, <1>5, <1>6, <1>7, <1>8, <1>9, <1>10, <1>11, <1>12, <1>13 DEF RestoreStep

LEMMA CommandEntry == StoreInv /\ EntryInv /\ Command => EntryInv'
<1> SUFFICES ASSUME StoreInv, EntryInv, Command PROVE EntryInv'
  OBVIOUS
<1> USE DEF durable, volatile, world, history
<1>1. ASSUME NEW t \in Tank, NEW m \in Mode, NEW sel \in Profiles, AcceptTemporary(t, m, sel)
      PROVE  EntryInv'
  <2>1. job'.tank = t /\ job'.sel = sel /\ \A o \in sel : TankOf[o] = t
    BY <1>1 DEF AcceptTemporary, NoJob
  <2> QED
    BY <1>1, <2>1 DEF AcceptTemporary, EntryInv, SelectionInv, AheadInv, OtherInv, OnCallInv,
       Entering, Busy, Restoring
<1>2. ASSUME NEW t \in Tank, AcceptRefused(t) PROVE EntryInv'
  BY <1>2, NoEntry DEF AcceptRefused, Busy, Restoring
<1>3. ASSUME NEW t \in Tank, AcceptNormal(t) PROVE EntryInv'
  BY <1>3, NoEntry DEF AcceptNormal, StartRestore
<1>4. ASSUME NEW t \in Tank, FinishManual(t) PROVE EntryInv'
  BY <1>4, NoEntry DEF FinishManual, NoRestoration
<1>5. ASSUME NEW t \in Tank, FinishManualFails(t) PROVE EntryInv'
  BY <1>5, NoEntry DEF FinishManualFails, Busy, Restoring
<1> QED
  BY <1>1, <1>2, <1>3, <1>4, <1>5 DEF Command

LEMMA TemporaryStepEntry == StoreInv /\ EntryInv /\ TemporaryStep => EntryInv'
<1> SUFFICES ASSUME StoreInv, EntryInv, TemporaryStep PROVE EntryInv'
  OBVIOUS
<1>0. TypeOK /\ job \in Job
  BY DEF StoreInv, TypeOK
<1>1. ASSUME ~BeginSession, ~Trim, TemporaryStep
      PROVE  \A o \in Outlet : obl'[o].base = obl[o].base /\ obl'[o].active = obl[o].active
  <2>1. ~RemoveSession
    BY DEF TemporaryStep, RemoveSession, PreflightUnsafe, PreflightRefused,
       Preflight, SameMode, BeginSession, Trim, EntryVisit, EntryExpired, EntryGoesOn, Activate,
       Preserve, SwitchOff, EntryTurn, OffConfirmed, OffUncertain, RecordOff, Unwind,
       RejectAndUnwind, RejectOnly
  <2> QED
    BY <1>1, <2>1, PlansKept DEF Next, Handler
<1>2. \A o \in Outlet : pc \in {"trim", "check", "enter", "off_call", "off_ok"} /\ o \in Ahead
                           => TankOf[o] = job.tank /\ obl[o].base # "none" /\ obl[o].active
  BY DEF EntryInv, AheadInv, Entering
<1> USE DEF durable, volatile, world, history
<1>3. CASE PreflightUnsafe \/ PreflightRefused \/ SameMode \/ RejectOnly \/ EntryExpired \/ Activate
  BY <1>3, NoEntry DEF PreflightUnsafe, ClockUnsafe, PreflightRefused, SameMode, RejectOnly,
     EntryExpired, Activate, Busy, Restoring
<1>4. CASE Preflight
  <2>1. job'.sel = job.sel /\ job'.tank = job.tank
    BY <1>0, <1>4 DEF Preflight, Job
  <2> QED
    BY <1>4, <2>1 DEF Preflight, EntryInv, SelectionInv, AheadInv, OtherInv, OnCallInv, Entering,
       Busy, Restoring
<1>5. CASE BeginSession
  <2>1. job'.tank = job.tank /\ job'.left = job.sel
    BY <1>0, <1>5 DEF BeginSession, Job
  <2>2. \A o \in job.sel : TankOf[o] = job.tank
    BY <1>5 DEF BeginSession, EntryInv, SelectionInv
  <2>3. \A o \in Outlet : o \in job.sel => obl'[o].base # "none" /\ obl'[o].active
    <3>1. \A o \in Outlet : Planned(o).base # "none" /\ Planned(o).active
      BY DEF Planned, Baseline, NoObligation
    <3>2. \A o \in Outlet : o \in job.sel => obl'[o] = Planned(o)
      BY <1>5 DEF BeginSession
    <3> QED
      BY <3>1, <3>2
  <2>4. \/ pc' = "resolve" /\ rst'.back = "switch"
        \/ pc' = "check" /\ visit' = Sessions \ {job.tank}
    BY <1>5 DEF BeginSession, StartRestore
  <2> QED
    BY <2>1, <2>2, <2>3, <2>4 DEF EntryInv, SelectionInv, AheadInv, OtherInv, OnCallInv, Ahead,
       Busy, Restoring
<1>6. CASE Trim
  <2>1. \A o \in Outlet : obl[o].active => obl'[o] = obl[o]
    BY <1>6 DEF Trim
  <2>2. job' = job /\ pc' = "check" /\ visit' = Sessions \ {job.tank} /\ pc = "trim"
    BY <1>6 DEF Trim
  <2> QED
    BY <1>2, <2>1, <2>2 DEF EntryInv, SelectionInv, AheadInv, OtherInv, OnCallInv, Ahead, Busy,
       Restoring
<1>7. ASSUME NEW t \in Tank, EntryVisit(t) PROVE EntryInv'
  <2>1. /\ job' = job /\ obl' = obl /\ visit' = visit \ {t} /\ pc = "check"
        /\ t # job.tank /\ job.tank \notin visit
    BY <1>7 DEF EntryVisit, EntryInv, OtherInv
  <2>2. \/ pc' = "resolve" /\ rst'.back = "check" /\ rst'.tank = t
        \/ pc' = "check"
    BY <1>7 DEF EntryVisit, StartRestore
  <2> QED
    BY <1>2, <2>1, <2>2 DEF EntryInv, SelectionInv, AheadInv, OtherInv, OnCallInv, Ahead, Busy,
       Restoring
<1>8. CASE EntryGoesOn
  BY <1>2, <1>8 DEF EntryGoesOn, EntryInv, SelectionInv, AheadInv, OtherInv, OnCallInv, Ahead,
     Busy, Restoring
<1>9. ASSUME NEW o \in Outlet, Preserve(o) PROVE EntryInv'
  <2>1. job'.tank = job.tank /\ job'.left \subseteq job.left
    BY <1>0, <1>9 DEF Preserve, Job
  <2>2. pc = "enter" /\ pc' = "check" /\ visit' = Sessions \ {job.tank}
    BY <1>9 DEF Preserve, EntryTurn
  <2>3. ~BeginSession /\ ~Trim
    BY <2>2 DEF BeginSession, Trim
  <2> QED
    BY <1>1, <1>2, <2>1, <2>2, <2>3 DEF EntryInv, SelectionInv, AheadInv, OtherInv, OnCallInv,
       Ahead, Busy, Restoring
<1>10. ASSUME NEW o \in Outlet, SwitchOff(o) PROVE EntryInv'
  <2>1. job'.tank = job.tank /\ job'.left \subseteq job.left /\ job'.cur = o /\ o \in job.left
    BY <1>0, <1>10 DEF SwitchOff, EntryTurn, Job
  <2>2. pc = "enter" /\ pc' = "off_call"
    BY <1>10 DEF SwitchOff, EntryTurn
  <2>3. ~BeginSession /\ ~Trim
    BY <2>2 DEF BeginSession, Trim
  <2> QED
    BY <1>1, <1>2, <2>1, <2>2, <2>3 DEF EntryInv, SelectionInv, AheadInv, OtherInv, OnCallInv,
       Ahead, Busy, Restoring
<1>11. CASE OffConfirmed
  BY <1>2, <1>11 DEF OffConfirmed, EntryInv, SelectionInv, AheadInv, OtherInv, OnCallInv,
     Ahead, Busy, Restoring
<1>12. ASSUME NEW applied \in BOOLEAN, OffUncertain(applied) PROVE EntryInv'
  BY <1>12, NoEntry DEF OffUncertain, Busy, Restoring
<1>13. CASE RecordOff
  <2>1. job'.tank = job.tank /\ job'.left = job.left
    BY <1>0, <1>13 DEF RecordOff, Job
  <2>2. pc = "off_ok" /\ pc' = "check" /\ visit' = Sessions \ {job.tank}
    BY <1>13 DEF RecordOff
  <2>3. ~BeginSession /\ ~Trim
    BY <2>2 DEF BeginSession, Trim
  <2> QED
    BY <1>1, <1>2, <2>1, <2>2, <2>3 DEF EntryInv, SelectionInv, AheadInv, OtherInv, OnCallInv,
       Ahead, Busy, Restoring
<1>14. CASE Unwind \/ RejectAndUnwind
  BY <1>14, NoEntry DEF Unwind, RejectAndUnwind, StartRestore
<1> QED
  BY <1>3, <1>4, <1>5, <1>6, <1>7, <1>8, <1>9, <1>10, <1>11, <1>12, <1>13, <1>14
     DEF TemporaryStep

LEMMA TickStepEntry ==
    StoreInv /\ EntryInv /\ (TickStart \/ TickUnsafe \/ TickStep) => EntryInv'
<1> SUFFICES ASSUME StoreInv, EntryInv, TickStart \/ TickUnsafe \/ TickStep PROVE EntryInv'
  OBVIOUS
<1> USE NoEntry DEF Busy, Restoring, durable, volatile, world, history
<1>1. CASE TickStart \/ TickUnsafe \/ GuardDone \/ Hold \/ TickDone
  BY <1>1 DEF TickStart, TickUnsafe, ClockUnsafe, GuardDone, Hold, TickDone
<1>2. ASSUME NEW t \in Tank,
             GuardTank(t) \/ TickUnfinished(t) \/ TickPending(t) \/ TickActive(t)
             \/ TickActiveFails(t)
      PROVE  EntryInv'
  BY <1>2 DEF GuardTank, TickUnfinished, TickPending, TickActive, TickActiveFails, StartRestore
<1>3. ASSUME NEW o \in Outlet, WatchQuiet(o) \/ WatchExternal(o) PROVE EntryInv'
  BY <1>3 DEF WatchQuiet, WatchExternal
<1>4. CASE WatchDone
  BY <1>4 DEF WatchDone, StartRestore
<1> QED
  BY <1>1, <1>2, <1>3, <1>4 DEF TickStep

LEMMA EnvironmentEntry == StoreInv /\ EntryInv /\ Environment => EntryInv'
<1> SUFFICES ASSUME StoreInv, EntryInv, Environment PROVE EntryInv'
  OBVIOUS
<1>0. TypeOK
  BY DEF StoreInv
<1>1. CASE Crash \/ CrashMarking
  BY <1>1, NoEntry DEF Crash, CrashMarking, Busy, Restoring
<1>2. ASSUME NEW o \in Outlet, UserSwitch(o) \/ ViewCatchesUp(o) PROVE EntryInv'
  <2>1. UNCHANGED <<obl, pc, job, visit, rst>>
    BY <1>2 DEF UserSwitch, ViewCatchesUp, durable, volatile
  <2> QED
    BY <2>1 DEF EntryInv, SelectionInv, AheadInv, OtherInv, OnCallInv, Entering, Ahead, Busy,
       Restoring
<1>3. ASSUME NEW o \in Outlet, DeadlinePasses(o) \/ RetryExpires(o) PROVE EntryInv'
  <2>1. UNCHANGED <<pc, job, visit, rst>>
    BY <1>3 DEF DeadlinePasses, RetryExpires, volatile
  <2>2. pc = "on_call" => rst.cur \in Outlet
    BY DEF StoreInv, CallInv, Calling
  <2> QED
    BY <1>0, <1>3, <2>1, <2>2, TimeEffect DEF EntryInv, SelectionInv, AheadInv, OtherInv,
       OnCallInv, Entering, Ahead, Busy, Restoring
<1> QED
  BY <1>1, <1>2, <1>3 DEF Environment

LEMMA EntryInvariant == Spec => []EntryInv
<1>1. StoreInv /\ EntryInv /\ UNCHANGED vars => EntryInv'
  BY DEF EntryInv, SelectionInv, AheadInv, OtherInv, OnCallInv, Entering, Ahead, Busy, Restoring,
     vars, durable, volatile
<1>2. StoreInv /\ EntryInv /\ [Next]_vars => EntryInv'
  BY <1>1, RestoreStepEntry, CommandEntry, TemporaryStepEntry, TickStepEntry, EnvironmentEntry
     DEF Next, Handler
<1> QED
  BY InitEntry, StoreInvariant, <1>2, PTL DEF Spec

-------------------------------------------------------------------------------
(* Every step of the executor is a step of the promise.                        *)

LEMMA InitPromise == Init => Promise!Init
<1> SUFFICES ASSUME Init PROVE Promise!Init
  OBVIOUS
<1>1. \A o \in Outlet : obl[o].base = "none" /\ obl[o].result = "none"
  BY DEF Init, NoObligation
<1>2. Baselines = [o \in Outlet |-> "none"]
  BY <1>1 DEF Baselines
<1>3. Settlements = [o \in Outlet |-> FALSE]
  BY <1>1 DEF Settlements
<1> QED
  BY <1>2, <1>3 DEF Init, Promise!Init

\* Whatever the step did, to the owner nothing happened but planning
LEMMA PlanStep ==
    ASSUME TypeOK', UNCHANGED <<phys, owed>>, acked' \subseteq acked,
           \A o \in Outlet : obl[o].base # "none" => obl'[o].base = obl[o].base,
           \A o \in Outlet : obl'[o].result = "restored" => obl[o].result = "restored"
    PROVE  Promise!Next
<1>1. Baselines' \in [Outlet -> {"none", "on", "off"}]
  BY DEF Baselines, TypeOK, Obligation
<1>2. Settlements' \in [Outlet -> BOOLEAN]
  BY DEF Settlements
<1>3. \A o \in Outlet : Baselines[o] # "none" => Baselines'[o] = Baselines[o]
  BY DEF Baselines
<1>4. \A o \in Outlet : Settlements'[o] => Settlements[o]
  BY DEF Settlements
<1>5. Promise!Plan
  BY <1>1, <1>2, <1>3, <1>4 DEF Promise!Plan
<1> QED
  BY <1>5 DEF Promise!Next

\* The outlet is recorded as restored
LEMMA SettleStep ==
    ASSUME TypeOK, NEW o \in Outlet, MarkResult(o, "restored", "none"),
           UNCHANGED <<phys, owed, acked>>, obl[o].base # "none", ~owed[o]
    PROVE  Promise!Next
<1>1. \A q \in Outlet : /\ obl'[q].base = obl[q].base
                        /\ obl'[q].result = IF q = o THEN "restored" ELSE obl[q].result
  BY MarkResultEffect
<1>2. Baselines' = Baselines
  BY <1>1 DEF Baselines
<1>3. Settlements' = [Settlements EXCEPT ![o] = TRUE]
  BY <1>1 DEF Settlements
<1>4. Promise!Settle(o)
  BY <1>2, <1>3 DEF Promise!Settle, Baselines
<1> QED
  BY <1>4 DEF Promise!Next

\* The outlet is driven, the store stays
LEMMA DriveStep ==
    ASSUME TypeOK, NEW o \in Outlet, UNCHANGED <<obl, acked>>, obl[o].result # "restored",
           \/ /\ obl[o].base # "none"
              /\ phys' = [phys EXCEPT ![o] = "off"]
              /\ owed' = [owed EXCEPT ![o] = obl[o].base = "on"]
           \/ /\ obl[o].base = "on"
              /\ phys' = [phys EXCEPT ![o] = "on"]
              /\ owed' = [owed EXCEPT ![o] = FALSE]
    PROVE  Promise!Next
<1>1. Baselines' = Baselines /\ Settlements' = Settlements
  BY DEF Baselines, Settlements
<1>2. Baselines[o] = obl[o].base /\ ~Settlements[o]
  BY DEF Baselines, Settlements
<1>3. Promise!TurnOff(o) \/ Promise!TurnOn(o)
  BY <1>1, <1>2 DEF Promise!TurnOff, Promise!TurnOn
<1> QED
  BY <1>3 DEF Promise!Next

\* Obligations are deleted
LEMMA ReleaseStep ==
    ASSUME NEW S \in SUBSET Outlet, UNCHANGED <<phys, owed>>, acked' \subseteq acked,
           \A o \in Outlet : obl'[o].base = IF o \in S THEN "none" ELSE obl[o].base,
           \A o \in Outlet : obl'[o].result = "restored"
                                => obl[o].result = "restored" /\ o \notin S,
           \A o \in S : /\ obl[o].base # "none"
                        /\ ~owed[o]
                        /\ obl[o].result = "restored" \/ TankOf[o] \in acked
    PROVE  Promise!Next
<1>1. Baselines' = [o \in Outlet |-> IF o \in S THEN "none" ELSE Baselines[o]]
  BY DEF Baselines
<1>2. /\ Settlements' \in [Outlet -> BOOLEAN]
      /\ \A o \in Outlet : Settlements'[o] => Settlements[o] /\ o \notin S
  BY DEF Settlements
<1>3. \A o \in S : /\ Baselines[o] # "none" /\ ~owed[o]
                   /\ Settlements[o] \/ TankOf[o] \in acked
  BY DEF Baselines, Settlements
<1>4. Promise!Release(S)
  BY <1>1, <1>2, <1>3 DEF Promise!Release
<1> QED
  BY <1>4 DEF Promise!Next

LEMMA StutterStep ==
    ASSUME UNCHANGED <<obl, phys, owed, acked>>
    PROVE  UNCHANGED Promise!promise
BY DEF Promise!promise, Baselines, Settlements

LEMMA RestoreStepPromise ==
    ASSUME "stale" \notin Faults, StoreInv, OwedInv, EntryInv, RestoreStep, TypeOK'
    PROVE  [Promise!Next]_(Promise!promise)
<1>0. TypeOK
  BY DEF StoreInv
<1>c. Calling => rst.cur \in Outlet /\ obl[rst.cur].base = "on"
  BY DEF StoreInv, CallInv
<1> USE <1>0 DEF durable, world, history
<1>1. CASE Resolve \/ SwitchRestored \/ EndSession \/ KeepSession
  BY <1>1, StutterStep DEF Resolve, SwitchRestored, EndSession, KeepSession
<1>2. ASSUME NEW o \in Outlet, SkipOutlet(o) \/ HoldOutlet(o)
      PROVE  [Promise!Next]_(Promise!promise)
  BY <1>2, StutterStep DEF SkipOutlet, HoldOutlet, Visited
<1>3. ASSUME NEW S, NEW e, Retry(S, e), UNCHANGED <<phys, owed, acked>> PROVE Promise!Next
  BY <1>3, RetryEffect, PlanStep
<1>4. CASE ResolveFails
  BY <1>3, <1>4 DEF ResolveFails
<1>5. ASSUME NEW o \in Outlet, RestoreUnknown(o) \/ PumpNotRestored(o)
      PROVE  Promise!Next
  BY <1>3, <1>5 DEF RestoreUnknown, PumpNotRestored, Visited
<1>6. ASSUME NEW o \in Outlet, FoundRestored(o) PROVE Promise!Next
  <2>1. obl[o].base # "none" /\ ~owed[o]
    BY <1>6 DEF FoundRestored, Readings, OwedInv, TypeOK
  <2> QED
    BY <1>6, <2>1, SettleStep DEF FoundRestored, Visited
<1>7. ASSUME NEW o \in Outlet, FoundSwitched(o) PROVE Promise!Next
  <2>1. \A q \in Outlet : /\ obl'[q].base = obl[q].base
                          /\ obl'[q].result = IF q = o THEN "external" ELSE obl[q].result
    BY <1>7, MarkResultEffect DEF FoundSwitched
  <2> QED
    BY <1>7, <2>1, PlanStep DEF FoundSwitched, Visited
<1>8. ASSUME NEW o \in Outlet, RestoreOutlet(o) PROVE Promise!Next
  <2>1. \A q \in Outlet : /\ obl'[q].base = obl[q].base
                          /\ obl'[q].result = IF q = o THEN "none" ELSE obl[q].result
    BY <1>8 DEF RestoreOutlet, TypeOK, Obligation
  <2> QED
    BY <1>8, <2>1, PlanStep DEF RestoreOutlet
<1>9. CASE RestoreConfirmed
  BY <1>9, <1>c, DriveStep DEF RestoreConfirmed, Confirmed, EntryInv, OnCallInv, Calling
<1>10. ASSUME NEW applied \in BOOLEAN, RestoreUncertain(applied)
       PROVE  [Promise!Next]_(Promise!promise)
  <2>1. CASE applied
    <3>1. /\ phys' = [phys EXCEPT ![rst.cur] = "on"]
          /\ owed' = [owed EXCEPT ![rst.cur] = FALSE]
      BY <1>10, <2>1 DEF RestoreUncertain, Uncertain
    <3> QED
      BY <1>10, <1>c, <3>1, DriveStep DEF RestoreUncertain, EntryInv, OnCallInv, Calling
  <2>2. CASE ~applied
    <3>1. phys' = phys
      BY <1>10, <2>2 DEF RestoreUncertain, Uncertain
    <3>2. owed' = owed
      BY <1>10, <2>2 DEF RestoreUncertain, TypeOK
    <3> QED
      BY <1>10, <3>1, <3>2, StutterStep DEF RestoreUncertain
  <2> QED
    BY <2>1, <2>2
<1>11. CASE RecordRestored
  BY <1>11, <1>c, SettleStep DEF RecordRestored, OwedInv, Calling
<1>12. CASE RecordRestoreFailed
  BY <1>3, <1>12 DEF RecordRestoreFailed
<1>13. CASE RemoveSession
  <2> DEFINE S == Obligated(rst.tank)
  <2>1. \A o \in Outlet : obl'[o] = IF TankOf[o] = rst.tank THEN NoObligation ELSE obl[o]
    BY <1>13 DEF RemoveSession
  <2>2. \A o \in Outlet : obl'[o].base = IF o \in S THEN "none" ELSE obl[o].base
    BY <2>1 DEF Obligated, Outlets, NoObligation
  <2>3. \A o \in Outlet : obl'[o].result = "restored" => obl[o].result = "restored" /\ o \notin S
    BY <2>1 DEF Obligated, Outlets, NoObligation
  <2>4. S \in SUBSET Outlet /\ \A o \in S : TankOf[o] = rst.tank /\ obl[o].base # "none"
    BY DEF Obligated, Outlets
  <2>5. \A o \in S : ~owed[o] /\ (obl[o].result = "restored" \/ rst.tank \in acked)
    BY <1>13, <2>4 DEF RemoveSession, OwedInv, StoreInv, RemoveInv
  <2>6. acked' \subseteq acked /\ UNCHANGED <<phys, owed>>
    BY <1>13 DEF RemoveSession
  <2> QED
    BY <2>2, <2>3, <2>4, <2>5, <2>6, ReleaseStep
<1> QED
  BY <1>1, <1>2, <1>4, <1>5, <1>6, <1>7, <1>8, <1>9, <1>10, <1>11, <1>12, <1>13 DEF RestoreStep

LEMMA CommandPromise ==
    ASSUME StoreInv, Command
    PROVE  [Promise!Next]_(Promise!promise)
<1> USE DEF durable, volatile, world, history
<1>1. ASSUME NEW t \in Tank, NEW m \in Mode, NEW sel \in Profiles, AcceptTemporary(t, m, sel)
      PROVE  UNCHANGED Promise!promise
  BY <1>1, StutterStep DEF AcceptTemporary
<1>2. ASSUME NEW t \in Tank, AcceptRefused(t) \/ AcceptNormal(t) \/ FinishManualFails(t)
      PROVE  UNCHANGED Promise!promise
  BY <1>2, StutterStep DEF AcceptRefused, AcceptNormal, FinishManualFails
<1>3. ASSUME NEW t \in Tank, FinishManual(t) PROVE Promise!Next
  <2>1. Baselines' = Baselines /\ Settlements' = Settlements
    BY <1>3 DEF FinishManual, Baselines, Settlements
  <2>2. Promise!Acknowledge(t)
    BY <1>3, <2>1 DEF FinishManual, Promise!Acknowledge
  <2> QED
    BY <2>2 DEF Promise!Next
<1> QED
  BY <1>1, <1>2, <1>3 DEF Command

LEMMA TemporaryStepPromise ==
    ASSUME "stale" \notin Faults, StoreInv, OwedInv, EntryInv, TemporaryStep, TypeOK'
    PROVE  [Promise!Next]_(Promise!promise)
<1>0. TypeOK
  BY DEF StoreInv
<1> USE <1>0 DEF durable, volatile, world, history
<1>1. CASE \/ PreflightUnsafe \/ PreflightRefused \/ Preflight \/ SameMode \/ RejectOnly
           \/ EntryExpired \/ EntryGoesOn \/ Activate \/ Unwind \/ RejectAndUnwind
  BY <1>1, StutterStep DEF PreflightUnsafe, PreflightRefused, Preflight, SameMode, RejectOnly,
     EntryExpired, EntryGoesOn, Activate, Unwind, RejectAndUnwind
<1>2. ASSUME NEW t \in Tank, EntryVisit(t) PROVE UNCHANGED Promise!promise
  BY <1>2, StutterStep DEF EntryVisit
<1>3. CASE BeginSession
  <2>1. \A o \in Outlet :
           /\ obl[o].base # "none" => obl'[o].base = obl[o].base
           /\ obl'[o].result = "none" \/ obl'[o] = obl[o]
    BY <1>3 DEF BeginSession, Planned, Carried, Baseline, NoObligation
  <2>2. acked' \subseteq acked /\ UNCHANGED <<phys, owed>>
    BY <1>3 DEF BeginSession
  <2> QED
    BY <2>1, <2>2, PlanStep
<1>4. CASE Trim
  <2> DEFINE S == {o \in Obligated(job.tank) : ~obl[o].active}
  <2>1. \A o \in Outlet : obl'[o] = IF o \in S THEN NoObligation ELSE obl[o]
    BY <1>4 DEF Trim
  <2>5. \A o \in Outlet : obl'[o].base = IF o \in S THEN "none" ELSE obl[o].base
    BY <2>1 DEF NoObligation
  <2>6. \A o \in Outlet : obl'[o].result = "restored" => obl[o].result = "restored" /\ o \notin S
    BY <2>1 DEF NoObligation
  <2>2. \A o \in S : obl[o].base # "none" /\ obl[o].result = "restored"
    BY <1>4 DEF Trim, StoreInv, TrimInv, Obligated, Outlets
  <2>3. \A o \in S : ~owed[o]
    BY <2>2 DEF OwedInv, Obligated, Outlets
  <2>4. S \in SUBSET Outlet
    BY DEF Obligated, Outlets
  <2> QED
    BY <1>4, <2>2, <2>3, <2>4, <2>5, <2>6, ReleaseStep DEF Trim
<1>5. ASSUME NEW o \in Outlet, Preserve(o) PROVE Promise!Next
  <2>1. \A q \in Outlet : /\ obl'[q].base = obl[q].base
                          /\ obl'[q].result = IF q = o THEN "preserved" ELSE obl[q].result
    BY <1>5, MarkResultEffect DEF Preserve
  <2> QED
    BY <1>5, <2>1, PlanStep DEF Preserve
<1>6. ASSUME NEW o \in Outlet, SwitchOff(o) PROVE Promise!Next
  <2>1. \A q \in Outlet : /\ obl'[q].base = obl[q].base
                          /\ obl'[q].result = IF q = o THEN "none" ELSE obl[q].result
    BY <1>6 DEF SwitchOff, TypeOK, Obligation
  <2>2. UNCHANGED <<phys, owed, acked>>
    BY <1>6 DEF SwitchOff
  <2> QED
    BY <2>1, <2>2, PlanStep
<1>7. pc = "off_call" => /\ job.cur \in Outlet
                         /\ obl[job.cur].base # "none"
                         /\ obl[job.cur].base = origin[job.cur]
                         /\ obl[job.cur].result # "restored"
  BY DEF OwedInv, EntryInv, AheadInv, Entering, Ahead, StoreInv, BaselineInv
<1>8. CASE OffConfirmed
  BY <1>7, <1>8, DriveStep DEF OffConfirmed, Confirmed
<1>9. ASSUME NEW applied \in BOOLEAN, OffUncertain(applied)
      PROVE  [Promise!Next]_(Promise!promise)
  <2>1. CASE applied
    <3>1. owed[job.cur] => obl[job.cur].base = "on"
      BY <1>7, <1>9 DEF OffUncertain, OwedInv
    <3>2. phys' = [phys EXCEPT ![job.cur] = "off"]
      BY <1>9, <2>1 DEF OffUncertain, Uncertain
    <3>3. owed' = [owed EXCEPT ![job.cur] = obl[job.cur].base = "on"]
      BY <1>7, <1>9, <2>1, <3>1 DEF OffUncertain, TypeOK
    <3> QED
      BY <1>7, <1>9, <3>2, <3>3, DriveStep DEF OffUncertain
  <2>2. CASE ~applied
    <3>1. phys' = phys
      BY <1>9, <2>2 DEF OffUncertain, Uncertain
    <3>2. owed' = owed
      BY <1>9, <2>2 DEF OffUncertain, TypeOK
    <3> QED
      BY <1>9, <3>1, <3>2, StutterStep DEF OffUncertain
  <2> QED
    BY <2>1, <2>2
<1>10. CASE RecordOff
  <2>1. \A q \in Outlet : /\ obl'[q].base = obl[q].base
                          /\ obl'[q].result = "restored" => obl[q].result = "restored"
    BY <1>10 DEF RecordOff, MarkResult, TypeOK, Obligation
  <2> QED
    BY <1>10, <2>1, PlanStep DEF RecordOff
<1> QED
  BY <1>1, <1>2, <1>3, <1>4, <1>5, <1>6, <1>8, <1>9, <1>10 DEF TemporaryStep

LEMMA TickStepPromise ==
    ASSUME StoreInv, TickStart \/ TickUnsafe \/ TickStep, TypeOK'
    PROVE  [Promise!Next]_(Promise!promise)
<1>0. TypeOK
  BY DEF StoreInv
<1> USE <1>0 DEF durable, volatile, world, history
<1>1. CASE TickStart \/ TickUnsafe \/ GuardDone \/ Hold \/ WatchDone \/ TickDone
  BY <1>1, StutterStep DEF TickStart, TickUnsafe, GuardDone, Hold, WatchDone, TickDone
<1>2. ASSUME NEW t \in Tank,
             GuardTank(t) \/ TickUnfinished(t) \/ TickPending(t) \/ TickActive(t)
      PROVE  UNCHANGED Promise!promise
  BY <1>2, StutterStep DEF GuardTank, TickUnfinished, TickPending, TickActive
<1>3. ASSUME NEW t \in Tank, TickActiveFails(t) PROVE Promise!Next
  BY <1>3, RetryEffect, PlanStep DEF TickActiveFails
<1>4. ASSUME NEW o \in Outlet, WatchQuiet(o) PROVE UNCHANGED Promise!promise
  BY <1>4, StutterStep DEF WatchQuiet
<1>5. ASSUME NEW o \in Outlet, WatchExternal(o) PROVE Promise!Next
  <2>1. \A q \in Outlet : /\ obl'[q].base = obl[q].base
                          /\ obl'[q].result = IF q = o THEN "external" ELSE obl[q].result
    BY <1>5, MarkResultEffect DEF WatchExternal
  <2> QED
    BY <1>5, <2>1, PlanStep DEF WatchExternal
<1> QED
  BY <1>1, <1>2, <1>3, <1>4, <1>5 DEF TickStep

LEMMA EnvironmentPromise ==
    ASSUME StoreInv, Environment, TypeOK'
    PROVE  [Promise!Next]_(Promise!promise)
<1>0. TypeOK
  BY DEF StoreInv
<1> USE <1>0 DEF durable, volatile, world, history
<1>1. CASE Crash
  BY <1>1, StutterStep DEF Crash
<1>5. CASE CrashMarking
  BY <1>5, RetryEffect, PlanStep DEF CrashMarking
<1>2. ASSUME NEW o \in Outlet, UserSwitch(o) PROVE Promise!Next
  <2>1. Baselines' = Baselines /\ Settlements' = Settlements
    BY <1>2 DEF UserSwitch, Baselines, Settlements
  <2>2. Promise!Outside(o)
    BY <1>2, <2>1 DEF UserSwitch, Promise!Outside
  <2> QED
    BY <2>2 DEF Promise!Next
<1>3. ASSUME NEW o \in Outlet, ViewCatchesUp(o) PROVE UNCHANGED Promise!promise
  BY <1>3, StutterStep DEF ViewCatchesUp
<1>4. ASSUME NEW o \in Outlet, DeadlinePasses(o) \/ RetryExpires(o) PROVE Promise!Next
  <2>1. UNCHANGED <<phys, owed, acked>>
    BY <1>4 DEF DeadlinePasses, RetryExpires
  <2> QED
    BY <1>4, <2>1, TimeEffect, PlanStep
<1> QED
  BY <1>1, <1>2, <1>3, <1>4, <1>5 DEF Environment

LEMMA OwedInvariant == "stale" \notin Faults => (Spec => []OwedInv)
<1> SUFFICES ASSUME "stale" \notin Faults PROVE Spec => []OwedInv
  OBVIOUS
<1>1. StoreInv /\ OwedInv /\ UNCHANGED vars => OwedInv'
  BY DEF OwedInv, vars, durable, volatile, world, history
<1>2. StoreInv /\ OwedInv /\ [Next]_vars => OwedInv'
  BY <1>1, RestoreStepOwed, CommandOwed, TemporaryStepOwed, TickStepOwed, EnvironmentOwed
     DEF Next, Handler
<1> QED
  BY InitOwed, StoreInvariant, <1>2, PTL DEF Spec

\* The executor with its sessions, retries, crashes and uncertain calls is an
\* implementation of the promise the owner of an outlet reads: whatever happens
\* is planning, switching, settling or striking out as OutletPromise allows.
THEOREM PromiseImplemented == "stale" \notin Faults => (Spec => PromiseKept)
<1> SUFFICES ASSUME "stale" \notin Faults PROVE Spec => PromiseKept
  OBVIOUS
<1>1. UNCHANGED vars => UNCHANGED Promise!promise
  BY StutterStep DEF vars, durable, volatile, world, history
<1>2. StoreInv /\ TypeOK' /\ OwedInv /\ EntryInv /\ [Next]_vars
        => [Promise!Next]_(Promise!promise)
  BY <1>1, RestoreStepPromise, CommandPromise, TemporaryStepPromise, TickStepPromise,
     EnvironmentPromise DEF Next, Handler
<1> QED
  BY InitPromise, TypeCorrect, StoreInvariant, OwedInvariant, EntryInvariant, <1>2, PTL
     DEF Spec, PromiseKept, Promise!Spec
===============================================================================
