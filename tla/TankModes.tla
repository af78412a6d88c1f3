------------------------------ MODULE TankModes ------------------------------
(* The tank-mode executor and restoration scheduler of the Waterlog bridge     *)
(* (control_service.py), with the sessions and obligations it keeps in SQLite  *)
(* (control_store.py) and the outlets it drives through Home Assistant         *)
(* (home_assistant_control.py).                                                *)
(*                                                                             *)
(* A temporary mode switches the outlets of a profile off and owes their       *)
(* restoration: the baseline of every outlet is written down before the first  *)
(* call, and the scheduler restores it at the deadline, after a failure and    *)
(* after a restart.  accept() and tick() hold one lock, so at most one handler *)
(* runs (pc is its place in the code); between two of its steps the outlets,   *)
(* the clock and the process itself may change under it.  A step is one SQLite *)
(* transaction or one Home Assistant call, the unit a crash cannot divide.     *)
(*                                                                             *)
(* Time is two flags of an obligation: due (its deadline has passed) and wait  *)
(* (its retry delay is running).                                               *)
EXTENDS Naturals, FiniteSets

CONSTANTS
    Tank,         \* the tanks
    Outlet,       \* the switch entities the bridge may drive
    Mode,         \* the temporary modes; "normal" is the mode that ends them
    NoTank,       \* not a tank
    NoOutlet,     \* not an outlet
    TankOf,       \* the tank an outlet belongs to
    Requires,     \* requires_pump_outlet_id of an outlet, or NoOutlet
    Profiles,     \* the sets of outlets a command may select (off_seconds set)
    Faults,       \* the parts of the environment that may misbehave
    MaxCommands   \* bound: mode commands accepted for a tank

FaultKinds == {"crash", "external", "stale", "registry", "read", "write", "clock"}

ASSUME ConstantsAssumption ==
    /\ NoTank \notin Tank
    /\ NoOutlet \notin Outlet
    /\ "normal" \notin Mode
    /\ TankOf \in [Outlet -> Tank]
    /\ Requires \in [Outlet -> Outlet \cup {NoOutlet}]
    /\ \A o \in Outlet : Requires[o] # NoOutlet => TankOf[Requires[o]] = TankOf[o]
    /\ \A cycle \in (SUBSET Outlet) \ {{}} : \E o \in cycle : Requires[o] \notin cycle
    /\ \A sel \in Profiles :
          /\ sel \in (SUBSET Outlet) \ {{}}
          /\ \A o, q \in sel : TankOf[o] = TankOf[q]
    /\ Faults \in SUBSET FaultKinds
    /\ MaxCommands \in Nat

VARIABLES
    \* control.sqlite3: survives a crash
    session,      \* session[t].mode and .phase; phase "none" is no row
    obl,          \* the obligation of an outlet; base "none" is no row
    \* the running handler: lost in a crash
    pc,           \* where it is
    job,          \* the command it executes: its locals in _temporary
    visit,        \* the tanks its loop over sessions() has still to see
    rst,          \* the locals of _restore and _restore_items
    \* the world
    phys,         \* the state of the physical outlet
    shown,        \* the state Home Assistant publishes for it
    \* history
    owed,         \* the bridge switched the outlet off and nobody undid that,
                  \* though it was on when the bridge took it over
    origin,       \* its state when the bridge first took it over
    acked,        \* tanks whose attended recovery has been acknowledged
    cmds          \* mode commands accepted for each tank

durable == <<session, obl>>
volatile == <<pc, job, visit, rst>>
world == <<phys, shown>>
history == <<owed, origin, acked, cmds>>
vars == <<durable, volatile, world, history>>

-------------------------------------------------------------------------------
Phases == {"none", "starting", "switching", "active", "restoring",
           "recovery_required", "normal"}
Results == {"none", "off", "preserved", "external", "restored"}
Errors == {"none", "external", "identity", "failed", "pending"}
Places == {"idle", "preflight", "begin", "trim", "check", "enter", "off_call",
           "off_ok", "fail", "reject", "guard", "tick", "watch", "hold",
           "resolve", "restore", "on_call", "on_ok", "on_failed", "remove"}
Backs == {"done", "tick", "check", "guard", "switch"}

Session == [mode : Mode \cup {"normal"}, phase : Phases]
Obligation == [base : {"none", "on", "off"}, intent : BOOLEAN, result : Results,
               error : Errors, due : BOOLEAN, wait : BOOLEAN, active : BOOLEAN]
Job == [tank : Tank \cup {NoTank}, mode : Mode \cup {"normal"},
        sel : SUBSET Outlet, on : SUBSET Outlet, left : SUBSET Outlet,
        cur : Outlet \cup {NoOutlet}]
Restoration == [tank : Tank \cup {NoTank}, todo : SUBSET Outlet, imm : BOOLEAN,
                complete : BOOLEAN, cur : Outlet \cup {NoOutlet}, back : Backs]

NoSession == [mode |-> "normal", phase |-> "none"]
NoObligation == [base |-> "none", intent |-> FALSE, result |-> "none",
                 error |-> "none", due |-> FALSE, wait |-> FALSE, active |-> FALSE]
NoJob == [tank |-> NoTank, mode |-> "normal", sel |-> {}, on |-> {}, left |-> {},
          cur |-> NoOutlet]
NoRestoration == [tank |-> NoTank, todo |-> {}, imm |-> FALSE, complete |-> TRUE,
                  cur |-> NoOutlet, back |-> "done"]

TypeOK ==
    /\ session \in [Tank -> Session]
    /\ obl \in [Outlet -> Obligation]
    /\ pc \in Places
    /\ job \in Job
    /\ visit \in SUBSET Tank
    /\ rst \in Restoration
    /\ phys \in [Outlet -> {"on", "off"}]
    /\ shown \in [Outlet -> {"on", "off"}]
    /\ owed \in [Outlet -> BOOLEAN]
    /\ origin \in [Outlet -> {"none", "on", "off"}]
    /\ acked \in SUBSET Tank
    /\ cmds \in [Tank -> 0..MaxCommands]

Init ==
    /\ session = [t \in Tank |-> NoSession]
    /\ obl = [o \in Outlet |-> NoObligation]
    /\ pc = "idle"
    /\ job = NoJob
    /\ visit = {}
    /\ rst = NoRestoration
    /\ phys \in [Outlet -> {"on", "off"}]
    /\ shown = phys
    /\ owed = [o \in Outlet |-> FALSE]
    /\ origin = [o \in Outlet |-> "none"]
    /\ acked = {}
    /\ cmds = [t \in Tank |-> 0]

-------------------------------------------------------------------------------
(* The store.                                                                  *)

Open(t) == session[t].phase # "none"
Sessions == {t \in Tank : Open(t)}
Outlets(t) == {o \in Outlet : TankOf[o] = t}
Obligated(t) == {o \in Outlets(t) : obl[o].base # "none"}

\* Mutant: the columns of the UPDATE are swapped
SetSessionSwapped(t, mode, phase) ==
    session' = [session EXCEPT ![t] = [mode |-> phase, phase |-> mode]]
\* set_session and transition_session_command
SetSession(t, mode, phase) ==
    session' = [session EXCEPT ![t] = [mode |-> mode, phase |-> phase]]
SetPhase(t, phase) == SetSession(t, session[t].mode, phase)

MarkResult(o, result, error) ==
    obl' = [obl EXCEPT ![o].result = result, ![o].error = error]

\* _retry: the error is recorded and a backoff delay starts
Retry(targets, error) ==
    obl' = [o \in Outlet |->
              IF o \in targets THEN [obl[o] EXCEPT !.error = error, !.wait = TRUE]
                               ELSE obl[o]]

\* A write that may have been applied although it was never confirmed
Unresolved(o) ==
    \/ obl[o].result = "none" /\ obl[o].intent /\ obl[o].base # "off"
    \/ obl[o].error = "failed"

(* What HomeAssistantControl.state may answer.                                 *)
Readings(o) == {shown[o]} \cup (IF "read" \in Faults THEN {"unavailable"} ELSE {})

(* HomeAssistantControl.set_state.  A confirmed call has been applied.  A call *)
(* that raises (connection lost, rejected, confirmation timed out) may have    *)
(* been applied, and Home Assistant may be late in showing it.                 *)
Confirmed(o, value) ==
    /\ phys' = [phys EXCEPT ![o] = value]
    /\ shown' = [shown EXCEPT ![o] = value]
Uncertain(o, value, applied) ==
    /\ "write" \in Faults
    /\ phys' = IF applied THEN [phys EXCEPT ![o] = value] ELSE phys
    /\ \/ shown' = [shown EXCEPT ![o] = phys'[o]]
       \/ "stale" \in Faults /\ shown' = shown

-------------------------------------------------------------------------------
(* Restoration: _restore and _restore_items.                                   *)

StartRestore(t, targets, imm, back) ==
    /\ pc' = "resolve"
    /\ rst' = [tank |-> t, todo |-> targets, imm |-> imm, complete |-> TRUE,
               cur |-> NoOutlet, back |-> back]

\* The handler goes on where _restore was called
Return ==
    /\ rst' = NoRestoration
    /\ pc' = IF rst.back = "done" THEN "idle" ELSE rst.back
    /\ job' = IF rst.back = "done" THEN NoJob ELSE job

Resolve ==
    /\ pc = "resolve"
    /\ pc' = "restore"
    /\ UNCHANGED <<durable, job, visit, rst, world, history>>

\* The registry is unavailable or an outlet was replaced: every target that is
\* not backing off is marked, no outlet is touched (CrashMarking when the process
\* dies half way)
ResolveFails ==
    /\ pc = "resolve"
    /\ "registry" \in Faults
    /\ rst.todo # {}
    /\ Retry({o \in rst.todo : ~obl[o].wait}, "identity")
    /\ rst' = [rst EXCEPT !.todo = {}, !.complete = FALSE]
    /\ pc' = "restore"
    /\ UNCHANGED <<session, job, visit, world, history>>

\* The sort key: an outlet comes after the pump it requires
Turn(o) ==
    /\ pc = "restore"
    /\ o \in rst.todo
    /\ Requires[o] \notin rst.todo

Visited(o, complete) ==
    /\ rst' = [rst EXCEPT !.todo = @ \ {o}, !.complete = @ /\ complete]
    /\ UNCHANGED <<session, pc, job, visit, world, history>>

\* Mutant: an outlet whose registry entry was missing once is left alone
RunnableUnlessReplaced(o) ==
    obl[o].result # "restored" /\ obl[o].error # "identity" /\ (rst.imm \/ obl[o].due) /\ ~obl[o].wait

Runnable(o) ==
    /\ obl[o].result # "restored"
    /\ rst.imm \/ obl[o].due
    /\ ~obl[o].wait

\* Mutant: an outlet that is backing off does not keep the session open
SkipOutletAsDone(o) ==
    Turn(o) /\ ~Runnable(o) /\ Visited(o, TRUE) /\ UNCHANGED obl

SkipOutlet(o) ==
    /\ Turn(o)
    /\ ~Runnable(o)
    /\ Visited(o, obl[o].result = "restored")
    /\ UNCHANGED obl

\* Mutant: the reading alone decides
FoundRestoredByReading(o) ==
    /\ Turn(o) /\ Runnable(o) /\ obl[o].base \in Readings(o)
    /\ MarkResult(o, "restored", "none") /\ Visited(o, TRUE)

\* The reading shows the baseline and no write of ours is in doubt
FoundRestored(o) ==
    /\ Turn(o)
    /\ Runnable(o)
    /\ obl[o].base \in Readings(o)
    /\ ~Unresolved(o)
    /\ MarkResult(o, "restored", "none")
    /\ Visited(o, TRUE)

\* The reading r leaves something to be done
Differs(o, r) ==
    /\ Turn(o)
    /\ Runnable(o)
    /\ r \in Readings(o)
    /\ r # obl[o].base \/ Unresolved(o)

\* Held for an attended recovery since somebody else switched the outlet
HoldOutlet(o) ==
    /\ \E r \in {"on", "off", "unavailable"} : Differs(o, r)
    /\ obl[o].error = "external"
    /\ Visited(o, FALSE)
    /\ UNCHANGED obl

\* Mutant: any difference is taken for somebody else's change
FoundSwitchedAnyBaseline(o) ==
    /\ obl[o].error # "external" /\ \E r \in {"on", "off", "unavailable"} : Differs(o, r)
    /\ MarkResult(o, "external", "external") /\ Visited(o, FALSE)

\* An outlet that was off is never switched on: the change was not ours
FoundSwitched(o) ==
    /\ \E r \in {"on", "off", "unavailable"} : Differs(o, r)
    /\ obl[o].error # "external"
    /\ obl[o].base = "off"
    /\ MarkResult(o, "external", "external")
    /\ Visited(o, FALSE)

RestoreUnknown(o) ==
    /\ Differs(o, "unavailable")
    /\ obl[o].error # "external"
    /\ obl[o].base = "on"
    /\ Retry({o}, "pending")
    /\ Visited(o, FALSE)

Restorable(o) ==
    /\ \E r \in {"on", "off"} : Differs(o, r)
    /\ obl[o].error # "external"
    /\ obl[o].base = "on"

PumpNotRestored(o) ==
    /\ Restorable(o)
    /\ Requires[o] # NoOutlet
    /\ \E r \in Readings(Requires[o]) : r # "on"
    /\ Retry({o}, "pending")
    /\ Visited(o, FALSE)

\* Mutant: the pump is not asked
RestoreOutletAnyway(o) ==
    /\ Restorable(o) /\ pc' = "on_call"
    /\ obl' = [obl EXCEPT ![o].result = "none"] /\ rst' = [rst EXCEPT !.todo = @ \ {o}, !.cur = o]
    /\ UNCHANGED <<session, job, visit, world, history>>

\* mark_restore_pending, then the call
RestoreOutlet(o) ==
    /\ Restorable(o)
    /\ Requires[o] # NoOutlet => "on" \in Readings(Requires[o])
    /\ obl' = [obl EXCEPT ![o].result = "none"]
    /\ rst' = [rst EXCEPT !.todo = @ \ {o}, !.cur = o]
    /\ pc' = "on_call"
    /\ UNCHANGED <<session, job, visit, world, history>>

RestoreConfirmed ==
    /\ pc = "on_call"
    /\ Confirmed(rst.cur, "on")
    /\ owed' = [owed EXCEPT ![rst.cur] = FALSE]
    /\ pc' = "on_ok"
    /\ UNCHANGED <<durable, job, visit, rst, origin, acked, cmds>>

RestoreUncertain(applied) ==
    /\ pc = "on_call"
    /\ Uncertain(rst.cur, "on", applied)
    /\ owed' = [owed EXCEPT ![rst.cur] = @ /\ ~applied]
    /\ pc' = "on_failed"
    /\ UNCHANGED <<durable, job, visit, rst, origin, acked, cmds>>

RecordRestored ==
    /\ pc = "on_ok"
    /\ MarkResult(rst.cur, "restored", "none")
    /\ rst' = [rst EXCEPT !.cur = NoOutlet]
    /\ pc' = "restore"
    /\ UNCHANGED <<session, job, visit, world, history>>

\* Mutant: a failed call is recorded like a confirmed one
RecordRestoreFailedAsDone ==
    /\ pc = "on_failed" /\ pc' = "restore"
    /\ MarkResult(rst.cur, "restored", "none") /\ rst' = [rst EXCEPT !.cur = NoOutlet]
    /\ UNCHANGED <<session, job, visit, world, history>>

RecordRestoreFailed ==
    /\ pc = "on_failed"
    /\ Retry({rst.cur}, "failed")
    /\ rst' = [rst EXCEPT !.cur = NoOutlet, !.complete = FALSE]
    /\ pc' = "restore"
    /\ UNCHANGED <<session, job, visit, world, history>>

RestoreDone == pc = "restore" /\ rst.todo = {}

\* The removed outlets of a switch were restored, or the switch fails
SwitchRestored ==
    /\ RestoreDone
    /\ rst.back = "switch"
    /\ pc' = IF rst.complete THEN "trim" ELSE "fail"
    /\ rst' = NoRestoration
    /\ UNCHANGED <<durable, job, visit, world, history>>

\* Everything is restored: the session turns normal, then is removed
EndSession ==
    /\ RestoreDone
    /\ rst.back # "switch"
    /\ rst.complete
    /\ SetSession(rst.tank, "normal", "normal")
    /\ pc' = "remove"
    /\ UNCHANGED <<obl, job, visit, rst, world, history>>

\* Mutant: the obligations of every tank go with the session
RemoveSessionEverywhere ==
    /\ pc = "remove" /\ Return
    /\ session' = [session EXCEPT ![rst.tank] = NoSession] /\ acked' = acked \ {rst.tank}
    /\ obl' = [o \in Outlet |-> NoObligation] /\ origin' = [o \in Outlet |-> "none"]
    /\ UNCHANGED <<visit, world, owed, cmds>>

\* ON DELETE CASCADE: the obligations go with the session
RemoveSession ==
    /\ pc = "remove"
    /\ session' = [session EXCEPT ![rst.tank] = NoSession]
    /\ obl' = [o \in Outlet |-> IF TankOf[o] = rst.tank THEN NoObligation ELSE obl[o]]
    /\ origin' = [o \in Outlet |-> IF TankOf[o] = rst.tank THEN "none" ELSE origin[o]]
    /\ acked' = acked \ {rst.tank}
    /\ Return
    /\ UNCHANGED <<visit, world, owed, cmds>>

KeepSession ==
    /\ RestoreDone
    /\ rst.back # "switch"
    /\ ~rst.complete
    /\ LET held == \E o \in Obligated(rst.tank) : obl[o].error \in {"external", "identity"}
           due == rst.imm \/ \E o \in Obligated(rst.tank) : obl[o].due
       IN  SetPhase(rst.tank, IF held THEN "recovery_required"
                              ELSE IF due THEN "restoring"
                              ELSE session[rst.tank].phase)
    /\ Return
    /\ UNCHANGED <<obl, visit, world, history>>

-------------------------------------------------------------------------------
(* accept: commands from the cloud.                                            *)

AcceptTemporary(t, m, sel) ==
    /\ pc = "idle"
    /\ cmds[t] < MaxCommands
    /\ \A o \in sel : TankOf[o] = t
    /\ job' = [NoJob EXCEPT !.tank = t, !.mode = m, !.sel = sel]
    /\ pc' = "preflight"
    /\ cmds' = [cmds EXCEPT ![t] = @ + 1]
    /\ UNCHANGED <<durable, visit, rst, world, owed, origin, acked>>

\* recovery_required, config_not_installed or start_expired
AcceptRefused(t) ==
    /\ pc = "idle"
    /\ cmds[t] < MaxCommands
    /\ job' = [NoJob EXCEPT !.tank = t]
    /\ pc' = "reject"
    /\ cmds' = [cmds EXCEPT ![t] = @ + 1]
    /\ UNCHANGED <<durable, visit, rst, world, owed, origin, acked>>

\* _normal; without a session there is nothing to do but report
AcceptNormal(t) ==
    /\ pc = "idle"
    /\ cmds[t] < MaxCommands
    /\ Open(t)
    /\ SetSession(t, "normal", "restoring")
    /\ StartRestore(t, Obligated(t), TRUE, "done")
    /\ cmds' = [cmds EXCEPT ![t] = @ + 1]
    /\ UNCHANGED <<obl, job, visit, world, owed, origin, acked>>

\* The clock is found unsafe: _clock_safe unwinds every session
ClockUnsafe ==
    /\ "clock" \in Faults
    /\ pc' = "guard"
    /\ visit' = Sessions

PreflightUnsafe ==
    /\ pc = "preflight"
    /\ ClockUnsafe
    /\ UNCHANGED <<durable, job, rst, world, history>>

\* The plan cannot be resolved or read, the start window has closed, or an
\* outlet has been replaced
PreflightRefused ==
    /\ pc = "preflight"
    /\ pc' = "reject"
    /\ UNCHANGED <<durable, job, visit, rst, world, history>>

\* dependency_baseline_invalid
BaselineInvalid ==
    \E o \in job.sel : /\ shown[o] = "on"
                       /\ Requires[o] # NoOutlet
                       /\ shown[Requires[o]] # "on"

\* The readings taken here are the baselines written down by BeginSession
Preflight ==
    /\ pc = "preflight"
    /\ ~BaselineInvalid
    /\ job' = [job EXCEPT !.on = {o \in job.sel : shown[o] = "on"}]
    /\ pc' = "begin"
    /\ UNCHANGED <<durable, visit, rst, world, history>>

\* The tank is already in this mode
SameMode ==
    /\ pc = "begin"
    /\ session[job.tank] = [mode |-> job.mode, phase |-> "active"]
    /\ pc' = "idle"
    /\ job' = NoJob
    /\ UNCHANGED <<durable, visit, rst, world, history>>

\* Mutant: a switch takes the present state for the baseline
BaselineRead(o) == IF o \in job.on THEN "on" ELSE "off"

\* A prior baseline outlives the switch; outlets no longer selected are due now
Carried(o) == [NoObligation EXCEPT !.base = obl[o].base, !.due = TRUE]
Baseline(o) == IF obl[o].base # "none" THEN obl[o].base
               ELSE IF o \in job.on THEN "on" ELSE "off"
Planned(o) == [NoObligation EXCEPT !.base = Baseline(o), !.active = TRUE]

BeginSession ==
    /\ pc = "begin"
    /\ session[job.tank] # [mode |-> job.mode, phase |-> "active"]
    /\ LET old == Open(job.tank)
           removed == Obligated(job.tank) \ job.sel
       IN  /\ SetSession(job.tank, job.mode, IF old THEN "switching" ELSE "starting")
           /\ obl' = [o \in Outlet |-> IF o \in job.sel THEN Planned(o)
                                       ELSE IF o \in removed THEN Carried(o)
                                       ELSE obl[o]]
           /\ origin' = [o \in Outlet |->
                           IF o \in job.sel /\ origin[o] = "none"
                           THEN IF o \in job.on THEN "on" ELSE "off"
                           ELSE origin[o]]
           /\ acked' = acked \ {job.tank}
           /\ IF old
              THEN StartRestore(job.tank, removed, TRUE, "switch") /\ visit' = visit
              ELSE pc' = "check" /\ visit' = Sessions \ {job.tank} /\ rst' = rst
    /\ job' = [job EXCEPT !.left = job.sel]
    /\ UNCHANGED <<world, owed, cmds>>

\* remove_inactive_obligations
Trim ==
    /\ pc = "trim"
    /\ LET gone == {o \in Obligated(job.tank) : ~obl[o].active}
       IN  /\ obl' = [o \in Outlet |-> IF o \in gone THEN NoObligation ELSE obl[o]]
           /\ origin' = [o \in Outlet |-> IF o \in gone THEN "none" ELSE origin[o]]
    /\ pc' = "check"
    /\ visit' = Sessions \ {job.tank}
    /\ UNCHANGED <<session, job, rst, world, owed, acked, cmds>>

\* Mutant: the other tanks wait for the end of the entry
EntryVisitLater(t) ==
    /\ pc = "check" /\ t \in visit /\ visit' = visit \ {t}
    /\ UNCHANGED <<durable, pc, job, rst, world, history>>

\* _check_entry_deadlines, first part: another tank's restoration that is due
\* gets its turn between two writes
EntryVisit(t) ==
    /\ pc = "check"
    /\ t \in visit
    /\ visit' = visit \ {t}
    /\ IF \E o \in Obligated(t) : obl[o].due
       THEN StartRestore(t, Obligated(t), FALSE, "check")
       ELSE UNCHANGED <<pc, rst>>
    /\ UNCHANGED <<durable, job, world, history>>

\* Second part: the window of this tank itself
Expired == \E o \in Obligated(job.tank) : obl[o].active /\ obl[o].due

EntryExpired ==
    /\ pc = "check"
    /\ visit = {}
    /\ Expired
    /\ pc' = "fail"
    /\ UNCHANGED <<durable, job, visit, rst, world, history>>

EntryGoesOn ==
    /\ pc = "check"
    /\ visit = {}
    /\ ~Expired
    /\ job.left # {}
    /\ pc' = "enter"
    /\ UNCHANGED <<durable, job, visit, rst, world, history>>

\* Mutant: the mode is published before its last outlet
ActivateEarly ==
    /\ pc = "check" /\ visit = {} /\ ~Expired /\ pc' = "idle" /\ job' = NoJob
    /\ SetSession(job.tank, job.mode, "active")
    /\ UNCHANGED <<obl, visit, rst, world, history>>

\* Every outlet is confirmed: the mode is published
Activate ==
    /\ pc = "check"
    /\ visit = {}
    /\ ~Expired
    /\ job.left = {}
    /\ SetSession(job.tank, job.mode, "active")
    /\ pc' = "idle"
    /\ job' = NoJob
    /\ UNCHANGED <<obl, visit, rst, world, history>>

\* The sort key: an outlet comes before the pump it requires
EntryTurn(o) ==
    /\ pc = "enter"
    /\ o \in job.left
    /\ \A q \in job.left : Requires[q] # o

Preserve(o) ==
    /\ EntryTurn(o)
    /\ o \notin job.on
    /\ MarkResult(o, "preserved", "none")
    /\ job' = [job EXCEPT !.left = @ \ {o}]
    /\ pc' = "check"
    /\ visit' = Sessions \ {job.tank}
    /\ UNCHANGED <<session, rst, world, history>>

\* mark_intent, then the call
SwitchOff(o) ==
    /\ EntryTurn(o)
    /\ o \in job.on
    /\ obl' = [obl EXCEPT ![o].intent = TRUE, ![o].result = "none"]
    /\ job' = [job EXCEPT !.left = @ \ {o}, !.cur = o]
    /\ pc' = "off_call"
    /\ UNCHANGED <<session, visit, rst, world, history>>

OffConfirmed ==
    /\ pc = "off_call"
    /\ Confirmed(job.cur, "off")
    /\ owed' = [owed EXCEPT ![job.cur] = origin[job.cur] = "on"]
    /\ pc' = "off_ok"
    /\ UNCHANGED <<durable, job, visit, rst, origin, acked, cmds>>

OffUncertain(applied) ==
    /\ pc = "off_call"
    /\ Uncertain(job.cur, "off", applied)
    /\ owed' = [owed EXCEPT ![job.cur] = @ \/ (applied /\ origin[job.cur] = "on")]
    /\ pc' = "fail"
    /\ UNCHANGED <<durable, job, visit, rst, origin, acked, cmds>>

RecordOff ==
    /\ pc = "off_ok"
    /\ MarkResult(job.cur, "off", "none")
    /\ job' = [job EXCEPT !.cur = NoOutlet]
    /\ pc' = "check"
    /\ visit' = Sessions \ {job.tank}
    /\ UNCHANGED <<session, rst, world, history>>

\* The entry or the switch failed: unwind the whole tank at once
Unwind ==
    /\ pc = "fail"
    /\ SetSession(job.tank, "normal", "restoring")
    /\ StartRestore(job.tank, Obligated(job.tank), TRUE, "done")
    /\ UNCHANGED <<obl, job, visit, world, history>>

\* _reject_and_unwind
RejectAndUnwind ==
    /\ pc = "reject"
    /\ session[job.tank].phase \notin {"none", "recovery_required"}
    /\ SetSession(job.tank, "normal", "restoring")
    /\ StartRestore(job.tank, Obligated(job.tank), TRUE, "done")
    /\ UNCHANGED <<obl, job, visit, world, history>>

RejectOnly ==
    /\ pc = "reject"
    /\ session[job.tank].phase \in {"none", "recovery_required"}
    /\ pc' = "idle"
    /\ job' = NoJob
    /\ UNCHANGED <<durable, visit, rst, world, history>>

(* finish_manual_recovery.  The person attending the tank confirms the states  *)
(* the outlets have now; the bridge forgets the session and switches nothing.  *)
FinishManual(t) ==
    /\ pc = "idle"
    /\ Open(t)
    /\ SetSession(t, "normal", "normal")
    /\ rst' = [NoRestoration EXCEPT !.tank = t]
    /\ pc' = "remove"
    /\ owed' = [o \in Outlet |-> owed[o] /\ TankOf[o] # t]
    /\ acked' = acked \cup {t}
    /\ UNCHANGED <<obl, job, visit, world, origin, cmds>>

\* A reading differs from what the person confirmed, or the plan has changed
FinishManualFails(t) ==
    /\ pc = "idle"
    /\ Open(t)
    /\ SetSession(t, "normal", "recovery_required")
    /\ UNCHANGED <<obl, volatile, world, history>>

-------------------------------------------------------------------------------
(* tick: the scheduler thread.                                                 *)

TickStart ==
    /\ pc = "idle"
    /\ Sessions # {}
    /\ pc' = "tick"
    /\ visit' = Sessions
    /\ UNCHANGED <<durable, job, rst, world, history>>

TickUnsafe ==
    /\ pc = "idle"
    /\ Sessions # {}
    /\ ClockUnsafe
    /\ UNCHANGED <<durable, job, rst, world, history>>

\* _clock_safe, unsafe branch, one session
GuardTank(t) ==
    /\ pc = "guard"
    /\ t \in visit
    /\ visit' = visit \ {t}
    /\ SetSession(t, "normal", "restoring")
    /\ StartRestore(t, Obligated(t), TRUE, "guard")
    /\ UNCHANGED <<obl, job, world, history>>

\* A tick goes on; a command is refused
GuardDone ==
    /\ pc = "guard"
    /\ visit = {}
    /\ pc' = IF job.tank = NoTank THEN "tick" ELSE "reject"
    /\ visit' = IF job.tank = NoTank THEN Sessions ELSE {}
    /\ UNCHANGED <<durable, job, rst, world, history>>

\* restart_during_entry, restart_during_switch
TickUnfinished(t) ==
    /\ pc = "tick"
    /\ t \in visit
    /\ visit' = visit \ {t}
    /\ session[t].phase \in {"starting", "switching"}
    /\ SetSession(t, "normal", "restoring")
    /\ StartRestore(t, Obligated(t), TRUE, "tick")
    /\ UNCHANGED <<obl, job, world, history>>

TickPending(t) ==
    /\ pc = "tick"
    /\ t \in visit
    /\ visit' = visit \ {t}
    /\ session[t].phase \in {"restoring", "recovery_required", "normal"}
    /\ StartRestore(t, Obligated(t),
          session[t].phase = "recovery_required" \/ session[t].mode = "normal", "tick")
    /\ UNCHANGED <<durable, job, world, history>>

\* An active session: its registry entries are checked first
TickActive(t) ==
    /\ pc = "tick"
    /\ t \in visit
    /\ visit' = visit \ {t}
    /\ session[t].phase = "active"
    /\ rst' = [NoRestoration EXCEPT !.tank = t, !.back = "tick", !.todo =
                 {o \in Obligated(t) : ~obl[o].due /\ obl[o].result \in {"off", "preserved"}}]
    /\ pc' = "watch"
    /\ UNCHANGED <<durable, job, world, history>>

\* outlet_identity_changed: every outlet is marked, then the phase is stored
TickActiveFails(t) ==
    /\ pc = "tick"
    /\ t \in visit
    /\ visit' = visit \ {t}
    /\ session[t].phase = "active"
    /\ "registry" \in Faults
    /\ Retry(Obligated(t), "identity")
    /\ SetPhase(t, "recovery_required")
    /\ UNCHANGED <<pc, job, rst, world, history>>

\* Then each outlet that should still be off is read
WatchQuiet(o) ==
    /\ pc = "watch"
    /\ o \in rst.todo
    /\ \E r \in Readings(o) : r # "on"
    /\ rst' = [rst EXCEPT !.todo = @ \ {o}]
    /\ UNCHANGED <<durable, pc, job, visit, world, history>>

WatchExternal(o) ==
    /\ pc = "watch"
    /\ o \in rst.todo
    /\ "on" \in Readings(o)
    /\ MarkResult(o, "external", "external")
    /\ rst' = [rst EXCEPT !.todo = @ \ {o}]
    /\ pc' = "hold"
    /\ UNCHANGED <<session, job, visit, world, history>>

Hold ==
    /\ pc = "hold"
    /\ SetPhase(rst.tank, "recovery_required")
    /\ pc' = "watch"
    /\ UNCHANGED <<obl, job, visit, rst, world, history>>

WatchDone ==
    /\ pc = "watch"
    /\ rst.todo = {}
    /\ StartRestore(rst.tank, Obligated(rst.tank), session[rst.tank].mode = "normal", "tick")
    /\ UNCHANGED <<durable, job, visit, world, history>>

TickDone ==
    /\ pc = "tick"
    /\ visit = {}
    /\ pc' = "idle"
    /\ UNCHANGED <<durable, job, visit, rst, world, history>>

-------------------------------------------------------------------------------
(* The environment.                                                            *)

\* The process dies and starts again on the same store
Crash ==
    /\ "crash" \in Faults
    /\ pc # "idle"
    /\ pc' = "idle"
    /\ job' = NoJob
    /\ visit' = {}
    /\ rst' = NoRestoration
    /\ UNCHANGED <<durable, world, history>>

\* The process dies while it marks the outlets it cannot find: some of them are
\* marked, and in a tick the phase is not yet stored
CrashMarking ==
    /\ {"crash", "registry"} \subseteq Faults
    /\ \E marked \in SUBSET Outlet :
           /\ \/ pc = "resolve" /\ marked \subseteq {o \in rst.todo : ~obl[o].wait}
              \/ /\ pc = "tick"
                 /\ \E t \in visit : session[t].phase = "active" /\ marked \subseteq Obligated(t)
           /\ Retry(marked, "identity")
    /\ pc' = "idle"
    /\ job' = NoJob
    /\ visit' = {}
    /\ rst' = NoRestoration
    /\ UNCHANGED <<session, world, history>>

\* A person or another automation operates the outlet
UserSwitch(o) ==
    /\ "external" \in Faults
    /\ phys' = [phys EXCEPT ![o] = IF @ = "on" THEN "off" ELSE "on"]
    /\ shown' = [shown EXCEPT ![o] = phys'[o]]
    /\ owed' = [owed EXCEPT ![o] = FALSE]
    /\ UNCHANGED <<durable, volatile, origin, acked, cmds>>

\* Home Assistant publishes a state it was late with
ViewCatchesUp(o) ==
    /\ shown[o] # phys[o]
    /\ shown' = [shown EXCEPT ![o] = phys[o]]
    /\ UNCHANGED <<durable, volatile, phys, history>>

DeadlinePasses(o) ==
    /\ obl[o].base # "none"
    /\ ~obl[o].due
    /\ obl' = [obl EXCEPT ![o].due = TRUE]
    /\ UNCHANGED <<session, volatile, world, history>>

RetryExpires(o) ==
    /\ obl[o].wait
    /\ obl' = [obl EXCEPT ![o].wait = FALSE]
    /\ UNCHANGED <<session, volatile, world, history>>

-------------------------------------------------------------------------------
RestoreStep ==
    \/ Resolve \/ ResolveFails
    \/ \E o \in Outlet : \/ SkipOutlet(o) \/ FoundRestored(o) \/ HoldOutlet(o)
                         \/ FoundSwitched(o) \/ RestoreUnknown(o)
                         \/ PumpNotRestored(o) \/ RestoreOutlet(o)
    \/ RestoreConfirmed
    \/ \E applied \in BOOLEAN : RestoreUncertain(applied)
    \/ RecordRestored \/ RecordRestoreFailed
    \/ SwitchRestored \/ EndSession \/ RemoveSession \/ KeepSession

Command ==
    \E t \in Tank :
        \/ \E m \in Mode, sel \in Profiles : AcceptTemporary(t, m, sel)
        \/ AcceptRefused(t) \/ AcceptNormal(t)
        \/ FinishManual(t) \/ FinishManualFails(t)

TemporaryStep ==
    \/ PreflightUnsafe \/ PreflightRefused \/ Preflight
    \/ SameMode \/ BeginSession \/ Trim
    \/ \E t \in Tank : EntryVisit(t)
    \/ EntryExpired \/ EntryGoesOn \/ Activate
    \/ \E o \in Outlet : Preserve(o) \/ SwitchOff(o)
    \/ OffConfirmed
    \/ \E applied \in BOOLEAN : OffUncertain(applied)
    \/ RecordOff \/ Unwind \/ RejectAndUnwind \/ RejectOnly

TickStep ==
    \/ \E t \in Tank : \/ GuardTank(t) \/ TickUnfinished(t) \/ TickPending(t)
                       \/ TickActive(t) \/ TickActiveFails(t)
    \/ \E o \in Outlet : WatchQuiet(o) \/ WatchExternal(o)
    \/ GuardDone \/ Hold \/ WatchDone \/ TickDone

Environment ==
    \/ Crash \/ CrashMarking
    \/ \E o \in Outlet : \/ UserSwitch(o) \/ ViewCatchesUp(o)
                         \/ DeadlinePasses(o) \/ RetryExpires(o)

Handler == RestoreStep \/ TemporaryStep \/ TickStep

Next == Command \/ TickStart \/ TickUnsafe \/ Handler \/ Environment

Spec == Init /\ [][Next]_vars

-------------------------------------------------------------------------------
(* What the executor owes to the tank.                                         *)

\* An outlet the bridge switched off, and nobody has switched since, is still
\* written down as an obligation to switch it on: no crash, failed call, switch
\* of modes or refused command makes the bridge forget it (README: the plan is
\* durable before the first call; restoration survives outages and restarts).
NoForgottenOutlet ==
    \A o \in Outlet : owed[o] => obl[o].base = "on" /\ obl[o].result # "restored"

\* An outlet the bridge itself left off is never mistaken for one that somebody
\* else switched: a hold for attended recovery would leave it off for good.
HoldNeverCoversOwed ==
    \A o \in Outlet : owed[o] => obl[o].error # "external"

\* Only an outlet that was on when the bridge first took it over is ever
\* switched on, however many switches of mode, crashes and retries lie between
\* (test_already_off_outlet_is_never_turned_on,
\* test_switching_modes_preserves_original_baseline).
NeverTurnedOn == pc = "on_call" => origin[rst.cur] = "on"

\* An active mode has dealt with every outlet it selected: an entry that crashed
\* or failed half way never passes for a mode that is running.
ActiveIsEntered ==
    \A o \in Outlet :
        session[TankOf[o]].phase = "active" /\ obl[o].active /\ ~obl[o].due
            => obl[o].result # "none"

\* An obligation leaves the store only restored, or because an attended recovery
\* acknowledged its tank (remove_inactive_obligations, remove_session).
ObligationsLeaveRestored ==
    [][\A o \in Outlet :
          obl[o].base # "none" /\ obl'[o].base = "none"
              => obl[o].result = "restored" \/ TankOf[o] \in acked]_vars

\* No step leaves a dependent outlet running on a pump that is off, unless it
\* was running so before: the entry stops the dependent first, the restoration
\* starts the pump first (test_pump_restore_failure_blocks_heater_...,
\* test_plan_is_durable_before_first_ha_write_and_heater_stops_first).
DependentNeverAlone ==
    [][\A o \in Outlet :
          LET Alone(p) == Requires[o] # NoOutlet /\ p[o] = "on" /\ p[Requires[o]] = "off"
          IN  Alone(phys') => Alone(phys)]_vars

-------------------------------------------------------------------------------
(* Fairness: the handler that holds the lock runs on and the scheduler thread  *)
(* wakes up; deadlines and retry delays end.  Of Home Assistant it is only     *)
(* assumed that a call or a reading tried again and again succeeds sometimes.  *)
Fairness ==
    /\ WF_vars(Handler)
    /\ WF_vars(TickStart)
    /\ WF_vars(\E o \in Outlet : DeadlinePasses(o))
    /\ \A o \in Outlet : /\ WF_vars(RetryExpires(o))
                         /\ SF_vars(o \in rst.todo /\ Runnable(o) /\ Resolve)
                         /\ SF_vars(FoundRestored(o) \/ RestoreOutlet(o))
                         /\ SF_vars(rst.cur = o /\ RestoreConfirmed)

FairSpec == Spec /\ Fairness

\* Every temporary mode ends: whatever calls fail, the tank returns to normal
\* and the session is removed.
EveryModeEnds == \A t \in Tank : Open(t) ~> ~Open(t)

-------------------------------------------------------------------------------
(* The executor implements the promise of OutletPromise: a baseline is the     *)
(* column of the obligation, and an outlet is settled when its obligation is   *)
(* recorded as restored.  The outlets, the debts and the acknowledged tanks    *)
(* are the variables of the same name.                                         *)
Baselines == [o \in Outlet |-> obl[o].base]
Settlements == [o \in Outlet |-> obl[o].result = "restored"]

Promise == INSTANCE OutletPromise WITH base <- Baselines, settled <- Settlements

\* Every transaction, call, crash and fault is one of the steps OutletPromise
\* allows, or none of them: a baseline is never overwritten, no outlet is
\* switched that is not written down, none is settled or struck out while the
\* bridge owes it.  (Not where Home Assistant may be late: see StaleSwitch.)
PromiseKept == Promise!Spec
===============================================================================
