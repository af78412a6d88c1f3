# Waterlog Bridge: TLA+ models, model checking and proofs

The Waterlog Bridge is a Home Assistant app.  It samples sensors and uploads
them to Waterlog (telemetry), and it executes tank modes: on a command from
Waterlog it switches selected outlets of an aquarium off for a limited time and
puts each back on afterwards (control).  This directory models both parts in
TLA+, checks the models with TLC and proves most of their safety properties with
TLAPS.  Paths below are relative to
`src/waterlog-bridge/src/waterlog_bridge/` of the repository.

## 1. Inventory

### Components, their state and their operations

| Component | State | Operations |
| --- | --- | --- |
| Tank-mode executor, `control_service.py` | one lock; locals of the running handler | `accept` (`_temporary`, `_normal`, `_finish_manual`, `_reject_and_unwind`), `tick`, `_clock_safe`, `_restore`, `_restore_items`, `exchange_once` |
| Control store, `control_store.py` | `control.sqlite3`: sessions, obligations, commands, report outbox, recovery tanks, configuration, inventory | one transaction per method |
| Switch client, `home_assistant_control.py` | none | `state`, `set_state` (call, then poll for the confirmation) |
| Cloud exchange, `control_client.py`, `control_models.py` | none | one request, one validated reply |
| Registry discovery, `ha_registry.py` | none (the pins are in the control store) | finds the pinned entities again, or fails as a whole |
| Telemetry outbox, `queue.py` | `waterlog-bridge.sqlite3`: outbox rows, last fingerprint of each stream | enqueue, select due, acknowledge, quarantine, retry, enforce limits |
| Uploader, `uploader.py` | none | one batch, one reply, settled item by item |
| Telemetry service, `service.py` | two timers, `auth_blocked` | poll, enforce limits, upload |
| Entry point, `main.py` | installation identity file | starts the telemetry thread, then the executor |
| Sensors `home_assistant.py`, `config.py`, `http.py`, `logging_utils.py`, blueprint, packaging | none | parsing, validation, I/O |

### How they interact

Waterlog's commands come with the replies of `exchange_once`; `accept` and the
scheduler thread's `tick` exclude each other by `_state_lock`, and both drive
outlets through the switch client and write what they do to the store, one
transaction at a time.  The telemetry thread shares nothing with them: it has
its own database, its own connection and its own credential.

### What is hard

* **Crashes between two steps.**  A handler makes many transactions and calls;
  only the store survives.  The executor must find its way from any prefix.
* **Uncertain calls.**  A switch call that raises may have been applied.
* **Late views.**  Home Assistant may show a state it no longer has.
* **Other people.**  Somebody may operate an outlet at any moment.
* **One lock, several tanks.**  An entry waits for confirmations while other
  tanks' deadlines pass.
* **Order between outlets.**  A heater must not run without its pump.
* **Lost replies.**  Waterlog may take reports or rows whose reply never arrives,
  and deliver a command again, late, or in another order.
* **A lost store.**  The installation identity may survive the database: report
  numbers start again and open sessions are gone while their outlets are off.
  The bridge keeps no list of them; it learns the tanks from Waterlog, which
  knows a session only from its reports.
* **Names that change.**  The owner may rename switches, exchange their names or
  replace a device between any two looks of the bridge.
* **Edges instead of states.**  A stream status is sent when it changes, so the
  one copy of an edge must not be lost.

What makes each part correct is stated in section 4; `PROJECT.json` lists the
hazards at their lines, those no property catches included, with the reason.

## 2. Modules

| Module | Models | Extends |
| --- | --- | --- |
| `OutletPromise` | what the owner of an outlet may rely on: the abstract specification of the executor | |
| `TankModes` | executor, control store, switch client: sessions, obligations, outlets | |
| `EntryService` | `TankModes` with an observer of who waits during an entry | `TankModes` |
| `ControlExchange` | executor, control store, exchange: commands, reports, lost stores | |
| `Registry` | discovery, the inventory, and the resolution of plans and obligations | |
| `Outbox` | the transactions of `queue.py` | |
| `Telemetry` | `service.py` and `uploader.py` on the outbox | `Outbox` |
| `MCTankModes`, `MCTwoTanks`, `MCControlExchange`, `MCRegistry`, `MCTelemetry` | instances for TLC | the above |
| `TankModesProofs`, `TankPromiseProofs`, `TankEntryProofs` | theorems about `TankModes` and, in the last, `EntryService`; each extends the one before | `TankModes`, `TLAPS` |
| `ControlExchangeProofs`, `ControlRecoveryProofs`, `ControlAnswerProofs` | theorems about `ControlExchange`: reports, lost sessions, results; each extends the one before | `ControlExchange`, `TLAPS` |
| `RegistryProofs`, `TelemetryProofs` | theorems about these modules | the module, `TLAPS` |

The executor is cut along what its properties are about, because a product of
the three parts is out of TLC's reach: `TankModes` has the outlets and leaves the
reports out, `ControlExchange` has commands and reports and knows of an entry
only that it succeeds or fails, of a restoration only whether it is complete.
Both contain every handler.  `Registry` has the names by which a handler drives
an outlet, which the other two take for granted.

### TankModes

The store is `session` (mode and phase of a tank; phase `none` means no row) and
`obl` (the obligation of an outlet; base `none` means no row).  The columns that
decide anything are kept: baseline, intent, result, error, `active_in_next`;
`deadline` and `retry_at` become the flags `due` and `wait`, which the
environment sets and clears (`DeadlinePasses`, `RetryExpires`).  The running
handler is `pc` and the locals `job` (`_temporary`), `visit` (a loop over
sessions) and `rst` (`_restore`, `_restore_items`); there is one, because of the
lock.  `phys` is what an outlet does, `shown` what Home Assistant says.

Every transaction and every switch call is a step of its own, so `Crash` may
fall between any two.  Steps that neither write nor call are merged with the
next one.  `_restore_items` is shared by six callers; `rst.back` says which one
goes on.

| Actions | Code |
| --- | --- |
| `AcceptTemporary` to `BeginSession` | `accept`, first half of `_temporary` |
| `Trim`, `EntryVisit` to `RecordOff`, `Activate`, `Unwind` | the switch and entry loops of `_temporary`, `_check_entry_deadlines` |
| `AcceptNormal`, `AcceptRefused`, `RejectAndUnwind`, `RejectOnly` | `_normal`, `_reject_and_unwind` |
| `FinishManual`, `FinishManualFails` | `_finish_manual` for a tank with a session |
| `TickStart` to `TickDone`, `GuardTank`, `GuardDone` | `tick`, `_clock_safe` |
| `Resolve` to `KeepSession` | `_restore_items`, `_restore` |
| `Crash`, `CrashMarking`, `UserSwitch`, `ViewCatchesUp`, `DeadlinePasses`, `RetryExpires` | environment |

The environment may misbehave as far as the constant `Faults` says: `crash`,
`external` (somebody switches an outlet), `stale` (late views after an uncertain
call), `registry`, `read`, `write` (a call raises, applied or not), `clock`.

History variables: `owed` (the bridge switched the outlet off although it was on
when first taken over, and neither the bridge nor anybody else has switched it
since), `origin` (its state at that time), `acked` (an attendant acknowledged
the tank), `cmds` (bounds the commands of each tank).

Abstractions, and why they are sound for what is checked:

* The order of outlets is any order that respects the dependencies; the sort
  keys of the code pick one of these.
* `Requires` is acyclic (an assumption of the module): the code turns a cycle
  into an error it retries for good, which is listed as a hazard.
* `ResolveFails` and `TickActiveFails` mark all their targets in one step, the
  latter with the phase of the session; the code uses one transaction an outlet
  (`_retry`) and one for the phase (`control_service.py:738-740`).  The crash in
  between is an action of its own, `CrashMarking`: any part of the targets is
  marked, and the phase is not stored.
* A confirmed `set_state` has been applied.  The code believes the published
  state; `stale` covers views that are late after calls that raised.
* The mark of the intent or of the pending restoration and the call after it are
  two steps; the reading before them belongs to the first.

### OutletPromise

Seven actions without sessions, phases, retries or calls: an outlet is written
down before it is touched and its baseline stays (`Plan`), switched off or on
only as written down (`TurnOff`, `TurnOn`), settled when nothing is owed
(`Settle`), struck out when settled or acknowledged (`Release`); a person takes a
tank over (`Acknowledge`) or operates an outlet (`Outside`).  `TankModes` maps
`base` to the baseline column of the obligations and `settled` to "recorded as
restored" (`Baselines`, `Settlements`); `phys`, `owed` and `acked` are the
variables of the same name.  `PromiseKept` is the refinement.

### ControlExchange

The store is `session` (with the command it started with, the command that owns
it and the number of its last report), `status` (the table of commands),
`outbox` and `sequence` (the report outbox and its counter), `flag` and
`recovery` (`recovery_required` and `recovery_tanks`) and `config` (the installed
revision).  `todo` is what the handler that holds the lock has still to do: a
sequence of transactions, and of calls that are replaced by the transactions
they turn out to make.  One is done in a step, so `Crash` falls between any two;
an exception cuts `todo` off as it unwinds the call stack.  `wire` is the request
or reply under way: a request is composed under the lock and posted outside it,
so ticks run before the reply is applied.

| Actions | Code |
| --- | --- |
| `RecordCommand` to `InstallConfig` | one transaction each of `control_store.py` |
| `Unreadable` to `FinishRefused` | `accept`, `_temporary`, `_normal`, `_reject_and_unwind`, `_finish_manual` |
| `RestoreComplete`, `RestorePending`, `RestoreLater` | `_restore`, as far as it reports |
| `Tick` to `VisitPending` | `tick`, `_clock_safe` |
| `Serve`, `ReplyLost`, `Apply` | `exchange_once` |
| `LoseStore` | `local_state_missing` and the start in `main.py` |

Waterlog is external: `received`, `floor`, `newest` (the newest report of a
tank), `answered`, `atRisk` (tanks whose recovery it awaits) and `token` (the
report a person acknowledged).  It delivers any commands it has no answer to, in
any order and number, with any configuration; what it derives from reports is
what the code of the bridge relies on (a floor above all reports received, the
tanks to recover after a number below the floor).  `life` counts the stores, and
stands with the number for the id of a report.  `LoseStore` includes the crash
between the creation of the new store and the commit of the flag.

`orphaned` (history) holds the tanks that lost an open session *which Waterlog
had on report* (`OnReport`: the newest report of the tank shows it open) and have
not been attended since.  Other sessions do not count, because the code does not
guard them: `main.py:123-125` sets one flag that names no tank, and the first
reply in which Waterlog names none clears it (`control_store.py:482-483`).  With
`OnReport` taken to be every open session TLC finds both properties of `orphaned`
violated; the disagreements of section 4 say how.

Abstractions: an entry succeeds or fails; a restoration is complete or not; a
tick that finds several outlets switched by somebody reports once for each
(`VisitSwitched`, `VisitSwitchedAgain`), within `MaxReports`; composing and
serving a request is one step, and Waterlog and the attendant act only between
two handlers, because neither reads anything the other writes in between.
`First` picks the tank a loop visits next: the code sorts them.

### Registry

`registry` (Home Assistant's entries: name, device, enabled), `hints` (the
options), `running`, `pinned` (the inventory), `told` (what Waterlog may name in
a command), `owing` (the obligations, with identity and route) and `call` (the
entry a handler is about to switch, and by which name); `moved` says that the
registry has changed since that handler looked.  `Expected` and `Found` are the
rules of `discover_allowlisted`, `Discoverable` the keys of `local_inventory`.
The owner renames, exchanges, disables, replaces, removes and adds entries and,
between two runs of the app, edits the options.  A discovery is one read; an
outlet is an identity, of which `device` is everything beside the id of the
entry.

### Outbox and Telemetry

A row never changes but for the retry time and the quarantine mark; it is a
record, and membership of `waiting` and `held` says the rest.  Rows are ordered
by their `AUTOINCREMENT` id.  `health` is the table of fingerprints.  Each
method of `DurableQueue` is one operator, and each step of `Telemetry` one of
them or one half of a request.  A batch is sent as two arrays and an answer
names an item by array and index (`Position`, `Resolved`).

`WaterlogStores` lets Waterlog store any part of a batch before the reply; the
reply may then be lost or unreadable, or answer each item.  An honest Waterlog
acknowledges only what it has.  `upload` and `pollDue` stand for the two timers
of `run`; the rows retried last become due with the timer that was set to their
retry time (`backoff`).  History: `stored` (what Waterlog has), `lost` (what the
limits deleted).

Abstractions: streams are read in any order; unusable readings have one
fingerprint besides that of an unreachable Home Assistant; the clock does not
step back, so that expired rows are the oldest; delays are timers.

## 3. Bounds and fairness

| Run | Instance | Faults | Bound |
| --- | --- | --- | --- |
| `Crash` | pump and heater that requires it, two modes | crash, registry, read, write, clock | 2 mode commands |
| `External` | the same | crash, external, write | 2 mode commands |
| `StaleView` | two tanks of one outlet, one mode | crash, stale, write | 1 in each tank |
| `TwoTanks` | two outlets in one tank, one in the other | write | 1 in each tank |
| `Ends` | pump and heater, one mode | registry, read, write | 1 |
| `StaleSwitch` | as `Crash` | stale, write | 2 |
| `Exchange` | one tank: a mode, a Normal, a finish | crash, network, garbled, clock | one command a reply, 2 reports besides, 1 lost store |
| `Tanks` | a mode in each of two tanks, a finish in one, one command needs a configuration | network, registry | two commands a reply, 1 report besides, 1 lost store |
| `Answers` | two modes and a Normal in one tank | network | one command a reply |
| `Registry` | two entries, two devices, three names | (all changes of the owner) | 3 changes of the registry |
| `Outage` | one stream, cap 3, batches of 2 | crash, age, network, malformed, denied | 2 polls |
| `Delivery` | two streams, cap 2, batches of 1 | age, network, garbled, malformed | 1 poll |

`MaxCommands` bounds the mode commands of each tank.  Two are what a switch of
modes takes (`begin_session` on an open session), with carried, kept and new
outlets since the profiles differ; ticks, crashes, retries and faults are not
bounded.  Two outlets are what a dependency takes.  In `ControlExchange` each
command is issued once but delivered until it is answered; `MaxReports` stops
the reports nobody's command asks for (progress, an unsafe clock, a crash) once
the counter has reached it, so that the counter is finite; `MaxLosses` of 1 gives
two lives of the store, and a second set of the same numbers.  `BatchLimit` is
below the number of reports in `Exchange` and `Tanks`, so that a request leaves
reports behind.  Three changes of the registry exchange two names over a third
or replace a device behind a name.  A poll of one stream writes up to three
rows, so a second poll overflows a cap of 3 and a batch of 2 leaves a row behind.
Modes, outlets of one tank, entries, devices and names are symmetric where no
property or constant tells them apart; no liveness run uses symmetry.

Deadlock is checked in `Registry`, whose app can always be stopped or
reconfigured.  It is not in the other configurations: with the bound on commands,
reports or polls used up and nothing left to restore or to send, the models stop,
where the program idles.

Fairness:

* `Ends`: the handler that holds the lock goes on and the scheduler thread wakes
  up (`WF`), deadlines pass and backoffs end (`WF`); of Home Assistant only that
  a registry lookup, a usable reading and a confirmation for an outlet that is
  tried again and again succeed sometimes (`SF`).  Commands need no fairness.
* `Answers`: a handler goes on (`WF`); scheduler and exchange get the lock in the
  end (`SF`, because each may find it taken again and again); an entry or a
  restoration tried again and again ends; a reply gets through in the end, and
  Waterlog delivers a command until it knows the result.
* `Delivery`: the telemetry thread runs on and time passes (`WF`); Waterlog, asked
  again and again, sometimes stores a batch and answers all of it (`SF`).  The
  fault `denied` is excluded there: uploads stop by design until a restart.

## 4. What is checked

Tank modes:

* `NoForgottenOutlet`: an outlet the bridge switched off, and nobody has
  switched since, is an unrestored obligation in the store.
* `ObligationsLeaveRestored`: an obligation leaves the store only restored or
  acknowledged by an attendant.
* `ActiveIsEntered`: an active mode has dealt with all its outlets.
* `DependentNeverAlone`: no step starts a dependent outlet on a stopped pump or
  stops the pump under it.
* `NeverTurnedOn`: an outlet that was off when the bridge first took it over is
  never switched on, across any sequence of modes.
* `HoldNeverCoversOwed`: an outlet the bridge left off is never held as
  somebody else's change.
* `PromiseKept`: every step is one of `OutletPromise`, or a stutter.
* `EntryServesOthers`: a long entry gives every overdue outlet of another tank a
  turn between two of its writes.
* `EveryModeEnds`: every mode ends, in spite of failed calls and outages.  A hold
  for an outlet somebody else switched waits for a person and is not in this run.

Commands and reports:

* `ReportsSurvive`: every number given out is in the outbox or at Waterlog.
* `NumbersUnique`: a number stands for one report, across a lost store.
* `NoGaps`: Waterlog never has a report without those before it.
* `ReportedSessionsGuarded`: a tank that lost with the store an open session
  Waterlog had on report begins no mode until that very tank has been attended.
  Sessions lost before their first report arrived are not covered, nor guarded
  by the code (see the disagreements below).
* `OrphansBlock`: until then the bridge knows that recovery is required; of a
  session that was not on report it knows only until the first reply.
* `FinishSeesLatest`: who finishes a recovery has seen the last report of that
  session.
* `CompletedWasActive`: a mode is reported as completed only if it was active
  (without crashes; see below).
* `EveryCommandAnswered`: Waterlog learns the result of every mode command that
  is not superseded.

Registry:

* `DrivesPinned`: a call reaches the device its obligation was written for.
* `HintsStick`: a configured name that stays never comes to mean another outlet.
* `BaselineKeepsDevice`: a recorded baseline never passes to another device.
* `RenamesNeverBlock`: renaming, even exchanging names, never makes discovery
  fail.

Telemetry:

* `NothingVanishes`: every id ever given is in the outbox, at Waterlog or among
  the rows the limits dropped.
* `CurrentEdgeKept`: while a fingerprint is remembered, the newest edge of the
  stream carries it and is in the outbox or at Waterlog.
* `CapHolds`: between polls the outbox is within its cap, plus the one event of
  a denied credential.
* `DropIsLoud`: as long as the process lives, dropped rows have a newer event.
* `EveryItemSettles`: no row stays pending forever, as long as Waterlog in the end
  takes what it is sent (a batch refused for good is a hazard of its own).

Each property of a passing run has a mutant of the code it fails for; most of
the mutated definitions stand beside the originals and are marked as such.

### Disagreements between the code and its documents

One is a run that TLC finds violated:

* `StaleSwitch`: `begin_session` (`control_store.py:267`) resets the intent,
  result and error of carried obligations.  A switch of modes after an
  uncertain restoration then accepts a late reading, and the outlet is dropped
  while it is off.  CHANGELOG.md:17-18 promises the contrary.  Without a switch
  of modes the promise holds under late views (`StaleView`).

Five more were met while modelling.  No run is devoted to them; they are the
reason why a passing run leaves out a fault, a property or a case:

* A session may be lost with the store before its first report has reached
  Waterlog: an entry reports nothing before it ends, which takes seconds for each
  outlet.  The flag of `main.py:123-125` names no tank, the first reply names none
  either and clears it (`control_store.py:482-483`), and the command, delivered
  again, begins the mode anew and takes what the lost entry left off for the
  baseline, against README.md:36-38 of the app ("persists each affected Aquarium
  separately").  No other fault is needed.  Which tanks Waterlog names is external:
  it is modelled as naming those its newest reports show open, which is all the
  bridge has told it.  `ReportedSessionsGuarded` and `OrphansBlock` leave these
  sessions out.
* The heater starts after its pump's restoration failed, when Home Assistant
  still shows the pump on (`control_service.py:562`), against
  `tests/test_control.py:262-315`; `DependentNeverAlone` is checked without late
  views.
* A crash between the transactions of an attended recovery
  (`control_service.py:703` and `715`) lets the next tick switch outlets on,
  against README.md:38-39 of the app.
* A crash between `enforce_limits` and the event (`service.py:146`, `154`) loses
  rows silently, against DOCS.md:75-76; `DropIsLoud` is checked without crashes.
* A restart during an entry unwinds the mode and then reports its command as
  completed (`control_service.py:588-591`), against CHANGELOG.md:35-36;
  `CompletedWasActive` is checked without crashes.

## 5. What is proved

For any tanks, outlets, modes, acyclic dependencies, profiles, commands,
entries, streams and bounds.  The only assumptions are the named ones of the
modules (`ConstantsAssumption`, `ExchangeAssumption`, `RegistryAssumption` and
those of `Outbox` and `Telemetry`), which TLC evaluates in every run.

| Module | Theorem | Statement |
| --- | --- | --- |
| `TankModesProofs` | `TypeCorrect` | `Spec => []TypeOK` |
| | `BaselinesHonoured` | `Spec => []NeverTurnedOn` |
| | `ObligationsStay` | `Spec => ObligationsLeaveRestored` |
| | `NothingForgotten` | without `stale`: `Spec => []NoForgottenOutlet` |
| `TankPromiseProofs` | `PromiseImplemented` | without `stale`: `Spec => PromiseKept` |
| `TankEntryProofs` | `EntriesAreWhole` | `Spec => []ActiveIsEntered` |
| | `HoldsAreOthersDoing` | without `stale`: `Spec => []HoldNeverCoversOwed` |
| | `PumpsComeFirst` | without `stale` and `external`, and `Closed`: `Spec => DependentNeverAlone` |
| | `OthersAreServed` | `ServiceSpec => EntryServesOthers` |
| `ControlExchangeProofs` | `ExchangeTypeCorrect` | `Spec => []ExchangeTypeOK` |
| | `ReportsAreDurable` | `Spec => []ReportsSurvive` |
| | `NumbersNameOneReport` | `Spec => []NumbersUnique` |
| | `ReportsArriveInOrder` | `Spec => []NoGaps` |
| `ControlRecoveryProofs` | `ReportedSessionsWait` | `Spec => ReportedSessionsGuarded` |
| | `OrphansAlwaysBlock` | without `crash`: `Spec => []OrphansBlock` |
| | `FinishIsInformed` | `Spec => FinishSeesLatest` |
| `ControlAnswerProofs` | `CompletedModesWereActive` | without `crash`: `Spec => []CompletedWasActive` |
| `RegistryProofs` | `RegistryTypeCorrect` | `Spec => []RegistryTypeOK` |
| | `CallsDrivePinned` | `Spec => []DrivesPinned` |
| | `NamesKeepOutlets` | `Spec => HintsStick` |
| | `BaselinesKeepDevices` | `Spec => BaselineKeepsDevice` |
| | `RenamesAreHarmless` | `Spec => []RenamesNeverBlock` |
| `TelemetryProofs` | `TelemetryTypeCorrect` | `Spec => []TelemetryTypeOK` |
| | `RowsAreAccountedFor` | `Spec => []NothingVanishes` |
| | `FingerprintsAreBacked` | `Spec => []CurrentEdgeKept` |
| | `DropsAreTold` | without `crash`: `Spec => []DropIsLoud` |
| | `OutboxIsCapped` | `Spec => []CapHolds` |

Where no fault is excluded the theorem holds under all of them.  The exclusions
are needed: `StaleSwitch` is the counterexample to `NothingForgotten` without
its hypothesis, and the disagreements above are those to the others, but for
`OrphansAlwaysBlock`: a process that dies between the creation of a new store and
the commit of the flag starts again without it, and requires recovery only when
the first reply to the new store tells it so.  `ReportedSessionsWait` and
`OrphansAlwaysBlock` are about the sessions Waterlog had on report when the store
was lost, and about no other: without that restriction neither holds.
`Closed`
says that a profile which stops a pump stops what depends on it.  The code does
not check it: `_temporary` (`control_service.py:325`) looks at the pumps of
selected outlets, never at the dependents of a selected pump, so this is left to
whoever composes the profiles.  The instances of the runs satisfy it.

The arguments:

* **Executor.**  None of the properties is inductive.  `StoreInv` strengthens
  `TypeOK` by what the handlers rely on: the baseline in the store is the state
  `origin` recorded (`BaselineInv`); while a restoration counts as complete,
  every outlet in its scope that it has visited is restored (`RestoreInv`); a
  call to switch on is for an outlet whose baseline is "on" (`CallInv`); what is
  trimmed or removed is restored, or its tank acknowledged (`TrimInv`,
  `RemoveInv`).  `OwedInv` adds that Home Assistant shows what the outlets do and
  that an owed outlet is off, has baseline "on" and is not restored.
* **Refinement.**  `EntryInv`: while a handler switches outlets off, each one it
  has still to switch is an obligation of its tank, although the lock lets
  restorations of other tanks run, and end, in between.  Then every action is
  shown to be one action of `OutletPromise` or a stutter.
* **Entry.**  `ScopeInv` keeps the restorations an entry lets run on other tanks,
  and the one a switch begins with on outlets the new mode leaves alone;
  `SelectInv` keeps what was selected planned.  What the entry has behind it is
  then recorded (`DealtInv`), never held (`HoldInv`) and off (`OffInv`).  Only
  `Preserve` and a confirmed call put an outlet behind it (`LeavesAhead`).
  `TurnInv`: an outlet that was overdue at the last write is in a tank the loop
  has still to visit or is restoring; none is left when the next write begins.
  It rests on `HeldInv`: the tank of an obligation has a session, so the loop,
  which goes over sessions, does not pass it by.
* **Reports.**  `NumberInv`: the outbox holds numbers of this life only, and
  while the counter is below Waterlog's floor there is no session, nothing in the
  outbox, and the next thing a handler does is to raise the counter.  `FlowInv`
  says that what is to be done and what is on the wire came from Waterlog.
* **Lost sessions.**  `RecoveryInv` follows a tank whose open session went with
  the store while Waterlog had it on report.  Waterlog awaits its recovery, or will with the first request of the
  new store, which comes before anything else (`LostInv`); no report waiting to be
  sent, no reply under way and nothing the handler has still to do lets go of the
  tank (`WorkInv`), and a reply's list of such tanks is taken in before its
  commands are accepted (`OrderInv`).  For a finish, the session that is open made
  the newest report of its tank (`LastInv`), and the command that is about to be
  recorded as completed names it (`FinishInv`).
* **Results.**  `SessionInv`: the mode of an open session was active, or its
  command has failed, or the rest of its entry is still to be done and nothing
  before it touches the tank.  `PendingInv` says the like of each operation that
  is still to be done: a refusal comes before anything is recorded of its command,
  a session passes only to a command that failed or a mode that is active, a
  completion is recorded after or right before the activation.  A crash breaks
  `SessionInv` by cutting the entry off, which is the disagreement above.
* **Registry.**  The names of the registry, the pinned rows and the devices owed
  are unique, so a pin determines a row of a discovery.
* **Telemetry.**  `BatchInv`: what a verdict accepts Waterlog has.  The rows that
  the limits delete are the oldest; that a finite outbox has an oldest row is
  proved from the well-foundedness of finite subsets.

TLC checked the inductive invariants on the instances of the runs first.

Every invariant and every action property of the passing runs is stated by one of
these theorems.  Only model-checked are the liveness properties (`EveryModeEnds`,
`EveryCommandAnswered`, `EveryItemSettles`), which are out of the prover's reach
as is everything about `ENABLED`.

## 6. Not modelled, and what is left

* The arithmetic of the clock guard (`control_service.py:131`): it may fire at
  any time, which covers what it does but not when it should.
* Cycles of `requires_pump_outlet_id`: assumed away, listed as a hazard.
* The validation of single fields in `control_models.py` and of the options in
  `config.py`: pure checks without state; their outcomes (accepted, or an
  exception that ends the loop) are inputs of the modules.
* `home_assistant.py`: the parsing of one reading, whose three outcomes are
  inputs of `Telemetry`.
* `http.py`, `logging_utils.py`, record types, schema migration, the file lock and
  the integrity check of the store, packaging: I/O or once at start.
* The HYDROS blueprint: an automation that Home Assistant runs.

Worth doing next: a composition of `TankModes` with `Registry`, in which an outlet
is driven by a name that the owner may give to another device between the look
and the call; and theorems about `OutletPromise` itself, which `PromiseKept` would
carry over to the executor.
