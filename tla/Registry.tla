------------------------------- MODULE Registry -------------------------------
(* How the bridge finds its outlets (ha_registry.py, main.py, and              *)
(* _resolve_plan and _resolve_obligations of control_service.py).              *)
(*                                                                             *)
(* The app options list switches by entity id, a name that its owner may edit  *)
(* at any time, exchange with another switch's or give to a new device.  The   *)
(* bridge pins what it first finds behind a name to the registry identity of   *)
(* the entry, keeps the pins in SQLite, and drives an outlet by the name its   *)
(* pinned entry has in a registry list it has just read.                       *)
EXTENDS Naturals, FiniteSets

CONSTANTS
    Entry,      \* ids of registry entries; an outlet id is derived from one
    Device,     \* the rest of an identity: device, integration, unique id
    Name,       \* entity ids
    NoName,     \* the name of an entry that is not in the registry
    NoCall,     \* no switch call is under way
    MaxChanges  \* bound on the changes to the registry

ASSUME RegistryAssumption ==
    /\ NoName \notin Name
    /\ MaxChanges \in Nat

VARIABLES
    registry,   \* Home Assistant's entity registry
    hints,      \* control_entities of the app options
    running,    \* the control service is up
    pinned,     \* local_inventory in SQLite, and the service's copy of it
    told,       \* the outlets Waterlog has been told of
    owing,      \* obligations: the identity and the route of an outlet
    call,       \* the entry a handler is about to switch, and by which name
    moved,      \* the registry has changed since that handler read it
    changes     \* counts the changes, for MaxChanges

bridge == <<running, pinned, told, owing, call>>
vars == <<registry, hints, bridge, moved, changes>>

Row == [hint : Name, entry : Entry, device : Device, name : Name]
Pin == [entry : Entry, device : Device]
Route == [pin : Pin, name : Name]

RegistryTypeOK ==
    /\ registry \in [Entry -> [name : Name \cup {NoName}, device : Device, enabled : BOOLEAN]]
    /\ hints \in (SUBSET Name) \ {{}}
    /\ running \in BOOLEAN
    /\ pinned \subseteq Row
    /\ \A r, s \in pinned : r.hint = s.hint \/ r.entry = s.entry => r = s
    /\ told \subseteq Pin
    /\ owing \subseteq Route
    /\ call \in Route \cup {NoCall}
    /\ moved \in BOOLEAN
    /\ changes \in 0..MaxChanges

Exists(e) == registry[e].name # NoName
Taken(n) == \E e \in Entry : registry[e].name = n

Init ==
    /\ registry \in [Entry -> [name : Name \cup {NoName}, device : Device, enabled : {TRUE}]]
    /\ \A e, f \in Entry : Exists(e) /\ registry[e].name = registry[f].name => e = f
    /\ hints \in (SUBSET Name) \ {{}}
    /\ running = FALSE
    /\ pinned = {}
    /\ told = {}
    /\ owing = {}
    /\ call = NoCall
    /\ moved = FALSE
    /\ changes = 0

-------------------------------------------------------------------------------
(* discover_allowlisted.                                                       *)

PinOf(row) == [entry |-> row.entry, device |-> row.device]

\* Mutant: the name a row had last counts before the name it was configured by
ExpectedByName(h) ==
    LET named == {r \in pinned : r.name = h}
    IN  {PinOf(r) : r \in IF named # {} THEN named ELSE {s \in pinned : s.hint = h}}

\* The identity a hint is pinned to: by the name it was configured under, by
\* the name its entry had last, or by the identity of the entry it names now
Expected(h) ==
    LET configured == {r \in pinned : r.hint = h}
        named == {r \in pinned : r.name = h}
        same == {r \in pinned : registry[r.entry].name = h /\ registry[r.entry].device = r.device}
    IN  {PinOf(r) : r \in IF configured # {} THEN configured
                          ELSE IF named # {} THEN named ELSE same}

\* Mutant: an entry that was given another device is still the outlet
FoundAnyDevice(h) ==
    {e \in Entry : Exists(e) /\ registry[e].enabled /\
        IF Expected(h) = {} THEN registry[e].name = h ELSE \E p \in Expected(h) : p.entry = e}

\* The entry behind a hint; without one the whole discovery fails
Found(h) ==
    {e \in Entry :
        /\ Exists(e)
        /\ registry[e].enabled
        /\ IF Expected(h) = {}
           THEN registry[e].name = h
           ELSE [entry |-> e, device |-> registry[e].device] \in Expected(h)}

Discovered ==
    UNION {{[hint |-> h, entry |-> e, device |-> registry[e].device, name |-> registry[e].name] :
            e \in Found(h)} : h \in hints}

\* Mutant: the rows are written one over the other
DiscoverableTwice == \A h \in hints : Found(h) # {}

\* Every hint has its entry, and replace_inventory accepts the rows: its keys
\* allow an entry only once
Discoverable ==
    /\ \A h \in hints : Found(h) # {}
    /\ \A r, s \in Discovered : r.entry = s.entry => r = s

\* refresh_control_inventory
Refresh ==
    /\ Discoverable
    /\ pinned' = Discovered

-------------------------------------------------------------------------------
(* The control service.                                                        *)

\* main: the service starts with a fresh inventory, or not at all
Start ==
    /\ ~running
    /\ Refresh
    /\ running' = TRUE
    /\ UNCHANGED <<registry, hints, told, owing, call, moved, changes>>

\* exchange_once sends the inventory as of the last refresh
Report ==
    /\ running
    /\ call = NoCall
    /\ told' = told \cup {PinOf(r) : r \in pinned}
    /\ UNCHANGED <<registry, hints, running, pinned, owing, call, moved, changes>>

\* Mutant: the outlet id alone is compared
ResolvesById(pin) == {r \in Discovered : r.entry = pin.entry}

\* The row of a refreshed inventory an identity is resolved to
Resolves(pin) == {r \in Discovered : PinOf(r) = pin}

\* Mutant: a prior obligation of the outlet is carried over unseen
EnterAnyway(pin) ==
    /\ running /\ call = NoCall /\ Refresh /\ moved' = FALSE
    /\ \E r \in Resolves(pin) :
          /\ owing' = {o \in owing : o.pin.entry # pin.entry} \cup {[pin |-> pin, name |-> r.name]}
          /\ call' = [pin |-> pin, name |-> r.name]
    /\ UNCHANGED <<registry, hints, running, told, changes>>

\* _resolve_plan and begin_session, unless the outlet has an obligation for
\* another device; the handler then switches it off by the name it resolved
Enter(pin) ==
    /\ running
    /\ call = NoCall
    /\ Refresh
    /\ \A o \in owing : o.pin.entry = pin.entry => o.pin = pin
    /\ \E r \in Resolves(pin) :
          /\ owing' = {o \in owing : o.pin # pin} \cup {[pin |-> pin, name |-> r.name]}
          /\ call' = [pin |-> pin, name |-> r.name]
    /\ moved' = FALSE
    /\ UNCHANGED <<registry, hints, running, told, changes>>

\* _resolve_obligations: every obligation is found again, and takes its present
\* name; the restoration drives one of them
Restore(o) ==
    /\ running
    /\ call = NoCall
    /\ Refresh
    /\ \A q \in owing : Resolves(q.pin) # {}
    /\ owing' = {[pin |-> q.pin, name |-> (CHOOSE r \in Resolves(q.pin) : TRUE).name] : q \in owing}
    /\ call' = CHOOSE q \in owing' : q.pin = o.pin
    /\ moved' = FALSE
    /\ UNCHANGED <<registry, hints, running, told, changes>>

\* HomeAssistantControl.set_state has returned; a restored obligation is dropped
Switched(restored) ==
    /\ call # NoCall
    /\ call' = NoCall
    /\ owing' = IF restored THEN {o \in owing : o.pin # call.pin} ELSE owing
    /\ UNCHANGED <<registry, hints, running, pinned, told, moved, changes>>

\* The process ends, for instance to take new options
Stop ==
    /\ running
    /\ running' = FALSE
    /\ call' = NoCall
    /\ UNCHANGED <<registry, hints, pinned, told, owing, moved, changes>>

-------------------------------------------------------------------------------
(* Its owner edits the options and Home Assistant's registry.                  *)

Reconfigure(names) ==
    /\ ~running
    /\ hints' = names
    /\ UNCHANGED <<registry, bridge, moved, changes>>

Change ==
    /\ changes < MaxChanges
    /\ changes' = changes + 1
    /\ moved' = TRUE
    /\ UNCHANGED <<hints, bridge>>

Rename(e, n) ==
    /\ Change
    /\ Exists(e)
    /\ ~Taken(n)
    /\ registry' = [registry EXCEPT ![e].name = n]

SwapNames(e, f) ==
    /\ Change
    /\ Exists(e) /\ Exists(f) /\ e # f
    /\ registry' = [registry EXCEPT ![e].name = registry[f].name,
                                    ![f].name = registry[e].name]

\* The integration is paired anew and its entry gets another device
Rehome(e, d) ==
    /\ Change
    /\ Exists(e)
    /\ registry[e].device # d
    /\ registry' = [registry EXCEPT ![e].device = d]

Toggle(e) ==
    /\ Change
    /\ Exists(e)
    /\ registry' = [registry EXCEPT ![e].enabled = ~@]

Remove(e) ==
    /\ Change
    /\ Exists(e)
    /\ registry' = [registry EXCEPT ![e].name = NoName]

Add(e, n, d) ==
    /\ Change
    /\ ~Exists(e)
    /\ ~Taken(n)
    /\ registry' = [registry EXCEPT ![e] = [name |-> n, device |-> d, enabled |-> TRUE]]

-------------------------------------------------------------------------------
Bridge ==
    \/ Start \/ Report \/ Stop
    \/ \E pin \in told : Enter(pin)
    \/ \E o \in owing : Restore(o)
    \/ \E restored \in BOOLEAN : Switched(restored)

Owner ==
    \/ \E names \in (SUBSET Name) \ {{}} : Reconfigure(names)
    \/ \E e \in Entry : \/ Toggle(e) \/ Remove(e)
                        \/ \E n \in Name : Rename(e, n)
                        \/ \E f \in Entry : SwapNames(e, f)
                        \/ \E d \in Device : Rehome(e, d)
                        \/ \E n \in Name, d \in Device : Add(e, n, d)

Next == Bridge \/ Owner

Spec == Init /\ [][Next]_vars

-------------------------------------------------------------------------------
(* What pinning is for.                                                        *)

\* A call reaches the device its obligation was written for, whatever names were
\* edited or exchanged, entries replaced and options changed since the plan was
\* composed, as long as the registry does not change between the bridge's last
\* look and the call (test_verified_registry_rename_updates_route_before_restore,
\* test_replacement_blocks_restore_and_requires_attended_recovery).
DrivesPinned ==
    call # NoCall /\ ~moved =>
        /\ registry[call.pin.entry].name = call.name
        /\ registry[call.pin.entry].device = call.pin.device
        /\ registry[call.pin.entry].enabled

\* A name in the options that stays there never comes to mean another outlet,
\* through restarts and edits of the registry
\* (test_rename_survives_consecutive_refreshes_and_restart).
HintsStick ==
    [][\A r \in pinned, s \in pinned' : r.hint = s.hint => PinOf(r) = PinOf(s)]_vars

\* The baseline of an outlet is the state of one device: while it is owed, the
\* obligation never passes to another device behind the same outlet id.
BaselineKeepsDevice ==
    [][\A o \in owing, q \in owing' : o.pin.entry = q.pin.entry => o.pin = q.pin]_vars

\* Renaming, even exchanging names, never takes an outlet away from the bridge:
\* as long as every pinned entry is there, enabled and on its device, and the
\* options are those it was pinned under, the registry can be resolved.
RenamesNeverBlock ==
    /\ hints = {r.hint : r \in pinned}
    /\ \A r \in pinned : /\ Exists(r.entry)
                         /\ registry[r.entry].enabled
                         /\ registry[r.entry].device = r.device
    => Discoverable
===============================================================================
