---------------------------- MODULE RegistryProofs ----------------------------
(* The proofs of the invariants of Registry.  The inductive invariant adds     *)
(* three uniqueness facts to the type: no two entries of the registry share a  *)
(* name, no two pinned rows do, and an outlet is owed for one device only.     *)
EXTENDS Registry, TLAPS

NamesUnique ==
    \A e, f \in Entry : Exists(e) /\ registry[e].name = registry[f].name => e = f

PinnedUnique == \A r, s \in pinned : r.name = s.name => r = s

OwedUnique == \A o, q \in owing : o.pin.entry = q.pin.entry => o.pin = q.pin

RegistryInv == RegistryTypeOK /\ NamesUnique /\ PinnedUnique /\ OwedUnique

-------------------------------------------------------------------------------
(* discover_allowlisted.                                                       *)

\* What a row of the discovery says
LEMMA RowOfDiscovery ==
    ASSUME RegistryTypeOK, NEW s \in Discovered
    PROVE  /\ s \in Row
           /\ s.hint \in hints
           /\ s.entry \in Found(s.hint)
           /\ s.device = registry[s.entry].device
           /\ s.name = registry[s.entry].name
           /\ Exists(s.entry)
           /\ registry[s.entry].enabled
<1>1. PICK h \in hints : \E e \in Found(h) :
          s = [hint |-> h, entry |-> e, device |-> registry[e].device, name |-> registry[e].name]
  BY DEF Discovered
<1>2. PICK e \in Found(h) :
          s = [hint |-> h, entry |-> e, device |-> registry[e].device, name |-> registry[e].name]
  BY <1>1
<1>3. e \in Entry /\ Exists(e) /\ registry[e].enabled
  BY DEF Found
<1>4. h \in Name
  BY DEF RegistryTypeOK
<1>5. registry[e].name \in Name /\ registry[e].device \in Device
  BY <1>3 DEF RegistryTypeOK, Exists
<1>. QED  BY <1>2, <1>3, <1>4, <1>5 DEF Row

\* A configured name is looked for under the identity it was pinned to
LEMMA ExpectedOfPinned ==
    ASSUME RegistryTypeOK, NEW r \in pinned
    PROVE  Expected(r.hint) = {PinOf(r)}
<1>1. {s \in pinned : s.hint = r.hint} = {r}
  BY DEF RegistryTypeOK
<1>. QED  BY <1>1 DEF Expected

\* At most one identity is looked for
LEMMA ExpectedUnique ==
    ASSUME RegistryInv, NEW h \in Name, NEW p \in Expected(h), NEW q \in Expected(h)
    PROVE  p = q
<1>. DEFINE configured == {r \in pinned : r.hint = h}
            named == {r \in pinned : r.name = h}
            same == {r \in pinned : registry[r.entry].name = h /\ registry[r.entry].device = r.device}
<1>1. \A r, s \in configured : r = s
  BY DEF RegistryInv, RegistryTypeOK
<1>2. \A r, s \in named : r = s
  BY DEF RegistryInv, PinnedUnique
<1>3. \A r, s \in same : r = s
  <2>. SUFFICES ASSUME NEW r \in same, NEW s \in same PROVE r = s
    OBVIOUS
  <2>1. r.entry \in Entry /\ s.entry \in Entry
    BY DEF RegistryInv, RegistryTypeOK, Row
  <2>2. registry[r.entry].name = h /\ registry[s.entry].name = h
    OBVIOUS
  <2>3. Exists(r.entry)
    BY <2>2, RegistryAssumption DEF Exists
  <2>4. r.entry = s.entry
    BY <2>1, <2>2, <2>3 DEF RegistryInv, NamesUnique
  <2>. QED  BY <2>4 DEF RegistryInv, RegistryTypeOK
<1>4. PICK r \in IF configured # {} THEN configured ELSE IF named # {} THEN named ELSE same :
          p = PinOf(r)
  BY DEF Expected
<1>5. PICK s \in IF configured # {} THEN configured ELSE IF named # {} THEN named ELSE same :
          q = PinOf(s)
  BY DEF Expected
<1>. QED  BY <1>1, <1>2, <1>3, <1>4, <1>5

\* At most one entry is found for a name
LEMMA FoundUnique ==
    ASSUME RegistryInv, NEW h \in Name, NEW e \in Found(h), NEW f \in Found(h)
    PROVE  e = f
<1>1. e \in Entry /\ f \in Entry /\ Exists(e)
  BY DEF Found
<1>2. CASE Expected(h) = {}
  BY <1>1, <1>2 DEF Found, RegistryInv, NamesUnique
<1>3. CASE Expected(h) # {}
  <2>1. [entry |-> e, device |-> registry[e].device] \in Expected(h)
    BY <1>3 DEF Found
  <2>2. [entry |-> f, device |-> registry[f].device] \in Expected(h)
    BY <1>3 DEF Found
  <2>3. [entry |-> e, device |-> registry[e].device] = [entry |-> f, device |-> registry[f].device]
    BY <2>1, <2>2, ExpectedUnique
  <2>. QED  BY <2>3
<1>. QED  BY <1>2, <1>3

\* The rows replace_inventory writes have distinct names, entries and hints
LEMMA DiscoveryUnique ==
    ASSUME RegistryInv, Discoverable, NEW r \in Discovered, NEW s \in Discovered,
           r.hint = s.hint \/ r.entry = s.entry \/ r.name = s.name
    PROVE  r = s
<1>1. RegistryTypeOK
  BY DEF RegistryInv
<1>2. /\ r.entry \in Found(r.hint) /\ r.hint \in Name /\ r.entry \in Entry
      /\ s.entry \in Found(s.hint) /\ s.hint \in Name /\ s.entry \in Entry
      /\ Exists(r.entry)
      /\ r.name = registry[r.entry].name
      /\ s.name = registry[s.entry].name
  BY <1>1, RowOfDiscovery DEF Row
<1>3. CASE r.entry = s.entry
  BY <1>3 DEF Discoverable
<1>4. CASE r.hint = s.hint
  <2>1. r.entry = s.entry
    BY <1>2, <1>4, FoundUnique
  <2>. QED  BY <2>1, <1>3
<1>5. CASE r.name = s.name
  <2>1. r.entry = s.entry
    BY <1>2, <1>5 DEF RegistryInv, NamesUnique
  <2>. QED  BY <2>1, <1>3
<1>. QED  BY <1>3, <1>4, <1>5

-------------------------------------------------------------------------------
(* The steps.                                                                  *)

LEMMA RefreshPins ==
    ASSUME RegistryInv, Refresh
    PROVE  /\ pinned' \subseteq Row
           /\ \A r, s \in pinned' : r.hint = s.hint \/ r.entry = s.entry => r = s
           /\ \A r, s \in pinned' : r.name = s.name => r = s
<1>1. pinned' = Discovered /\ Discoverable
  BY DEF Refresh
<1>2. Discovered \subseteq Row
  BY RowOfDiscovery DEF RegistryInv
<1>. QED  BY <1>1, <1>2, DiscoveryUnique

LEMMA Resolution ==
    ASSUME RegistryTypeOK, NEW pin, NEW r \in Resolves(pin)
    PROVE  /\ r.name \in Name
           /\ registry[pin.entry].name = r.name
           /\ registry[pin.entry].device = pin.device
           /\ registry[pin.entry].enabled
<1>1. r \in Discovered /\ pin = [entry |-> r.entry, device |-> r.device]
  BY DEF Resolves, PinOf
<1>2. pin.entry = r.entry /\ pin.device = r.device
  BY <1>1
<1>. QED  BY <1>1, <1>2, RowOfDiscovery DEF Row

\* What _resolve_obligations leaves in the store
LEMMA Rerouted ==
    ASSUME RegistryTypeOK, NEW o \in owing, Restore(o)
    PROVE  /\ owing' \subseteq Route
           /\ \A q \in owing' : \E p \in owing : q.pin = p.pin
           /\ \A q \in owing' : /\ registry[q.pin.entry].name = q.name
                                /\ registry[q.pin.entry].device = q.pin.device
                                /\ registry[q.pin.entry].enabled
           /\ call' \in owing'
<1>. DEFINE new(q) == [pin |-> q.pin, name |-> (CHOOSE r \in Resolves(q.pin) : TRUE).name]
<1>1. owing' = {new(q) : q \in owing}
  BY DEF Restore
<1>2. ASSUME NEW q \in owing
      PROVE  /\ new(q) \in Route
             /\ registry[q.pin.entry].name = new(q).name
             /\ registry[q.pin.entry].device = q.pin.device
             /\ registry[q.pin.entry].enabled
  <2>1. Resolves(q.pin) # {}
    BY <1>2 DEF Restore
  <2>2. PICK r \in Resolves(q.pin) : r = CHOOSE s \in Resolves(q.pin) : TRUE
    BY <2>1
  <2>3. q.pin \in Pin
    BY DEF RegistryTypeOK, Route
  <2>4. new(q) = [pin |-> q.pin, name |-> r.name]
    BY <2>2
  <2>. QED  BY <2>2, <2>3, <2>4, Resolution DEF Route
<1>3. \A q \in owing : new(q).pin = q.pin
  OBVIOUS
<1>4. call' = CHOOSE q \in owing' : q.pin = o.pin
  BY DEF Restore
<1>. HIDE DEF new
<1>5. new(o) \in owing' /\ new(o).pin = o.pin
  BY <1>1, <1>3
<1>6. call' \in owing'
  BY <1>4, <1>5
<1>. QED  BY <1>1, <1>2, <1>3, <1>6

\* The registry stays well named under every edit of its owner
LEMMA EditsKeepNames ==
    ASSUME RegistryInv, Owner
    PROVE  /\ registry' \in [Entry -> [name : Name \cup {NoName}, device : Device, enabled : BOOLEAN]]
           /\ hints' \in (SUBSET Name) \ {{}}
           /\ moved' \in BOOLEAN
           /\ changes' \in 0..MaxChanges
           /\ NamesUnique'
           /\ UNCHANGED bridge
<1>. USE RegistryAssumption DEF RegistryInv, RegistryTypeOK
<1>1. CASE \E names \in (SUBSET Name) \ {{}} : Reconfigure(names)
  BY <1>1 DEF Reconfigure, NamesUnique, Exists
<1>2. ASSUME Change PROVE moved' \in BOOLEAN /\ changes' \in 0..MaxChanges /\ hints' = hints /\ UNCHANGED bridge
  BY <1>2 DEF Change
<1>. DEFINE Row3 == [name : Name \cup {NoName}, device : Device, enabled : BOOLEAN]
<1>3. ASSUME NEW e \in Entry, NEW row \in Row3, row.name \in {registry[e].name, NoName},
             registry' = [registry EXCEPT ![e] = row]
      PROVE  registry' \in [Entry -> Row3] /\ NamesUnique'
  <2>1. registry' \in [Entry -> Row3]
    BY <1>3
  <2>2. \A f \in Entry : registry'[f].name = IF f = e THEN row.name ELSE registry[f].name
    BY <1>3
  <2>3. NamesUnique'
    BY <1>3, <2>2 DEF NamesUnique, Exists
  <2>. QED  BY <2>1, <2>3
<1>4. ASSUME NEW e \in Entry, Toggle(e) \/ Remove(e) \/ \E d \in Device : Rehome(e, d)
      PROVE  registry' \in [Entry -> Row3] /\ NamesUnique' /\ Change
  <2>1. CASE Toggle(e)
    <3>1. registry' = [registry EXCEPT ![e] = [registry[e] EXCEPT !.enabled = ~@]]
      BY <2>1 DEF Toggle
    <3>2. /\ [registry[e] EXCEPT !.enabled = ~@] \in Row3
          /\ [registry[e] EXCEPT !.enabled = ~@].name = registry[e].name
      OBVIOUS
    <3>. QED  BY <1>3, <2>1, <3>1, <3>2 DEF Toggle
  <2>2. CASE Remove(e)
    <3>1. registry' = [registry EXCEPT ![e] = [registry[e] EXCEPT !.name = NoName]]
      BY <2>2 DEF Remove
    <3>2. [registry[e] EXCEPT !.name = NoName] \in Row3 /\ [registry[e] EXCEPT !.name = NoName].name = NoName
      OBVIOUS
    <3>. QED  BY <1>3, <2>2, <3>1, <3>2 DEF Remove
  <2>3. ASSUME NEW d \in Device, Rehome(e, d)
        PROVE  registry' \in [Entry -> Row3] /\ NamesUnique' /\ Change
    <3>1. registry' = [registry EXCEPT ![e] = [registry[e] EXCEPT !.device = d]]
      BY <2>3 DEF Rehome
    <3>2. /\ [registry[e] EXCEPT !.device = d] \in Row3
          /\ [registry[e] EXCEPT !.device = d].name = registry[e].name
      OBVIOUS
    <3>. QED  BY <1>3, <2>3, <3>1, <3>2 DEF Rehome
  <2>. QED  BY <1>4, <2>1, <2>2, <2>3
<1>5. ASSUME NEW e \in Entry, NEW n \in Name, ~Taken(n), NEW row \in Row3, row.name = n,
             registry' = [registry EXCEPT ![e] = row]
      PROVE  registry' \in [Entry -> Row3] /\ NamesUnique'
  <2>1. registry' \in [Entry -> Row3]
    BY <1>5
  <2>2. \A f \in Entry : /\ registry[f].name # n
                         /\ registry'[f].name = IF f = e THEN n ELSE registry[f].name
    BY <1>5 DEF Taken
  <2>3. NamesUnique'
    BY <2>2 DEF NamesUnique, Exists
  <2>. QED  BY <2>1, <2>3
<1>6. ASSUME NEW e \in Entry, NEW n \in Name, Rename(e, n)
      PROVE  registry' \in [Entry -> Row3] /\ NamesUnique' /\ Change
  <2>1. registry' = [registry EXCEPT ![e] = [registry[e] EXCEPT !.name = n]]
    BY <1>6 DEF Rename
  <2>2. [registry[e] EXCEPT !.name = n] \in Row3 /\ [registry[e] EXCEPT !.name = n].name = n
    OBVIOUS
  <2>. QED  BY <1>5, <1>6, <2>1, <2>2 DEF Rename
<1>7. ASSUME NEW e \in Entry, NEW n \in Name, NEW d \in Device, Add(e, n, d)
      PROVE  registry' \in [Entry -> Row3] /\ NamesUnique' /\ Change
  <2>1. [name |-> n, device |-> d, enabled |-> TRUE] \in Row3
    OBVIOUS
  <2>. QED  BY <1>5, <1>7, <2>1 DEF Add
<1>8. ASSUME NEW e \in Entry, NEW f \in Entry, SwapNames(e, f)
      PROVE  /\ registry' \in [Entry -> [name : Name \cup {NoName}, device : Device, enabled : BOOLEAN]]
             /\ NamesUnique' /\ Change
  <2>1. registry' \in [Entry -> [name : Name \cup {NoName}, device : Device, enabled : BOOLEAN]]
    BY <1>8 DEF SwapNames
  <2>2. \A g \in Entry : registry'[g].name = IF g = e THEN registry[f].name
                                             ELSE IF g = f THEN registry[e].name ELSE registry[g].name
    BY <1>8 DEF SwapNames
  <2>3. NamesUnique'
    BY <1>8, <2>2 DEF SwapNames, NamesUnique, Exists
  <2>. QED  BY <1>8, <2>1, <2>3 DEF SwapNames
<1>. QED  BY <1>1, <1>2, <1>4, <1>6, <1>7, <1>8 DEF Owner

LEMMA InvInitially == Init => RegistryInv
<1>. SUFFICES ASSUME Init PROVE RegistryInv
  OBVIOUS
<1>. USE RegistryAssumption DEF Init
<1>1. registry \in [Entry -> [name : Name \cup {NoName}, device : Device, enabled : BOOLEAN]]
  OBVIOUS
<1>2. changes \in 0..MaxChanges
  OBVIOUS
<1>3. RegistryTypeOK
  BY <1>1, <1>2 DEF RegistryTypeOK
<1>4. NamesUnique /\ PinnedUnique /\ OwedUnique
  BY DEF NamesUnique, PinnedUnique, OwedUnique
<1>. QED  BY <1>3, <1>4 DEF RegistryInv

LEMMA InvStep == RegistryInv /\ [Next]_vars => RegistryInv'
<1>. SUFFICES ASSUME RegistryInv, [Next]_vars PROVE RegistryInv'
  OBVIOUS
<1>0. RegistryTypeOK
  BY DEF RegistryInv
<1>1. CASE Start
  <2>1. Refresh /\ UNCHANGED <<registry, hints, told, owing, call, moved, changes>> /\ running' = TRUE
    BY <1>1 DEF Start
  <2>. QED  BY <2>1, RefreshPins DEF RegistryInv, RegistryTypeOK, NamesUnique, PinnedUnique, OwedUnique, Exists
<1>2. CASE Report
  <2>1. UNCHANGED <<registry, hints, running, pinned, owing, call, moved, changes>>
    BY <1>2 DEF Report
  <2>2. told' \subseteq Pin
    BY <1>0, <1>2 DEF Report, RegistryTypeOK, PinOf, Row, Pin
  <2>. QED  BY <2>1, <2>2 DEF RegistryInv, RegistryTypeOK, NamesUnique, PinnedUnique, OwedUnique, Exists
<1>3. ASSUME NEW pin \in told, Enter(pin) PROVE RegistryInv'
  <2>1. /\ Refresh /\ UNCHANGED <<registry, hints, running, told, changes>> /\ moved' = FALSE
        /\ \A o \in owing : o.pin.entry = pin.entry => o.pin = pin
    BY <1>3 DEF Enter
  <2>2. PICK r \in Resolves(pin) :
            /\ owing' = {o \in owing : o.pin # pin} \cup {[pin |-> pin, name |-> r.name]}
            /\ call' = [pin |-> pin, name |-> r.name]
    BY <1>3 DEF Enter
  <2>3. pin \in Pin /\ r.name \in Name
    BY <1>0, Resolution DEF RegistryTypeOK
  <2>4. [pin |-> pin, name |-> r.name] \in Route
    BY <2>3 DEF Route
  <2>5. owing' \subseteq Route /\ call' \in Route \cup {NoCall}
    BY <1>0, <2>2, <2>4 DEF RegistryTypeOK
  <2>6. OwedUnique'
    BY <2>1, <2>2 DEF RegistryInv, OwedUnique
  <2>. QED  BY <2>1, <2>5, <2>6, RefreshPins DEF RegistryInv, RegistryTypeOK, NamesUnique, PinnedUnique, Exists
<1>4. ASSUME NEW o \in owing, Restore(o) PROVE RegistryInv'
  <2>1. Refresh /\ UNCHANGED <<registry, hints, running, told, changes>> /\ moved' = FALSE
    BY <1>4 DEF Restore
  <2>2. OwedUnique'
    BY <1>0, <1>4, Rerouted DEF RegistryInv, OwedUnique
  <2>3. owing' \subseteq Route /\ call' \in Route \cup {NoCall}
    BY <1>0, <1>4, Rerouted
  <2>. QED  BY <2>1, <2>2, <2>3, RefreshPins DEF RegistryInv, RegistryTypeOK, NamesUnique, PinnedUnique, Exists
<1>5. ASSUME NEW restored \in BOOLEAN, Switched(restored) PROVE RegistryInv'
  BY <1>5 DEF Switched, RegistryInv, RegistryTypeOK, NamesUnique, PinnedUnique, OwedUnique, Exists
<1>6. CASE Stop
  BY <1>6 DEF Stop, RegistryInv, RegistryTypeOK, NamesUnique, PinnedUnique, OwedUnique, Exists
<1>7. CASE Owner
  BY <1>7, EditsKeepNames DEF RegistryInv, RegistryTypeOK, PinnedUnique, OwedUnique, bridge
<1>8. CASE UNCHANGED vars
  BY <1>8 DEF vars, bridge, RegistryInv, RegistryTypeOK, NamesUnique, PinnedUnique, OwedUnique, Exists
<1>. QED  BY <1>1, <1>2, <1>3, <1>4, <1>5, <1>6, <1>7, <1>8 DEF Next, Bridge

LEMMA InvHolds == Spec => []RegistryInv
BY InvInitially, InvStep, PTL DEF Spec

\* Every reachable state is well typed; in particular replace_inventory never
\* writes two rows for one configured name or one entry.
THEOREM RegistryTypeCorrect == Spec => []RegistryTypeOK
<1>1. RegistryInv => RegistryTypeOK
  BY DEF RegistryInv
<1>. QED  BY <1>1, InvHolds, PTL

\* While the registry has not changed since the bridge read it, a call goes to
\* the entry and device its obligation was written for
THEOREM CallsDrivePinned == Spec => []DrivesPinned
<1>1. Init => DrivesPinned
  BY DEF Init, DrivesPinned
<1>2. RegistryInv /\ DrivesPinned /\ [Next]_vars => DrivesPinned'
  <2>. SUFFICES ASSUME RegistryInv, DrivesPinned, [Next]_vars PROVE DrivesPinned'
    OBVIOUS
  <2>0. RegistryTypeOK
    BY DEF RegistryInv
  <2>1. CASE Start \/ Report \/ Stop \/ (\E restored \in BOOLEAN : Switched(restored)) \/ UNCHANGED vars
    BY <2>1 DEF Start, Report, Stop, Switched, vars, bridge, DrivesPinned
  <2>2. ASSUME NEW pin \in told, Enter(pin) PROVE DrivesPinned'
    <3>1. PICK r \in Resolves(pin) : call' = [pin |-> pin, name |-> r.name]
      BY <2>2 DEF Enter
    <3>2. registry' = registry
      BY <2>2 DEF Enter
    <3>. QED  BY <2>0, <3>1, <3>2, Resolution DEF DrivesPinned
  <2>3. ASSUME NEW o \in owing, Restore(o) PROVE DrivesPinned'
    <3>1. registry' = registry
      BY <2>3 DEF Restore
    <3>. QED  BY <2>0, <2>3, <3>1, Rerouted DEF DrivesPinned
  <2>4. CASE Owner
    <3>1. CASE \E names \in (SUBSET Name) \ {{}} : Reconfigure(names)
      BY <3>1 DEF Reconfigure, bridge, DrivesPinned
    <3>2. CASE Change
      BY <3>2 DEF Change, DrivesPinned
    <3>. QED  BY <2>4, <3>1, <3>2 DEF Owner, Toggle, Remove, Rename, SwapNames, Rehome, Add
  <2>. QED  BY <2>1, <2>2, <2>3, <2>4 DEF Next, Bridge
<1>. QED  BY <1>1, <1>2, InvHolds, PTL DEF Spec

\* A name that stays in the options keeps its outlet across every refresh,
\* restart and edit of the registry
THEOREM NamesKeepOutlets == Spec => HintsStick
<1>. DEFINE Sticks == \A r \in pinned, s \in pinned' : r.hint = s.hint => PinOf(r) = PinOf(s)
<1>1. RegistryInv /\ [Next]_vars => [Sticks]_vars
  <2>. SUFFICES ASSUME RegistryInv, Next, NEW r \in pinned, NEW s \in pinned', r.hint = s.hint
                PROVE  PinOf(r) = PinOf(s)
    OBVIOUS
  <2>1. CASE pinned' = pinned
    BY <2>1 DEF RegistryInv, RegistryTypeOK
  <2>2. CASE Refresh
    <3>1. s \in Discovered
      BY <2>2 DEF Refresh
    <3>2. s.entry \in Found(r.hint) /\ s.device = registry[s.entry].device
      BY <3>1, RowOfDiscovery DEF RegistryInv
    <3>3. Expected(r.hint) = {PinOf(r)}
      BY ExpectedOfPinned DEF RegistryInv
    <3>4. [entry |-> s.entry, device |-> registry[s.entry].device] \in Expected(r.hint)
      BY <3>2, <3>3 DEF Found
    <3>. QED  BY <3>2, <3>3, <3>4 DEF PinOf
  <2>3. CASE Owner
    BY <2>1, <2>3, EditsKeepNames DEF bridge
  <2>. QED  BY <2>1, <2>2, <2>3 DEF Next, Bridge, Start, Report, Stop, Enter, Restore, Switched
<1>. QED  BY <1>1, InvHolds, PTL DEF Spec, HintsStick

\* While an outlet is owed, its obligation stays with the device it was written for
THEOREM BaselinesKeepDevices == Spec => BaselineKeepsDevice
<1>. DEFINE Keeps == \A o \in owing, q \in owing' : o.pin.entry = q.pin.entry => o.pin = q.pin
<1>1. RegistryInv /\ [Next]_vars => [Keeps]_vars
  <2>. SUFFICES ASSUME RegistryInv, Next, NEW o \in owing, NEW q \in owing', o.pin.entry = q.pin.entry
                PROVE  o.pin = q.pin
    OBVIOUS
  <2>1. CASE owing' \subseteq owing
    BY <2>1 DEF RegistryInv, OwedUnique
  <2>2. ASSUME NEW pin \in told, Enter(pin) PROVE o.pin = q.pin
    BY <2>2 DEF Enter, RegistryInv, OwedUnique
  <2>3. ASSUME NEW p \in owing, Restore(p) PROVE o.pin = q.pin
    BY <2>3, Rerouted DEF RegistryInv, OwedUnique
  <2>4. CASE Owner
    BY <2>1, <2>4, EditsKeepNames DEF bridge
  <2>. QED  BY <2>1, <2>2, <2>3, <2>4 DEF Next, Bridge, Start, Report, Stop, Switched
<1>. QED  BY <1>1, InvHolds, PTL DEF Spec, BaselineKeepsDevice

\* Names may be edited and exchanged at will: discovery goes on as long as the
\* pinned entries are there, enabled and on their devices
THEOREM RenamesAreHarmless == Spec => []RenamesNeverBlock
<1>1. RegistryInv => RenamesNeverBlock
  <2>. SUFFICES ASSUME RegistryTypeOK, hints = {r.hint : r \in pinned},
                       \A r \in pinned : /\ Exists(r.entry)
                                         /\ registry[r.entry].enabled
                                         /\ registry[r.entry].device = r.device
                PROVE  Discoverable
    BY DEF RegistryInv, RenamesNeverBlock
  <2>1. ASSUME NEW h \in hints PROVE Found(h) # {}
    <3>1. PICK r \in pinned : h = r.hint
      OBVIOUS
    <3>2. Expected(h) = {PinOf(r)}
      BY <3>1, ExpectedOfPinned
    <3>3. r.entry \in Entry
      BY DEF RegistryTypeOK, Row
    <3>4. r.entry \in Found(h)
      BY <3>2, <3>3 DEF Found, PinOf
    <3>. QED  BY <3>4
  <2>2. ASSUME NEW s \in Discovered
        PROVE  \E r \in pinned : s.hint = r.hint /\ s.entry = r.entry
    <3>1. PICK r \in pinned : s.hint = r.hint
      BY RowOfDiscovery
    <3>2. Expected(s.hint) = {PinOf(r)}
      BY <3>1, ExpectedOfPinned
    <3>3. [entry |-> s.entry, device |-> registry[s.entry].device] = PinOf(r)
      BY <3>2, RowOfDiscovery DEF Found
    <3>. QED  BY <3>1, <3>3 DEF PinOf
  <2>3. ASSUME NEW r \in Discovered, NEW s \in Discovered, r.entry = s.entry PROVE r = s
    <3>1. r.hint = s.hint
      BY <2>2, <2>3 DEF RegistryTypeOK
    <3>2. /\ r \in Row /\ r.device = registry[r.entry].device /\ r.name = registry[r.entry].name
          /\ s \in Row /\ s.device = registry[s.entry].device /\ s.name = registry[s.entry].name
      BY RowOfDiscovery
    <3>. QED  BY <2>3, <3>1, <3>2 DEF Row
  <2>. QED  BY <2>1, <2>2, <2>3 DEF Discoverable
<1>. QED  BY <1>1, InvHolds, PTL
===============================================================================
