---------------------------- MODULE OutletPromise ----------------------------
(* What the bridge promises the owner of an outlet, without sessions, phases,  *)
(* retries or calls: it writes an outlet down before it touches it, switches   *)
(* off only what it has written down, switches on only what was on before, and *)
(* strikes an outlet out only when nothing is owed for it any more             *)
(* (README.md:27-39 of the app: tank modes and their restoration).                *)
(* TankModes implements this specification.                                    *)
CONSTANTS
    Tank,    \* the tanks
    Outlet,  \* the switch entities the bridge may drive
    TankOf   \* the tank an outlet belongs to

VARIABLES
    base,     \* the state to return the outlet to; "none": not written down
    settled,  \* the outlet has been returned to its baseline
    phys,     \* the state of the physical outlet
    owed,     \* the bridge left it off, though its baseline is on
    acked     \* the tanks a person has taken over as they are

promise == <<base, settled, phys, owed, acked>>

Init ==
    /\ base = [o \in Outlet |-> "none"]
    /\ settled = [o \in Outlet |-> FALSE]
    /\ phys \in [Outlet -> {"on", "off"}]
    /\ owed = [o \in Outlet |-> FALSE]
    /\ acked = {}

\* Outlets are written down, or taken up again; a baseline once written stays
Plan ==
    /\ base' \in [Outlet -> {"none", "on", "off"}]
    /\ settled' \in [Outlet -> BOOLEAN]
    /\ \A o \in Outlet : base[o] # "none" => base'[o] = base[o]
    /\ \A o \in Outlet : settled'[o] => settled[o]
    /\ acked' \subseteq acked
    /\ UNCHANGED <<phys, owed>>

TurnOff(o) ==
    /\ base[o] # "none"
    /\ ~settled[o]
    /\ phys' = [phys EXCEPT ![o] = "off"]
    /\ owed' = [owed EXCEPT ![o] = base[o] = "on"]
    /\ UNCHANGED <<base, settled, acked>>

TurnOn(o) ==
    /\ base[o] = "on"
    /\ ~settled[o]
    /\ phys' = [phys EXCEPT ![o] = "on"]
    /\ owed' = [owed EXCEPT ![o] = FALSE]
    /\ UNCHANGED <<base, settled, acked>>

Settle(o) ==
    /\ base[o] # "none"
    /\ ~owed[o]
    /\ settled' = [settled EXCEPT ![o] = TRUE]
    /\ UNCHANGED <<base, phys, owed, acked>>

\* A person takes the tank over as it is
Acknowledge(t) ==
    /\ acked' = acked \cup {t}
    /\ owed' = [o \in Outlet |-> owed[o] /\ TankOf[o] # t]
    /\ UNCHANGED <<base, settled, phys>>

\* Outlets are struck out
Release(S) ==
    /\ \A o \in S : base[o] # "none" /\ ~owed[o] /\ (settled[o] \/ TankOf[o] \in acked)
    /\ base' = [o \in Outlet |-> IF o \in S THEN "none" ELSE base[o]]
    /\ settled' \in [Outlet -> BOOLEAN]
    /\ \A o \in Outlet : settled'[o] => settled[o] /\ o \notin S
    /\ acked' \subseteq acked
    /\ UNCHANGED <<phys, owed>>

\* Somebody else switches the outlet
Outside(o) ==
    /\ phys' = [phys EXCEPT ![o] = IF @ = "on" THEN "off" ELSE "on"]
    /\ owed' = [owed EXCEPT ![o] = FALSE]
    /\ UNCHANGED <<base, settled, acked>>

Next ==
    \/ Plan
    \/ \E o \in Outlet : TurnOff(o) \/ TurnOn(o) \/ Settle(o) \/ Outside(o)
    \/ \E t \in Tank : Acknowledge(t)
    \/ \E S \in SUBSET Outlet : Release(S)

Spec == Init /\ [][Next]_promise
===============================================================================
