----------------------------- MODULE EntryService -----------------------------
(* The entry of a mode holds the lock while it waits for Home Assistant, up to *)
(* fifteen seconds an outlet, and the scheduler cannot run.  _temporary        *)
(* therefore gives the due restorations of other tanks a turn between two of   *)
(* its writes.  This module observes TankModes to say so: late holds the       *)
(* outlets that were already overdue when the entry issued its last write and  *)
(* whose tank has not had its turn since.                                      *)
EXTENDS TankModes

VARIABLE late

\* The deadline of an outlet has passed and only the lock keeps it waiting
Overdue(o) ==
    /\ TankOf[o] # job.tank
    /\ obl[o].due
    /\ ~obl[o].wait
    /\ obl[o].result # "restored"

WritesOff == pc = "enter" /\ pc' = "off_call"

Observe ==
    late' = IF WritesOff THEN {o \in Outlet : Overdue(o)}
            ELSE IF pc' = "idle" THEN {}
            ELSE IF RestoreDone THEN late \ Outlets(rst.tank)
            ELSE late

ServiceSpec == Init /\ late = {} /\ [][Next /\ Observe]_<<vars, late>>

LateTypeOK == late \subseteq Outlet

\* Between two writes of an entry every outlet of another tank that was overdue
\* at the first has had its turn: a long entry delays another tank by one
\* confirmation, not by all of them
\* (test_entry_reconciles_another_tanks_deadline_after_confirmation).
EntryServesOthers ==
    [][WritesOff => ~\E o \in late : Overdue(o)]_<<vars, late>>
===============================================================================
