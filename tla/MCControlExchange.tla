--------------------------- MODULE MCControlExchange ---------------------------
(* A mode, a Normal and the end of an attended recovery in one tank; a mode in *)
(* each of two tanks and the end of a recovery in one of them; two modes and a *)
(* Normal in one tank.                                                         *)
EXTENDS ControlExchange, TLC

CONSTANTS reef, nano, on, again, off, done, other

OneTank == {reef}
TwoTanks == {reef, nano}

AllKinds == (on :> "feed") @@ (again :> "feed") @@ (other :> "feed")
            @@ (off :> "normal") @@ (done :> "finish")

Attended == {on, off, done}
AttendedTank == [c \in Attended |-> reef]
AttendedKind == [c \in Attended |-> AllKinds[c]]
AttendedNeeds == [c \in Attended |-> 0]

Neighbours == {on, other, done}
NeighboursTank == [c \in Neighbours |-> IF c = other THEN nano ELSE reef]
NeighboursKind == [c \in Neighbours |-> AllKinds[c]]
NeighboursNeeds == [c \in Neighbours |-> IF c = other THEN 1 ELSE 0]

\* No command waits for a configuration
Superseding == {on, again, off}
SupersedingTank == [c \in Superseding |-> reef]
SupersedingKind == [c \in Superseding |-> AllKinds[c]]
SupersedingNeeds == [c \in Superseding |-> 0]
===============================================================================
