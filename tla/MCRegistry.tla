------------------------------ MODULE MCRegistry ------------------------------
(* Two switches, a third name to exchange theirs over, and a device that one   *)
(* of them may be replaced by.                                                 *)
EXTENDS Registry, TLC

CONSTANTS first, second, plug, spare, pumpName, heaterName, thirdName

Alike == Permutations({first, second}) \cup Permutations({plug, spare})
             \cup Permutations({pumpName, heaterName, thirdName})
===============================================================================
