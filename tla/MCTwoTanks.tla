------------------------------ MODULE MCTwoTanks ------------------------------
(* A tank with two independent outlets beside a tank with one: the handler of  *)
(* one tank runs between the deadlines and commands of the other.              *)
EXTENDS EntryService, TLC

CONSTANTS reef, nano, filter, skimmer, pump

TwoTanks == {reef, nano}
ThreeOutlets == {filter, skimmer, pump}
TwoAndOne == [o \in ThreeOutlets |-> IF o = pump THEN nano ELSE reef]
NoDependency == [o \in ThreeOutlets |-> NoOutlet]
FullProfiles == {{filter, skimmer}, {pump}}
OutletsAlike == Permutations({filter, skimmer})
===============================================================================
