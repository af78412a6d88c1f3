----------------------------- MODULE MCTankModes -----------------------------
(* One tank with a heater that requires its pump, or a pump in one tank and a  *)
(* heater in the other.                                                        *)
EXTENDS TankModes, TLC

CONSTANTS tank, nano, pump, heater, feed, clean

TwoModes == {feed, clean}
ModesAlike == Permutations(TwoModes)

OneTank == {tank}
PumpAndHeater == {pump, heater}
OfTheTank == [o \in {pump, heater} |-> tank]
HeaterRequiresPump == [o \in {pump, heater} |-> IF o = heater THEN pump ELSE NoOutlet]
FeedProfiles == {{heater}, {pump, heater}}

OneInEach == [o \in {pump, heater} |-> IF o = heater THEN nano ELSE tank]
Independent == [o \in {pump, heater} |-> NoOutlet]
OneOutlet == {{pump}, {heater}}

FullProfile == {{pump, heater}}
===============================================================================
