CONSTANTS
    reef = reef
    nano = nano
    on = on
    again = again
    off = off
    done = done
    other = other
    NoCommand = NoCommand
    Tank <- TwoTanks
    Mode = {"feed"}
    Command <- Neighbours
    TankOf <- NeighboursTank
    Kind <- NeighboursKind
    Needs <- NeighboursNeeds
    BatchLimit = 2
    MaxDelivery = 2
    MaxReports = 1
    MaxLosses = 1
    MaxConfig = 1
    Faults = {"network", "registry"}
SPECIFICATION Spec
CHECK_DEADLOCK FALSE
INVARIANTS
    NoGaps
    OrphansBlock
