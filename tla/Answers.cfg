CONSTANTS
    reef = reef
    nano = nano
    on = on
    again = again
    off = off
    done = done
    other = other
    NoCommand = NoCommand
    Tank <- OneTank
    Mode = {"feed"}
    Command <- Superseding
    TankOf <- SupersedingTank
    Kind <- SupersedingKind
    Needs <- SupersedingNeeds
    BatchLimit = 3
    MaxDelivery = 1
    MaxReports = 0
    MaxLosses = 0
    MaxConfig = 0
    Faults = {"network"}
SPECIFICATION FairSpec
CHECK_DEADLOCK FALSE
INVARIANTS
    CompletedWasActive
PROPERTIES
    EveryCommandAnswered
