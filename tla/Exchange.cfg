CONSTANTS
    reef = reef
    nano = nano
    on = on
    again = again
    off = off
    done = done
    other = other
    NoCommand = NoCommand
    Tank <- OneTank
    Mode = {"feed"}
    Command <- Attended
    TankOf <- AttendedTank
    Kind <- AttendedKind
    Needs <- AttendedNeeds
    BatchLimit = 2
    MaxDelivery = 1
    MaxReports = 2
    MaxLosses = 1
    MaxConfig = 0
    Faults = {"crash", "network", "garbled", "clock"}
SPECIFICATION Spec
CHECK_DEADLOCK FALSE
INVARIANTS
    ExchangeTypeOK
    ReportsSurvive
    NumbersUnique
PROPERTIES
    ReportedSessionsGuarded
    FinishSeesLatest
