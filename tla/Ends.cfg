CONSTANTS
    tank = tank
    nano = nano
    pump = pump
    heater = heater
    NoTank = NoTank
    NoOutlet = NoOutlet
    Tank <- OneTank
    Outlet <- PumpAndHeater
    Mode = {"feed"}
    TankOf <- OfTheTank
    Requires <- HeaterRequiresPump
    Profiles <- FullProfile
    Faults = {"registry", "read", "write"}
    MaxCommands = 1
    feed = feed
    clean = clean
SPECIFICATION FairSpec
CHECK_DEADLOCK FALSE
PROPERTIES
    EveryModeEnds
