CONSTANTS
    tank = tank
    nano = nano
    pump = pump
    heater = heater
    feed = feed
    clean = clean
    NoTank = NoTank
    NoOutlet = NoOutlet
    Tank <- OneTank
    Outlet <- PumpAndHeater
    Mode <- TwoModes
    TankOf <- OfTheTank
    Requires <- HeaterRequiresPump
    Profiles <- FeedProfiles
    Faults = {"stale", "write"}
    MaxCommands = 2
SPECIFICATION Spec
CHECK_DEADLOCK FALSE
INVARIANTS
    NoForgottenOutlet
