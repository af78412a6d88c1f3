CONSTANTS
    tank = tank
    nano = nano
    pump = pump
    heater = heater
    feed = feed
    clean = clean
    NoTank = NoTank
    NoOutlet = NoOutlet
    Tank <- OneTank
    Outlet <- PumpAndHeater
    Mode <- TwoModes
    TankOf <- OfTheTank
    Requires <- HeaterRequiresPump
    Profiles <- FeedProfiles
    Faults = {"crash", "external", "write"}
    MaxCommands = 2
SPECIFICATION Spec
CHECK_DEADLOCK FALSE
SYMMETRY ModesAlike
INVARIANTS
    HoldNeverCoversOwed
    NeverTurnedOn
PROPERTIES
    PromiseKept
