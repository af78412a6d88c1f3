CONSTANTS
    tank = tank
    nano = nano
    pump = pump
    heater = heater
    feed = feed
    clean = clean
    NoTank = NoTank
    NoOutlet = NoOutlet
    Tank = {tank, nano}
    Outlet <- PumpAndHeater
    Mode = {"feed"}
    TankOf <- OneInEach
    Requires <- Independent
    Profiles <- OneOutlet
    Faults = {"crash", "stale", "write"}
    MaxCommands = 1
SPECIFICATION Spec
CHECK_DEADLOCK FALSE
INVARIANTS
    NoForgottenOutlet
