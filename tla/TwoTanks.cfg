CONSTANTS
    reef = reef
    nano = nano
    filter = filter
    skimmer = skimmer
    pump = pump
    NoTank = NoTank
    NoOutlet = NoOutlet
    Tank <- TwoTanks
    Outlet <- ThreeOutlets
    Mode = {"feed"}
    TankOf <- TwoAndOne
    Requires <- NoDependency
    Profiles <- FullProfiles
    Faults = {"write"}
    MaxCommands = 1
SPECIFICATION ServiceSpec
CHECK_DEADLOCK FALSE
SYMMETRY OutletsAlike
INVARIANTS
    NoForgottenOutlet
PROPERTIES
    EntryServesOthers
