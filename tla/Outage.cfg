CONSTANTS
    temp = temp
    ph = ph
    Bridge = Bridge
    Stream = {temp}
    MaxItems = 3
    BatchSize = 2
    Faults = {"crash", "age", "network", "malformed", "denied"}
    MaxPolls = 2
SPECIFICATION Spec
CHECK_DEADLOCK FALSE
INVARIANTS
    TelemetryTypeOK
    NothingVanishes
    CurrentEdgeKept
    CapHolds
