CONSTANTS
    temp = temp
    ph = ph
    Bridge = Bridge
    Stream <- TwoStreams
    MaxItems = 2
    BatchSize = 1
    Faults = {"age", "network", "garbled", "malformed"}
    MaxPolls = 1
SPECIFICATION FairSpec
CHECK_DEADLOCK FALSE
INVARIANTS
    DropIsLoud
    CurrentEdgeKept
PROPERTIES
    EveryItemSettles
