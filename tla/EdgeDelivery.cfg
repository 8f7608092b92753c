SPECIFICATION Spec
CONSTANTS
    a = a
    b = b
    c = c
    Local = a
    Peers = {b, c}
    Mode = "cross-region"
    Quorum = 2
    Cloud <- Clouds
    Region <- Regions
    Zone <- Zones
    BatchSize = 2
    ReleaseStride = 1
    Faults = {"kill", "power", "io", "peer", "timeout", "broker"}
    MaxEvents = 2
    MaxFaults = 2
CHECK_DEADLOCK FALSE
INVARIANTS
    AcceptedKeepsQuorum
PROPERTIES
    ImplementsIngest
