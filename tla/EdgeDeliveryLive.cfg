SPECIFICATION FairSpec
CONSTANTS
    a = a
    b = b
    c = c
    Local = a
    Peers = {b, c}
    Mode = "regional"
    Quorum = 2
    Cloud <- Clouds
    Region <- Regions
    Zone <- Zones
    BatchSize = 2
    ReleaseStride = 2
    Faults = {"kill", "peer", "timeout", "broker"}
    MaxEvents = 2
    MaxFaults = 1
CHECK_DEADLOCK FALSE
PROPERTIES
    EveryRecordDelivered
