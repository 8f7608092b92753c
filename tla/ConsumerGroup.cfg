SPECIFICATION FairSpec
CONSTANTS
    m1 = m1
    m2 = m2
    Members = {m1, m2}
    NumPartitions = 2
    NumOffsets = 2
    Malformed <- SecondRecord
    PollLimit = 2
    Workers = 2
    QueueCapacity = 1
    MaxAttempts = 2
    Faults = {"crash", "shutdown", "rebalance", "evict", "poll", "commit", "dlq"}
    MaxFaults = 1
CHECK_DEADLOCK FALSE
INVARIANTS
    OffsetsSafe
PROPERTIES
    PositionMonotone
    AllCommitted
