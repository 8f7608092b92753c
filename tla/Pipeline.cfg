CONSTANTS
    w1 = w1
    w2 = w2
    Workers = {w1, w2}
    Events <- MCEvents
    Batches = {{"e1", "e2"}, {"e1", "e3"}}
    Hash <- MCHash
    Config <- MCConfig
    Policy <- MCPolicy
    Dimensions <- MCDimensions
    Pressures = {0, 90}
    Multipliers = {100}
    MaxAttempts = 2
    Faults = {"database", "audit", "finding", "crash", "redeliver"}
    MaxFaults = 1
    MaxHour = 1
SPECIFICATION FairSpec
CHECK_DEADLOCK FALSE
INVARIANTS
    LossExplained
    StagesAgree
    FirewallBound
PROPERTIES
    FirstWriteWins
    AllSettled
