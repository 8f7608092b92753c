CONSTANTS
    w1 = w1
    w2 = w2
    Workers = {w1, w2}
    Events <- MCEvents
    Batches = {{"e1"}}
    Hash <- MCHash
    Config <- MCConfig
    Policy <- MCPolicy
    Dimensions <- MCDimensions
    Pressures = {0}
    Multipliers = {100, 50}
    MaxAttempts = 2
    Faults = {"crash"}
    MaxFaults = 1
    MaxHour = 0
SPECIFICATION Spec
PROPERTIES SampledOutStaysOut
CHECK_DEADLOCK FALSE
