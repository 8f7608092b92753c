SPECIFICATION FairSpec
CONSTANTS
    Nodes <- MCNodes
    Local = "edge"
    Domain <- MCDomain
    Policy = "locality"
    Score <- MCScore
    Key <- MCKey
    MaxChanges = 1
    MaxLost = 1
CHECK_DEADLOCK FALSE
INVARIANTS
    ProducedAsReported
PROPERTIES
    StableOwnership
    FailoverDelivers
