SPECIFICATION FairSpec
CONSTANTS
    r1 = r1
    r2 = r2
    Events <- MCEvents
    Documents <- MCDocuments
    Deployments <- MCDeployments
    Replicas = {r1, r2}
    Concurrency = 1
    Healthy = {"archive"}
    Faults = {"crash", "pause", "store", "timeout", "redeliver"}
    MaxFaults = 1
    MaxRequeues = 1
CHECK_DEADLOCK FALSE
INVARIANTS
    OutboxConsistent
PROPERTIES
    ImplementsContract
    AllSettled
    HealthyDelivered
