SPECIFICATION Spec
CONSTANTS
    Observers = {"o1", "o2"}
    Samples <- MCSamples
    Paths <- MCPaths
    LegacyKeys = {"http.method"}
    ExpectedType <- MCExpected
    MaxEventFields = 3
    MaxPayloadDepth = 5
    MaxRegistryFields = 3
    requiredSampleFloor = 2
    requiredPercent = 95
    MaxObservations = 4
    Artifacts = {a1, a2}
    Operators = {ann, bob}
    MaxOperations = 6
    MaxBreaks = 1
    Detectors = {w1, w2}
    Signals <- MCSignals
    ErrorThreshold = 2
    ErrorWindow = 2
    FreezeLookback = 2
    Cooldown = 3
    MaxStall = 1
    MaxTrackedSources = 1
    MaxTime = 4
    Deliveries <- MCDeliveries
    IncidentFaults = {"freeze", "unsure", "annotate"}
    MaxIncidentFaults = 1
    Probes = {"exec", "connect"}
    MaxCount = 2
    MaxRestarts = 1
    MaxPollFailures = 1
    Goroutines = {g1, g2, g3}
    Buffers = {b1, b2, b3}
    Slots = 2
    MaxAttempts = 2
    MaxPosition = 1
    Mode = "auto"
    Window = 3
    MinObservations = 3
    Horizon = 6
    TriggerPressure = 82
    RecoverPressure = 55
    MinMultiplier = 55
    MaxActionTTL = 3
    ControlCooldown = 2
    MaxErrorRateIncrease = 2
    MaxLatencyIncreaseRatio = 25
    QueuePressures = {40, 80, 85}
    Latencies = {10, 20}
    MaxJobs = 1
    EventNumbers = {1, 2, 3, 4}
    PollLimit = 2
    ConnectMargin = 1
    MaxClock = 2
    MaxReconnects = 1
    FabricSetups <- MCFabricSetups
    WALMaxBytes = 1
    MaxPartChanges = 2
    ChangeEvents <- MCChangeEvents
    Telemetry <- MCTelemetry
    WindowSamples <- MCWindowSamples
    Analysts = {n1, n2}
    RollbackHorizon = 2
    MaxAnalyses = 2
    Places <- MCPlaces
    FlightRecorder <- MCFlightRecorder
    CaptureWindows <- MCCaptureWindows
    MaxArchiveEvents = 3
    MaxFreezes = 2
    MaxArchives = 1
    ReplayRuns = {r1, r2}
    ReplayPolicy <- MCReplayPolicy
    ShadowPolicy <- MCShadowPolicy
    DimensionOrder <- MCDimensionOrder
    ReplayLimits = {5}
    MaxQueryEvents = 4
    QueryDefault = 3
    WindowHours = 4
    ReportInterval = 3
    MaxReplayFaults = 1
    CapturedEvents <- MCCapturedEvents
    NearbyChanges <- MCNearbyChanges
    EvidenceHistory = {1}
    MaxGraphEdges = 14
    MaxEvidenceRequests = 1
    IngestRequests <- MCIngestRequests
    MaxIngestAttempts = 2
INVARIANTS
    RegistryExact ConfigurationGoverned IncidentsHonest DeltasExact RingSafe
    ReductionGoverned FeedComplete StatusWitnessed ChangeAssessed
    EvidenceReproduced EvidenceSound IngestHonest
PROPERTIES
    ServicesNeverRegress
CHECK_DEADLOCK FALSE
