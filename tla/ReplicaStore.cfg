SPECIFICATION Spec
CONSTANTS
    o1 = o1
    o2 = o2
    Origins = {o1, o2}
    EdgeSequences = {1, 2}
    Prints = {1, 2}
    HeaderBytes = 1
    FrameBytes = 2
    TornBytes = 1
    MaxBytes = 6
    compactReleaseStride = 2
    Faults = {"kill", "power", "io", "header"}
    MaxFaults = 2
SYMMETRY Symmetry
INVARIANTS
    AckKept
    StoreConsistent
    ReopensUnlessHeaderTorn
