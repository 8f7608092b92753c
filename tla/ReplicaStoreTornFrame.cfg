SPECIFICATION Spec
CONSTANTS
    o1 = o1
    o2 = o2
    Origins = {o1}
    EdgeSequences = {1, 2}
    Prints = {1}
    HeaderBytes = 1
    FrameBytes = 2
    TornBytes = 1
    MaxBytes = 7
    compactReleaseStride = 2
    Faults = {"io"}
    MaxFaults = 1
SYMMETRY Symmetry
INVARIANTS
    AckReadable
