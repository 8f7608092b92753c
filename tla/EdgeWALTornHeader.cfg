SPECIFICATION Spec
CONSTANTS
    s1 = s1
    s2 = s2
    Sources = {s1}
    FrameSizes = {2, 3}
    SegmentHeaderBytes = 1
    SegmentBytes = 5
    MaxBytes = 9
    InitialDirs <- FreshDirs
    Faults = {"kill", "header"}
    MaxAppends = 4
    MaxFaults = 1
INVARIANTS
    AcceptedReplayable
