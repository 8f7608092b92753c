SPECIFICATION Spec
CONSTANTS
    s1 = s1
    s2 = s2
    Sources = {s1, s2}
    FrameSizes = {2, 3}
    SegmentHeaderBytes = 1
    SegmentBytes = 5
    MaxBytes = 18
    InitialDirs <- AllDirs
    Faults = {"kill", "io", "power", "header"}
    MaxAppends = 6
    MaxFaults = 2
INVARIANTS
    AcceptedRecoverable
    EdgeSequenceUnique
    SourceSequenceOrdered
    RecoveryFailsOnlyWhenTorn
    StoreConsistent
PROPERTIES
    SealedIsFinal
