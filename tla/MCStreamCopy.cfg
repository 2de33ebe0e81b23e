SPECIFICATION FairSpec

CONSTANTS
    Source <- Terminal
    BufferSizes = {0, 1, 2, 3}
    CopySizes = {1, 2, 3, 4}
    Inputs = {"file", "native"}
    Outputs = {"file", "native", "memory"}
    Garbage = Garbage
    MaxSignals = 2
    MaxErrors = 1

\* A copy ends.
CHECK_DEADLOCK FALSE

INVARIANTS
    StreamWhole

PROPERTIES
    EofEndsReading
    CopyEnds
