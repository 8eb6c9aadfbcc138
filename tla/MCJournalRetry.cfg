\* An NCR batch fails after its transaction was parsed.
CONSTANTS
    Instances = {"retry"}
    Files <- AllFiles
    Script <- AllScript
    Format <- AllFormat
    BatchSize = 2
    Faults <- AllFaults
    MaxFaults = 4
SPECIFICATION MCSpec
INVARIANT
    RetriedIsWhole
CHECK_DEADLOCK FALSE
