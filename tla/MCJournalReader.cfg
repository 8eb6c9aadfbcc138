\* A GRG journal with up to four faults; three journals whose reading is divided
\* in every way.
CONSTANTS
    Instances = {"faults", "divided", "out", "split"}
    Files <- AllFiles
    Script <- AllScript
    Format <- AllFormat
    BatchSize = 2
    Faults <- AllFaults
    MaxFaults = 4
SPECIFICATION MCSpec
INVARIANTS
    OutIsHandledOnce
    DividedIsWhole
PROPERTY
    EveryOutIsAlerted
CHECK_DEADLOCK FALSE
