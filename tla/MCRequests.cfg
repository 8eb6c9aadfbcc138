\* Two dashboards, two probes to two targets, two commands, two faults.
CONSTANTS
    Instances = {"probes", "answered", "commands", "one asks"}
    Users = {u1, u2}
    Targets = {t1, t2}
    MaxProbes = 2
    MaxEdits = 1
    MaxOutages = 1
    MaxFaults = 2
    PendingTimeout = 1
    AckTimeout = 1
    FetchLimit = 5
    MaxAge = 2
    MaxCommands = 2
    LateRequests = TRUE
SPECIFICATION MCSpec
INVARIANTS
    TypesOK
    OutcomeIsItsOwn
    ReadOnce
PROPERTIES
    ProbesEnd
    CommandsEnd
CHECK_DEADLOCK FALSE
