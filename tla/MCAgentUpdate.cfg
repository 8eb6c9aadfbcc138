\* Every fault once; the rollout has three ATMs, two of which die.
CONSTANTS
    Instances = {"faults", "overlap", "settles", "rollout"}
    Fleet = {atm1, atm2, atm3}
    FleetActive = 1
    FleetResets = 1
    MaxDeaths = 2
    ATMs = {atm1}
    Me = atm1
    NumPackages = 2
    MaxActive = 0
    MaxResets = 2
    MaxLost = 1
    MaxReboots = 1
    MaxRestarts = 1
    MishapSteps = {"validate", "stop", "backup", "replace", "start", "restart", "write", "writeFailed"}
    MaxMishaps = 1
SPECIFICATION MCSpec
INVARIANTS
    TypesOK
    ExecutableIsVerified
    AppliedWasInstalled
    FleetThrottled
PROPERTIES
    ComesBack
    Settled
    ATMServed
CHECK_DEADLOCK FALSE
