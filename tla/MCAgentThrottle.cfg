\* Expected violation: two ATMs check before either of them downloads.
CONSTANTS
    Instances = {"rollout"}
    Fleet = {atm1, atm2}
    FleetActive = 1
    FleetResets = 1
    MaxDeaths = 0
    ATMs = {atm1}
    Me = atm1
    NumPackages = 2
    MaxActive = 0
    MaxResets = 2
    MaxLost = 1
    MaxReboots = 1
    MaxRestarts = 1
    MishapSteps = {"validate", "stop", "backup", "replace", "start", "restart", "write", "writeFailed"}
    MaxMishaps = 1
SPECIFICATION MCSpec
INVARIANT
    DownloadsThrottled
CHECK_DEADLOCK FALSE
