\* Expected violation: the updater fails before it stops the agent.
CONSTANTS
    Instances = {"unvalidated"}
    Fleet = {}
    FleetActive = 1
    FleetResets = 1
    MaxDeaths = 0
    ATMs = {atm1}
    Me = atm1
    NumPackages = 2
    MaxActive = 0
    MaxResets = 2
    MaxLost = 1
    MaxReboots = 1
    MaxRestarts = 1
    MishapSteps = {"validate", "stop", "backup", "replace", "start", "restart", "write", "writeFailed"}
    MaxMishaps = 1
SPECIFICATION MCSpec
PROPERTY
    AgentComesBack
CHECK_DEADLOCK FALSE
