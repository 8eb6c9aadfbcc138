\* Expected to fail: a lost reply to the success report, and what the README
\* says of a rollback.
CONSTANTS
    Instances = {"faults"}
    NumPackages = 1
    MaxResets = 0
    MaxLost = 1
    MaxCrashes = 0
SPECIFICATION MCSpec
INVARIANTS
    RollbackReachesServer
CHECK_DEADLOCK FALSE
