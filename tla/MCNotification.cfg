\* Two snapshots at a time, one alert, an e-mail address and a number.
CONSTANTS
    Instances = {"faults", "serial", "attempts", "restarts", "slow"}
    Checkers = {monitor}
    SlowStart = TRUE
    Alerts = {a1}
    Recipients = {ops, branch}
    Emails = {branch}
    Requests = {r1, r2}
    MaxAttempts = 5
    Sqlite = TRUE
    MaxFaults = 1
    MaxUnanswered = 1
SPECIFICATION MCSpec
INVARIANTS
    TypesOK
    RetriesExclude
    NoDuplicateInTurn
    DisconnectionAlertedOnce
PROPERTIES
    DeliverySettles
    AlertIsDelivered
CHECK_DEADLOCK FALSE
