\* A synchronisation in every second turn, a heartbeat in every turn but for the
\* instance hidden.
CONSTANTS
    Instances = {"single", "overlap", "broken"}
    Users = {u1, u2}
    Backups = {"outside", "inside"}
    SyncTurns = 2
    HeartbeatTurns = 2
    ReadTurns = 1
    MaxEdits = 2
    MaxFaults = 1
    MaxOutages = 1
SPECIFICATION MCSpec
INVARIANTS
    TypeOK
    SyncedInTurn
PROPERTIES
    ConvergesAfterOverlap
    BrokenComesToLight
