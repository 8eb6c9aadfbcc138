\* Two packages.  The largest bounds of the instances: three lost or late calls
\* ("settles"), two retries, two kills ("faults").
CONSTANTS
    Instances = {"faults", "reliable", "settles"}
    NumPackages = 2
    MaxResets = 2
    MaxLost = 3
    MaxCrashes = 2
SPECIFICATION MCSpec
INVARIANTS
    TypeOK
    NoImageSetLost
    OnlyVerifiedImages
    BrokenOnlyWhileReplacing
    RollbackRestoresImages
    AppliedWasInstalled
    ShownWhenReliable
PROPERTIES
    SettlesUnlessUnheard
CHECK_DEADLOCK FALSE
