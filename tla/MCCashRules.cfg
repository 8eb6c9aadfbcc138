\* Every reading of the cases, histories of up to four readings.
CONSTANTS
    MaxReadings = 4
    MaxNotes = 3
    MaxGap = 2
SPECIFICATION Spec
INVARIANTS
    AgentAndServerAgree
    MatchedMeansSound
    ForecastIsSound
CHECK_DEADLOCK FALSE
