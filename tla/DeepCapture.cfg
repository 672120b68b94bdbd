CONSTANTS
    Calls = {"start", "keep", "resume", "detach"}
    NoStatus = NoStatus
    MaxTime = 1
    MaxPauses = 1
    MaxCalls = 1
    MaxFaults = 1
SPECIFICATION FairSpec
CONSTRAINT NotExcused
INVARIANTS
    StoppedPageIsWatched
    StatusSound
PROPERTIES
    PauseEnds
CHECK_DEADLOCK FALSE
