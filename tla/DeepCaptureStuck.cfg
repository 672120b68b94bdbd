CONSTANTS
    Calls = {"start"}
    NoStatus = NoStatus
    MaxTime = 1
    MaxPauses = 1
    MaxCalls = 1
    MaxFaults = 0
SPECIFICATION FairSpec
PROPERTIES
    WatchdogResumes
CHECK_DEADLOCK FALSE
