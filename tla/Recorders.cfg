CONSTANTS
    Tabs = {t1, t2}
    NoSession = NoSession
    MaxEntries = 1
    MaxBytes = 1
    MaxAllEntries = 1
    MaxAllBytes = 1
    MaxSessions = 2
    MaxDeferred = 1
    MaxNcOperations = 4
    MaxNcEvents = 1
    NoRecording = NoRecording
    MaxBrEvents = 3
    Replays = {r1, r2, r3}
    GuardedTabs = {g1}
    NoReplay = NoReplay
    RuleLimit = 3
    MaxNgEvents = 1
    Invocations = {v1, v2}
    NoInvocation = NoInvocation
    RecorderHook = RecorderHook
    Prerequisites = 1
    MaxPeEvents = 4
    RequestIds = {i1, i2}
    Transfers = {x}
    Parts = 2
    MaxConcurrent = 2
    MaxOutgoing = 1
    MaxRequests = 2
    MaxConnections = 2
    MaxRqFaults = 1
SPECIFICATION RecordersSpec
CONSTRAINT RecordingFollowed
INVARIANTS
    CaptureSound
    RecordingSound
    GuardSound
    ReplaySound
    RequestsSound
PROPERTIES
    RecordersRest
CHECK_DEADLOCK FALSE
