CONSTANTS
    GrantIds = {g1, g2}
    TaskIds = {task1, task2}
    Tabs = {t1}
    Durations = {1, 2}
    NoGrant = NoGrant
    NoCapture = NoCapture
    MaxTime = 2
    MaxQueue = 2
    MaxHandoffs = 1
    MaxFaults = 1
    MaxKills = 1
    EarlyBy = 1
SPECIFICATION Spec
SYMMETRY GrantSymmetry
CONSTRAINTS
    CapturesUndisturbed
    HandoffsUndisturbed
INVARIANTS
    TypeOK
    EndedGrantStaysEnded
    LiveGrantHasAlarm
    EndReleasesCaptures
PROPERTIES
    HandoffEndsWithGrant
