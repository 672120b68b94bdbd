CONSTANTS
    GrantIds = {g1}
    TaskIds = {task}
    Tabs = {t1}
    Durations = {1, 2}
    NoGrant = NoGrant
    NoCapture = NoCapture
    MaxTime = 3
    MaxQueue = 1
    MaxHandoffs = 0
    MaxFaults = 0
    MaxKills = 0
    EarlyBy = 0
SPECIFICATION Spec
INVARIANT EndedGrantOwnsNothing
