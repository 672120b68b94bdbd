CONSTANTS
    GrantIds = {g1, g2}
    TaskIds = {task}
    Tabs = {}
    Durations = {1}
    NoGrant = NoGrant
    NoCapture = NoCapture
    MaxTime = 2
    MaxQueue = 2
    MaxHandoffs = 1
    MaxFaults = 0
    MaxKills = 1
    EarlyBy = 1
SPECIFICATION FairSpec
PROPERTIES
    ExpiredGrantEnds
    CancelledHandoffAnnounced
