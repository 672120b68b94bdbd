SPECIFICATION SessionsSpec
CONSTANTS
    Requests = {r1, r2}
    Kinds = {"act", "ask", "resolve"}
    UiOps = {"pause", "resume", "complete", "cancel", "clear"}
    MaxInFlight = 2
    MaxHandoffs = 1
    MaxUi = 3
    MaxKills = 1
    NoProfile = NoProfile
    MaxAtOnce = 2
    MaxTrCalls = 4
    MaxDocument = 2
    MaxCallables = 2
    MaxTrEvents = 1
    Contents <- ThreeContents
    NoRules = NoRules
    NoSource = NoSource
    Direct = Direct
    MaxPxOperations = 4
    MaxPxFaults = 1
    MaxPxKills = 1
SYMMETRY SessionSymmetry
CONSTRAINT RecoveryFollowed
INVARIANTS
    PauseHolds
    TimelineSound
    TransformSound
    SourcesSound
PROPERTIES
    OutcomeFinal
CHECK_DEADLOCK FALSE
