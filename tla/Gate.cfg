CONSTANTS
    Executions = {e1, e2, e3, e4}
    Gates = {g1, g2}
    NoGate = NoGate
    MaxLimit = 2
    Limits <- OneToTwo
    MaxQueueDepth = 2
    Deletes = TRUE
    RuleIds <- OneToThree
    Custom <- OneProfile
    ProfileValues <- ThreeValues
    ManualConditions <- FourConditions
    SourceTexts <- FourTexts
    Addresses <- FourAddresses
    NoValue = NoValue
    NoSource = NoSource
    Direct = Direct
    MaxPrOperations = 2
    MaxPrFaults = 1
SPECIFICATION MCSpec
INVARIANTS
    TypeOK
    PermitsAccounted
    NoLostWakeup
    GateLimits
    RoutingSound
PROPERTIES
    SemaphoreUntilEdited
    WaiterRuns
