CONSTANTS
    c1 = c1
    c2 = c2
    c3 = c3
    NoCall = NoCall
    Calls <- ThreeCalls
    Immediate <- TwoImmediate
    Unchanging <- OneUnchanging
    Timers = {t1, t2}
    MaxQueued = 2
    ReadsFail = TRUE
    MaxFaults = 2
    MaxKills = 1
    Profiles = {b, p}
    Builtin = {b}
    Hosts = {h1, h2}
    Agents = {a1, a2}
    None = None
    MaxCustomProfiles = 1
    MaxUaOperations = 3
    MaxUaFaults = 2
    MaxUaKills = 1
    MaxEvents = 2
    MaxPending = 2
    MaxBatch = 1
    MaxAppends = 4
    MaxClears = 1
    MaxAuditFaults = 1
    MaxAuditKills = 1
    NoPairing = NoPairing
    MaxStarts = 3
    MaxBpEvents = 2
    Contents <- ThreeContents
    NoRules = NoRules
    NoSource = NoSource
    Direct = Direct
    MaxPxOperations = 3
    MaxPxFaults = 1
    MaxPxKills = 1
    CiCalls = {k1, k2}
    Containers = {1, 2, 3, 4}
    Foreign = {1}
    MaxManaged = 2
    MaxLooks = 2
    MaxCiFaults = 1
    IpCalls = {k1, k2, k3}
    EarlierProofs <- OneEarlierProof
    k3 = k3
    MaxProofs = 2
    MaxProofBytes = 3
    MaxIpEvents = 2
SPECIFICATION ServicesSpec
INVARIANTS
    RuntimeSound
    UaTypeOK
    RulesFollowSettings
    AuditKept
    PairingSound
    IdentitiesSound
PROPERTIES
    IsWriteBehindStore
    ServicesRest
CHECK_DEADLOCK FALSE
