CONSTANTS
    Callers = {c1, c2}
    Sockets = {s1, s2}
    NoCaller = NoCaller
    NoSocket = NoSocket
    MaxReads = 1
    MaxDisconnects = 1
    MaxFaults = 1
SPECIFICATION FairSpec
INVARIANTS
    HandshakeSound
    DisconnectSticks
PROPERTIES
    ConnectionEndsForCause
    EventuallyConnected
CHECK_DEADLOCK FALSE
