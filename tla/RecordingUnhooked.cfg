CONSTANTS
    Invocations = {v1}
    NoInvocation = NoInvocation
    RecorderHook = RecorderHook
    Prerequisites = 0
    MaxPeEvents = 1
SPECIFICATION PageSpec
INVARIANT RecordingContinues
CHECK_DEADLOCK FALSE
