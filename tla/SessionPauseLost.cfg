SPECIFICATION Spec
CONSTANTS
    Requests = {r1, r2}
    Kinds = {"ask", "resolve"}
    UiOps = {"pause"}
    MaxInFlight = 2
    MaxHandoffs = 1
    MaxUi = 1
    MaxKills = 0
SYMMETRY SessionSymmetry
INVARIANTS
    PauseNeverLost
CHECK_DEADLOCK FALSE
