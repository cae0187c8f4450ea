SPECIFICATION RolloutSpec
CONSTANTS
    Paths = {"o", "c", "r"}
    OwnedPaths = {"o"}
    ReclaimedPaths = {"c"}
    RunnerPaths = {"r"}
    Jobs = {"x"}
    Threshold = 2
    RolloutBounds <- MCOneUpdate
INVARIANTS
    DivergenceSurvives
CHECK_DEADLOCK FALSE
