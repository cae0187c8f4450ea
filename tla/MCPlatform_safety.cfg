SPECIFICATION PlatformSpec
CONSTANTS
    Paths = {"o", "c", "r"}
    OwnedPaths = {"o"}
    ReclaimedPaths = {"c"}
    RunnerPaths = {"r"}
    Jobs = {"x", "y"}
    Threshold = 2
    RolloutBounds <- MCRolloutBounds
    Sessions = {"x", "y"}
    Tasks = {"t"}
    KindOf <- MCKinds
    Similar <- MCSimilar
    FrictionBounds <- MCFrictionBounds
    Users = {"a", "b"}
    UserPaths = {"u", "v"}
    Dispatcher = "d"
    NoPathReceipt = "none"
    Hooks = {"h", "i"}
    MaxHandEdits = 2
    Accounts = {"a", "b"}
    NoAccount = "nobody"
    StatePlaces = {"s"}
    ReportPlaces = {"r"}
    GitPlaces = {"g"}
    SourcePlaces = {"q"}
    ScratchOf <- MCScratch
    SharedBounds <- MCSharedBounds
    Readers = {"a", "b"}
    PageSize = 1
    MaxChanges = 3
    MaxReads = 3
INVARIANTS
    RolloutKeepsWork
    StreakIsExact
    OneRoot
    CarriedIsReviewed
    OriginalIsKept
    AdmittedIsFit
    ReadIsLive
CHECK_DEADLOCK FALSE
