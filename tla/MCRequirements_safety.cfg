SPECIFICATION DeliverySpec
CONSTANTS
    Children = {a, b}
    Items = {i1}
    Closers = {k1, k2}
    Kids = {"x", "y"}
    Linkers = {"one", "two"}
    NoLinker = "none"
    Hosts = {"here", "there"}
    HostOf <- MCHostOf
    MaxNumber = 2
    MaxRuns = 3
    MaxEdits = 1
    Change <- MCChange
    MaxHead = 2
    MaxMain = 2
    ChainLength = 2
    MaxChildCommits = 1
    MaxMainline = 2
    MaxHandEdits = 2
    MaxRecoveryKills = 1
INVARIANTS
    ClosedIsProven
    SomeoneCloses
    NumbersDiffer
    ArmedIsVerified
    DoneIsDelivered
    LandedIsExact
CONSTRAINT MCOneKindOfEdit
SYMMETRY MCClosers
CHECK_DEADLOCK FALSE
