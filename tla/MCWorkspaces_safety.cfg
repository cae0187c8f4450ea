SPECIFICATION WorkspacesSpec
CONSTANTS
    l1 = l1
    l2 = l2
    l3 = l3
    r1 = r1
    r2 = r2
    t1 = t1
    t2 = t2
    Launchers = {l1, l2, l3}
    Nobody = Nobody
    Starts = {l1, l2, l3}
    NoStart = NoStart
    Revisions = {r1, r2}
    Tasks = {t1, t2}
    Cleaners = {c1, c2}
    CleanupBounds <- MCCleanupBounds
    Finishers = {"t", "d"}
    DelegatedTask = "d"
    NoTask = "nobody"
    MaxCommits = 2
    MaxRaw = 1
    MaxStops = 1
INVARIANTS
    WritersExclude
    OrphanKeepsReceipt
    PartialIsOwned
    ReceiptsAreTrue
    VerifiedIsForeign
PROPERTIES
    StartsKeepWork
    OnlyProvenHeadsGo
SYMMETRY MCSymmetry
CHECK_DEADLOCK FALSE
