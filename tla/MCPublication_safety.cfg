SPECIFICATION FairSpec
CONSTANTS
    t1 = t1
    t2 = t2
    s1 = s1
    s2 = s2
    NoSession = NoSession
    Tasks = {t1}
    Sessions = {s1}
    TaskOf <- MCOne
    MaxCommits = 3
    MaxMain = 1
    MaxFaults = 2
INVARIANTS
    OnlyValidatedMerges
PROPERTIES
    ReleasedIsDelivered
    MergedIsReconciled
CHECK_DEADLOCK FALSE
