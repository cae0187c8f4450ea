SPECIFICATION Spec
CONSTANTS
    t1 = t1
    t2 = t2
    s1 = s1
    s2 = s2
    NoSession = NoSession
    Tasks = {t1, t2}
    Sessions = {s1, s2}
    TaskOf <- MCTwo
    MaxCommits = 2
    MaxMain = 0
    MaxFaults = 0
INVARIANTS
    ReceiptsComplete
CHECK_DEADLOCK FALSE
