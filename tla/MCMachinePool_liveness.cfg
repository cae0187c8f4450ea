SPECIFICATION FairSpec
CONSTANTS
    d1 = d1
    d2 = d2
    f1 = f1
    Runs = {d1, f1}
    NoRun = NoRun
    Tokens = 1
    Weight <- MCWeight
    Bounded <- MCBounded
    Rank <- MCRank
    MaxAttempts = 1
    MaxStopped = 1
PROPERTIES
    WaitEnds
CHECK_DEADLOCK FALSE
