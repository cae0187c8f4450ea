SPECIFICATION Spec
CONSTANTS
    d1 = d1
    d2 = d2
    f1 = f1
    Runs = {d1, f1}
    NoRun = NoRun
    Tokens = 2
    Weight <- MCWeight
    Bounded <- MCBounded
    Rank <- MCRank
    MaxAttempts = 2
    MaxStopped = 0
INVARIANTS
    TicketKept
    HeadOnly
    TokensCovered
PROPERTIES
    LeasesAreAtomic
CHECK_DEADLOCK FALSE
