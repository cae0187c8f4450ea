SPECIFICATION Spec
CONSTANTS
    t1 = t1
    t2 = t2
    a = a
    b = b
    Tasks = {t1, t2}
    Doctor = Doctor
    Nobody = Nobody
    Paths = {a, b}
    Generated = {}
    Scopes <- MCScopes
    MaxIds = 3
    MaxLapses = 1
INVARIANTS
    ClaimsAreExclusive
    PublicationsAreExclusive
PROPERTIES
    NoLostUpdate
CONSTRAINT MCSecondFile
SYMMETRY MCTasks
