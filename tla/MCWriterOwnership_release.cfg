SPECIFICATION Spec
CONSTANTS
    l1 = l1
    l2 = l2
    l3 = l3
    Launchers = {l1, l2, l3}
    Nobody = Nobody
INVARIANTS
    ReleasedIsReaped
SYMMETRY MCLaunchers
CHECK_DEADLOCK FALSE
