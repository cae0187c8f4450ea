SPECIFICATION IntakeSpec
CONSTANTS
    Authors = {"a"}
    Evidence = {"e"}
    IntakeBounds <- MCOneAuthor
INVARIANTS
    SupersedeKeepsLinks
CHECK_DEADLOCK FALSE
