SPECIFICATION WorkSpec
CONSTANTS
    Sources = {"s", "t"}
    Plan <- MCPlan
    Direct = "e"
    Touches <- MCTouches
    Outsider = "nobody"
    AuthoringBounds <- MCAuthoringBounds
    Authors = {"a", "b"}
    Evidence = {"e"}
    IntakeBounds <- MCIntakeBounds
    Bounds <- MCRoutingBounds
    Contents = {1, 2}
    Selected <- MCSelected
    Added = "added"
    Full = "full"
    EvidenceBounds <- MCEvidenceBounds
INVARIANTS
    CompleteIsVouched
    CarriedOverOwnOnly
    OneTask
    ClosedIsExplained
    UnplannedIsApproved
    CodexWorkIsAttributed
    PublishedIsReviewed
    PublishedIsValidated
CHECK_DEADLOCK FALSE
