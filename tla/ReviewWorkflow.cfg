SPECIFICATION Spec
CONSTANTS
    owner = owner
    manager = manager
    drafter = drafter
    reader = reader
    Person <- MCTeam
    Role <- MCManagingDrafter
    Drafter = drafter
    Nobody = Nobody
    ClientClock = {0, 6}
    MaxText = 1
    MaxTime = 7
INVARIANTS
    TypeOK
    ApprovedTextWasReviewed
    StatusFollowsLedger
    FreshReviewPerApproval
PROPERTY ImplementsGovernance
CHECK_DEADLOCK FALSE
