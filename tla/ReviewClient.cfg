SPECIFICATION ClientSpec
CONSTANTS
    owner = owner
    manager = manager
    drafter = drafter
    Person <- MCPerson
    Role <- MCRole
    Drafter = drafter
    Nobody = Nobody
    Blank = Blank
    ClientClock = {0}
    MaxText = 1
    MaxTime = 5
INVARIANTS
    ExportedTextWasApproved
CHECK_DEADLOCK FALSE
