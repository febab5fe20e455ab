SPECIFICATION CallSpec
CONSTANTS
    owner = owner
    manager = manager
    drafter = drafter
    Person <- MCPerson
    Role <- MCRole
    Drafter = drafter
    Nobody = Nobody
    Session = {s1, s2}
    ClientClock = {0}
    MaxText = 1
    MaxTime = 5
INVARIANTS
    TwoPeopleBehindEveryApproval
    SerialCallsKeepThePromise
SYMMETRY CallSymmetry
CHECK_DEADLOCK FALSE
