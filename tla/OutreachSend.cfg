SPECIFICATION Spec
CONSTANTS
    k1 = k1
    r1 = r1
    r2 = r2
    r3 = r3
    NoId = NoId
    Key <- MCKey
    Request <- MCRequest
SYMMETRY MCSymmetry
INVARIANTS
    SuccessIsRecorded
    FailedDespiteMail
PROPERTIES
    SentIsFinal
    ImplementsLedger
CHECK_DEADLOCK FALSE
