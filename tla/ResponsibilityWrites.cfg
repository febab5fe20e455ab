SPECIFICATION Spec
CONSTANTS
    manager = manager
    ada = ada
    ben = ben
    lga = lga
    ward = ward
    unit = unit
    Nobody = Nobody
    NoSlot = NoSlot
    Person = {manager, ada, ben}
    User = {manager, ada}
    Leader = {manager}
    Slot = {lga, ward, unit}
    Level <- MCLevel
    Parent <- MCParent
    Granted <- MCGranted
    Session = {s1, s2}
    MaxRequest = 2
    MaxTime = 4
INVARIANTS
    OneIdentityPerSlot
    AnsweredWasDone
    SerialWritesFollowLog
    WrittenWithAuthority
SYMMETRY Sessions
CHECK_DEADLOCK FALSE
