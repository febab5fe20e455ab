SPECIFICATION Spec
CONSTANTS
    owner = owner
    ada = ada
    fay = fay
    seat = seat
    lga = lga
    ward = ward
    unit = unit
    other = other
    Nobody = Nobody
    NoSlot = NoSlot
    Person = {owner, ada, fay}
    Member = {owner, ada}
    Leader = {owner}
    Slot = {seat, lga, ward, unit, other}
    Level <- MCLevel
    Parent <- MCParent
    RowCap = 3
    RefCap = 1
    MaxEvent = 4
INVARIANTS
    OwnGeographyIsWhole
    SqlMirrorsTheFold
    NamedHolderIsCurrent
    ScreenAgreesWithPolicy
CHECK_DEADLOCK FALSE
