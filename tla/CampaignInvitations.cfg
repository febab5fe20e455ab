SPECIFICATION Spec
CONSTANTS
  owner = owner
  ada = ada
  ben = ben
  vera = vera
  lga = lga
  ward = ward
  none = none
  t1 = t1
  t2 = t2
  Account = {owner, ada, ben}
  Founder = owner
  Volunteer = {vera}
  Nobody = nobody
  Unassigned = unassigned
  Slot = {lga, ward}
  Level <- MCLevel
  Parent <- MCParent
  NoSlot = none
  Tab = {t1, t2}
  MaxInvitation = 2
  MaxOffice = 1
INVARIANTS
    TypeOK
    OffersComeFromAbove
    EveryGrantWasOffered
    HoldersAreRostered
    ConfirmedWasRecorded
PROPERTY StandingOnlyEnds
SYMMETRY MCSymmetry
CHECK_DEADLOCK FALSE
