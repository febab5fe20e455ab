SPECIFICATION Spec
CONSTANTS
  sheet = sheet
  retake = retake
  Photo <- MCPhoto
  NoPhoto = NoPhoto
  MaxId = 4
  NoDraft = NoDraft
  NoTask = NoTask
INVARIANTS
    EvidenceIsPreserved
    PhotoOfTheScreen
    RecordedAsApproved
SYMMETRY MCSymmetry
CHECK_DEADLOCK FALSE
