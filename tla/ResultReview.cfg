SPECIFICATION ReviewSpec
CONSTANTS
  a = a
  votes = votes
  spoilt = spoilt
  v1 = v1
  v2 = v2
  Member = {a}
  Field = {votes, spoilt}
  Value = {v1, v2}
  None = None
  Verification = {"VERIFIED"}
  Captured <- MCCaptured
  Readings <- MCReadings
  MaxDrafts = 3
  MaxEdits = 1
INVARIANTS
    ReadingsAreReal
    SourceTellsTheTruth
    ScreensTellTheLog
CHECK_DEADLOCK FALSE
