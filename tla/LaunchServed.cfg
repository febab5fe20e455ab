SPECIFICATION FairSpec
CONSTANTS
  ann = ann
  bob = bob
  r1 = r1
  r2 = r2
  b1 = b1
  b2 = b2
  Address <- MCAddress
  Run = {r1}
  Batch <- MCBatch
  MaxToken = 2
  BatchLimit = 1
  MaxTrouble = 1
  NoRow = NoRow
  Nobody = Nobody
PROPERTY EveryoneIsMailed
CHECK_DEADLOCK FALSE
