CONSTANTS
  Frames <- MCFrames
  Portion = 2
  MaxBatch = 2
  MaxFrames = 4
  MaxClears = 1
  MaxToggles = 2
SPECIFICATION FairSpec
INVARIANTS
  TableOK
  DisplayFollows
PROPERTIES
  CatchesUp
