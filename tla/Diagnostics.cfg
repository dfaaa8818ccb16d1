CONSTANTS
  Kinds <- MCKinds
  Reported <- MCKinds
  MaxFrames <- MCFrames
  MaxChanges = 1
  MaxGets = 1
  MaxResets = 1
SPECIFICATION FairSpec
INVARIANTS
  NoErrorLost
  CountsExact
PROPERTIES
  Settles
