SPECIFICATION FairSpec
CONSTANTS
  Interval = 1
  Burst = 1
  SeqSize = 2
  MaxSessions = 2
  MaxCyclic = 2
  MaxClicks = 3
  MaxTime = 1
INVARIANTS
  SessionOK
  CyclicRate
PROPERTIES
  PortStaysOpen
  ThreadsEnd
  PullNoticed
CHECK_DEADLOCK FALSE
