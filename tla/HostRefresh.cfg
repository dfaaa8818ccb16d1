SPECIFICATION Spec
CONSTANTS
  Interval = 1
  Burst = 1
  SeqSize = 2
  MaxSessions = 2
  MaxCyclic = 2
  MaxClicks = 3
  MaxTime = 1
INVARIANTS
  RefreshGoesOn
CHECK_DEADLOCK FALSE
