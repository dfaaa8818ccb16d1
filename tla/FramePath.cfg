CONSTANTS
  HostFrames <- MCHostFrames
  OtherCommands <- MCOtherCommands
  BusFrames <- MCBusFrames
  FilterCmds <- MCFilterCmds
  TxSlots = 2
  RxSlots = 1
  MaxCommands = 3
  MaxArrivals = 1
SPECIFICATION Spec
INVARIANTS
  FiltersAndRings
  SentAsAsked
  OwnBytes
  ShownAsReceived
CHECK_DEADLOCK FALSE
