CONSTANTS
  RxDepth = 1
  TxDepth = 2
  QueueLen = 2
  BatchCap = 5
  FlushAt = 1
  MaxRx = 2
  PktSize <- MCPktSize
  MaxTx = 3
  MaxCtl = 0
  MaxFaults = 1
  MaxRefused = 0
SPECIFICATION Spec
INVARIANTS
  RetrySafe
PROPERTY
  RelaysCommands
