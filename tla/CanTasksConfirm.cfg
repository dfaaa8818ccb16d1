CONSTANTS
  RxDepth = 1
  TxDepth = 1
  QueueLen = 1
  BatchCap = 5
  FlushAt = 4
  MaxRx = 0
  PktSize <- MCPktSize
  MaxTx = 1
  MaxCtl = 1
  MaxFaults = 0
  MaxRefused = 0
SPECIFICATION FairSpec
PROPERTY ConfirmMeansSent
