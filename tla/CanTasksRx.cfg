CONSTANTS
  RxDepth = 2
  TxDepth = 1
  QueueLen = 1
  BatchCap = 5
  FlushAt = 4
  MaxRx = 4
  PktSize <- MCPktSize
  MaxTx = 1
  MaxCtl = 1
  MaxFaults = 0
  MaxRefused = 1
SPECIFICATION FairSpec
INVARIANTS
  NoLostWakeup
  BatchSafe
  MutexExcludes
  LossCounted
  NotOvercounted
  FramesConserved
PROPERTIES
  RelaysFrames
  EveryFrameLeaves
  EveryCommandConfirmed
