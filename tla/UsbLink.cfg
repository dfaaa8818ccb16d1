SPECIFICATION FairSpec
CONSTANTS
  Tasks <- MCTasks
  Crc <- Crc16
  Cmd <- MCCmd
  Payload <- MCPayload
  FrameCmd = 129
  MinFrame = 2
  MaxLength = 3
  Room <- MCRoom
  HostPort = "jtag"
  Partial = TRUE
  MaxPackets = 2
  MaxPlugs = 1
INVARIANTS
  LinkOK
  Authentic
  CleanArrives
PROPERTIES
  WritesReturn
