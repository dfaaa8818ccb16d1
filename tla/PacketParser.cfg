SPECIFICATION Spec
CONSTANTS
  Crc <- Crc16
  MaxPayload = 2
  Cmds = {1}
  Payloads <- MCPayloads
  NoiseBytes = {3, 85, 170}
  MaxPackets = 4
  MaxDamage = 2
  Shadow = 1
INVARIANTS
  TypeOK
  OnlySent
  WholeDelivered
  Recovers
CHECK_DEADLOCK FALSE
