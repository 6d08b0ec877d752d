SPECIFICATION Spec
CONSTANTS
  Byte = 16
  SOF = 10
  EOF = 5
  Crc <- MCCrc
  Messages <- MCLongMessages
  Links <- MCGatewayLink
  Noise <- MCNoise
  MaxFaults = 0
INVARIANT
  SyncedFramesArrive
CHECK_DEADLOCK FALSE
