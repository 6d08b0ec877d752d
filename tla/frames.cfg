SPECIFICATION Spec
CONSTANTS
  Byte = 16
  SOF = 10
  EOF = 5
  Crc <- MCCrc
  Messages <- MCMessages
  Links <- MCLinks
  Noise <- MCNoise
  MaxFaults = 2
INVARIANTS
  FrameTypeOK
  SyncedFramesArrive
  OneBadByteIsRejected
  BoundedLoss
