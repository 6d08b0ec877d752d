SPECIFICATION OtaSpec
CONSTANTS
  Bits <- MCBits
  SlotSize <- MCSlotSize
  Vector <- MCVector
  Images <- MCTwins
  Payloads <- MCPayloads
  Offsets <- MCOffsets
  AddressWords = 8
  FlashFaults = FALSE
  NoRecord = NoRecord
  Chunk = 1
  Retry = 2
  Lines <- MCLines
PROPERTY AckConfirmsFrame
