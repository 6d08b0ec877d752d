SPECIFICATION Spec
CONSTANTS
  Bits <- MCBits
  SlotSize <- MCSlotSize
  Vector <- MCVector
  Images <- MCImages
  Payloads <- MCPayloads
  Offsets <- MCOffsets
  AddressWords = 8
  FlashFaults = FALSE
  NoRecord = NoRecord
INVARIANT IntactSlotStarts
