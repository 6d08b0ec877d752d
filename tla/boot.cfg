SPECIFICATION FairSpec
CONSTANTS
  Bits <- MCBits
  SlotSize <- MCSlotSize
  Vector <- MCVector
  Images <- MCImages
  Payloads <- MCPayloads
  Offsets <- MCOffsets
  AddressWords = 8
  FlashFaults = TRUE
  NoRecord = NoRecord
INVARIANTS TypeOK RunsVerifiedImage
PROPERTIES ActivatedStaysWhole KeepsABootableImage GivesUpOnlyWithoutImage BootsWhenPossible
