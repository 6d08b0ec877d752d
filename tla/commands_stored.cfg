SPECIFICATION AppSpec
CONSTANTS
  Texts <- MCTexts
  Default = "x"
  Lost = Lost
  SeqRange = 2
  DispLen = 2
  StoreLen = 1
  ResultLen = 2
  Retries = 1
  Pending = 1
  Waiting = 1
  Prompt = TRUE
  FlashFaults = TRUE
PROPERTIES BootAckMeansStored
