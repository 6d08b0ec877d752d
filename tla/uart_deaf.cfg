SPECIFICATION RxSpec
CONSTANTS
  Bytes <- MCBytes
  Size = 4
  HeadWide = 4
  TailWide = 8
INVARIANTS RecoversFromErrors
