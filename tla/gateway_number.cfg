SPECIFICATION Spec
CONSTANTS
  Modulus = 2
  MaxRetry = 1
  PendingMax = 2
  TxMax = 1
  EventMax = 1
  Time = Time
  Ack = Ack
  Nothing = Nothing
  WebMsgs = 1
  TcpMsgs = 0
  Syncs = 1
  Keys = 0
  Most = 3
INVARIANT NumberNamesOneFrame
CHECK_DEADLOCK FALSE
