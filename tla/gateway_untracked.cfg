SPECIFICATION Spec
CONSTANTS
  Modulus = 2
  MaxRetry = 1
  PendingMax = 2
  TxMax = 1
  EventMax = 1
  Time = Time
  Ack = Ack
  Nothing = Nothing
  WebMsgs = 2
  TcpMsgs = 1
  Syncs = 0
  Keys = 0
  Most = 3
PROPERTY CommandsAreWaitedFor
CHECK_DEADLOCK FALSE
