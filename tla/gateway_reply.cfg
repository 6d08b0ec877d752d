SPECIFICATION Spec
CONSTANTS
  Modulus = 2
  MaxRetry = 1
  PendingMax = 2
  TxMax = 1
  EventMax = 1
  Time = Time
  Ack = Ack
  Nothing = Nothing
  WebMsgs = 0
  TcpMsgs = 1
  Syncs = 0
  Keys = 1
  Most = 3
PROPERTY TcpReplies
CHECK_DEADLOCK FALSE
