SPECIFICATION Spec
CONSTANTS
  Modulus = 2
  MaxRetry = 1
  PendingMax = 2
  TxMax = 1
  EventMax = 1
  Time = Time
  Ack = Ack
  Nothing = Nothing
  WebMsgs = 1
  TcpMsgs = 1
  Syncs = 1
  Keys = 1
  Most = 2
INVARIANTS OneNumberEach AnsweredWasDelivered
PROPERTY Settles
CHECK_DEADLOCK FALSE
