SPECIFICATION Spec
CONSTANTS
  Tasks <- MCTasks
  Slot0 = "comm"
  Period = 20
  Timeout = 2
  Iwdg = 20
  Busy <- MCBusy
  EraseTimes = {0, 10, 20, 40}
  MaxStores = 2
INVARIANTS
  NoResetWithoutCause
  DeadTaskResets
