SPECIFICATION Spec
CONSTANTS
  op1 = op1
  op2 = op2
  snd1 = snd1
  None = None
  Ops <- MCOps
  Senders <- MCSenders
  CopyOf <- MCCopyOf
  Statuses <- MCFewStatuses
  ConcurrentCopies = TRUE
CHECK_DEADLOCK FALSE
INVARIANTS
  ResultPutOnReceiver
