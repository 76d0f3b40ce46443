SPECIFICATION FairSpec
CONSTANTS
  op1 = op1
  op2 = op2
  snd1 = snd1
  None = None
  Ops <- MCOps
  Senders <- MCSenders
  CopyOf <- MCCopyOf
  Statuses <- MCAllStatuses
  ConcurrentCopies = FALSE
CHECK_DEADLOCK FALSE
INVARIANTS
  TypeOK
  SignalledOnce
  OwnAnswer
PROPERTIES
  EveryStartSignals
