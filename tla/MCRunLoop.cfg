SPECIFICATION FairSpec
CONSTANTS
  Ops = {o1, o2, o3}
  Waited = {o1, o2}
  Runners = {r1, r2}
  head = head
  None = None
CHECK_DEADLOCK FALSE
INVARIANTS
  TypeOK
  PoppedInOrder
  ListIsQueue
  OperationOutlivesUse
  NoLostWakeup
PROPERTIES
  RunReturns
  LinkedRuns
