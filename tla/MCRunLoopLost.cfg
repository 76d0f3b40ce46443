SPECIFICATION Spec
CONSTANTS
  Ops = {o1, o2}
  Waited = {o1}
  Runners = {r1}
  head = head
  None = None
CHECK_DEADLOCK FALSE
INVARIANTS
  StartedIsInserted
