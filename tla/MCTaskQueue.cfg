SPECIFICATION FairSpec
CONSTANTS
  Workers = {w1, w2}
  Posters = {p1}
  Tasks = {t1, t2}
  N = 3
  IndexMod = 3
  None = None
CHECK_DEADLOCK FALSE
INVARIANTS
  TypeOK
  NoThunkLost
  NoThunkDuplicated
  SettledAreDrained
PROPERTIES
  NothingQueuedAfterDrain
  ImplementsTaskPool
  EveryDrainReturns
