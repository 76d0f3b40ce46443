SPECIFICATION Spec
CONSTANTS
  Workers = {w1}
  Posters = {p1}
  Tasks = {t1}
  N = 2
  IndexMod = 4
  None = None
CHECK_DEADLOCK FALSE
INVARIANTS
  DrainReturnsAllThunks
