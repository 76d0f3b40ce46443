SPECIFICATION Spec
CONSTANTS
  NThreads = 2
  NCqs = 2
  IndexMod = 3
  Thunks = {}
  Alarms = {a1}
  Rpcs = {r1}
  Deadlined = {d1}
  Servers = {}
  Notes = {n1}
  Runners = {u1}
  Stoppers = {s1}
  None = None
  PredicateFires = TRUE
  ServersStopFirst = TRUE
SYMMETRY Symmetry
INVARIANTS
  TypeOK
  NoBindAfterShutdown
  StoppedIsQuiescent
  WorkHasOneHome
  RejectedNeverRuns
  NotificationsDelivered
PROPERTIES
  NothingStartsAfterStopped
  ImplementsContract
