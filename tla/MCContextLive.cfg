SPECIFICATION FairSpec
CONSTANTS
  NThreads = 2
  NCqs = 1
  IndexMod = 2
  Thunks = {t1}
  Alarms = {}
  Rpcs = {r1}
  Deadlined = {}
  Servers = {v1}
  Notes = {}
  Runners = {u1}
  Stoppers = {s1}
  None = None
  PredicateFires = FALSE
  ServersStopFirst = TRUE
PROPERTIES
  StopReturns
  AcceptedWorkRuns
  ServersFixedOnceRunning
INVARIANTS
  StoppedIsQuiescent
  NeverTerminates
  StopWaitsForSomething
