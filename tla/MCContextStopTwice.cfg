SPECIFICATION Spec
CONSTANTS
  NThreads = 1
  NCqs = 1
  IndexMod = 2
  Thunks = {}
  Alarms = {}
  Rpcs = {}
  Deadlined = {}
  Servers = {}
  Notes = {}
  Runners = {u1}
  Stoppers = {s1, s2}
  None = None
  PredicateFires = FALSE
  ServersStopFirst = TRUE
PROPERTIES
  StopWaitsForShutdown
