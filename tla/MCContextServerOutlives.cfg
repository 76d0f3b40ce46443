SPECIFICATION FairSpec
CONSTANTS
  NThreads = 1
  NCqs = 1
  IndexMod = 2
  Thunks = {}
  Alarms = {}
  Rpcs = {}
  Deadlined = {}
  Servers = {v1}
  Notes = {}
  Runners = {u1}
  Stoppers = {s1}
  None = None
  PredicateFires = FALSE
  ServersStopFirst = FALSE
PROPERTIES
  StopReturns
