SPECIFICATION Spec
CONSTANTS
  NThreads = 2
  NCqs = 1
  IndexMod = 2
  Thunks = {}
  Alarms = {}
  Rpcs = {}
  Deadlined = {}
  Servers = {}
  Notes = {}
  Runners = {u1}
  Stoppers = {s1}
  None = None
  PredicateFires = TRUE
  ServersStopFirst = TRUE
INVARIANTS
  NeverTerminates
