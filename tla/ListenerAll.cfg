SPECIFICATION Spec
CONSTANTS
  Daemons = {d1, d2, d3}
  NAddrs = 2
  Setups <- EverySetup
  Faults = {"library", "key", "resolve", "socket", "listen", "filter", "threadfilter"}
  MaxThreads = 2
  None = None
SYMMETRY DaemonSymmetry
CHECK_DEADLOCK FALSE
INVARIANTS
  Reachable
  
