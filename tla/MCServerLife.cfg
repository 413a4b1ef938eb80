SPECIFICATION FairSpec
CONSTANTS
  Pool = {"p1", "p2"}
  MaxStarts = 3
  MaxStops = 2
  MaxClients = 2
INVARIANTS
  AcceptChains
  NobodyUsesFreed
PROPERTIES
  StopEnds
CHECK_DEADLOCK FALSE
