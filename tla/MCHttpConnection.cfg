SPECIFICATION FairSpec
CONSTANTS
  Conns = {c1, c2}
  Tls = TRUE
  internal_io_service = FALSE
  Pool = TRUE
  Calls = {"stop", "destroy"}
  MaxSends = 3
INVARIANTS
  TypeOK
  TimerCovers
  ListedExactly
PROPERTIES
  OneOperation
  GateStopsCallbacks
  EveryConnectionEnds
CHECK_DEADLOCK FALSE
