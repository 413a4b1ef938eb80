SPECIFICATION Spec
CONSTANTS
  Conns = {c1, c2}
  Tls = FALSE
  internal_io_service = TRUE
  Pool = TRUE
  Calls = {"stop"}
  MaxSends = 1
INVARIANTS
  StopClosesConnections
CHECK_DEADLOCK FALSE
SYMMETRY Symmetry
