SPECIFICATION Spec
CONSTANTS
  Requests = {r1, r2}
  Conns = {c1, c2, c3}
  NoConn = NoConn
  Configs <- SyncClient
  MaxChunks = 1
  MaxLate = 1
INVARIANTS
  SyncAnswered
CHECK_DEADLOCK FALSE
SYMMETRY Symmetry
