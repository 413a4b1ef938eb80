SPECIFICATION Spec
CONSTANTS
  Requests = {r1, r2}
  Conns = {c1, c2, c3}
  NoConn = NoConn
  Configs <- Clients
  MaxChunks = 1
  MaxLate = 1
INVARIANTS
  TypeOK
  NoSharing
  OneUnused
  SentAtMostTwice
PROPERTIES
  TimerCovers
  GateSilences
  ResetAlone
CHECK_DEADLOCK FALSE
SYMMETRY Symmetry
