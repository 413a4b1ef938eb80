SPECIFICATION ServiceSpec
CONSTANTS
  w1 = w1  w2 = w2  g = g  a = a
  Workers = {w1, w2}
  Routes = {"http", "https", "consensus", "edge"}
  Requests <- Served
  Accounts = {g, a}
  genesis = g
  Balances = {3}
  Word = 16
  MaxProposals = 2
  MaxHash = 2
  IntWord = 16
  LARGEST_PER_PAGE = 3
  PerPages = {1, 3}
  MaxHistory = 4
  Parties = {"self", "peer"}
  Tags = {"old", "new"}
INVARIANTS
  TypeOK
  GiftSeen
  NoStaleProposal
  RetryHarmless
  HistoryConsistent
PROPERTIES
  InfoMissesOnlyMoving
CHECK_DEADLOCK FALSE
SYMMETRY Symmetry
