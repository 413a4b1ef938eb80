SPECIFICATION Spec
CONSTANTS
  w1 = w1  w2 = w2  g = g  a = a
  Workers = {w1}
  Routes = {"http"}
  Requests <- Gifts
  Accounts = {g, a}
  genesis = g
  Balances = {3}
  Word = 16
  MaxProposals = 2
  MaxHash = 2
INVARIANTS
  GivenOnce
CHECK_DEADLOCK FALSE
