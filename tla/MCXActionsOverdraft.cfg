SPECIFICATION Spec
CONSTANTS
  w1 = w1  w2 = w2  g = g  a = a
  Workers = {w1}
  Routes = {"http"}
  Requests <- Overdrafts
  Accounts = {g, a}
  genesis = g
  Balances = {3}
  Word = 16
  MaxProposals = 1
  MaxHash = 1
INVARIANTS
  OverdraftRefused
CHECK_DEADLOCK FALSE
