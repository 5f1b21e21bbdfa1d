SPECIFICATION Spec
CONSTANTS
  NoPassword = NoPassword
  NoAccount = NoAccount
  Workers = {w1, w2, w3}
  Names = {n1, n2}
  Passwords = {p1, p2}
  MaxRequests = 5
  MaxFailures = 1
  MaxRestarts = 1
SYMMETRY Symmetry
INVARIANTS ToldIsStored WelcomeLasts CacheFollowsTable AloneNamesUnique UnstoredNames
\* The budget of requests ends.
CHECK_DEADLOCK FALSE
