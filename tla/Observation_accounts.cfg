SPECIFICATION Spec
CONSTANTS
  Requests = {r1, r2}
  Sockets = {w1}
  MaxRuns = 2
  MaxMessages = 1
SYMMETRY Symmetry
INVARIANTS
  GaugesAreExact
  AccountsAgree
  RunAccountsAgree
CHECK_DEADLOCK FALSE
