SPECIFICATION Spec
CONSTANTS
  Requests = {r1, r2}
  r1 = r1
  r2 = r2
  Accounts = {1, 2}
  Groups = {1, 2}
  Member <- MCMember
  GroupOf <- MCTwoGroups
  Priority <- MCPriority
  Limits = {1, 2}
  Limit0 <- MCLimit0
  MaxAttempts = 2
  SemIds = {1, 2, 3, 4, 5}
  NoRows = NoRows
  MaxEdits = 1
INVARIANT SlotAccounting
INVARIANT GroupIsolation
CHECK_DEADLOCK FALSE
