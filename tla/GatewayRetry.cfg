SPECIFICATION FairSpec
CONSTANTS
  Requests = {r1, r2}
  r1 = r1
  r2 = r2
  Accounts = {1, 2, 3}
  Groups = {1}
  Member <- MCMember
  GroupOf <- MCOneGroup
  Priority <- MCPriority
  Limits = {1, 2}
  Limit0 <- MCLimit0
  MaxAttempts = 2
  SemIds = {1, 2, 3, 4, 5, 6}
  NoRows = NoRows
  MaxEdits = 0
INVARIANT WithinLimit
INVARIANT EachAttemptNewAccount
INVARIANT SelectionOrder
PROPERTY RequestEnds
CHECK_DEADLOCK FALSE
