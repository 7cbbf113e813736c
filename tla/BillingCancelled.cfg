SPECIFICATION Spec
CONSTANTS
  Users = {u1}
  u1 = u1
  Plans = {p1}
  p1 = p1
  Codes = {}
  Scopes = {g1}
  g1 = g1
  Handlers = {h1}
  h1 = h1
  Scheduler = Scheduler
  CodePlan <- MCCodePlan
  MaxUses <- MCTwoUses
  Plan0 <- MCPlan0
  Balance0 <- MCBalance0
  Prices = {1}
  Amounts = {1}
  SubIds = {1}
  OrderIds = {1, 2, 3}
  MaxEdits = 1
  MaxPeriods = 2
SYMMETRY HandlerSymmetry
PROPERTY CancelledStaysCancelled
CHECK_DEADLOCK FALSE
