SPECIFICATION Spec
CONSTANTS
  Users = {u1}
  u1 = u1
  Plans = {p1}
  p1 = p1
  Codes = {c1}
  c1 = c1
  Scopes = {g1}
  g1 = g1
  Handlers = {h1, h2}
  h1 = h1
  h2 = h2
  Scheduler = Scheduler
  CodePlan <- MCCodePlan
  MaxUses <- MCTwoUses
  Plan0 <- MCPlan0
  Balance0 <- MCBalance0
  Prices = {1, 2}
  Amounts = {1}
  SubIds = {1}
  OrderIds = {1, 2, 3}
  MaxEdits = 1
  MaxPeriods = 3
SYMMETRY HandlerSymmetry
INVARIANT TypeOK
INVARIANT MoneyConserved
INVARIANT PeriodsPaidOnce
PROPERTY RenewsEndedPeriods
PROPERTY PaidPeriodIsServed
CHECK_DEADLOCK FALSE
