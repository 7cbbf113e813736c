SPECIFICATION ConsoleSpec
CONSTANTS
  Users = {u1, u2, u3}
  u1 = u1
  u2 = u2
  u3 = u3
  Plans = {p1}
  p1 = p1
  Codes = {c1}
  c1 = c1
  Scopes = {g1}
  g1 = g1
  Handlers = {h1, h2}
  h1 = h1
  h2 = h2
  Scheduler = Scheduler
  CodePlan <- MCCodePlan
  MaxUses <- MCTwoUses
  Plan0 <- MCPlan0
  Balance0 <- MCBalance0
  Prices = {0}
  Amounts = {1}
  SubIds = {1, 2, 3}
  OrderIds = {1, 2, 3}
  MaxEdits = 1
  MaxPeriods = 1
  ProxyIds = {1, 2, 3}
  AccountIds = {1, 2, 3}
  ProxyUrls = {"u1", "u2"}
  CrsIds = {"r1"}
  Operators = {o1, o2}
  Lookups = {k1, k2}
  Packages <- MCPackages
  ClientLimit = 2
  RouteStarts <- MCRouteStarts
  Nobody = "none"
  People = {"w1", "w2"}
  Addresses = {"m1", "m2"}
  Requests = {"q1", "q2"}
  EmailStarts <- MCEmailStarts
  Members = {"w1"}
  SignIns = {"q1", "q2"}
  RecoveryCodes = {"r1", "r2"}
  MaxAttempts = 1
  SessionStarts <- MCSessionStarts
  Mailers = {"d1"}
  Savers = {"x1", "x2"}
  MailInputs <- MCMailInputs
  MailStarts <- MCMailStarts
  Sources = {1, 2}
  Credentials = {1, 2}
  UpstreamSays <- MCUpstreamSays
  Listers = {"q1", "q2"}
  Keepers = {"x1", "x2"}
  ListStarts <- MCListStarts
  Downloaders = {"q1", "q2"}
  Removers = {"x1", "x2"}
  AutoNames <- MCAutoNames
  Safe <- MCSafe
  Dotted = {"a..b"}
  MaxOutputImages = 200
  IndexRetries = 2
  FileStarts <- MCFileStarts
  Editors = {"e1", "e2"}
  Callers = {"q1", "q2"}
  ImageJobs = {"b1"}
  TokenFloor = 3
  TokenMargin = 2
  TokenLives = {2, 4}
  ProviderStarts <- MCProviderStarts
INVARIANTS
  CodeUses RoutesSafe ConsoleSafe OneJobPerKey
PROPERTY
  ConsoleKeeps
CHECK_DEADLOCK FALSE
