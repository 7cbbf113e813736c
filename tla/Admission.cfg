SPECIFICATION Spec
CONSTANTS
  ApiKeys = {"k1", "k2"}
  Owners = {"u1"}
  Administrators = {}
  KeyGroups = {"g1"}
  NoGroup = "none"
  NoKey = "nokey"
  Models = {"m1"}
  Calls = {"c1", "c2", "c3"}
  Quotas = {0, 1, 2}
  Amounts = {0, 1}
  CallKey <- MCCallKey
  KeyOwner <- MCKeyOwner
  MapsTo <- MCMapsTo
  AdmissionStarts <- MCStarts
  Checked = {"x1", "x2", "x3"}
  UserOf <- MCUserOf
  InputOf <- MCInputOf
  ModerationKeys = {"mk1", "mk2"}
  Keyworded = {"t2"}
  Exempt = {}
  BanThreshold = 2
  Retries = 1
  RiskBudgets <- MCRiskBudgets
  Holders = {a1}
  Shadows = {s1}
  Parent <- MCParent
  Claude = {}
  Refreshers = {h1, h2}
  Admins = {x1}
  Flows = {f1}
  NoOne = NoOne
  MaxTokens = 2
  MaxAdmin = 1
  Inspected = {q1, q2}
  AuditConfigs <- MCAuditConfigs
  Auditors = {x1}
  AuditBudgets <- MCAuditBudgets
  ModelNames <- MCModelNames
  ChannelIds = {"k1", "k2"}
  PriceGroups = {"pg1", "pg2"}
  Ungrouped = "none"
  PricedAccounts = {"a1", "a2"}
  Charges = {"b1"}
  ChannelInputs <- MCChannelInputs
  GroupInputs <- MCGroupInputs
  UserRates = {7}
  Scale = 4
  PricingStarts <- MCPricingStarts
  Scripts <- MCScripts
  Bodies <- MCBodies
  RuleIds = {1, 2}
  RuleInputs <- MCRuleInputs
INVARIANTS
  PolicySafe GrantsSafe PromptsSafe ChargesSafe
PROPERTY
  OnlyWhatWasShown
CHECK_DEADLOCK FALSE
SYMMETRY Interchangeable
