SPECIFICATION ImageSpec
CONSTANTS
  Editors = {"e1", "e2"}
  Callers = {"q1", "q2"}
  ImageJobs = {"b1"}
  TokenFloor = 3
  TokenMargin = 2
  TokenLives = {2, 4}
  ProviderStarts <- MCProviderStarts
INVARIANT RoutedAsSubmitted
CHECK_DEADLOCK FALSE
