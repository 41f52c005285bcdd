CONSTANTS
  a = a
  b = b
  c = c
  d = d
  Ids = {a, b, c, d}
  Resources <- Environments
  Policy = "compatibility"
  SuiteDeadline = TRUE
  Cases <- Selected
  Fixture <- OnFixtures
  Groups <- TwoFixtures
  Deployments <- Checks
  Local = TRUE
SPECIFICATION RunnersFair
INVARIANTS RunnersTypeOK EnvironmentsAreSeparate NoCascade NothingSkipped
PROPERTY RunEnds
CHECK_DEADLOCK FALSE
