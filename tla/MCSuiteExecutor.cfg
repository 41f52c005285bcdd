SPECIFICATION FairSpec
CONSTANTS
  Ids = {a, b}
  Resources = {r, s}
  Policy = "compatibility"
  SuiteDeadline = TRUE
  a = a
  b = b
  r = r
  s = s
CHECK_DEADLOCK FALSE
INVARIANTS TypeOK SuccessIsEarned ExitZeroHasEvidence ReportFollowsCleanup EveryStartedCaseIsReported
PROPERTIES Terminates NoCaseAfterStop ImplementsContract
