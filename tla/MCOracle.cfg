CONSTANTS
  c1 = c1
  c2 = c2
  b1 = b1
  b2 = b2
  CaseIds <- Cases
  BugIds <- Bugs
  Registries <- AnyRegistry
  Releases <- Numbers
  Profiles <- AnyProfile
  Reviewed <- AnyReviewed
  Values <- AnyValue
SPECIFICATION OracleSpec
INVARIANTS TypeOK VerdictIsEarned WaiverIsEarned OnlyOpenBugsWaive InterruptionsPropagate
CHECK_DEADLOCK FALSE
