SPECIFICATION Spec
CONSTANTS
  MaxOps = 2
  Workers = 2
  MaxTime = 1
  MaxVerifies = 1
  PageSize = 1
  MaxPages = 3
  Late = TRUE
  Faulty = FALSE
CHECK_DEADLOCK FALSE
INVARIANTS UncertainIsAccepted
