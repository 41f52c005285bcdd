SPECIFICATION Spec
CONSTANTS
  MaxOps = 2
  Workers = 2
  MaxTime = 2
  MaxVerifies = 2
  PageSize = 1
  MaxPages = 3
  Late = TRUE
  Faulty = TRUE
CHECK_DEADLOCK FALSE
INVARIANTS TypeOK NoFalseAlarm LossIsDetected
