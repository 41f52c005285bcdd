CONSTANTS
  Uncertain = 2
  Cases = {"graceful", "crash", "facets", "overdueAlarm", "diskLoss", "storageOutage"}
  Faults = {"early", "dirty", "corrupt"}
SPECIFICATION FairSpec
INVARIANTS NoFalseAlarm LossIsCaught PassProvesItsName
PROPERTY CaseEnds
CHECK_DEADLOCK FALSE
