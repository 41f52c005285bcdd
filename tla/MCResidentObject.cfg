CONSTANTS
  celld1 = celld1
  celld2 = celld2
  celld3 = celld3
  Order <- Trio
  Homes <- FirstOrLast
  Selection = {"reloadAdoption", "reloadInvalid", "reloadInFlight", "reloadSocket", "reloadForced", "reloadModuleBytes", "cursorResponse", "cursorOutbound", "syncRecovery", "syncOutage", "syncTransaction", "cursorSync", "syncAbort", "syncBarrierPartition", "transactionDeadline", "gateDeadline"}
  MaxLag = 6
  RestMs = 7000
  GiveUpMs = 8000
  Flawed = TRUE
  Interrupts = TRUE
SPECIFICATION FairSpec
INVARIANTS NoFalseAlarm DefectsAreCaught EverythingIsRestored
PROPERTY CaseEnds
CHECK_DEADLOCK FALSE
