CONSTANTS
  Modes = {"latency", "throttle", "timeout", "drop"}
  Limit = 3
  Uploads = 1
  MaxRequests = 4
  Interrupts = TRUE
SPECIFICATION FairSpec
INVARIANTS TypeOK EvidenceIsSound NothingIsFeigned
PROPERTIES DisturbanceEnds
CHECK_DEADLOCK FALSE
