CONSTANTS
  Homes = {"celld3"}
  Defects = {"none", "misname"}
  MaxAttempts = 2
  LostReplies = 0
  Losing = {"logs"}
SPECIFICATION Spec
INVARIANTS EveryPayloadNamesTheService
CHECK_DEADLOCK FALSE
