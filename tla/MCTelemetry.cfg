CONSTANTS
  Homes = {"celld3"}
  Defects = {"none", "new trace", "await", "reuse", "orphan", "adopt", "sample",
             "give up", "mute"}
  MaxAttempts = 2
  LostReplies = 1
  Losing = {"logs"}
SPECIFICATION FairSpec
INVARIANTS DefectsAreCaught FalseAlarmsAreEarly
PROPERTIES CaseEnds
CHECK_DEADLOCK FALSE
