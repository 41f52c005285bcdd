CONSTANTS
  celld1 = celld1
  celld2 = celld2
  celld3 = celld3
  Order <- Pair
  Batch = 1
  Traffic = 1
  Beside = 1
  Rounds = 1
  Selection = {"StorageFault"}
  Concurrency = 1
  Faulty = {}
  Interrupts = FALSE
SPECIFICATION Spec
INVARIANT SurvivesLostNodes
CHECK_DEADLOCK FALSE
