CONSTANTS
  celld1 = celld1
  celld2 = celld2
  celld3 = celld3
  Order <- Trio
  Batch = 2
  Traffic = 2
  Beside = 1
  Rounds = 1
  Selection = {"PausedOwner", "CrashLedger", "RestartRaces", "StorageFault", "Multinode", "PausedOwnerStage", "SimultaneousRestart", "InterruptedWrites", "FollowerLoss", "ReplicaDiskLoss", "PeerPartition", "RollingDeployment", "LargeRestore", "MemoryPressure", "InsufficientSpare", "QueueAcceptance", "QueueRedelivery", "WorkflowRecovery", "StreamReconnect", "SocketFailover"}
  Concurrency = 2
  Faulty = {"stale", "lossy", "oldCode", "forgetful", "skips", "clean"}
  Interrupts = TRUE
SPECIFICATION FairSpec
INVARIANTS NoFalseAlarm DamageIsSeen NothingStaysBroken
PROPERTY ScenarioEnds
CHECK_DEADLOCK FALSE
