\* A start may find the retries on or off, and queue retry runs beside the agent.
SPECIFICATION Spec
CONSTANTS
  TicksPerSecond = 2
  RetryCap = 2
  MaxItems = 2
  MaxTime = 2
  Poison <- NoItem
  Adapters <- Either
  PartialSend = FALSE
  MaxBatch = 1
  DrainEnabled = FALSE
  MaxBatchesPerCycle = 1
  StopOnError = TRUE
  RetryConfigs <- Changing
  Retention = 0
  CleanupEvery = 1
  RetryCLI = TRUE
PROPERTIES BackoffWithinASecond OldestWithinASecond GoneForGood
