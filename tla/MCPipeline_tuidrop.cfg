\* The terminal program of the tui adapter quits while the agent runs.
SPECIFICATION Spec
CONSTANTS
  TicksPerSecond = 2
  RetryCap = 3
  MaxItems = 1
  MaxTime = 1
  Poison <- NoItem
  Adapters <- Terminal
  PartialSend = FALSE
  MaxBatch = 1
  DrainEnabled = FALSE
  MaxBatchesPerCycle = 1
  StopOnError = FALSE
  RetryConfigs <- Disabled
  Retention = 1
  CleanupEvery = 2
  RetryCLI = FALSE
PROPERTIES RemovedOnlyWhenDelivered
