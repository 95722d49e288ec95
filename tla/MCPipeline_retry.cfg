\* The network adapter with retries, dead letters, partial sends, a poison item:
\* nothing is lost and nothing stays pending for ever.
SPECIFICATION LazyFairSpec
CONSTANTS
  TicksPerSecond = 2
  RetryCap = 3
  MaxItems = 3
  MaxTime = 8
  Poison <- SecondItem
  Adapters <- Network
  PartialSend = TRUE
  MaxBatch = 2
  DrainEnabled = TRUE
  MaxBatchesPerCycle = 2
  StopOnError = FALSE
  RetryConfigs <- TwoTries
  Retention = 1
  CleanupEvery = 2
  RetryCLI = FALSE
INVARIANTS BatchOnDisk RetryBudget
PROPERTIES RemovedOnlyWhenDelivered DeadLetterIsFinal KeepsPromise EventuallyLeavesPending
