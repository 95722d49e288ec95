\* Two devices, one viewer, a channel of one message.
SPECIFICATION Spec
CONSTANTS
  Devices = {d1, d2}
  Viewers = {w1}
  Alarming = {1}
  Cap = 1
  MaxBatch = 2
  SnapLimit = 2
  MaxCycle = 3
INVARIANTS RemovedStaysRemoved ViewAgreesWithSnapshot FirstIsLatestOnceDelivered
