\* Enough transactions that no bound stops the daemon before the faults run out.
CONSTANTS
  LastBatch = 3
  BatchIds <- MCBatchIds
  NoBatch = NoBatch
  GasPrice = 10
  OutboxMayFail = FALSE
  DiskMayFail = FALSE
  MaxSubmissions = 9
  MaxTxs = 12
  MaxReorgs = 1
  StreamCapacity = 2
  MaxFaults = 2
SPECIFICATION PipelineSpec
INVARIANTS LifeInOrder SetBackNeedsRestart
PROPERTIES  StreamComesBack
CHECK_DEADLOCK FALSE
