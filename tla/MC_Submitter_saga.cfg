\* Two batches; crashes, outbox errors and disk errors anywhere, and as many restarts
\* as it takes to bump a gas price into the cap.
CONSTANTS
  b1 = b1
  b2 = b2
  BatchIds = {b1, b2}
  NoBatch = NoBatch
  GasPrice = 10
  OutboxMayFail = TRUE
  DiskMayFail = TRUE
  MaxSubmissions = 3
  MaxTxs = 8
  MaxReorgs = 1
SPECIFICATION FairSpec
INVARIANTS OneSubmissionPerLife ConfirmedWasIncluded BumpsShareNonce GasCapped CompressedHasFile
PROPERTIES SagaForward BackToPolling
