CONSTANTS
  b1 = b1
  b2 = b2
  BatchIds = {b1, b2}
  NoBatch = NoBatch
  GasPrice = 10
  OutboxMayFail = FALSE
  DiskMayFail = FALSE
  MaxSubmissions = 4
  MaxTxs = 4
  MaxReorgs = 0
SPECIFICATION Spec
INVARIANT NoDuplicateSubmission
