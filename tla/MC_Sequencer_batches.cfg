CONSTANTS
  t1 = t1
  t2 = t2
  t3 = t3
  alice = alice
  Txs = {t1, t2, t3}
  Senders = {alice}
  Tx <- MC_Tx
  SeedBalance <- MC_SeedBalance
  TimeWindow = 2
  Forced = {f1, f2}
  ForcedGas = 2
  ForcedBytes = 1
  Config <- MC_Config
  Scenarios <- MC_Scenarios
  PublishAttempts = 2
SPECIFICATION FairSpec
CHECK_DEADLOCK FALSE
INVARIANTS TypeOK SerialAdmissionIsCovered AcceptedIsHeld  WithinGasLimit NonceOrderInBatch IdNamesOneBatch
 
