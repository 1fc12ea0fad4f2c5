SPECIFICATION Spec
CONSTANTS
  Addresses <- MCAddresses
  GenesisAccounts <- MCGenesisAccounts
  GenesisBalance = 3
  MaxBalance = 3
  Txs <- MCTxs
  AllowUnsigned = FALSE
  Caps = {1, 3}
  MaxBatch = 2
  MaxTraces = 2
  MaxStops = 2
INVARIANTS
  GuestAcceptsAllButSelf
  AcceptedConserves
  DiffsLeadToTree
  TreeMatchesAccounts
  LeafIndicesDistinct
  SupplyNeverGrows
  NonceSpentOnce
PROPERTY ImplementsAccounts
CHECK_DEADLOCK FALSE
