\* Forced inclusion and configuration: hashes forced twice, freeze and unfreeze,
\* two accounts, the blob and off-chain DA providers, two verifier ids.
SPECIFICATION Spec
CONSTANTS
    r1 = r1
    r2 = r2
    d1 = d1
    Accounts = {owner, operator}
    Owner = owner
    NoAddress = "0x0"
    Roots = {zero, r1, r2}
    ZeroRoot = zero
    GenesisRoot = zero
    Data = {d1}
    DaIds = {0}
    Providers = {"BlobDA", "OffChainDA"}
    VerifierIds = {0, 1}
    SoundVerifiers = {}
    MockVerifiers = {"mock"}
    ValidTransitions <- MC_Transitions
    ForcedHashes = {f1, f2}
    ForcedInclusionDelay = 1
    DefaultChallengePeriod = 0
    ChallengePeriods = {0}
    Withdrawals <- MC_NoWithdrawals
    Leaves <- MC_NoLeaves
    Amounts = {}
    MaxBatches = 1
    MaxBlock = 2
    MaxForced = 3
    MaxDeposited = 0
INVARIANT HeadIsOldest
