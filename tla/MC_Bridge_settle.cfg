\* Settlement and funds: both modes and their switches, a sound verifier, and
\* deposits and withdrawals against roots that settle, pend and roll back.
SPECIFICATION Spec
CONSTANTS
    r1 = r1
    r2 = r2
    d1 = d1
    Accounts = {owner}
    Owner = owner
    NoAddress = "0x0"
    Roots = {zero, r1, r2}
    ZeroRoot = zero
    GenesisRoot = zero
    Data = {d1}
    DaIds = {0}
    Providers = {"CalldataDA"}
    VerifierIds = {0}
    SoundVerifiers = {"groth16"}
    MockVerifiers = {}
    ValidTransitions <- MC_Transitions
    ForcedHashes = {}
    ForcedInclusionDelay = 1
    DefaultChallengePeriod = 1
    ChallengePeriods = {0}
    Withdrawals <- MC_Withdrawals
    Leaves <- MC_Leaves
    Amounts = {1}
    MaxBatches = 3
    MaxBlock = 1
    MaxForced = 0
    MaxDeposited = 2
INVARIANTS VerifiedChain PaidFromSettledRoot
PROPERTIES FinalizesAgedRoot RollsBackOnlyOverVerified ImplementsLedger
