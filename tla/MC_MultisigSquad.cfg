CONSTANTS
    Keys = {a, b, c}
    NoKey = NoKey
    InitLists <- DistinctLists
    QuorumAmounts = {0}
    SpendAmounts = {2}
    SwapMinOuts = {1}
    SourceChoices = {TRUE}
    OverflowModes = {FALSE}
    MaxProposals = 2
    MaxTime = 1
    U64 <- MCU64
    RandomIds = {r1}
    RentLamports = 1
    InitVault <- MCInitVault
    SwapSurplus = {0}
SPECIFICATION Spec
SYMMETRY KeySymmetry
CHECK_DEADLOCK FALSE
INVARIANT TypeOK
PROPERTY LedgerRefined ClosedProposalFrozen VaultMovesOnlyByProposal
