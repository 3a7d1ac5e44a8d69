CONSTANTS
    Keys = {a, b, c}
    NoKey = NoKey
    MemberSets <- SmallMemberSets
    Allocations = {1}
    Percentages = {50}
    SupportAmounts = {50}
    QuorumAmounts = {50}
    MintAmounts = {2}
    TextVotesNum = {2}
    SpendAmounts = {2}
    SwapMinOuts = {}
    SourceChoices = {TRUE}
    MaxProposals = 2
    MaxTime = 1
    U64 <- MCU64
    RandomIds = {r1}
    RentLamports = 1
    InitVault <- MCInitVault
    SwapSurplus = {0}
SPECIFICATION Spec
SYMMETRY KeySymmetry
CHECK_DEADLOCK FALSE
INVARIANT TypeOK
PROPERTY LedgerRefined ClosedProposalFrozen FenceNeverLifted EquityChangeFenced VaultMovesOnlyByProposal
