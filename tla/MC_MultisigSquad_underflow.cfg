\* Votes cast after members who already voted were removed.
CONSTANTS
    Keys = {a, b, c}
    NoKey = NoKey
    InitLists <- DistinctLists
    QuorumAmounts = {2}
    SpendAmounts = {}
    SwapMinOuts = {}
    SourceChoices = {TRUE}
    OverflowModes = {FALSE, TRUE}
    MaxProposals = 2
    MaxTime = 1
    U64 <- MCU64
    RandomIds = {r1}
    RentLamports = 1
    InitVault <- MCInitVault
    SwapSurplus = {0}
SPECIFICATION Spec
SYMMETRY KeySymmetry
CHECK_DEADLOCK FALSE
INVARIANT MemberCanVote
