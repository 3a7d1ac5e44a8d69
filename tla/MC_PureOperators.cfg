CONSTANTS
    MaxCount = 3
    MaxSpare = 3
    SquadMaxMembers = 2
    HasVotedMax = 2
    Keys = {1, 2, 3}
    U8Values = {0, 255}
    U32Values = {0, 258, 16777216}
    U64Values = {0, 65537}
    None = None
    MaxAllocated = 2
SPECIFICATION Spec
INVARIANT LeaderAndRunnerUp
INVARIANT TippedMatchesReference
INVARIANT SquadRoundTrip
INVARIANT ProposalRoundTrip
INVARIANT ReceiptRoundTrip
INVARIANT InstructionRoundTrip
INVARIANT SeedsInjective
