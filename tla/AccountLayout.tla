---------------------------- MODULE AccountLayout ----------------------------
(***************************************************************************)
(* How the program stores its three account kinds: the Pack impls of      *)
(* Squad, Proposal and VoteReceipt, and the two byte helpers of lib.rs.     *)
(* array_refs! cuts an account into disjoint fixed-width regions, so an    *)
(* account is a record of regions, each a sequence of bytes.  Only the     *)
(* regions of the fields the handlers read or write are kept; names,       *)
(* descriptions, labels, links, addresses other than keys, and reserved    *)
(* space are left out.  A public key is one cell holding the key (the code *)
(* uses PUBLIC_KEY_BYTES = 32 bytes); every width is written in KeyCells so *)
(* the slice arithmetic keeps the code's shape.                            *)
(***************************************************************************)
EXTENDS Naturals, Sequences, SequencesExt, FiniteSets

CONSTANTS
    SquadMaxMembers,  \* SQUAD_MAX_MEMBERS (150 in the code)
    HasVotedMax       \* voters the has_voted region holds (150 in the code)

KeyCells == 1

(* x.to_le_bytes() for an n-byte unsigned integer.                         *)
RECURSIVE ToLE(_, _)
ToLE(x, n) == IF n = 0 THEN << >> ELSE << x % 256 >> \o ToLE(x \div 256, n - 1)

(* uN::from_le_bytes.                                                      *)
FromLE(bytes) == FoldRight(LAMBDA b, acc : b + 256 * acc, bytes, 0)

(* transform_u32_to_array_of_u8: four shifted and masked bytes, lowest     *)
(* first.                                                                  *)
TransformU32(x) ==
    << x % 256, (x \div 256) % 256, (x \div 65536) % 256,
       (x \div 16777216) % 256 >>

(* count_from_le: the four bytes or-ed together, lowest first.            *)
CountFromLE(a) == a[1] + a[2] * 256 + a[3] * 65536 + a[4] * 16777216

PackBool(b) == << IF b THEN 1 ELSE 0 >>

(* A bool region is read by match [0] / [1]; any other byte is            *)
(* InvalidAccountData.                                                     *)
BoolValid(r) == r \in {<< 0 >>, << 1 >>}

(* Borsh: a u32 little-endian count, then the elements.  try_from_slice   *)
(* fails unless the slice holds exactly the elements the count names.     *)
BorshKeys(s) == ToLE(Len(s), 4) \o s

BorshKeysValid(bytes) ==
    Len(bytes) >= 4 /\ Len(bytes) = 4 + FromLE(SubSeq(bytes, 1, 4)) * KeyCells

BorshKeysDecode(bytes) == SubSeq(bytes, 5, Len(bytes))

(* Writing s at the start of a region, dst[..s.len()].copy_from_slice(s):  *)
(* the rest of the region keeps what it held.  It panics if s is longer.   *)
WriteFront(region, s) == s \o SubSeq(region, Len(s) + 1, Len(region))

Zeros(n) == [i \in 1 .. n |-> 0]

-----------------------------------------------------------------------------
(***************************************************************************)
(* Squad.                                                                  *)
(***************************************************************************)

(* A key's equity account, as Squad.members maps it.                       *)
Equity(k) == [equity |-> k]

MembersWidth == (KeyCells * 2) * SquadMaxMembers + 4

(* Borsh of the BTreeMap: the count, then key and value in key order.     *)
MembersSer(ms) ==
    LET keys == SetToSortSeq(ms, LAMBDA x, y : x < y) IN
    ToLE(Len(keys), 4) \o FlattenSeq([i \in DOMAIN keys |-> << keys[i], Equity(keys[i]) >>])

MembersValid(bytes) ==
    Len(bytes) >= 4 /\ Len(bytes) = 4 + FromLE(SubSeq(bytes, 1, 4)) * 2 * KeyCells

MembersDecode(bytes) == {bytes[i] : i \in {j \in 5 .. Len(bytes) : (j - 5) % 2 = 0}}

ZeroSquad ==
    [is_initialized |-> << 0 >>, open |-> << 0 >>, allocation_type |-> << 0 >>,
     vote_support |-> << 0 >>, vote_quorum |-> << 0 >>,
     proposal_nonce |-> Zeros(4), members_len |-> Zeros(4),
     members |-> Zeros(MembersWidth), member_lock_index |-> Zeros(4)]

(* pack_into_slice fails (slice out of range) when the map does not fit.  *)
SquadFits(s) == Len(MembersSer(s.members)) <= MembersWidth

(* Mutant: the member count, not the byte length, stored as members_len.  *)
PackSquadMemberCount(buf, s) ==
    LET ser == MembersSer(s.members) IN
    [buf EXCEPT !.is_initialized    = PackBool(s.is_initialized),
                !.open              = PackBool(s.open),
                !.allocation_type   = ToLE(s.allocation_type, 1),
                !.vote_support      = ToLE(s.vote_support, 1),
                !.vote_quorum       = ToLE(s.vote_quorum, 1),
                !.members_len       = TransformU32(Cardinality(s.members)),
                !.members           = WriteFront(@, ser),
                !.proposal_nonce    = ToLE(s.proposal_nonce, 4),
                !.member_lock_index = ToLE(s.member_lock_index, 4)]

(* Squad::pack_into_slice into the account's current bytes.               *)
PackSquad(buf, s) ==
    LET ser == MembersSer(s.members) IN
    [buf EXCEPT !.is_initialized    = PackBool(s.is_initialized),
                !.open              = PackBool(s.open),
                !.allocation_type   = ToLE(s.allocation_type, 1),
                !.vote_support      = ToLE(s.vote_support, 1),
                !.vote_quorum       = ToLE(s.vote_quorum, 1),
                !.members_len       = TransformU32(Len(ser)),
                !.members           = WriteFront(@, ser),
                !.proposal_nonce    = ToLE(s.proposal_nonce, 4),
                !.member_lock_index = ToLE(s.member_lock_index, 4)]

(* The member slice Squad::unpack_from_slice hands to Borsh.              *)
MemberSlice(buf) == SubSeq(buf.members, 1, CountFromLE(buf.members_len))

(* unpack_from_slice succeeds: valid bools, and a member slice that Borsh *)
(* decodes (unwrap panics otherwise).                                      *)
SquadReadable(buf) ==
    /\ BoolValid(buf.is_initialized) /\ BoolValid(buf.open)
    /\ CountFromLE(buf.members_len) > 0 => MembersValid(MemberSlice(buf))

UnpackSquad(buf) ==
    [is_initialized    |-> buf.is_initialized = << 1 >>,
     open              |-> buf.open = << 1 >>,
     allocation_type   |-> FromLE(buf.allocation_type),
     vote_support      |-> FromLE(buf.vote_support),
     vote_quorum       |-> FromLE(buf.vote_quorum),
     members           |-> IF CountFromLE(buf.members_len) > 0
                             THEN MembersDecode(MemberSlice(buf)) ELSE {},
     proposal_nonce    |-> FromLE(buf.proposal_nonce),
     member_lock_index |-> FromLE(buf.member_lock_index)]

-----------------------------------------------------------------------------
(***************************************************************************)
(* Proposal.                                                               *)
(***************************************************************************)

VoteOptions == 5   \* PROPOSAL_VOTE_OPTIONS_NUM

HasVotedWidth == HasVotedMax * KeyCells + 4

ZeroProposal ==
    [is_initialized |-> << 0 >>, proposal_type |-> << 0 >>,
     execution_amount |-> Zeros(8), votes_num |-> << 0 >>,
     has_voted_num |-> << 0 >>, has_voted |-> Zeros(HasVotedWidth),
     votes |-> Zeros(VoteOptions * 8), supply_at_execute |-> Zeros(8),
     members_at_execute |-> << 0 >>, executed |-> << 0 >>,
     execute_ready |-> << 0 >>, proposal_index |-> Zeros(4)]

(* The pack panics on more than five tallies (0..5 - len underflows) and  *)
(* on more voters than the has_voted region holds.                         *)
ProposalFits(p) ==
    Len(p.votes) <= VoteOptions /\ Len(p.has_voted) <= HasVotedMax

(* The tally padded with zeros to five options, each as 8 LE bytes.       *)
VotesSer(votes) ==
    LET padded == votes \o Zeros(VoteOptions - Len(votes)) IN
    FlattenSeq([i \in 1 .. VoteOptions |-> ToLE(padded[i], 8)])

(* Proposal::pack_into_slice into the account's current bytes.            *)
PackProposal(buf, p) ==
    [buf EXCEPT !.is_initialized     = PackBool(p.is_initialized),
                !.proposal_type      = ToLE(p.proposal_type, 1),
                !.execution_amount   = ToLE(p.execution_amount, 8),
                !.votes_num          = ToLE(p.votes_num, 1),
                !.has_voted_num      = ToLE(p.has_voted_num, 1),
                !.has_voted          = WriteFront(@, BorshKeys(p.has_voted)),
                !.votes              = VotesSer(p.votes),
                !.supply_at_execute  = ToLE(p.supply_at_execute, 8),
                !.members_at_execute = ToLE(p.members_at_execute, 1),
                !.executed           = PackBool(p.executed),
                !.execute_ready      = PackBool(p.execute_ready),
                !.proposal_index     = ToLE(p.proposal_index, 4)]

(* Mutant: the slice without the four count bytes.                       *)
VoterSliceNoCount(buf) ==
    SubSeq(buf.has_voted, 1, KeyCells * FromLE(buf.has_voted_num))

(* The voter slice unpack_from_slice hands to Borsh: has_voted_num keys   *)
(* and the count, &has_voted_src[0..32 * has_voted_num + 4].               *)
VoterSlice(buf) ==
    SubSeq(buf.has_voted, 1, KeyCells * FromLE(buf.has_voted_num) + 4)

ProposalReadable(buf) ==
    /\ BoolValid(buf.is_initialized) /\ BoolValid(buf.executed)
    /\ BoolValid(buf.execute_ready)
    /\ FromLE(buf.has_voted_num) > 0 => BorshKeysValid(VoterSlice(buf))

(* The tally is read back as the five 8-byte chunks.                       *)
UnpackProposal(buf) ==
    [is_initialized     |-> buf.is_initialized = << 1 >>,
     proposal_type      |-> FromLE(buf.proposal_type),
     execution_amount   |-> FromLE(buf.execution_amount),
     votes_num          |-> FromLE(buf.votes_num),
     has_voted_num      |-> FromLE(buf.has_voted_num),
     has_voted          |-> IF FromLE(buf.has_voted_num) > 0
                              THEN BorshKeysDecode(VoterSlice(buf)) ELSE << >>,
     votes              |-> [i \in 1 .. VoteOptions |->
                               FromLE(SubSeq(buf.votes, 8 * i - 7, 8 * i))],
     supply_at_execute  |-> FromLE(buf.supply_at_execute),
     members_at_execute |-> FromLE(buf.members_at_execute),
     executed           |-> buf.executed = << 1 >>,
     execute_ready      |-> buf.execute_ready = << 1 >>,
     proposal_index     |-> FromLE(buf.proposal_index)]

-----------------------------------------------------------------------------
(***************************************************************************)
(* VoteReceipt.                                                            *)
(***************************************************************************)

ZeroReceipt ==
    [is_initialized |-> << 0 >>, proposal |-> << 0 >>, vote_cast |-> << 0 >>,
     voter |-> << 0 >>, cast_timestamp |-> Zeros(8), weight |-> Zeros(8)]

(* VoteReceipt::pack_into_slice.                                           *)
PackReceipt(buf, r) ==
    [buf EXCEPT !.is_initialized = PackBool(r.is_initialized),
                !.proposal       = << r.proposal >>,
                !.vote_cast      = << r.vote_cast >>,
                !.voter          = << r.voter >>,
                !.cast_timestamp = ToLE(r.cast_timestamp, 8),
                !.weight         = ToLE(r.weight, 8)]

ReceiptReadable(buf) == BoolValid(buf.is_initialized)

(* Mutant: weight and cast_timestamp read from each other's region.      *)
UnpackReceiptSwapped(buf) ==
    [is_initialized |-> buf.is_initialized = << 1 >>,
     proposal       |-> buf.proposal[1],
     vote_cast      |-> buf.vote_cast[1],
     voter          |-> buf.voter[1],
     cast_timestamp |-> FromLE(buf.weight),
     weight         |-> FromLE(buf.cast_timestamp)]

(* VoteReceipt::unpack_from_slice.                                         *)
UnpackReceipt(buf) ==
    [is_initialized |-> buf.is_initialized = << 1 >>,
     proposal       |-> buf.proposal[1],
     vote_cast      |-> buf.vote_cast[1],
     voter          |-> buf.voter[1],
     cast_timestamp |-> FromLE(buf.cast_timestamp),
     weight         |-> FromLE(buf.weight)]

=============================================================================
