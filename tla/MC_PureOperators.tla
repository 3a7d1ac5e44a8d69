----------------------------- MODULE MC_PureOperators -----------------------------
(***************************************************************************)
(* Checks the program's pure computations against reference definitions:  *)
(* the tipping folds of process_cast_vote (Tipping) and the account        *)
(* layouts (AccountLayout).  Every state is one input: kind says which     *)
(* computation it checks; the variables of the other kinds hold None.     *)
(*                                                                         *)
(* Tipping: every five-slot tally with counts up to MaxCount and every     *)
(* supply that is at least the tally's sum, as in the unit test            *)
(* test_text_proposal_vote_tipping, against the definition spec.md gives   *)
(* (section 4.4, "Early decision").                                        *)
(*                                                                         *)
(* Layouts: every account value the handlers can write, packed over the    *)
(* bytes an earlier write to the same account left behind, reads back as   *)
(* that value; old is the earlier value, new the one written over it.      *)
(*                                                                         *)
(* Instructions: every instruction of a small set, written by a client in *)
(* the wire layout (the fields in order, each at the fixed width spec.md   *)
(* section 6 gives, strings zero-padded, integers little-endian), decodes *)
(* back to itself; new is the client's instruction and how many optional  *)
(* trailing fields it sends, old whether u8 arithmetic wraps.              *)
(*                                                                         *)
(* Addresses: every pair old, new of derivations the handlers make, over  *)
(* sample keys, random_ids and nonces.                                     *)
(***************************************************************************)
EXTENDS Tipping, Instruction, Address, FiniteSets

CONSTANTS MaxCount, MaxSpare, Keys, U8Values, U32Values, U64Values, None,
          MaxAllocated

VARIABLES kind, votes, supply, old, new

vars == << kind, votes, supply, old, new >>

Counts == 0 .. MaxCount

TallySum(v) == v[0] + v[1] + v[2] + v[3] + v[4]

Squads ==
    {s \in [is_initialized : {TRUE}, open : BOOLEAN, allocation_type : {0, 1},
            vote_support : U8Values, vote_quorum : U8Values,
            members : SUBSET Keys, proposal_nonce : U32Values,
            member_lock_index : U32Values] : SquadFits(s)}

(* Voter lists: distinct keys, as has_voted holds them.                    *)
VoterLists ==
    {l \in UNION {[1 .. n -> Keys] : n \in 0 .. HasVotedMax} :
        Cardinality(ToSet(l)) = Len(l)}

(* Proposal values: has_voted_num is has_voted.len() as u8, as            *)
(* process_cast_vote and the zeroed account leave it; the tally has five   *)
(* slots, as every proposal read from an account has.                      *)
Proposals ==
    {[is_initialized |-> TRUE, proposal_type |-> t, execution_amount |-> a,
      votes_num |-> 5, has_voted_num |-> Len(l) % 256, has_voted |-> l,
      votes |-> << x, y, 0, 0, 0 >>, supply_at_execute |-> a,
      members_at_execute |-> m, executed |-> e, execute_ready |-> r,
      proposal_index |-> i] :
        t \in {0, 7}, a \in U64Values, l \in VoterLists, x, y \in U64Values,
        m \in U8Values, e, r \in BOOLEAN, i \in U32Values}

Receipts ==
    [is_initialized : {TRUE}, proposal : Keys, vote_cast : {0, 4},
     voter : Keys, cast_timestamp : U64Values, weight : U64Values]

TallyInit ==
    /\ kind = "tally"
    /\ votes \in [VoteSlots5 -> Counts]
    /\ supply \in TallySum(votes) .. TallySum(votes) + MaxSpare
    /\ old = None /\ new = None

(* Every region but the member map and the voter list is written whole,   *)
(* so only those can leave bytes behind; old varies in them.  A proposal's *)
(* earlier voter list is a prefix of its later one (cast_vote only         *)
(* pushes); a receipt account is written once, over the zeroed account.    *)
LayoutInit ==
    /\ votes = None /\ supply = None
    /\ \/ /\ kind = "squad"
          /\ old \in {s \in Squads : s.open /\ s.allocation_type = 0
                                    /\ s.vote_support = 0 /\ s.vote_quorum = 0
                                    /\ s.proposal_nonce = 0
                                    /\ s.member_lock_index = 0}
          /\ new \in Squads
       \/ /\ kind = "proposal"
          /\ new \in Proposals
          /\ old \in {[new EXCEPT !.has_voted = SubSeq(new.has_voted, 1, n),
                                   !.has_voted_num = n] : n \in 0 .. Len(new.has_voted)}
       \/ /\ kind = "receipt"
          /\ old = ZeroReceipt
          /\ new \in Receipts

(* Client strings: zero-padded ASCII, and one ending in a two-byte        *)
(* character right at the field's end.                                     *)
Padded(s, n) == s \o Zeros(n - Len(s))
EndsInWide(n) == [i \in 1 .. n - 2 |-> 97] \o << 195, 169 >>

(* i64::to_le_bytes in two's complement.                                   *)
I64ToLE(t) ==
    IF t >= 0 THEN ToLE(t, 8)
    ELSE LET m == ToLE(-t - 1, 8) IN [i \in 1 .. 8 |-> 255 - m[i]]

(* What a client sends: the tag, the fields in the order unpack reads     *)
(* them, at their widths, and the optional trailing fields it chose.       *)
Encode(c) ==
    LET a == c.ins.args IN
    CASE c.ins.tag = 0 ->
            << 0, a.allocation_type, a.vote_support, a.vote_quorum,
               a.core_threshold >> \o a.squad_name \o a.description
               \o a.token \o a.random_id
      [] c.ins.tag = 1 ->
            << 1, a.vote_quorum >> \o a.squad_name \o a.description
               \o a.random_id \o << a.members_num >>
      [] c.ins.tag = 2 ->
            << 2, a.proposal_type >> \o a.title \o a.description \o a.link
               \o << a.votes_num >> \o FlattenSeq(a.vote_labels)
               \o I64ToLE(a.start_timestamp) \o I64ToLE(a.close_timestamp)
               \o SubSeq(ToLE(a.amount, 8) \o ToLE(a.minimum_out, 8),
                         1, 8 * c.sent)
      [] c.ins.tag \in {3, 4} -> << c.ins.tag, a.vote >>
      [] c.ins.tag \in {5, 6} ->
            << c.ins.tag >> \o (IF c.sent = 1 THEN a.random_id ELSE << >>)
      [] c.ins.tag = 7 ->
            << 7, a.members_num >> \o Zeros(8)
               \o FlattenSeq([i \in 1 .. a.members_num |->
                                ToLE(a.allocation_table[i], 8)])

Ins(t, args, sent) == [ins |-> [tag |-> t, args |-> args], sent |-> sent]

ClientInstructions ==
    {Ins(0, [allocation_type |-> 0, vote_support |-> 51, vote_quorum |-> 51,
             core_threshold |-> 0, squad_name |-> EndsInWide(24),
             description |-> Padded(<< 104, 105 >>, 36),
             token |-> Padded(<< 83, 81 >>, 6), random_id |-> EndsInWide(10)], 0),
     Ins(1, [vote_quorum |-> 2, squad_name |-> Padded(<< >>, 24),
             description |-> EndsInWide(36), random_id |-> Padded(<< 49 >>, 10),
             members_num |-> 3], 0)}
    \cup
    {Ins(2, [proposal_type |-> 7, title |-> t, description |-> Zeros(496),
             link |-> EndsInWide(48), votes_num |-> 2,
             vote_labels |-> << EndsInWide(44), Zeros(44), Zeros(44),
                                Zeros(44), Zeros(44) >>,
             start_timestamp |-> -1, close_timestamp |-> 65537,
             amount |-> IF k >= 1 THEN x ELSE 0,
             minimum_out |-> IF k >= 2 THEN y ELSE 0], k) :
        t \in {Zeros(36), EndsInWide(36)}, k \in 0 .. 2, x, y \in U64Values}
    \cup {Ins(t, [vote |-> v], 0) : t \in {3, 4}, v \in {0, 4}}
    \cup {Ins(t, [random_id |-> IF k = 1 THEN EndsInWide(16) ELSE DefaultRandomId], k) :
           t \in {5, 6}, k \in {0, 1}}
    \cup UNION {{Ins(7, [members_num |-> n, allocation_table |-> tbl], 0) :
                   tbl \in [1 .. n -> U64Values]} : n \in 0 .. MaxAllocated}

InstructionInit ==
    /\ kind = "instruction"
    /\ votes = None /\ supply = None
    /\ new \in ClientInstructions
    /\ old \in BOOLEAN

(* Two keys; squad random_ids of 10 bytes; swap random_ids of 16 bytes,   *)
(* the default and one that ends in the squad seed "!squad", so that two   *)
(* derivations whose seeds differ only in a constant part meet.            *)
SampleKeys == {Zeros(KeyLen), [i \in 1 .. KeyLen |-> i]}
SquadIds   == {[i \in 1 .. 10 |-> 48], EndsInWide(10)}
SwapIds    == {DefaultRandomId, [i \in 1 .. 10 |-> 48] \o SeedSquad}

Derivations ==
       [kind : {"squad"}, a : SampleKeys, b : SquadIds]
  \cup [kind : {"mint", "sol"}, a : SampleKeys, b : {None}]
  \cup [kind : {"wsol"}, a : SampleKeys, b : SwapIds]
  \cup [kind : {"equity", "vote"}, a : SampleKeys, b : SampleKeys]
  \cup [kind : {"proposal"}, a : SampleKeys, b : U32Values]

AddressInit ==
    /\ kind = "address"
    /\ votes = None /\ supply = None
    /\ old \in Derivations
    /\ new \in Derivations

Init == TallyInit \/ LayoutInit \/ InstructionInit \/ AddressInit

Next == UNCHANGED vars

Spec == Init /\ [][Next]_vars

(* The first slot holding the largest count.                               *)
RefLeader(v) ==
    CHOOSE i \in VoteSlots5 :
        /\ \A j \in VoteSlots5 : v[j] <= v[i]
        /\ \A j \in 0 .. i - 1 : v[j] < v[i]

(* The first slot, other than the leader, holding the largest count among *)
(* the others.                                                             *)
RefRunnerUp(v) ==
    LET others == VoteSlots5 \ {RefLeader(v)} IN
    CHOOSE i \in others :
        /\ \A j \in others : v[j] <= v[i]
        /\ \A j \in others : j < i => v[j] < v[i]

(* Leader and runner-up of the folds in process_cast_vote are the slots    *)
(* spec.md names: ties go to the first index, and the runner-up search     *)
(* skips the leader.                                                       *)
LeaderAndRunnerUp ==
    kind = "tally" =>
        /\ MostIndex(votes) = RefLeader(votes)
        /\ SecondMostIndex(votes) = RefRunnerUp(votes)

(* The fold's test tips exactly when one slot's lead over every other slot *)
(* exceeds the weight not yet cast (supply minus the tally).               *)
TippedMatchesReference ==
    kind = "tally" =>
        LET remaining == supply - TallySum(votes) IN
        Tipped(votes, remaining) <=>
            \E i \in VoteSlots5 :
                \A j \in VoteSlots5 \ {i} : votes[i] > votes[j] + remaining

(* A squad written over the bytes of an earlier squad, one with more       *)
(* members included, reads back as written: count_from_le of the member    *)
(* length field bounds the slice, so bytes a longer member map left are   *)
(* never decoded.                                                          *)
SquadRoundTrip ==
    kind = "squad" =>
        LET buf == PackSquad(PackSquad(ZeroSquad, old), new) IN
        SquadReadable(buf) /\ UnpackSquad(buf) = new

(* A proposal written after an earlier write reads back as written: the   *)
(* u8 has_voted_num and the Borsh count of has_voted name the same slice, *)
(* and the tally comes back as its five 8-byte slots.                      *)
ProposalRoundTrip ==
    kind = "proposal" =>
        LET buf == PackProposal(PackProposal(ZeroProposal, old), new) IN
        ProposalReadable(buf) /\ UnpackProposal(buf) = new

(* A vote receipt reads back as written, weight and vote slot included.    *)
ReceiptRoundTrip ==
    kind = "receipt" =>
        LET buf == PackReceipt(old, new) IN
        ReceiptReadable(buf) /\ UnpackReceipt(buf) = new

(* SquadInstruction::unpack reads every instruction a client writes in    *)
(* the wire layout back as written: the fixed offsets of each variant      *)
(* match the field widths, the optional amount and minimum_out are 0 when *)
(* left out and read when sent, an omitted random_id reads as the default, *)
(* and the allocation table yields members_num amounts whether or not u8   *)
(* arithmetic wraps.                                                       *)
InstructionRoundTrip ==
    kind = "instruction" => Unpack(Encode(new), old) = new.ins

(* Address uniqueness of lib.rs: no two different derivations the       *)
(* handlers make (a squad, its mint, sol account, wSOL accounts, member    *)
(* equity accounts, proposals and vote receipts) concatenate to the same   *)
(* seeds, so no account can pass for another, e.g. a wSOL account for a    *)
(* squad or a vote receipt for an equity account.                          *)
SeedsInjective ==
    kind = "address" => (Seeds(old) = Seeds(new) => old = new)

=============================================================================
