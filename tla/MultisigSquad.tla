---------------------------- MODULE MultisigSquad ----------------------------
(***************************************************************************)
(* One Multisig squad (allocation_type = 2) of the Squads program.        *)
(*                                                                         *)
(* Init is process_create_multisig.  The actions are the three             *)
(* instructions a multisig squad accepts afterwards: CreateProposalAccount *)
(* (process_create_proposal), CastMultisigVote and ExecuteMultisigProposal,*)
(* and the clock.  Each instruction is one Solana transaction: it commits  *)
(* all of its account writes or none, so each is one atomic action and     *)
(* every error return is the action being disabled.                        *)
(*                                                                         *)
(* Data is abstracted to what the tallies and the checks read: wallet      *)
(* addresses are model values, names, labels and descriptions are left     *)
(* out.  The kinds WithdrawSol, WithdrawSpl and Swap move the treasury,    *)
(* whose state and arms are the module Treasury; a failing cross-program   *)
(* call aborts the transaction and so is a step that does not happen.     *)
(***************************************************************************)
EXTENDS Naturals, FiniteSets, Sequences, SequencesExt, TLC, Treasury

CONSTANTS
    Keys,           \* wallet addresses that sign or are named as targets
    NoKey,          \* the zero address stored by proposals without a target
    InitLists,      \* member lists CreateMultisig is called with
    QuorumAmounts,  \* execution_amount values offered to Quorum proposals
    SpendAmounts,   \* execution_amount values offered to spending proposals
    SwapMinOuts,    \* execution_amount_out values offered to Swap proposals
    SourceChoices,  \* whether a withdrawal names the squad's own account
    OverflowModes,  \* the builds checked: with or without overflow checks
    MaxProposals,   \* bound on proposal_nonce
    MaxTime,        \* bound on the clock
    U64             \* stands for 2^64: exceeds every count of the model

ASSUME NoKey \notin Keys
ASSUME InitLists \subseteq Seq(Keys) /\ \A l \in InitLists : Len(l) > 0
ASSUME QuorumAmounts \subseteq Nat /\ SpendAmounts \subseteq Nat
ASSUME SwapMinOuts \subseteq Nat /\ SourceChoices \subseteq BOOLEAN
ASSUME OverflowModes \subseteq BOOLEAN
ASSUME MaxProposals \in Nat /\ MaxTime \in Nat
ASSUME U64 \in Nat /\ U64 > 256 + 2 * MaxProposals * Cardinality(Keys)

VARIABLES
    members,          \* Squad.members (key set of the BTreeMap)
    vote_quorum,      \* Squad.vote_quorum, a u8
    proposal_nonce,   \* Squad.proposal_nonce
    proposals,        \* proposal_index -> Proposal account
    receipts,         \* the VoteReceipt accounts that hold data
    now,              \* Clock unix_timestamp
    overflow_checks,  \* whether the build panics on integer overflow
    applied           \* history: proposals whose effect was applied, in order

squad_vars == <<members, vote_quorum, proposal_nonce, proposals, receipts, now,
                overflow_checks, applied>>

vars == <<squad_vars, treasury_vars>>

(* The six kinds a multisig accepts.  Text, Support and MintMemberToken   *)
(* are refused by process_create_proposal for a multisig.                  *)
Kinds == {"Quorum", "WithdrawSol", "WithdrawSpl", "Swap", "AddMember",
          "RemoveMember"}

(* Multisig proposals have votes_num = 2: slot 0 is pass, slot 1 reject.  *)
VoteSlots == {0, 1}

U8(x) == x % 256

Time == 0 .. MaxTime

-----------------------------------------------------------------------------
(***************************************************************************)
(* Creation: process_create_multisig and Squad::setup_ms.                  *)
(***************************************************************************)

(* The quorum bound is checked against members_num, the length of the      *)
(* account list, while the members are inserted into a BTreeMap keyed by   *)
(* address: a repeated address is inserted once.                           *)
Init ==
    /\ \E list \in InitLists, q \in 0 .. 255 :
          /\ q >= 1 /\ q <= Len(list)
          /\ members = ToSet(list)
          /\ vote_quorum = q
    /\ proposal_nonce = 0
    /\ proposals = << >>
    /\ receipts = {}
    /\ now = 0
    /\ overflow_checks \in OverflowModes
    /\ applied = << >>
    /\ TreasuryInit

-----------------------------------------------------------------------------
(***************************************************************************)
(* Proposal creation: process_create_proposal on a multisig squad.        *)
(***************************************************************************)

(* The Quorum bound: both sides are truncated to u8.                       *)
QuorumAmountAccepted(amount) == U8(Cardinality(members)) >= U8(amount)

(* The arguments a multisig proposal may be created with: the amount of a  *)
(* Quorum proposal, the member named by AddMember/RemoveMember; for a      *)
(* withdrawal its amount and whether its execution_source is the squad's  *)
(* sol account (or, for WithdrawSpl, its token account); for a Swap the   *)
(* source and destination mints and the minimum out.  Fields a kind does  *)
(* not use keep the zeroed account's value, NoMint for the mints.         *)
ProposalArgs ==
       [kind : {"Quorum"}, amount : QuorumAmounts, target : {NoKey},
        source_ok : {TRUE}, asset_in : {"NoMint"}, asset_out : {"NoMint"},
        amount_out : {0}]
  \cup [kind : {"WithdrawSol", "WithdrawSpl"}, amount : SpendAmounts,
        target : {NoKey}, source_ok : SourceChoices, asset_in : {"NoMint"},
        asset_out : {"NoMint"}, amount_out : {0}]
  \cup {[kind |-> "Swap", amount |-> n, target |-> NoKey, source_ok |-> TRUE,
         asset_in |-> pair[1], asset_out |-> pair[2], amount_out |-> m] :
           n \in SpendAmounts, m \in SwapMinOuts,
           pair \in {<<"SOL", "TOK">>, <<"TOK", "SOL">>}}
  \cup [kind : {"AddMember", "RemoveMember"}, amount : {0}, target : Keys,
        source_ok : {TRUE}, asset_in : {"NoMint"}, asset_out : {"NoMint"},
        amount_out : {0}]

(* The account as Proposal::save_core/save_withdraw/save_member leave it: *)
(* a multisig proposal starts at the current time, all other fields are   *)
(* the zeroed account's.                                                   *)
NewProposal(args, close) ==
    [kind                 |-> args.kind,
     execution_amount     |-> args.amount,
     target               |-> args.target,
     source_ok            |-> args.source_ok,
     asset_in             |-> args.asset_in,
     asset_out            |-> args.asset_out,
     amount_out           |-> args.amount_out,
     start_timestamp      |-> now,
     close_timestamp      |-> close,
     votes                |-> [c \in VoteSlots |-> 0],
     executed             |-> FALSE,
     execute_ready        |-> FALSE,
     threshold_at_execute |-> 0]

CreateProposal(k, args, close) ==
    /\ proposal_nonce < MaxProposals
    /\ k \in members
    /\ args.kind = "Quorum" => QuorumAmountAccepted(args.amount)
    /\ proposals' = proposals @@ (proposal_nonce + 1 :> NewProposal(args, close))
    /\ proposal_nonce' = proposal_nonce + 1
    /\ UNCHANGED <<members, vote_quorum, receipts, now, overflow_checks, applied,
                   treasury_vars>>

-----------------------------------------------------------------------------
(***************************************************************************)
(* Voting: process_cast_multisig_vote.                                     *)
(***************************************************************************)

(* Variant that skips the data_is_empty test on the vote account.         *)
HasVoteReceiptUnchecked(p, k) == FALSE

(* The vote account at the voter's address for p already holds data.      *)
HasVoteReceipt(p, k) == \E r \in receipts : r.proposal = p /\ r.voter = k

(* The voting window: rejected when close_timestamp < now or              *)
(* start_timestamp > now.                                                  *)
VotingOpen(pr) == ~(pr.close_timestamp < now) /\ ~(pr.start_timestamp > now)

(* possible_votes_left = members.len() - (pass + fail) is a u64           *)
(* subtraction; so is the sum with pass.  Without overflow checks they     *)
(* wrap modulo 2^64, with them the subtraction panics.                     *)
PossibleVotesLeft(tally) ==
    (Cardinality(members) - (tally[0] + tally[1])) % U64

VoteUnderflows(tally) == Cardinality(members) < tally[0] + tally[1]

(* The rejection test: the quorum can no longer be reached.                *)
QuorumUnreachable(tally) ==
    vote_quorum > (PossibleVotesLeft(tally) + tally[0]) % U64

(* The tallied proposal: vote counted, rejection closes it, approval      *)
(* marks it ready, and a ready proposal snapshots the quorum.  The voter   *)
(* is also pushed onto has_voted, which no multisig handler reads; the     *)
(* model leaves that list out.                                             *)
Tallied(pr, k, v) ==
    LET tally    == [pr.votes EXCEPT ![v] = @ + 1]
        rejected == QuorumUnreachable(tally)
        ready    == pr.execute_ready \/ rejected \/ tally[0] >= vote_quorum
    IN  [pr EXCEPT !.votes                = tally,
                   !.executed             = @ \/ rejected,
                   !.execute_ready        = ready,
                   !.threshold_at_execute = IF ready THEN vote_quorum ELSE @]

CastMultisigVote(k, p, v) ==
    LET pr == proposals[p] IN
    /\ VotingOpen(pr)
    /\ ~pr.executed
    /\ k \in members
    /\ ~HasVoteReceipt(p, k)
    /\ ~(overflow_checks /\ VoteUnderflows([pr.votes EXCEPT ![v] = @ + 1]))
    /\ receipts' = receipts \cup
                     {[proposal |-> p, voter |-> k, vote_cast |-> v, weight |-> 1]}
    /\ proposals' = [proposals EXCEPT ![p] = Tallied(pr, k, v)]
    /\ UNCHANGED <<members, vote_quorum, proposal_nonce, now, overflow_checks,
                   applied, treasury_vars>>

-----------------------------------------------------------------------------
(***************************************************************************)
(* Execution: process_execute_multisig_proposal.                           *)
(***************************************************************************)

(* Pass votes against the snapshot if the proposal is ready, otherwise     *)
(* against the live quorum.                                                *)
ThresholdReached(pr) ==
    IF pr.execute_ready THEN pr.votes[0] >= pr.threshold_at_execute
                        ELSE pr.votes[0] >= vote_quorum

(* The effects, one per arm of the match; r is the random_id argument.  *)
ExecuteQuorum(pr) ==
    /\ vote_quorum' = U8(pr.execution_amount)
    /\ UNCHANGED <<members, treasury_vars>>

ExecuteAddMember(pr) ==
    /\ pr.target \notin members
    /\ members' = members \cup {pr.target}
    /\ UNCHANGED <<vote_quorum, treasury_vars>>

(* Variant that decrements the quorum on every removal.                    *)
ExecuteRemoveMemberAlwaysDecrement(pr) ==
    /\ pr.target \in members
    /\ vote_quorum' = vote_quorum - 1
    /\ members' = members \ {pr.target}
    /\ UNCHANGED treasury_vars

ExecuteRemoveMember(pr) ==
    /\ pr.target \in members
    /\ vote_quorum' = IF vote_quorum = U8(Cardinality(members))
                         THEN vote_quorum - 1 ELSE vote_quorum
    /\ members' = members \ {pr.target}
    /\ UNCHANGED treasury_vars

Effect(pr, r) ==
    CASE pr.kind = "Quorum"       -> ExecuteQuorum(pr)
      [] pr.kind = "WithdrawSol"  -> WithdrawSol(pr) /\ UNCHANGED <<members, vote_quorum>>
      [] pr.kind = "WithdrawSpl"  -> WithdrawSpl(pr) /\ UNCHANGED <<members, vote_quorum>>
      [] pr.kind = "Swap"         -> ExecuteSwap(pr, r) /\ UNCHANGED <<members, vote_quorum>>
      [] pr.kind = "AddMember"    -> ExecuteAddMember(pr)
      [] pr.kind = "RemoveMember" -> ExecuteRemoveMember(pr)

(* Variant that omits the executed test.                                   *)
ExecutionAllowedReplay(pr) == ThresholdReached(pr)

(* The proposal is not closed and has the approvals it needs.             *)
ExecutionAllowed(pr) == ~pr.executed /\ ThresholdReached(pr)

ExecuteMultisigProposal(k, p, r) ==
    LET pr == proposals[p] IN
    /\ k \in members
    /\ ExecutionAllowed(pr)
    /\ Effect(pr, r)
    /\ proposals' = [proposals EXCEPT ![p].executed = TRUE]
    /\ applied' = Append(applied, p)
    /\ UNCHANGED <<proposal_nonce, receipts, now, overflow_checks>>

-----------------------------------------------------------------------------
(* The clock advances; nothing else changes.                               *)
Tick ==
    /\ now < MaxTime
    /\ now' = now + 1
    /\ UNCHANGED <<members, vote_quorum, proposal_nonce, proposals, receipts,
                   overflow_checks, applied, treasury_vars>>

(* Anyone, member or not, sends lamports to a wSOL address.               *)
Donate(r) ==
    /\ DonateWsol(r)
    /\ UNCHANGED squad_vars

Next ==
    \/ \E k \in Keys, args \in ProposalArgs, close \in Time :
          CreateProposal(k, args, close)
    \/ \E k \in Keys, p \in DOMAIN proposals, v \in VoteSlots :
          CastMultisigVote(k, p, v)
    \/ \E k \in Keys, p \in DOMAIN proposals, r \in RandomIds :
          ExecuteMultisigProposal(k, p, r)
    \/ Tick
    \/ \E r \in RandomIds : Donate(r)

Spec == Init /\ [][Next]_vars

-----------------------------------------------------------------------------
(***************************************************************************)
(* Properties.                                                             *)
(***************************************************************************)

TypeOK ==
    /\ members \subseteq Keys
    /\ vote_quorum \in 0 .. 255
    /\ proposal_nonce \in 0 .. MaxProposals
    /\ DOMAIN proposals = 1 .. proposal_nonce
    /\ \A p \in DOMAIN proposals :
          /\ proposals[p].kind \in Kinds
          /\ proposals[p].votes \in [VoteSlots -> Nat]
          /\ proposals[p].executed \in BOOLEAN
          /\ proposals[p].execute_ready \in BOOLEAN
          /\ proposals[p].threshold_at_execute \in 0 .. 255
    /\ now \in Time
    /\ overflow_checks \in BOOLEAN
    /\ applied \in Seq(DOMAIN proposals)
    /\ vault \in [Assets -> Nat]
    /\ wsol \in [RandomIds -> [lamports : Nat, owner : {"System", "Squads", "Token"},
                               space : {0, VoteReceiptLen, TokenAccountLen}]]

(* The tally of every proposal as the ledger sees it; proposals not yet    *)
(* created have an empty tally.                                            *)
LedgerTally ==
    [p \in 1 .. MaxProposals |->
        IF p \in DOMAIN proposals THEN proposals[p].votes
                                  ELSE [c \in VoteSlots |-> 0]]

Ledger == INSTANCE VoteLedger
            WITH Proposals <- 1 .. MaxProposals, Voters <- Keys,
                 Slots <- VoteSlots, Weights <- {1},
                 ballots <- receipts, tally <- LedgerTally

(* Anti-replay and atomic tallying (process_cast_multisig_vote): the      *)
(* receipts and the proposals' vote counters behave as the abstract vote  *)
(* ledger: a member's second vote on a proposal is refused, and a counter *)
(* moves only together with a new receipt, by its weight, in its slot.    *)
LedgerRefined == Ledger!Spec

(* How many times the effect of p was applied.                             *)
AppliedCount(seq, p) == Len(SelectSeq(seq, LAMBDA x : x = p))

(* A closed proposal is final: once executed is set, by an execution or  *)
(* by the rejection test of a vote, no later vote or execution changes    *)
(* the proposal account or applies its effect again.                      *)
ClosedProposalFrozen ==
    [][\A p \in DOMAIN proposals :
          proposals[p].executed =>
             /\ proposals'[p] = proposals[p]
             /\ AppliedCount(applied', p) = AppliedCount(applied, p)]_vars

(* The lifecycle state of p read off the account and the history.          *)
LifecycleStatus(p) ==
    IF p \notin DOMAIN proposals THEN "None"
    ELSE IF AppliedCount(applied, p) > 0 THEN "Executed"
    ELSE IF proposals[p].executed THEN "Rejected"
    ELSE IF proposals[p].execute_ready THEN "Decided"
    ELSE "Active"

Lifecycle == INSTANCE ProposalLifecycle
               WITH Proposals <- 1 .. MaxProposals,
                    status <- [p \in 1 .. MaxProposals |-> LifecycleStatus(p)]

(* The multisig implements the proposal lifecycle of spec.md: a proposal  *)
(* that a vote has marked execute_ready is executed or stays decided; a   *)
(* later vote cast after a quorum change must not close it as rejected.  *)
LifecycleRefined == Lifecycle!Spec

(* The quorum stays satisfiable (spec section 3: "vote_quorum for Multisig *)
(* is <= member count"): creation, Quorum executions and RemoveMember     *)
(* executions never leave more required approvals than members.           *)
QuorumWithinMembers == vote_quorum <= Cardinality(members)

(* No effect without an approval: every proposal whose effect was applied *)
(* by process_execute_multisig_proposal had at least one pass vote.        *)
ExecutionNeedsApproval ==
    \A i \in DOMAIN applied : proposals[applied[i]].votes[0] >= 1

(* The treasury moves only as an open proposal directs (the WithdrawSol,  *)
(* WithdrawSpl and Swap arms of process_execute_multisig_proposal with     *)
(* process_execute_swap): a step that changes the sol account's lamports   *)
(* or token balance executes one spending proposal p that was not closed  *)
(* and records it; the vault loses at most p's execution_amount, only of  *)
(* p's source asset, and gains at least p's execution_amount_out of a     *)
(* Swap's destination asset, rent of the wSOL account included.            *)
VaultMovesOnlyByProposal ==
    [][vault' # vault =>
         \E p \in DOMAIN proposals :
            LET pr == proposals[p] IN
            /\ pr.kind \in SpendKinds
            /\ ~pr.executed
            /\ applied' = Append(applied, p)
            /\ vault'[SpendAsset(pr)] >= vault[SpendAsset(pr)] - pr.execution_amount
            /\ \A a \in Assets \ {SpendAsset(pr)} :
                  vault'[a] >= vault[a] + MinGain(pr, a)]_vars

(* A member can always vote on an open proposal: while a proposal is in  *)
(* its window and not closed, process_cast_multisig_vote accepts the pass *)
(* or reject vote of every member without a receipt on it, also after    *)
(* RemoveMember executions shrank the member list below the votes        *)
(* already in its tally.                                                  *)
MemberCanVote ==
    \A p \in DOMAIN proposals, k \in members, v \in VoteSlots :
        (VotingOpen(proposals[p]) /\ ~proposals[p].executed
           /\ ~HasVoteReceipt(p, k))
           => ENABLED CastMultisigVote(k, p, v)

=============================================================================
