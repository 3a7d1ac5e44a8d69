------------------------------ MODULE TeamSquad ------------------------------
(***************************************************************************)
(* One TeamCoordination squad (allocation_type = 1) of the Squads program. *)
(*                                                                         *)
(* Init is process_create_squad.  The actions are the instructions a team  *)
(* squad accepts afterwards: AddMembersToSquad (the one-shot admission of  *)
(* the draft's members), CreateProposalAccount, CastVote and               *)
(* ExecuteProposal, and the clock.  Each is one Solana transaction: it    *)
(* commits all of its account writes or none, so it is one atomic action   *)
(* and every error return is the action being disabled.                    *)
(*                                                                         *)
(* A member's equity is the balance of its equity token account; those    *)
(* accounts are owned by the squad's mint PDA, so balances change only     *)
(* through this program's mint_to and burn calls, and the governance mint *)
(* supply is always the sum of the balances.  Names, labels and addresses  *)
(* are left out.  The kinds WithdrawSol, WithdrawSpl and Swap move the   *)
(* treasury through the arms of the module Treasury, which the team arms  *)
(* of process_execute_proposal share with the multisig handler.           *)
(***************************************************************************)
EXTENDS Naturals, FiniteSets, Sequences, SequencesExt, Functions, Tipping,
        Treasury

CONSTANTS
    Keys,             \* wallet addresses that sign or are named as targets
    NoKey,            \* the zero address of proposals without a target
    MemberSets,       \* the member lists AddMembersToSquad is called with
    Allocations,      \* token amounts of the allocation table
    Percentages,      \* vote_quorum / vote_support given to CreateSquad
    SupportAmounts,   \* execution_amount values offered to Support proposals
    QuorumAmounts,    \* execution_amount values offered to Quorum proposals
    MintAmounts,      \* amounts offered to AddMember and MintMemberToken
    SpendAmounts,     \* execution_amount values offered to spending proposals
    SwapMinOuts,      \* execution_amount_out values offered to Swap proposals
    SourceChoices,    \* whether a withdrawal names the squad's own account
    TextVotesNum,     \* votes_num values offered to Text proposals
    MaxProposals,     \* bound on proposal_nonce
    MaxTime,          \* bound on the clock
    U64               \* stands for 2^64: exceeds every sum of the model

ASSUME NoKey \notin Keys
ASSUME MemberSets \subseteq SUBSET Keys
ASSUME Percentages \subseteq 1 .. 100
ASSUME TextVotesNum \subseteq 1 .. 5
ASSUME SpendAmounts \subseteq Nat /\ SwapMinOuts \subseteq Nat
ASSUME SourceChoices \subseteq BOOLEAN
ASSUME MaxProposals \in Nat /\ MaxTime \in Nat /\ U64 \in Nat

VARIABLES
    open,               \* Squad.open: draft mode
    members,            \* Squad.members (key set of the BTreeMap)
    balance,            \* equity token balance of each key's equity account
    vote_quorum,        \* Squad.vote_quorum, a u8 percentage
    vote_support,       \* Squad.vote_support, a u8 percentage
    proposal_nonce,     \* Squad.proposal_nonce
    member_lock_index,  \* Squad.member_lock_index
    proposals,          \* proposal_index -> Proposal account
    receipts,           \* the VoteReceipt accounts that hold data
    now,                \* Clock unix_timestamp
    overflow_checks,    \* whether the build panics on integer overflow
    applied             \* history: proposals whose effect was applied, in order

squad_vars == << open, members, balance, vote_quorum, vote_support,
                 proposal_nonce, member_lock_index, proposals, receipts, now,
                 overflow_checks, applied >>

vars == << squad_vars, treasury_vars >>

squad == << members, balance, vote_quorum, vote_support, member_lock_index >>

Kinds == {"Text", "Support", "Quorum", "WithdrawSol", "WithdrawSpl", "Swap",
          "AddMember", "RemoveMember", "MintMemberToken"}

U8(x) == x % 256

Time == 0 .. MaxTime

(* Every balance an equity account can hold: the allocations, the minted  *)
(* amounts, and 0.                                                         *)
Balances == Allocations \cup MintAmounts \cup {0}

(* The governance mint's supply.                                           *)
Supply == SumFunction(balance)

(* (num as f32 / den as f32) * 100.0 >= threshold as f32.  For the small   *)
(* counts of the model the f32 result equals the exact quotient wherever a *)
(* threshold of at most 100 is compared; a zero denominator yields +inf    *)
(* for a positive numerator and NaN for zero, and NaN compares false.      *)
PercentAtLeast(num, den, threshold) ==
    IF den = 0 THEN num > 0 ELSE num * 100 >= threshold * den

(* The same quotient compared with <, as process_execute_proposal does:    *)
(* NaN < threshold is false too.                                           *)
PercentBelow(num, den, threshold) ==
    IF den = 0 THEN FALSE ELSE num * 100 < threshold * den

-----------------------------------------------------------------------------
(***************************************************************************)
(* Creation: process_create_squad, Squad::setup_tc, and                    *)
(* process_add_members_to_squad.                                           *)
(***************************************************************************)

(* A fresh draft squad: both percentages checked to lie in 1..100, no      *)
(* members, no equity.                                                     *)
Init ==
    /\ open = TRUE
    /\ members = {}
    /\ balance = [k \in Keys |-> 0]
    /\ vote_quorum \in Percentages
    /\ vote_support \in Percentages
    /\ proposal_nonce = 0
    /\ member_lock_index = 0
    /\ proposals = << >>
    /\ receipts = {}
    /\ now = 0
    /\ overflow_checks \in BOOLEAN
    /\ applied = << >>
    /\ TreasuryInit

(* The admin admits the members of the draft, mints each its allocation   *)
(* into a new equity account, and closes draft mode.  A repeated address   *)
(* fails initialize_account on its existing equity account and aborts.     *)
AddMembersToSquad(ms, alloc) ==
    /\ open
    /\ members' = ms
    /\ balance' = [k \in Keys |-> IF k \in ms THEN alloc[k] ELSE 0]
    /\ open' = FALSE
    /\ UNCHANGED << vote_quorum, vote_support, proposal_nonce,
                   member_lock_index, proposals, receipts, now,
                   overflow_checks, applied, treasury_vars >>

-----------------------------------------------------------------------------
(***************************************************************************)
(* Proposal creation: process_create_proposal on a team squad.             *)
(***************************************************************************)

(* The per-kind bound on the amount.  Support is checked to lie in        *)
(* 1..100; the Quorum check is written amount > 0 || amount <= 100, which  *)
(* every u64 satisfies.                                                    *)
AmountAccepted(args) ==
    CASE args.kind = "Support" -> args.amount >= 1 /\ args.amount <= 100
      [] args.kind = "Quorum"  -> args.amount > 0 \/ args.amount <= 100
      [] OTHER                 -> TRUE

(* The arguments a team proposal may be created with.  votes_num must be  *)
(* 2 for every kind but Text.  A withdrawal carries its amount and whether *)
(* its execution_source is the squad's sol account (or its token account); *)
(* a Swap its source and destination mints and its minimum out.  Fields a  *)
(* kind does not use keep the zeroed account's value, NoMint for mints.    *)
ProposalArgs ==
  LET Core(ks, vn, amounts, targets) ==
        [kind : ks, votes_num : vn, amount : amounts, target : targets,
         source_ok : {TRUE}, asset_in : {"NoMint"}, asset_out : {"NoMint"},
         amount_out : {0}]
  IN   Core({"Text"}, TextVotesNum, {0}, {NoKey})
  \cup Core({"Support"}, {2}, SupportAmounts, {NoKey})
  \cup Core({"Quorum"}, {2}, QuorumAmounts, {NoKey})
  \cup Core({"AddMember", "MintMemberToken"}, {2}, MintAmounts, Keys)
  \cup Core({"RemoveMember"}, {2}, {0}, Keys)
  \cup [kind : {"WithdrawSol", "WithdrawSpl"}, votes_num : {2},
        amount : SpendAmounts, target : {NoKey}, source_ok : SourceChoices,
        asset_in : {"NoMint"}, asset_out : {"NoMint"}, amount_out : {0}]
  \cup {[kind |-> "Swap", votes_num |-> 2, amount |-> n, target |-> NoKey,
         source_ok |-> TRUE, asset_in |-> pair[1], asset_out |-> pair[2],
         amount_out |-> m] :
           n \in SpendAmounts, m \in SwapMinOuts,
           pair \in {<<"SOL", "TOK">>, <<"TOK", "SOL">>}}

(* The account as the Proposal::save_* functions leave it: a team          *)
(* proposal keeps the start_timestamp it was given; the tally, the voter  *)
(* list and the snapshots are the zeroed account's.                        *)
NewProposal(args, start, close) ==
    [kind               |-> args.kind,
     votes_num          |-> args.votes_num,
     execution_amount   |-> args.amount,
     target             |-> args.target,
     source_ok          |-> args.source_ok,
     asset_in           |-> args.asset_in,
     asset_out          |-> args.asset_out,
     amount_out         |-> args.amount_out,
     proposal_index     |-> proposal_nonce + 1,
     start_timestamp    |-> start,
     close_timestamp    |-> close,
     votes              |-> [c \in VoteSlots5 |-> 0],
     has_voted          |-> {},
     executed           |-> FALSE,
     execute_ready      |-> FALSE,
     supply_at_execute  |-> 0,
     members_at_execute |-> 0]

CreateProposal(k, args, start, close) ==
    /\ proposal_nonce < MaxProposals
    /\ k \in members
    /\ ~open
    /\ AmountAccepted(args)
    /\ proposals' = proposals @@ (proposal_nonce + 1 :>
                                    NewProposal(args, start, close))
    /\ proposal_nonce' = proposal_nonce + 1
    /\ UNCHANGED << open, squad, receipts, now, overflow_checks, applied,
                   treasury_vars >>

-----------------------------------------------------------------------------
(***************************************************************************)
(* Voting: process_cast_vote.                                              *)
(***************************************************************************)

(* The membership lock: an undecided proposal whose index is at most      *)
(* member_lock_index accepts no vote and no execution.                     *)
Fenced(pr) == ~pr.execute_ready /\ pr.proposal_index <= member_lock_index

(* Variant that never finds the vote account initialised.                 *)
HasVoteReceiptUnchecked(p, k) == FALSE

(* The vote account at the voter's address for p already holds data.      *)
HasVoteReceipt(p, k) == \E r \in receipts : r.proposal = p /\ r.voter = k

(* close_timestamp < now or start_timestamp > now rejects the vote.        *)
VotingOpen(pr) == ~(pr.close_timestamp < now) /\ ~(pr.start_timestamp > now)

(* possible_votes_left = supply - total_votes, a u64 subtraction: it       *)
(* panics with overflow checks and wraps without.                          *)
PossibleVotesLeft(tally) == (Supply - SumFunction(tally)) % U64

VoteUnderflows(tally) == Supply < SumFunction(tally)

(* The quorum and support tests of a vote: the share of members that have *)
(* voted, and the share of the supply behind the leading slot.             *)
DecisionReady(voters, lead) ==
    /\ PercentAtLeast(Cardinality(voters), Cardinality(members), vote_quorum)
    /\ PercentAtLeast(lead, Supply, vote_support)

(* Text: the tipping test of Tipping, on the u64 sum.                      *)
TextTallied(pr, tally, voters) ==
    LET lead   == tally[MostIndex(tally)]
        tipped == lead > (tally[SecondMostIndex(tally)]
                            + PossibleVotesLeft(tally)) % U64
    IN  [pr EXCEPT !.execute_ready = @ \/ (tipped /\ DecisionReady(voters, lead))]

(* Binary kinds: more reject weight than pass weight plus the weight not  *)
(* yet cast closes the proposal; quorum and support on the pass weight    *)
(* mark it ready.                                                          *)
BinaryTallied(pr, tally, voters) ==
    LET rejected == tally[1] > (tally[0] + PossibleVotesLeft(tally)) % U64
    IN  [pr EXCEPT !.executed      = @ \/ rejected,
                   !.execute_ready = @ \/ DecisionReady(voters, tally[0])]

(* The proposal after the vote: weight added to the slot, voter pushed    *)
(* onto has_voted, the decision tests, and the snapshots taken on every   *)
(* vote.                                                                   *)
Tallied(pr, k, v) ==
    LET tally   == [pr.votes EXCEPT ![v] = @ + balance[k]]
        voters  == pr.has_voted \cup {k}
        counted == [pr EXCEPT !.votes = tally, !.has_voted = voters]
        decided == IF pr.kind = "Text" THEN TextTallied(counted, tally, voters)
                                       ELSE BinaryTallied(counted, tally, voters)
    IN  [decided EXCEPT !.supply_at_execute  = Supply,
                        !.members_at_execute = U8(Cardinality(members))]

CastVote(k, p, v) ==
    LET pr == proposals[p] IN
    /\ ~Fenced(pr)
    /\ VotingOpen(pr)
    /\ ~pr.executed
    /\ k \in members
    /\ ~HasVoteReceipt(p, k)
    /\ v < pr.votes_num
    /\ ~(overflow_checks
           /\ VoteUnderflows([pr.votes EXCEPT ![v] = @ + balance[k]]))
    /\ receipts' = receipts \cup {[proposal |-> p, voter |-> k,
                                   vote_cast |-> v, weight |-> balance[k]]}
    /\ proposals' = [proposals EXCEPT ![p] = Tallied(pr, k, v)]
    /\ UNCHANGED << open, squad, proposal_nonce, now, overflow_checks,
                   applied, treasury_vars >>

-----------------------------------------------------------------------------
(***************************************************************************)
(* Execution: process_execute_proposal.                                    *)
(***************************************************************************)

(* The quorum and support tests of an execution: against the snapshots    *)
(* if the proposal is ready, against the live member count and supply     *)
(* otherwise; the thresholds are always the live ones.                     *)
ThresholdsMet(pr) ==
    LET memberDen == IF pr.execute_ready THEN pr.members_at_execute
                                         ELSE Cardinality(members)
        supplyDen == IF pr.execute_ready THEN pr.supply_at_execute
                                         ELSE Supply
    IN  /\ ~PercentBelow(Cardinality(pr.has_voted), memberDen, vote_quorum)
        /\ ~PercentBelow(pr.votes[0], supplyDen, vote_support)

(* Variant without the closed-proposal check.                             *)
ExecutionAllowedReplay(pr) ==
    /\ ~Fenced(pr)
    /\ pr.kind # "Text"
    /\ pr.votes[0] >= pr.votes[1]
    /\ ThresholdsMet(pr)

(* The proposal may be executed: not fenced, an executable kind, not      *)
(* closed, pass weight at least reject weight, thresholds met.             *)
ExecutionAllowed(pr) ==
    /\ ~Fenced(pr)
    /\ pr.kind # "Text"
    /\ ~pr.executed
    /\ pr.votes[0] >= pr.votes[1]
    /\ ThresholdsMet(pr)

ExecuteSupport(pr) ==
    /\ vote_support' = U8(pr.execution_amount)
    /\ UNCHANGED << members, balance, vote_quorum, member_lock_index >>

ExecuteQuorum(pr) ==
    /\ vote_quorum' = U8(pr.execution_amount)
    /\ UNCHANGED << members, balance, vote_support, member_lock_index >>

(* A new equity account is created for the target and the amount minted  *)
(* into it; the member lock is left as it is.                              *)
ExecuteAddMember(pr) ==
    /\ pr.target \notin members
    /\ members' = members \cup {pr.target}
    /\ balance' = [balance EXCEPT ![pr.target] = pr.execution_amount]
    /\ UNCHANGED << vote_quorum, vote_support, member_lock_index >>

(* close_account of the removed member's equity account into the sol     *)
(* account: the account holds the rent-exempt minimum of a token account  *)
(* that its creation paid, and all of it goes to the vault's lamports.    *)
CloseEquityAccount ==
    /\ vault' = [vault EXCEPT !["SOL"] = @ + RentLamports]
    /\ UNCHANGED wsol

(* Variant that sets the lock one past the last proposal created.        *)
ExecuteRemoveMemberLockPastNonce(pr) ==
    /\ pr.target \in members
    /\ members' = members \ {pr.target}
    /\ balance' = [balance EXCEPT ![pr.target] = 0]
    /\ member_lock_index' = proposal_nonce + 1
    /\ CloseEquityAccount
    /\ UNCHANGED << vote_quorum, vote_support >>

(* Variant that sets the lock to the executing proposal's own index.      *)
ExecuteRemoveMemberLockOwnIndex(pr) ==
    /\ pr.target \in members
    /\ members' = members \ {pr.target}
    /\ balance' = [balance EXCEPT ![pr.target] = 0]
    /\ member_lock_index' = pr.proposal_index
    /\ CloseEquityAccount
    /\ UNCHANGED << vote_quorum, vote_support >>

(* The target's whole balance is burned, its equity account closed into  *)
(* the sol account, and every proposal created so far is fenced.          *)
ExecuteRemoveMember(pr) ==
    /\ pr.target \in members
    /\ members' = members \ {pr.target}
    /\ balance' = [balance EXCEPT ![pr.target] = 0]
    /\ member_lock_index' = proposal_nonce
    /\ CloseEquityAccount
    /\ UNCHANGED << vote_quorum, vote_support >>

(* Variant that changes the balance without setting the lock.            *)
ExecuteMintMemberTokenNoLock(pr) ==
    /\ pr.target \in members
    /\ balance' = [balance EXCEPT ![pr.target] = pr.execution_amount]
    /\ UNCHANGED << members, vote_quorum, vote_support, member_lock_index >>

(* The balance is minted up or burned down to the amount; the lock is set *)
(* on either change and left alone when the balance already matches.      *)
(* The old balance is also stored in execution_amount_out, which no team  *)
(* handler reads for this kind; the model leaves it out.                   *)
ExecuteMintMemberToken(pr) ==
    /\ pr.target \in members
    /\ balance' = [balance EXCEPT ![pr.target] = pr.execution_amount]
    /\ member_lock_index' = IF balance[pr.target] # pr.execution_amount
                               THEN proposal_nonce ELSE member_lock_index
    /\ UNCHANGED << members, vote_quorum, vote_support >>

(* The arm of pr's kind; r is the random_id the executor passes, read    *)
(* only by the Swap arm.                                                   *)
Effect(pr, r) ==
    CASE pr.kind = "Support"         -> ExecuteSupport(pr) /\ UNCHANGED treasury_vars
      [] pr.kind = "Quorum"          -> ExecuteQuorum(pr) /\ UNCHANGED treasury_vars
      [] pr.kind = "WithdrawSol"     -> WithdrawSol(pr) /\ UNCHANGED squad
      [] pr.kind = "WithdrawSpl"     -> WithdrawSpl(pr) /\ UNCHANGED squad
      [] pr.kind = "Swap"            -> ExecuteSwap(pr, r) /\ UNCHANGED squad
      [] pr.kind = "AddMember"       -> ExecuteAddMember(pr) /\ UNCHANGED treasury_vars
      [] pr.kind = "RemoveMember"    -> ExecuteRemoveMember(pr)
      [] pr.kind = "MintMemberToken" ->
            ExecuteMintMemberToken(pr) /\ UNCHANGED treasury_vars

ExecuteProposal(k, p, r) ==
    LET pr == proposals[p] IN
    /\ k \in members
    /\ ExecutionAllowed(pr)
    /\ Effect(pr, r)
    /\ proposals' = [proposals EXCEPT ![p].executed = TRUE]
    /\ applied' = Append(applied, p)
    /\ UNCHANGED << open, proposal_nonce, receipts, now, overflow_checks >>

-----------------------------------------------------------------------------
(* The clock advances; nothing else changes.                               *)
Tick ==
    /\ now < MaxTime
    /\ now' = now + 1
    /\ UNCHANGED << open, squad, proposal_nonce, proposals, receipts,
                   overflow_checks, applied, treasury_vars >>

(* Anyone, member or not, sends lamports to a wSOL address.               *)
Donate(r) ==
    /\ DonateWsol(r)
    /\ UNCHANGED squad_vars

Next ==
    \/ \E ms \in MemberSets : \E alloc \in [ms -> Allocations] :
          AddMembersToSquad(ms, alloc)
    \/ \E k \in Keys, args \in ProposalArgs, start, close \in Time :
          CreateProposal(k, args, start, close)
    \/ \E k \in Keys, p \in DOMAIN proposals, v \in VoteSlots5 :
          CastVote(k, p, v)
    \/ \E k \in Keys, p \in DOMAIN proposals, r \in RandomIds :
          ExecuteProposal(k, p, r)
    \/ Tick
    \/ \E r \in RandomIds : Donate(r)

Spec == Init /\ [][Next]_vars

-----------------------------------------------------------------------------
(***************************************************************************)
(* Properties.                                                             *)
(***************************************************************************)

TypeOK ==
    /\ open \in BOOLEAN
    /\ members \subseteq Keys
    /\ balance \in [Keys -> Balances]
    /\ vote_quorum \in 0 .. 255
    /\ vote_support \in 0 .. 255
    /\ proposal_nonce \in 0 .. MaxProposals
    /\ member_lock_index \in 0 .. proposal_nonce
    /\ DOMAIN proposals = 1 .. proposal_nonce
    /\ \A p \in DOMAIN proposals :
          /\ proposals[p].kind \in Kinds
          /\ proposals[p].proposal_index = p
          /\ proposals[p].votes \in [VoteSlots5 -> Nat]
          /\ proposals[p].has_voted \subseteq Keys
          /\ proposals[p].members_at_execute \in 0 .. 255
    /\ now \in Time
    /\ overflow_checks \in BOOLEAN
    /\ applied \in Seq(DOMAIN proposals)
    /\ vault \in [Assets -> Nat]
    /\ \A r \in RandomIds : wsol[r].owner \in {"System", "Squads", "Token"}

(* The tally of every proposal as the ledger sees it.                      *)
LedgerTally ==
    [p \in 1 .. MaxProposals |->
        IF p \in DOMAIN proposals THEN proposals[p].votes
                                  ELSE [c \in VoteSlots5 |-> 0]]

Ledger == INSTANCE VoteLedger
            WITH Proposals <- 1 .. MaxProposals, Voters <- Keys,
                 Slots <- VoteSlots5, Weights <- Balances,
                 ballots <- receipts, tally <- LedgerTally

(* Anti-replay and atomic tallying (process_cast_vote): receipts and      *)
(* tallies behave as the abstract vote ledger; each vote adds the voter's *)
(* balance at that moment to exactly one slot, together with its receipt, *)
(* and a member's second vote on a proposal is refused.                    *)
LedgerRefined == Ledger!Spec

(* How many times the effect of p was applied.                             *)
AppliedCount(seq, p) == Len(SelectSeq(seq, LAMBDA x : x = p))

(* A closed proposal is final: once executed is set, by an execution or   *)
(* by the rejection test of a vote, no vote or execution changes the      *)
(* account or applies its effect again.                                    *)
ClosedProposalFrozen ==
    [][\A p \in DOMAIN proposals :
          proposals[p].executed =>
             /\ proposals'[p] = proposals[p]
             /\ AppliedCount(applied', p) = AppliedCount(applied, p)]_vars

(* A fence is never lifted: once member_lock_index has reached a proposal *)
(* index, no later execution moves the lock back below it.                 *)
FenceNeverLifted ==
    [][\A p \in 1 .. MaxProposals :
          p <= member_lock_index => p <= member_lock_index']_vars

(* The proposals still open to votes before a decision.                    *)
OpenUndecided(p) ==
    ~proposals[p].executed /\ ~proposals[p].execute_ready

(* Equity changes fence the open proposals (RemoveMember, MintMemberToken): *)
(* a step that burns or mints an existing member's tokens or removes a     *)
(* member leaves every proposal that is open and undecided fenced, so no   *)
(* tally mixes weights from before and after the change.                   *)
EquityChangeFenced ==
    [][(\E k \in members : k \notin members' \/ balance'[k] # balance[k])
         => \A p \in DOMAIN proposals' :
               OpenUndecided(p)' => p <= member_lock_index']_vars

(* spec.md (Squad, Execution Dispatcher): member_lock_index is set whenever *)
(* membership or equity changes.  Any step that changes the member set or  *)
(* a balance, the admission of a member included, fences every proposal   *)
(* that is open and undecided.                                             *)
MembershipChangeFenced ==
    [][(members' # members \/ balance' # balance) /\ ~open
         => \A p \in DOMAIN proposals' :
               OpenUndecided(p)' => p <= member_lock_index']_vars

(* Threshold monotonicity (spec.md section 8): a binary proposal that a    *)
(* vote marked execute_ready, and that still has at least as much pass as  *)
(* reject weight, stays executable: its frozen numbers keep meeting the   *)
(* quorum and support bars whatever else is executed meanwhile.            *)
DecidedStaysExecutable ==
    \A p \in DOMAIN proposals :
        LET pr == proposals[p] IN
        (pr.execute_ready /\ ~pr.executed /\ pr.kind # "Text"
           /\ pr.votes[0] >= pr.votes[1])
          => ThresholdsMet(pr)

(* spec.md (Voting Engine): a member may vote on a proposal that is       *)
(* active, not closed, not fenced, and that the member has not voted on.  *)
(* The vote's u64 subtraction supply - total_votes must not refuse it: a   *)
(* ready proposal is never fenced, so its tally may hold the weight of     *)
(* tokens burned since.                                                    *)
MemberCanVote ==
    \A p \in DOMAIN proposals, k \in members, v \in VoteSlots5 :
        LET pr == proposals[p] IN
        (/\ ~Fenced(pr) /\ VotingOpen(pr) /\ ~pr.executed
         /\ ~HasVoteReceipt(p, k) /\ v < pr.votes_num)
          => ENABLED CastVote(k, p, v)

(* spec.md (Execution Dispatcher, ThresholdNotMet): execution re-validates *)
(* support.  Since vote_support is at least 1, an execution whose pass     *)
(* weight is 0 has not met it, even when the supply it is measured against *)
(* is 0 and process_execute_proposal's quotient is NaN.                    *)
ExecutionNeedsSupport ==
    [][\A p \in DOMAIN proposals :
          AppliedCount(applied', p) > AppliedCount(applied, p)
             => proposals[p].votes[0] > 0]_vars

(* The lifecycle state of p read off the account and the history.          *)
LifecycleStatus(p) ==
    IF p \notin DOMAIN proposals THEN "None"
    ELSE IF AppliedCount(applied, p) > 0 THEN "Executed"
    ELSE IF proposals[p].executed THEN "Rejected"
    ELSE IF proposals[p].execute_ready THEN "Decided"
    ELSE "Active"

Lifecycle == INSTANCE ProposalLifecycle
               WITH Proposals <- 1 .. MaxProposals,
                    status <- [p \in 1 .. MaxProposals |-> LifecycleStatus(p)]

(* The team squad implements the proposal lifecycle of spec.md: a         *)
(* proposal that a vote has marked execute_ready is executed or stays      *)
(* decided, and is not closed as rejected by a later vote.                 *)
LifecycleRefined == Lifecycle!Spec

(* The treasury moves only as an open proposal directs (the WithdrawSol,  *)
(* WithdrawSpl, Swap and RemoveMember arms of process_execute_proposal,    *)
(* with process_execute_swap): a step that changes the sol account's      *)
(* lamports or token balance executes one proposal p that was not closed  *)
(* and records it.  For a spending proposal the vault loses at most p's   *)
(* execution_amount, only of p's source asset, and gains at least p's     *)
(* execution_amount_out of a Swap's destination asset; a RemoveMember,    *)
(* which closes the member's equity account into the sol account, takes   *)
(* nothing from it.                                                        *)
VaultMovesOnlyByProposal ==
    [][vault' # vault =>
         \E p \in DOMAIN proposals :
            LET pr == proposals[p] IN
            /\ ~pr.executed
            /\ applied' = Append(applied, p)
            /\ \/ /\ pr.kind \in SpendKinds
                  /\ vault'[SpendAsset(pr)]
                        >= vault[SpendAsset(pr)] - pr.execution_amount
                  /\ \A a \in Assets \ {SpendAsset(pr)} :
                        vault'[a] >= vault[a] + MinGain(pr, a)
               \/ /\ pr.kind = "RemoveMember"
                  /\ \A a \in Assets : vault'[a] >= vault[a]]_vars

=============================================================================
