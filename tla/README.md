# TLA+ models of the Squads governance program

This directory holds TLA+ models of the Squads Solana program under `src/src/`.
They are written from the Rust source and checked with TLC. The spec in
`spec.md` is used only to say what the program promises; every definition is
translated from the code, and the `map` of `PROJECT.json` names the lines.

## 1. Inventory

### Execution model
The program is a Solana on-chain program. Every instruction is one
transaction. It reads the accounts it is given, checks them, and writes them
back. If any check fails, or any cross-program call fails, or the code panics,
the whole transaction is rolled back. So each handler is **one atomic step**,
and every error path is "the step does not happen". Concurrency is the
interleaving of whole transactions from different signers: votes, proposal
creations and executions on the same squad arrive in any order. Nothing is
persisted except the accounts, so there is no crash in the middle of a step.
The clock (`Clock::get().unix_timestamp`) only moves forward.

### Components, their state and operations

| Component | Source | State | Operations |
|---|---|---|---|
| Squad registry | `state/squad.rs`, `process_create_squad.rs`, `process_create_multisig.rs`, `process_add_members_to_squad.rs` | `Squad`: `open`, `allocation_type`, `vote_quorum`, `vote_support`, `members` (map key → equity account), `proposal_nonce`, `member_lock_index`; the governance mint (supply) and the members' equity token balances (TeamCoordination) | create a TeamCoordination squad (draft, `open = true`); create a Multisig squad with its member list; admit the initial members and mint their equity once, closing the draft |
| Proposal store | `state/proposal.rs`, `process_create_proposal.rs` | `Proposal`: type, `execution_amount`, source/destination, `start`/`close_timestamp`, `votes[5]`, `has_voted`, `executed`, `execute_ready`, `supply_at_execute`, `members_at_execute`, `threshold_at_execute`, `proposal_index` | create a proposal at index `proposal_nonce + 1`, with per-type checks |
| Vote receipt ledger | `state/vote.rs`, the receipt part of both cast-vote handlers | one `VoteReceipt` account per (proposal, voter) | create the receipt; fails if the account already holds data |
| Multisig tally | `process_cast_multisig_vote.rs` | the proposal's `votes`, `execute_ready`, `executed`, `threshold_at_execute` | one vote of weight 1, rejection test, approval test, threshold snapshot |
| TeamCoordination tally and early decision | `process_cast_vote.rs`, `processor/mod.rs` (tipping test) | the proposal's `votes`, flags and snapshots | one vote of the voter's token balance; for Text proposals the "tipping" test; for binary proposals the rejection and quorum/support tests |
| Multisig execution | `process_execute_multisig_proposal.rs` | squad `vote_quorum`, `members`; proposal `executed` | Quorum, WithdrawSol, WithdrawSpl, AddMember, RemoveMember, Swap |
| TeamCoordination execution | `process_execute_proposal.rs` | squad `vote_quorum`, `vote_support`, `members`, `member_lock_index`; mint supply and balances; proposal `executed` | Support, Quorum, WithdrawSol, WithdrawSpl, AddMember, RemoveMember, MintMemberToken, Swap |
| Treasury and swap integration | `process_execute_swap.rs`, the WithdrawSol/WithdrawSpl/Swap arms of both execute handlers | lamports of the squad's sol account (PDA `squad‖"!squadsol"`), its token account balance, the wSOL account at `sol‖random_id‖"!wsol"` | transfer SOL or tokens out; swap through Raydium via a wSOL account that is created, funded, initialised and closed in the same transaction |
| Instruction decoding, account layout, address derivation | `instruction.rs`, the `Pack` impls of `state/*.rs`, `lib.rs` | the bytes of each account | parse bytes, (de)serialise accounts (`pack_into_slice`, `unpack_from_slice`, `count_from_le`, `transform_u32_to_array_of_u8`), derive PDAs |
| Quit squad | `process_quit_squad.rs` | — | not compiled: commented out in `processor/mod.rs` |

### How the components interact
* Every handler reads the `Squad` account. Proposal creation writes it
  (`proposal_nonce`). Executions write it (`vote_quorum`, `vote_support`,
  `members`, `member_lock_index`).
* Votes read the squad (members, quorum, support, `member_lock_index`) and
  the governance mint supply. They write only the proposal and the receipt.
* Executions of one proposal change the squad that other, still open,
  proposals are tallied and executed against. Most of the hard behaviour
  lives here: the order of votes and executions across proposals.
* WithdrawSol, WithdrawSpl and Swap executions move the treasury held by
  the squad's sol account. A swap with the native mint opens a wSOL
  account at an address derived from the executor's `random_id`. Anyone can
  send lamports to that address first, and that changes what the next swap
  with that `random_id` does.
* TeamCoordination equity is token balances. A member's vote weight is the
  balance at the moment of the vote. AddMember, RemoveMember and
  MintMemberToken executions change balances and the supply.

### What is hard here
* **Order across proposals.** A membership or quorum change executed between
  two votes on another proposal changes how that proposal is tallied. The
  "membership lock" (`member_lock_index`) exists to fence this, and the
  `*_at_execute` fields exist to freeze the numbers at decision time.
* **Arithmetic at the edges.** `u8` truncation of a `u64` amount, `u64`
  subtraction that can underflow once votes of removed members or burned
  tokens remain in a tally, `f32` percentages with a zero denominator.
* **Checks made at creation and relied on at execution.** Bounds on a
  Quorum proposal are checked against the member count at creation time, and
  applied later against a possibly different membership.
* **Anti-replay.** A vote is counted only if its receipt account did not exist.
  The receipt and the tally are written in the same transaction.

### What makes each component correct (the properties)
* Ledger: at most one receipt per (proposal, voter); the tally of a proposal
  is the sum of its receipts' weights, written in the same step.
* Proposal lifecycle: Active → Decided → Executed, or Active → Rejected, or
  Active → Executed; terminal states are final; a decided proposal is not
  rejected afterwards (spec §8 "threshold monotonicity").
* Executions: an effect is applied at most once, only to a proposal that
  is not closed, and only with the approvals the squad requires; the quorum
  stays satisfiable (`1 ≤ vote_quorum ≤ members`, spec §3 and §8).
* Membership fence (TeamCoordination): no vote or execution of an undecided
  proposal created before the last change of membership or equity.
* Treasury: funds leave the sol account only through the execution of an
  open spending proposal, by at most its amount, and a swap brings back at
  least its minimum out; no wSOL account outlives its transaction.
* Tipping: the fold in `process_cast_vote` decides "tipped" exactly when the
  leader's lead exceeds the weight not yet cast (spec §8).

## 2. Plan

Modules, in the order they are built:

1. `MultisigSquad` — one Multisig squad: creation, proposal creation
   (the kinds a multisig accepts), `process_cast_multisig_vote`,
   `process_execute_multisig_proposal`, and the clock. This is the part
   whose votes and executions interleave most freely: no membership fence.
   `MC_MultisigSquad` instantiates it.
2. `VoteLedger` — abstract vote receipt ledger (spec §4.5). The squad modules
   are shown to implement it with `INSTANCE VoteLedger WITH ...`.
3. `ProposalLifecycle` — abstract proposal state machine (spec §4.2, §8).
   The squad modules map their flags onto it.
4. `Tipping` — the early-decision fold of `process_cast_vote` as operators,
   checked against the reference "max > second max + remaining" over every
   5-slot vote vector in a bound.
5. `TeamSquad` — one TeamCoordination squad: draft creation, admission of
   members with allocations, proposal creation, `process_cast_vote` (with the
   tipping operators of `Tipping`), `process_execute_proposal` with all its
   kinds, mint supply and balances, membership lock.
   `MC_TeamSquad` instantiates it.
6. `Treasury` — the sol account's balances, the wSOL accounts and the
   three arms that move them, composed into `MultisigSquad`'s execution.
7. `AccountLayout` — the `Pack` impls of Squad, Proposal and VoteReceipt
   over byte regions, checked by round trips over the bytes an earlier write
   left in the account. `MC_PureOperators` checks it together with
   `Tipping`.
8. `Instruction` — `SquadInstruction::unpack`, checked in
   `MC_PureOperators` by a round trip from the client's wire layout.
9. `Address` — the seeds of the program-derived addresses of `lib.rs`,
   checked in `MC_PureOperators` for uniqueness.
10. Later: liveness of decided proposals under fair execution; a larger
   TeamCoordination configuration.

Runs and bounds are listed in section 4.

## 3. Modules

Every handler is one action. Its guard is the conjunction of the handler's
checks and early returns; an error path is the action being disabled. Account
addresses, signatures, PDA derivation and rent are left out: a wrong account
is a transaction that fails, i.e. a step that does not happen. Inputs
(proposal kinds, amounts, targets, timestamps, vote slots) come from small
constant sets through `\E`.

### `MultisigSquad` (with `MC_MultisigSquad`)
One Multisig squad.
* State: `members` (a set: the `BTreeMap` of `Squad.members`),
  `vote_quorum`, `proposal_nonce`, `proposals` (index → the fields of the
  proposal account the handlers read or write), `receipts` (the vote
  receipt accounts), `now` (the clock), `applied` (the sequence of executed
  indices, a history variable for the properties), and `overflow_checks`.
  `overflow_checks` is chosen at `Init` and never changes: whether a `u64`
  underflow panics or wraps depends on the build profile.
* `Init` is `process_create_multisig`. It takes an account list from
  `InitLists`, which may repeat an address. It checks the quorum against the
  list length, and the members are the list as a set.
* `CreateProposal` is `process_create_proposal` for the kinds a multisig
  accepts. `QuorumAmountAccepted` is the `members.len() as u8 >= amount as
  u8` test.
* `CastMultisigVote` is `process_cast_multisig_vote`. It checks the window,
  membership, executed and receipt. It adds weight 1, computes `members.len()
  - (pass + fail)` in `u64` (panic or wrap), runs the rejection test, runs the
  approval test, and re-snapshots `threshold_at_execute`.
* `ExecuteMultisigProposal` is `process_execute_multisig_proposal`. The
  Quorum, AddMember and RemoveMember effects change the squad. RemoveMember
  lowers the quorum when it equals the member count. WithdrawSol,
  WithdrawSpl and Swap are the arms of `Treasury`. The `random_id`
  instruction argument is chosen from `RandomIds`.
* `Tick` advances the clock. `Donate(r)` is a transfer by anyone to the
  wSOL address of `r`.
* `VaultMovesOnlyByProposal` is an action property. In every step that
  changes the vault, one open spending proposal is executed and recorded.
  The vault loses at most its `execution_amount`, and only of its source
  asset. For a Swap, it gains at least `execution_amount_out` of the
  destination asset. The `TeamSquad` version also admits a RemoveMember
  execution, which closes the member's equity account into the sol
  account and may only add to the vault.
* That every swap closes its wSOL account is not stated as a property:
  `ExecuteSwap` sets the account back to `NoAccount` unconditionally, so
  such a property would restate that one assignment.

### `Treasury` (composed into `MultisigSquad` and `TeamSquad`)
* State: `vault` (asset → balance of the sol account: its lamports for
  `"SOL"`, its associated token account for the one SPL mint `"TOK"`). Also
  `wsol` (random_id → the account at the wSOL address: lamports, owner,
  space).
* `WithdrawSol` and `WithdrawSpl` are the arms of
  `process_execute_multisig_proposal` and `process_execute_proposal`. The source must be the squad's
  account (`source_ok`), and the system or token transfer fails beyond the
  balance.
* `ExecuteSwap(pr, r)` is the Swap arm together with `process_execute_swap`,
  in code order:
  * `PoolAccepted` is the pool and market mint checks;
  * `WsolOpened` opens the wSOL account. If the address already holds
    lamports, it takes the branch marked "DoS check": top-up, `allocate`
    of `VoteReceipt::get_packed_len()` bytes, and `assign` to this program.
    Otherwise `create_account` makes a 165-byte token-program account
    whose rent the executioner pays;
  * `WsolFunded` funds it from the sol account if the source is native;
  * `InitializeAccountOk` is the token program's `initialize_account`
    precondition;
  * `SwapProceeds` is the swap and `close_account` into the sol account.
  Raydium is its effect on balances: `execution_amount` in, and
  `execution_amount_out + d` out for `d` in `SwapSurplus`, or an abort.
  Nothing decides the "DoS check" outcome by fiat: after `assign` the
  account is owned by this program, so `InitializeAccountOk` is false and
  the whole transaction aborts.
* The team handler's WithdrawSol, WithdrawSpl and Swap arms
  (`process_execute_proposal.rs` 161–273 and 557–629) are the same code,
  so `TeamSquad`'s `Effect` calls the same operators. Both squad modules
  have their own `VaultMovesOnlyByProposal`, over their own proposals and
  execution guards; `SpendKinds`, `SpendAsset` and `MinGain` are shared.

### `TeamSquad` (with `MC_TeamSquad`)
One TeamCoordination squad.
* State: `open` (draft mode), `members`, `balance` (key → equity token
  balance; the governance mint's supply is `Supply == SumFunction(balance)`),
  `vote_quorum`, `vote_support`, `proposal_nonce`, `member_lock_index`,
  `proposals`, `receipts`, `now`, `overflow_checks` and `applied`, and
  the treasury variables `vault` and `wsol` of `Treasury`.
  Equity accounts are owned by the mint PDA, so only the program moves
  balances.
* `Init` is `process_create_squad`. Both percentages are in 1..100.
* `AddMembersToSquad` is `process_add_members_to_squad`. It needs draft
  mode, sets the members and their allocations, and closes the draft.
* `CreateProposal` is `process_create_proposal`. `AmountAccepted` carries
  the Support bound and the Quorum bound exactly as written, and the Quorum
  bound is a tautology.
* `CastVote` is `process_cast_vote`:
  * the member-lock fence (`Fenced`), the window, executed, membership, the
    receipt and `vote < votes_num`;
  * the weight is the voter's balance;
  * `PossibleVotesLeft` is the `u64` subtraction `supply - total_votes`;
  * Text proposals use the tipping test of `Tipping` (`TextTallied`), and
    binary kinds use the rejection test and the quorum/support test
    (`BinaryTallied`);
  * finally the supply and member-count snapshots are refreshed, on every
    vote.
* `ExecuteProposal` is `process_execute_proposal`:
  * the fence, executed, and `pass >= fail`;
  * `ThresholdsMet` uses the snapshot denominators when `execute_ready` is
    set and the live ones otherwise, always against the live thresholds;
  * then the effect. Support or Quorum stores `amount as u8`. AddMember
    mints into a new equity account and sets no lock. RemoveMember burns the
    whole balance, closes the equity account into the sol account
    (`CloseEquityAccount`: its rent-exempt lamports go to the vault) and
    sets the lock. MintMemberToken mints or burns to the
    amount, and sets the lock if the balance changed. WithdrawSol,
    WithdrawSpl and Swap are the arms of `Treasury`, with the executor's
    `random_id` chosen from `RandomIds`.
* `Donate(r)` is a transfer by anyone to the wSOL address of `r`, as in
  `MultisigSquad`.
* `f32` percentages are compared exactly (`PercentAtLeast`, `PercentBelow`).
  A zero denominator gives +inf or NaN. NaN compares false both ways, so the
  `<` tests of execution pass on NaN and the `>=` tests of voting do not.

Two further properties of `TeamSquad` are checked only in violation runs:
* `MemberCanVote`: a member without a receipt can vote on an open, unfenced,
  undecided proposal. It is stated with `ENABLED CastVote(k, p, v)`, so it
  is broken exactly when the handler aborts on an input spec.md admits.
* `ExecutionNeedsSupport`: a step that applies a proposal's effect needs at
  least one pass vote behind it.

### `Tipping` (with `MC_PureOperators`)
The two folds of `process_cast_vote` over `votes.iter().enumerate()` are
`FoldLeft` with the closures `MostStep` and `SecondStep`. `Tipped` is the
test `votes[most] > votes[second] + possible_votes_left`.
`MC_PureOperators` compares them with reference definitions written with
`CHOOSE` and quantifiers.

### `AccountLayout` (with `MC_PureOperators`)
`array_refs!` cuts an account into disjoint fixed-width regions, so an
account is a record of regions, each a sequence of bytes. A public key is
one cell, and every width is written in `KeyCells` so the slice arithmetic
keeps the code's shape.
* `PackSquad`, `PackProposal` and `PackReceipt` are the `pack_into_slice`
  impls. Fixed fields are written whole. The member map and the voter list
  are Borsh-serialised and written into the front of their region
  (`WriteFront`), so the rest of the region keeps the bytes of earlier,
  longer writes.
* `UnpackSquad`, `UnpackProposal` and `UnpackReceipt` are the
  `unpack_from_slice` impls. `SquadReadable`, `ProposalReadable` and
  `ReceiptReadable` are their success conditions: the bool bytes are 0 or 1,
  and the slice handed to Borsh holds exactly the elements its count names.
* The squad reads the member slice length from `members_len` with
  `count_from_le`, and pack writes it with `transform_u32_to_array_of_u8`.
  The proposal reads the voter slice length from the `u8` `has_voted_num`,
  and pack writes the Borsh `u32` count.
* `SquadFits` and `ProposalFits` are the conditions under which pack does
  not panic: the member map fits its region, there are at most five
  tallies, and the voters fit their region.
* Names, descriptions, labels, links, addresses other than keys and the
  reserved bytes are left out.

### `Instruction` (with `MC_PureOperators`)
The instruction data is a sequence of bytes. `Unpack(input, wrap)` is
`SquadInstruction::unpack`: an empty input or a tag outside `0..7` is
`InvalidInstruction`; otherwise the variant's arguments are read from `rest`
and any read that panics (an index or slice past the end, an `unwrap` of a
failed `from_utf8`, `try_into` or `get`) makes the result `Panic`.
* `CreateSquadLayout`, `CreateMultisigLayout`, `CreateProposalLayout` and
  `VoteLayout` give each fixed field's offsets in `rest` and how it is read
  (`u8`, `String`, `i64`, or the 44-byte label chunks). `FieldOk` is the
  condition under which reading it does not panic, `FieldValue` the value.
* A `String` is its bytes; `Utf8Valid` is `String::from_utf8`'s acceptance
  test (RFC 3629, overlong forms and surrogates refused).
* `AmountIn` and `AmountOut` read the optional swap amounts only if `rest`
  holds them, `WsolRandomId` falls back to `"0000000000000000"`.
* `AllocationTableOk` follows the `u8` product `members_num * 8`: a panic
  past 255 with overflow checks, a wrap without them (`wrap`), then the
  `get(9..size + 9).unwrap()` and one `unwrap` per chunk.

`MC_PureOperators` writes each instruction of a small set the way a client
lays it out (the fields in order at the widths spec.md section 6 gives,
strings zero-padded, integers little-endian, the optional trailing fields
sent or not) and checks that `Unpack` gives it back, in both build modes.
The strings include a two-byte character that ends exactly at a field's
end, the timestamps a negative one.

### `Address` (with `MC_PureOperators`)
`Pubkey::find_program_address` hashes the seeds concatenated with no length
or separator, then a bump that is a function of the seeds. Taking the hash
as injective, two derivations give the same address exactly when their
concatenated seeds are equal. `SquadSeeds`, `MintSeeds`, `SolSeeds`,
`WsolSeeds`, `EquitySeeds`, `ProposalSeeds` and `VoteSeeds` are the seeds
of the seven `get_*_address_with_seed` functions the handlers call: keys of
32 bytes, the 10-byte squad `random_id` and the 16-byte swap `random_id`
that `Instruction` decodes, the 4-byte nonce, and the constant suffixes.
`MC_PureOperators` checks every pair of derivations over two keys, two
squad ids, two swap ids (the default and one ending in `"!squad"`) and
three nonces. Uniqueness is what the state machines assume when they
identify a vote receipt by (proposal, voter) and a wSOL account by
`random_id`.

### `VoteLedger` and `ProposalLifecycle` (abstract)
These are what the ledger and a proposal promise.
* `VoteLedger`: one ballot per (proposal, voter), immutable, and the tally
  moves by the ballot's weight in the same step.
* `ProposalLifecycle`: None → Active → Decided → Executed, Active →
  Executed, Active → Rejected, and nothing leaves Executed or Rejected.

Both squad modules instantiate them with a refinement mapping:
* `Ledger == INSTANCE VoteLedger WITH ballots <- receipts, tally <- ...`;
* `Lifecycle == INSTANCE ProposalLifecycle WITH status <- LifecycleStatus`.

Each run checks the abstract `Spec` as a `PROPERTY`.

## 4. Runs

| Run | Expect | Property | What it shows |
|---|---|---|---|
| `ms_safety` | pass | `TypeOK`, `LedgerRefined`, `ClosedProposalFrozen`, `VaultMovesOnlyByProposal` | Multisig votes, creations, executions of all six kinds and transfers by outsiders to a wSOL address, in every order, implement the ledger. A closed proposal is never changed or re-applied. The treasury moves only as the executed proposal directs. |
| `ms_lifecycle` | violation | `LifecycleRefined` | A late reject vote closes a decided proposal after a RemoveMember or a Quorum change. |
| `ms_quorum_stale` | violation | `QuorumWithinMembers` | A Quorum amount checked at creation is applied after a RemoveMember, and the quorum ends above the member count. |
| `ms_zero_approval` | violation | `ExecutionNeedsApproval` | Quorum amount 0, or 256 truncated to 0, lets a proposal execute with no pass vote. |
| `ms_vote_underflow` | violation | `MemberCanVote` | With overflow checks on, a remaining member cannot vote once removed members' votes exceed the member count. |
| `tc_safety` | pass | `TypeOK`, `LedgerRefined`, `ClosedProposalFrozen`, `FenceNeverLifted`, `EquityChangeFenced`, `VaultMovesOnlyByProposal` | Team votes, creations and all execution kinds implement the ledger. Closed proposals stay closed and the lock only rises. A burn, mint or removal fences every open undecided proposal. The treasury moves only through one open spending proposal, within its amounts, whatever the team's thresholds and fences do meanwhile. |
| `tc_fence` | violation | `MembershipChangeFenced` | AddMember changes membership and supply without fencing open proposals, contrary to spec.md. In the trace a Swap proposal created before an AddMember execution stays open and unfenced while the supply rises from 2 to 4. |
| `tc_threshold` | violation | `DecidedStaysExecutable` | A vote after the decision refreshes the supply snapshot, and the decided proposal can no longer be executed. |
| `tc_lifecycle` | violation | `LifecycleRefined` | A reject vote after `execute_ready` closes a decided proposal. In the trace one pass vote marks a Swap proposal ready, a MintMemberToken execution doubles the other member's balance, and that member's reject vote of weight 2 closes the Swap. |
| `tc_vote_underflow` | violation | `MemberCanVote` | A RemoveMember execution burns equity after votes were recorded on a ready, hence unfenced, proposal. The live supply drops below the sum of its vote slots, and `supply - total_votes` (process_cast_vote.rs:207) underflows for every later voter on that proposal. |
| `tc_nan_support` | violation | `ExecutionNeedsSupport` | With zero allocations the supply is 0. A never-ready proposal is judged on the live supply, the support percentage is NaN, `NaN < vote_support` is false, and in the trace a Swap proposal executes with no pass weight and moves the vault. |
| `pure_operators` | pass | `LeaderAndRunnerUp`, `TippedMatchesReference`, `SquadRoundTrip`, `ProposalRoundTrip`, `ReceiptRoundTrip`, `InstructionRoundTrip` | The folds pick the first leader and the best other slot, and the tipping test matches its definition. Each account kind, packed over the bytes an earlier write left, unpacks to the value written. Every instruction a client writes decodes to itself: the code's offsets agree with the field widths, omitted amounts read as 0, an omitted `random_id` as the default. No two different address derivations have the same seeds. |

Four disagreements found while modelling have no run:
* `create_multisig` checks the quorum against an account list that may
  repeat an address.
* The team Quorum bound `amount > 0 || amount <= 100` accepts any amount.
* The "DoS check" branch of `process_execute_swap` (lines 260–288) is
  meant to let a swap use a wSOL address that someone has pre-funded. It
  allocates 114 bytes (a vote receipt's size, not a token account's 165)
  and assigns the account to this program, not to the token program. So
  `initialize_account` always fails, and every swap with that `random_id`
  aborts for good. In `ms_safety`, `ExecuteSwap` is never enabled after
  `Donate` on the same `random_id`. An executor can still pass another
  `random_id`. Executors who send none all share the default
  `"0000000000000000"`.

* `unpack_add_members_allocation_table` computes `members_num * 8` in
  `u8`. From 32 members on, it panics with overflow checks; without them
  the product wraps, the slice is too short, and an `unwrap` panics.
  `AddMembersToSquad`, the one-shot admission, therefore cannot admit 32
  or more members, although spec.md gives a squad 150. Evaluating `Unpack`
  on tables of 31, 32, 33 and 150 entries shows 31 decodes and the others
  panic in both modes. A transaction's account limit keeps one
  `AddMembersToSquad` far below 32 members (two accounts per member)
  anyway, so this has no run.

The first two are missing input checks that a unit test reaches in one call.
The hazards of `PROJECT.json` record all four.

The findings of `PROJECT.json` give the code lines behind each violation.
Each property of a passing run has a mutant: a plausible bug in one mapped
definition (a dropped check, a lock set one too high or to the wrong index,
a lock not set, a tie broken the other way) that TLC must catch.

## 5. Bounds and why they suffice

| Bound | Value | Why it suffices |
|---|---|---|
| `Keys` | `{a, b, c}`, symmetric | Three members are enough for a removal to leave a squad with votes still counted, and for a third party to be added. |
| `QuorumAmounts` in `ms_safety` | `{0}` | A Quorum execution and the quorum-0 edge; the other amounts are explored by the violation runs that need them. |
| `SpendAmounts`, `SwapMinOuts`, `InitVault`, `RentLamports` | `{2}`, `{1}`, 2 of each asset, 1 | One spending proposal of either asset fits in the vault and a second one of the same asset does not, so the transfer failure after two approvals is reached. The rent is non-zero, so a close that sends it elsewhere shows. |
| `SwapMinOuts` in `tc_safety` | `{}` | `tc_safety` creates WithdrawSol, WithdrawSpl and RemoveMember proposals but no Swap: with Swaps it ran close to its time limit. The team Swap arm is the same `Treasury!ExecuteSwap` that `ms_safety` checks, and the team violation runs keep Swap proposals (each of their traces has one). |
| `SwapSurplus` | `{0}` | Raydium returns exactly the minimum out, the tight case of "at least `execution_amount_out`". |
| `RandomIds` | one id | A swap touches only the wSOL address of its own `random_id`. With one id, the model has swaps before a donation and the abort after it. A second id would add swaps after a donation to the other id, and their effect on the vault is that of a swap before it. |
| `OverflowModes` in `ms_safety` | `{FALSE}` | `overflow_checks` only adds the guard that refuses an underflowing vote. So the behaviours with checks are a subset of those without, and the safety properties of `ms_safety` hold for both builds if they hold for the wrapping one. The violation runs keep both builds. |
| `MaxProposals` | 2 | Every cross-proposal hazard needs exactly two proposals: one whose execution changes the squad, and one tallied or executed across that change. |
| `MaxTime` | 1 | Start and close timestamps in `0..1` cover a vote before, inside and after the window. |
| `U64` | `2^30` (`MCU64`) | `u64` wrap is `% U64`. The wrapped value exceeds every tally and supply of the model, as `2^64` does, so the wrap outcome behaves as in the program. |
| Amounts (`QuorumAmounts`, `SupportAmounts`, `MintAmounts`, `Allocations`, `Percentages`) | per cfg | Chosen so that each guarded case happens: 0 and 256 for truncation, a quorum equal to the member count, and a mint that changes a balance and one that does not. |
| `f32` | exact | For counts up to 30 and thresholds up to 100, `(n as f32 / d as f32) * 100.0 >= t` has the same outcome as `100·n >= t·d`. This was checked by enumeration for the ranges the runs use. |

`MC_PureOperators` covers every tally in `[0..4 → 0..3]` and every supply up to 3
above the tally's sum, so every leader position, every tie, and the
leader-in-slot-0 case are covered.

For the layouts, `MC_PureOperators` uses the following bounds:
* Three keys, and two member and voter slots (`SquadMaxMembers`,
  `HasVotedMax`), so the regions are written full as well as part-full.
* The earlier write ranges over every member set and every prefix of the
  voter list, since these are the only regions that keep stale bytes.
* For instructions: every variant, `CreateProposalAccount` with 0, 1
  or 2 optional amounts (the two length boundaries), `ExecuteProposal`
  with and without a `random_id`, allocation tables of 0 to
  `MaxAllocated` = 2 entries, each in both build modes.
* For addresses: every pair of the seven derivations over the samples
  above. The lengths of the seeds separate the kinds; the swap id ending
  in `"!squad"` makes a squad and a wSOL derivation meet as soon as one
  of their constant parts is dropped.
* Integer samples that set the high bytes: `258`, `2^24` for `u32` and
  `65537` for `u64`. These catch a byte-order or width mistake.

The passing runs fire every action and every arm of `Effect`.

## 6. Fairness and deadlock

All properties are safety properties, and no fairness is assumed. The program
is passive: it acts only when a signer sends a transaction, and nothing in it
obliges anyone to vote or execute. So no liveness property is justified.

The cfgs say `CHECK_DEADLOCK FALSE`. A squad legitimately reaches states
where no instruction succeeds, for example when every proposal is closed,
the nonce bound is reached and the clock is at its bound.

## 7. Not modelled

* Lamports that outsiders send to a member's equity account are not
  modelled. `CloseEquityAccount` moves the rent-exempt minimum that the
  account's creation paid. Extra lamports would only add more to the vault
  when RemoveMember closes the account.
* Raydium's pricing is not modelled. A swap takes `execution_amount` and
  returns the minimum out or aborts. Pools of two SPL mints are not
  modelled, since there is one SPL mint. The recipients of withdrawals are
  outside the vault and are not tracked.
* In the state machines, an instruction's arguments are chosen from small
  sets, and a swap's `random_id` is the choice of `r`; the decoding itself
  is `Instruction`, checked separately.
* The hash of `find_program_address` is taken as injective. The `lib.rs`
  helpers that no handler calls (`get_token_address`, member mint, squad
  equity, source, add-member vote) are left out. They are client
  conveniences, and `get_token_address(squad, "MINT")` has the seeds of
  the squad's mint (`"!squad" ‖ "mint"`), so that helper must not be used
  for a symbol that spells one of the other suffixes.
* Rent/top-up of vote accounts is the system program. Their failure is an aborted transaction. The
  account layouts are modelled in `AccountLayout`, apart from the string,
  label and address fields.
* `u64` values of 2^31 or more are not modelled: TLC integers are 32-bit.
  A receipt's timestamp is checked for small non-negative values;
  instruction timestamps include -1.
* The `u8` wrap of `has_voted_num` at 256 voters is beyond the bounds.
* `process_quit_squad.rs` is not compiled.
* The member capacity of the packed squad account (150) is beyond explicit
  enumeration. Exceeding it aborts the transaction.
* Text-proposal labels, titles, descriptions and links are data that no
  check reads.
