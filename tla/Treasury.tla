------------------------------ MODULE Treasury ------------------------------
(***************************************************************************)
(* The treasury of a squad and the three execution arms that move it:     *)
(* WithdrawSol, WithdrawSpl and Swap (process_execute_swap).              *)
(*                                                                         *)
(* The treasury is held by the squad's sol account, the PDA derived from  *)
(* squad || "!squadsol": its lamports, and the balance of its associated  *)
(* token account for one SPL mint.  vault["SOL"] and vault["TOK"] are      *)
(* these two balances.  A swap with the native mint on one side goes      *)
(* through a wSOL token account at the PDA sol || random_id || "!wsol",   *)
(* which process_execute_swap opens, funds, hands to Raydium and closes   *)
(* back into the sol account; wsol[r] is that address's account.  Anyone  *)
(* can transfer lamports to an address, so DonateWsol is a step of the    *)
(* environment.                                                            *)
(*                                                                         *)
(* The arms are operators on a proposal record pr; the execution handlers *)
(* compose them with their own checks into one atomic transaction.  A     *)
(* cross-program call that fails aborts the transaction, so every failure *)
(* below is a conjunct that disables the step.                            *)
(***************************************************************************)
EXTENDS Naturals

CONSTANTS
    RandomIds,       \* random_id strings an executor passes to a swap
    RentLamports,    \* rent.minimum_balance(165).max(1) of a token account
    InitVault,       \* balances of the sol account when the squad starts
    SwapSurplus      \* what Raydium may return beyond the minimum out

VARIABLES
    vault,           \* asset -> balance held by the squad's sol account
    wsol             \* random_id -> the account at the wSOL address

treasury_vars == <<vault, wsol>>

(* SOL is the native mint; TOK stands for one SPL mint.                   *)
Assets == {"SOL", "TOK"}

(* Account sizes passed to create_account and allocate.                   *)
TokenAccountLen  == 165
VoteReceiptLen   == 114

(* An address without an account: no lamports, owned by the system       *)
(* program, no data.                                                       *)
NoAccount == [lamports |-> 0, owner |-> "System", space |-> 0]

ASSUME RentLamports \in Nat \ {0}
ASSUME InitVault \in [Assets -> Nat] /\ SwapSurplus \subseteq Nat

TreasuryInit ==
    /\ vault = InitVault
    /\ wsol = [r \in RandomIds |-> NoAccount]

-----------------------------------------------------------------------------
(***************************************************************************)
(* WithdrawSol and WithdrawSpl.                                            *)
(***************************************************************************)

(* The kinds whose arm moves the treasury.                                 *)
SpendKinds == {"WithdrawSol", "WithdrawSpl", "Swap"}

(* The asset a spending proposal takes out of the vault.                   *)
SpendAsset(pr) ==
    CASE pr.kind = "WithdrawSol" -> "SOL"
      [] pr.kind = "WithdrawSpl" -> "TOK"
      [] pr.kind = "Swap"        -> pr.asset_in

(* The system program's transfer from the sol account: the source must be *)
(* squad.sol_account, and a transfer beyond its lamports fails.           *)
WithdrawSol(pr) ==
    /\ pr.source_ok
    /\ vault["SOL"] >= pr.execution_amount
    /\ vault' = [vault EXCEPT !["SOL"] = @ - pr.execution_amount]
    /\ UNCHANGED wsol

(* The token program's transfer signed by the sol account: it succeeds    *)
(* only if execution_source is the sol account's token account and holds  *)
(* the amount.  The destination ATA the arm may create is paid by the     *)
(* executioner and is outside the vault.                                  *)
WithdrawSpl(pr) ==
    /\ pr.source_ok
    /\ vault["TOK"] >= pr.execution_amount
    /\ vault' = [vault EXCEPT !["TOK"] = @ - pr.execution_amount]
    /\ UNCHANGED wsol

-----------------------------------------------------------------------------
(***************************************************************************)
(* Swap: the arm's account checks and process_execute_swap.               *)
(***************************************************************************)

(* The Raydium pool and Serum market the executor passes: the mints of    *)
(* its coin and pc vaults.                                                 *)
Pools == [coin : Assets, pc : Assets]

(* The pool checks of process_execute_swap: each pool vault holds the     *)
(* source or the destination mint (the Serum vaults are the pool's, so    *)
(* their checks agree).  Raydium itself trades only in a pool of two      *)
(* different mints.                                                        *)
PoolAccepted(pool, pr) ==
    /\ pool.coin \in {pr.asset_in, pr.asset_out}
    /\ pool.pc \in {pr.asset_in, pr.asset_out}
    /\ pool.coin # pool.pc

(* Opening the wSOL account.  An address that already holds lamports     *)
(* takes the "DoS check" branch: a top-up to the rent minimum, allocate   *)
(* VoteReceipt::get_packed_len() bytes and assign to this program.        *)
(* Otherwise create_account makes a rent-exempt token-program account.    *)
WsolOpened(acct) ==
    IF acct.lamports > 0
    THEN [lamports |-> IF acct.lamports < RentLamports THEN RentLamports
                                                      ELSE acct.lamports,
          owner    |-> "Squads",
          space    |-> VoteReceiptLen]
    ELSE [lamports |-> RentLamports, owner |-> "Token", space |-> TokenAccountLen]

(* allocate needs a system-owned account without data; create_account an *)
(* address without lamports.                                               *)
WsolOpenable(acct) ==
    IF acct.lamports > 0 THEN acct.owner = "System" /\ acct.space = 0
                         ELSE TRUE

(* A native source funds the wSOL account from the sol account.           *)
WsolFunded(acct, pr) ==
    IF pr.asset_in = "SOL"
    THEN [acct EXCEPT !.lamports = @ + pr.execution_amount]
    ELSE acct

(* initialize_account of the token program: it must own the account and  *)
(* the account must have a token account's size.                          *)
InitializeAccountOk(acct) ==
    acct.owner = "Token" /\ acct.space = TokenAccountLen

(* Variant that sends the closed wSOL account's lamports to the          *)
(* executioner, who paid its rent, instead of the sol account.            *)
SwapProceedsCloseToPayer(pr, out) ==
    [a \in Assets |->
        vault[a] - (IF a = pr.asset_in THEN pr.execution_amount ELSE 0)
                 + (IF a = pr.asset_out /\ a # "SOL" THEN out ELSE 0)]

(* The vault after the Raydium swap of execution_amount for out and the  *)
(* close_account of the wSOL account into the sol account: the source     *)
(* asset loses the amount, the destination asset gains out, and the       *)
(* wSOL account's rent, paid by the executioner, lands in the sol account.*)
SwapProceeds(pr, out) ==
    [a \in Assets |->
        vault[a] - (IF a = pr.asset_in THEN pr.execution_amount ELSE 0)
                 + (IF a = pr.asset_out THEN out ELSE 0)
                 + (IF a = "SOL" THEN RentLamports ELSE 0)]

(* The Swap arm with its random_id r: the arm checks the mints and the    *)
(* wSOL address against the proposal, process_execute_swap checks the     *)
(* pool, opens and funds the wSOL account, Raydium swaps at least         *)
(* execution_amount_out or fails, and close_account empties the wSOL      *)
(* account into the sol account.                                          *)
ExecuteSwap(pr, r) ==
    LET acct == WsolFunded(WsolOpened(wsol[r]), pr) IN
    /\ \E pool \in Pools : PoolAccepted(pool, pr)
    /\ WsolOpenable(wsol[r])
    /\ InitializeAccountOk(acct)
    /\ vault[pr.asset_in] >= pr.execution_amount
    /\ \E d \in SwapSurplus : LET out == pr.amount_out + d IN
          vault' = SwapProceeds(pr, out)
    /\ wsol' = [wsol EXCEPT ![r] = NoAccount]

-----------------------------------------------------------------------------
(* What a spending proposal promises asset a of the vault: a Swap at least *)
(* its execution_amount_out of the destination mint, anything else none.   *)
MinGain(pr, a) ==
    IF pr.kind = "Swap" /\ a = pr.asset_out THEN pr.amount_out ELSE 0

(* Anyone transfers lamports to a wSOL address that holds none.           *)
DonateWsol(r) ==
    /\ wsol[r] = NoAccount
    /\ wsol' = [wsol EXCEPT ![r].lamports = 1]
    /\ UNCHANGED vault

=============================================================================
