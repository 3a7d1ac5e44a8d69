----------------------------- MODULE MC_TeamSquad -----------------------------
(***************************************************************************)
(* Model-checking instance of TeamSquad: two or three wallets, small      *)
(* allocations, a u64 that stands above every sum the model reaches, and  *)
(* a treasury of two units of each asset.                                  *)
(***************************************************************************)
EXTENDS TeamSquad, TLC

MCU64 == 2^30

(* Member sets of two wallets.                                             *)
SmallMemberSets == {ms \in SUBSET Keys : Cardinality(ms) = 2}

KeySymmetry == Permutations(Keys)

(* Two units of each asset in the sol account: one spending proposal fits *)
(* and a second of the same asset does not.                                *)
MCInitVault == [a \in Assets |-> 2]

=============================================================================
