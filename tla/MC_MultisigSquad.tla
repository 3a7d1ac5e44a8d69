--------------------------- MODULE MC_MultisigSquad ---------------------------
(***************************************************************************)
(* Model-checking instance of MultisigSquad.                               *)
(***************************************************************************)
EXTENDS MultisigSquad

(* Every member list of one to three accounts, repeats included.           *)
AllLists == UNION {[1 .. n -> Keys] : n \in 1 .. 3}

(* Member lists without a repeated account.                                *)
DistinctLists == {l \in AllLists : \A i, j \in DOMAIN l : l[i] = l[j] => i = j}

(* 2^30 stands for 2^64: both exceed every sum of counts in the model.    *)
MCU64 == 2^30

KeySymmetry == Permutations(Keys) \cup Permutations(RandomIds)

(* The sol account starts with enough lamports and tokens for one         *)
(* spending proposal of each asset, so a second one can fail for funds.   *)
MCInitVault == [a \in Assets |-> 2]

=============================================================================
