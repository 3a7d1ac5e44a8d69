------------------------------- MODULE Address -------------------------------
(***************************************************************************)
(* The program-derived addresses of lib.rs that the handlers derive and   *)
(* check.  Pubkey::find_program_address hashes the seeds concatenated,     *)
(* with no length or separator between them, then the bump seed, the      *)
(* program id and a fixed marker; the bump is the first one, from 255      *)
(* down, whose hash is off the curve, so it is a function of the seeds.   *)
(* The hash is taken to be injective: two derivations give the same       *)
(* address exactly when their concatenated seeds are equal.  Seeds(d) is   *)
(* that byte sequence for a derivation d = [kind, a, b].                   *)
(*                                                                         *)
(* A key is its 32 bytes.  The random_id of a squad is the 10 bytes        *)
(* unpack_squad_random_id reads; the random_id of a swap is the 16 bytes   *)
(* unpack_wsol_random_id reads or its default; a proposal nonce is the u32 *)
(* proposal_nonce.                                                         *)
(***************************************************************************)
EXTENDS AccountLayout

KeyLen == 32

(* The ASCII bytes of the constant seeds.                                  *)
SeedSquad        == << 33, 115, 113, 117, 97, 100 >>           \* "!squad"
SeedSquadMint    == SeedSquad \o << 109, 105, 110, 116 >>      \* "!squadmint"
SeedSquadSol     == SeedSquad \o << 115, 111, 108 >>           \* "!squadsol"
SeedWsol         == << 33, 119, 115, 111, 108 >>               \* "!wsol"
SeedMemberEquity == << 33, 109, 101, 109, 98, 101, 114, 101, 113, 117, 105,
                       116, 121 >>                             \* "!memberequity"
SeedProposal     == << 33, 112, 114, 111, 112, 111, 115, 97, 108 >> \* "!proposal"
SeedVote         == << 33, 118, 111, 116, 101 >>               \* "!vote"

(* get_squad_address_with_seed: creator, random_id, "!squad".              *)
SquadSeeds(creator, random_id) == creator \o random_id \o SeedSquad

(* get_mint_address_with_seed and get_sol_address_with_seed.               *)
MintSeeds(squad) == squad \o SeedSquadMint
SolSeeds(squad)  == squad \o SeedSquadSol

(* Variant that leaves the "!wsol" seed out.                               *)
WsolSeedsUnsuffixed(sol, random_id) == sol \o random_id

(* get_wsol_address_with_seed: sol account, random_id, "!wsol".            *)
WsolSeeds(sol, random_id) == sol \o random_id \o SeedWsol

(* get_equity_address_with_seed: member, squad, "!memberequity".           *)
EquitySeeds(member, squad) == member \o squad \o SeedMemberEquity

(* get_proposal_address_with_seed: squad, nonce.to_le_bytes(), "!proposal".*)
ProposalSeeds(squad, nonce) == squad \o ToLE(nonce, 4) \o SeedProposal

(* get_vote_address_with_seed: proposal, member, "!vote".                  *)
VoteSeeds(proposal, member) == proposal \o member \o SeedVote

(* The derivations the handlers make.                                      *)
DerivationKinds == {"squad", "mint", "sol", "wsol", "equity", "proposal", "vote"}

Seeds(d) ==
    CASE d.kind = "squad"    -> SquadSeeds(d.a, d.b)
      [] d.kind = "mint"     -> MintSeeds(d.a)
      [] d.kind = "sol"      -> SolSeeds(d.a)
      [] d.kind = "wsol"     -> WsolSeeds(d.a, d.b)
      [] d.kind = "equity"   -> EquitySeeds(d.a, d.b)
      [] d.kind = "proposal" -> ProposalSeeds(d.a, d.b)
      [] d.kind = "vote"     -> VoteSeeds(d.a, d.b)

=============================================================================
