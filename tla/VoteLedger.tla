------------------------------ MODULE VoteLedger ------------------------------
(***************************************************************************)
(* What the vote receipt ledger promises (spec section 4.5): a voter casts *)
(* at most one ballot on a proposal, the ballot is immutable, and the      *)
(* proposal's tally is updated by the ballot's weight in the same step     *)
(* that records the ballot.  No ballot is ever removed.                    *)
(***************************************************************************)
EXTENDS Naturals

CONSTANTS
    Proposals,  \* proposal identifiers
    Voters,     \* voter identities
    Slots,    \* vote slots
    Weights     \* the weights a ballot may carry

VARIABLES
    ballots,    \* set of [proposal, voter, vote_cast, weight] records
    tally       \* proposal -> slot -> total weight

Ballot == [proposal : Proposals, voter : Voters, vote_cast : Slots,
           weight : Weights]

TypeOK ==
    /\ ballots \subseteq Ballot
    /\ tally \in [Proposals -> [Slots -> Nat]]

Init ==
    /\ ballots = {}
    /\ tally = [p \in Proposals |-> [c \in Slots |-> 0]]

Voted(p, v) == \E b \in ballots : b.proposal = p /\ b.voter = v

Cast(b) ==
    /\ ~Voted(b.proposal, b.voter)
    /\ ballots' = ballots \cup {b}
    /\ tally' = [tally EXCEPT ![b.proposal][b.vote_cast] = @ + b.weight]

Next == \E b \in Ballot : Cast(b)

Spec == Init /\ [][Next]_<<ballots, tally>>

=============================================================================
