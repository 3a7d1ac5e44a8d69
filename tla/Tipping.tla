------------------------------- MODULE Tipping -------------------------------
(***************************************************************************)
(* The early-decision ("tipping") test of process_cast_vote for Text       *)
(* proposals, as pure operators.  A proposal always carries five vote      *)
(* slots (PROPOSAL_VOTE_OPTIONS_NUM); unused ones hold 0.  The code finds  *)
(* the leading slot and the runner-up with two folds over                  *)
(* votes.iter().enumerate(), and tips when the leader's count exceeds the  *)
(* runner-up's plus the weight that can still be cast.                     *)
(***************************************************************************)
EXTENDS Naturals, SequencesExt

(* The five slots of Proposal.votes, numbered from 0 as in Rust.           *)
VoteSlots5 == 0 .. 4

(* votes.iter().enumerate(): the pairs <<index, value>> in index order.    *)
Enumerate(votes) == [i \in 1 .. 5 |-> << i - 1, votes[i - 1] >>]

(* Variant of the first closure that keeps the later pair on a tie.        *)
MostStepLast(max, e) == IF e[2] >= max[2] THEN e ELSE max

(* The closure of the first fold: keep the pair with the larger value,     *)
(* the earlier one on a tie.                                               *)
MostStep(max, e) == IF e[2] > max[2] THEN e ELSE max

(* most_index: the first slot holding the largest count.                   *)
MostIndex(votes) == FoldLeft(MostStep, << 0, 0 >>, Enumerate(votes))[1]

(* Variant of the runner-up closure without the most_index == 0 case.      *)
SecondStepNoSkip(most, max, e) ==
    IF e[1] = most THEN max
    ELSE IF e[2] > max[2] THEN e ELSE max

(* The closure of the second fold.  It skips the leading slot; when the   *)
(* leader is slot 0, the accumulator's index is moved to 1 so that the     *)
(* initial <<0, 0>> does not name the leader.                              *)
SecondStep(most, max, e) ==
    IF e[1] = most
      THEN IF most = 0 THEN << e[1] + 1, 0 >> ELSE max
    ELSE IF e[2] > max[2] THEN e ELSE max

(* second_most_index.                                                      *)
SecondMostIndex(votes) ==
    LET most == MostIndex(votes)
        step(max, e) == SecondStep(most, max, e)
    IN  FoldLeft(step, << 0, 0 >>, Enumerate(votes))[1]

(* The test of process_cast_vote: the leader cannot be overtaken by the   *)
(* weight not yet cast.                                                    *)
Tipped(votes, remaining) ==
    votes[MostIndex(votes)] > votes[SecondMostIndex(votes)] + remaining

=============================================================================
