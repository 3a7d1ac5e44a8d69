--------------------------- MODULE ProposalLifecycle ---------------------------
(***************************************************************************)
(* The lifecycle spec.md (sections 4.2 and 8) gives a proposal:            *)
(*                                                                         *)
(*   Active   --decide-->  Decided  --execute--> Executed                  *)
(*   Active   --execute--> Executed     (live numbers at execution)        *)
(*   Active   --reject-->  Rejected                                        *)
(*                                                                         *)
(* Executed and Rejected are terminal, and a Decided proposal keeps its    *)
(* decision: "once execute_ready is set with a frozen threshold, a later   *)
(* live change to quorum/support/member-count must not affect the outcome  *)
(* of executing that proposal".                                            *)
(***************************************************************************)
CONSTANT Proposals

VARIABLE status

States == {"None", "Active", "Decided", "Rejected", "Executed"}

TypeOK == status \in [Proposals -> States]

Init == status = [p \in Proposals |-> "None"]

Move(p, from, to) ==
    /\ status[p] \in from
    /\ status' = [status EXCEPT ![p] = to]

Create(p)  == Move(p, {"None"}, "Active")
Decide(p)  == Move(p, {"Active"}, "Decided")
Reject(p)  == Move(p, {"Active"}, "Rejected")
Execute(p) == Move(p, {"Active", "Decided"}, "Executed")

Next == \E p \in Proposals : Create(p) \/ Decide(p) \/ Reject(p) \/ Execute(p)

Spec == Init /\ [][Next]_status

=============================================================================
