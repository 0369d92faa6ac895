-------------------------- MODULE MCDetermination ---------------------------
(* One scenario test with a case run and a procedure test, each with two     *)
(* roles and one machine criterion; the procedure has a review criterion too.*)
EXTENDS Determination, TLC

MCTestOf == [target \in Targets |-> target]
MCRunsFor == [target \in Targets |-> Runs]
MCObligations == [target \in Targets |-> IF target \in Procedures THEN {} ELSE Checkpoints]
MCRolesOf == [target \in Targets |-> <<"STATE", "HISTORY">>]
MCMachineCriteria == [target \in Targets |-> <<"MC-01">>]
MCReviewCriteria == [target \in Targets |-> IF target \in Procedures THEN {"RC-01"} ELSE {}]
MCActorRole ==
    [actor \in {"graduate-engineer", "independent-reviewer"} |->
        IF actor = "graduate-engineer" THEN "GRADUATE_ENGINEER"
        ELSE "INDEPENDENT_ENGINEERING_REVIEWER"]

MCSymmetry == Permutations(Attempts) \cup Permutations(Threads) \cup Permutations(Contexts)

=============================================================================
