----------------------------- MODULE MCLinkedRuns -----------------------------
(* Resets and linked replacements: two run identities on the mini network. *)
EXTENDS ScenarioSafety, MiniNetwork, TLC

MCTimes == 0 .. 1

\* Run identities are interchangeable and no property names one.
Identities == Permutations(RunIds)

\* Evaluated before the first state, so that the table is complete by then.
ASSUME FedFromType ==
  FedFrom \in [Configs -> [SUBSET Switches -> [Feeders -> SUBSET Sections]]]
=============================================================================
