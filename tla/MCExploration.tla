---------------------------- MODULE MCExploration ----------------------------
(* One run of any mode on the controlled network, driven to every end. *)
EXTENDS ScenarioSafety, ZoneSubstation

MCTimes == 0 .. 3

\* Evaluated before the first state, so that the table is complete by then.
ASSUME FedFromType ==
  FedFrom \in [Configs -> [SUBSET Switches -> [Feeders -> SUBSET Sections]]]
=============================================================================
