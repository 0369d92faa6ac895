---------------------------- MODULE MCGridReference ----------------------------
(* Every state of the devices of both controlled configurations. *)
EXTENDS GridReference, ZoneSubstation

\* Evaluated before the first state, so that the table is complete by then.
ASSUME FedFromType ==
  FedFrom \in [Configs -> [SUBSET Switches -> [Feeders -> SUBSET Sections]]]
=============================================================================
