------------------------------- MODULE MCExport -------------------------------
(* A composite test with two cases, each with a run of its own fault section, *)
(* and the packages of its attempts and composites.                          *)
EXTENDS EvidenceExport, TLC

MCTestOf == [target \in Targets |-> "TEST"]
MCRunsFor == [target \in Targets |-> {target}]
MCObligations == [target \in Targets |-> Checkpoints]

MCSymmetry == Permutations(Attempts) \cup Permutations(Threads)

=============================================================================
