------------------------------- MODULE MCLedger -------------------------------
(* Two clients on the mini network, from every stage of the formal scenario. *)
EXTENDS CommandLedger, MiniNetwork, TLC

MCTimes == 0 .. 1
Callers == Permutations(Clients)

\* The stages of a formal run, each brought about at instant 0 by c0.
N0 == NewRun("FORMAL", "new", "A2", 0, "c0")
N1 == FaultInitiated(N0, 0, "c0")
N1Opened == DeviceIsolated(N1, "S12", 0, "c0")
N2 == DeviceIsolated(N1Opened, "S23", 0, "c0")
N3 == SourceRestored(N2, 0, "c0")
N4 == RestorationAssessed(N3, 0, "c0")
N4Lapsed == AssessmentLapsed(N4, 1, "c0")

MCHistories ==
  {[r \in RunIds |-> IF r = "r1" THEN run ELSE NoRun] :
     run \in {NoRun, N0, N1, N1Opened, N2, N3, N4, N4Lapsed}}

MCOpenings ==
  {[mode |-> "FORMAL", config |-> "old", fault |-> "A2"],
   [mode |-> "EXPLORATION", config |-> "old", fault |-> "A1"]}

ASSUME FedFromType ==
  FedFrom \in [Configs -> [SUBSET Switches -> [Feeders -> SUBSET Sections]]]
=============================================================================
