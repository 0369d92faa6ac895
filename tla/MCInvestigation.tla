--------------------------- MODULE MCInvestigation ---------------------------
(* The states of the controlled procedure, and those of them whose outage is *)
(* the one the direct test expects (as a run of the exploration shows them:  *)
(* on 1.0 sections A3 and A4 are supplied throughout).                       *)
EXTENDS Investigation, TLC

MCPath == [v \in Versions |-> IF v = "1.0" THEN <<"N0", "N1", "N2", "N3", "N4">>
                              ELSE <<"N0", "N1", "N1", "N2", "N3", "N4", "N5">>]
MCAgreeing == [v \in Versions |-> IF v = "1.0" THEN {} ELSE {"N1", "N2"}]

MCSymmetry == Permutations(Executions) \cup Permutations(Threads)

=============================================================================
