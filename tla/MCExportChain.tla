----------------------------- MODULE MCExportChain -----------------------------
(* An investigation: the direct test, its repeat and the regression, and the  *)
(* package of one of them.  The regression is finalised as a comparison here,  *)
(* where the code has it determined (module Determination).                   *)
EXTENDS EvidenceExport, TLC

MCTestOf == [target \in Targets |-> target]
MCRunsFor == [target \in Targets |-> Runs]
MCObligations ==
    [target \in Targets |-> IF target = DirectTest THEN {"POST_TRIP"} ELSE {"N0", "N1"}]

MCSymmetry == Permutations(Attempts)

=============================================================================
