----------------------------- MODULE MiniNetwork -----------------------------
(***************************************************************************)
(* A network small enough for several runs at once and still with every    *)
(* kind of fault: behind the breaker (A1: no safe reclose, the tie would   *)
(* carry too much), between two sectionalisers (A2: reclose restores A1,   *)
(* the tie restores A3), and at the normally open tie (A3: no candidate).  *)
(* In configuration "old" the second sectionaliser has a wrong end, as     *)
(* SW-A23 has in v1.0.                                                     *)
(***************************************************************************)
EXTENDS Integers

MConfigs == {"old", "new"}
MSections == {"A1", "A2", "A3", "B1"}
MFeeders == {"FA", "FB"}
MSwitches == {"BA", "BB", "S12", "S23", "TIE"}
MTies == {"TIE"}
MNew == [BA |-> {"A1"}, BB |-> {"B1"}, S12 |-> {"A1", "A2"},
         S23 |-> {"A2", "A3"}, TIE |-> {"A3", "B1"}]
MEnds == [new |-> MNew, old |-> [MNew EXCEPT !.S23 = {"B1", "A3"}]]
MFeederOf == [A1 |-> "FA", A2 |-> "FA", A3 |-> "FA", B1 |-> "FB"]
MBreakerOf == [FA |-> "BA", FB |-> "BB"]
MNormalClosed == MSwitches \ MTies
MIdRank == [BA |-> 1, BB |-> 2, S12 |-> 3, S23 |-> 4, TIE |-> 5]
MLoad == [A1 |-> 1, A2 |-> 1, A3 |-> 1, B1 |-> 2]
MCapacity == [FA |-> 3, FB |-> 3]
MSequence == <<"S12", "S23">>
=============================================================================
