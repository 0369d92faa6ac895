---------------------------- MODULE ZoneSubstation ----------------------------
(***************************************************************************)
(* The two controlled configuration packages, as constants:                *)
(* config/network/v1.1 (corrected) and v1.0, which differs from v1.1 *)
(* in one end of SW-A23.  Loads in kW, capacities in kW.                   *)
(***************************************************************************)
EXTENDS Integers

ZConfigs == {"v1_0", "v1_1"}
ZSections == {"A1", "A2", "A3", "A4", "B1", "B2", "B3", "B4"}
ZFeeders == {"FDR_A", "FDR_B"}
ZTies == {"TS_01"}
ZSwitches == {"BRK_A", "BRK_B", "SW_A12", "SW_A23", "SW_A34",
              "SW_B12", "SW_B23", "SW_B34", "TS_01"}

Corrected ==
  [BRK_A |-> {"A1"}, BRK_B |-> {"B1"},
   SW_A12 |-> {"A1", "A2"}, SW_A23 |-> {"A2", "A3"}, SW_A34 |-> {"A3", "A4"},
   SW_B12 |-> {"B1", "B2"}, SW_B23 |-> {"B2", "B3"}, SW_B34 |-> {"B3", "B4"},
   TS_01 |-> {"A4", "B4"}]

ZEnds == [v1_1 |-> Corrected,
          v1_0 |-> [Corrected EXCEPT !.SW_A23 = {"B3", "A3"}]]

ZFeederOf ==
  [s \in ZSections |-> IF s \in {"A1", "A2", "A3", "A4"} THEN "FDR_A" ELSE "FDR_B"]
ZBreakerOf == [FDR_A |-> "BRK_A", FDR_B |-> "BRK_B"]
ZNormalClosed == ZSwitches \ ZTies

\* Devices in the order of their identifiers.
ZIdRank ==
  [BRK_A |-> 1, BRK_B |-> 2, SW_A12 |-> 3, SW_A23 |-> 4, SW_A34 |-> 5,
   SW_B12 |-> 6, SW_B23 |-> 7, SW_B34 |-> 8, TS_01 |-> 9]

ZLoad == [A1 |-> 750, A2 |-> 950, A3 |-> 850, A4 |-> 650,
          B1 |-> 1100, B2 |-> 1200, B3 |-> 1000, B4 |-> 900]
ZCapacity == [FDR_A |-> 5500, FDR_B |-> 6000]
ZSequence == <<"SW_A12", "SW_A23">>
=============================================================================
