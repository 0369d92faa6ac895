---------------------------- MODULE MCValidation ----------------------------
(* Small instances of the validation service.  CASE is a constituent case,    *)
(* with one checkpoint as in the catalogue; TEST has no cases.                *)
EXTENDS ValidationLifecycle, SuspensionClassifier, TLC

MCConstituents == Targets \cap {"CASE"}
MCTestOf == [target \in Targets |-> target]
MCRunsFor == [target \in Targets |-> Runs]

\* TEST requires all checkpoints, which the catalogue's schema allows.
MCObligations ==
    [target \in Targets |-> IF target = "CASE" THEN {"POST_TRIP"} ELSE Checkpoints]

MCSymmetry == Permutations(Attempts) \cup Permutations(Threads) \cup Permutations(Runs)

-----------------------------------------------------------------------------
(* The classifier on small inputs: one artefact, two fixtures, one field that *)
(* the reviews of every kind are about, each with two sources.               *)

MCReview(open) == [open |-> open, test |-> "CASE", field |-> "field", sources |-> <<"s1", "s2">>]
MCReviews == {"cr" :> MCReview(TRUE), "cr" :> MCReview(FALSE),
              "cr" :> MCReview(TRUE) @@ "dq" :> MCReview(TRUE)}

MCWorlds ==
    [artefacts : {{"catalogue"}}, corrupt : {{}, {"catalogue"}}, fixtures : {<<"f", "g">>},
     conflicts : MCReviews, questions : MCReviews, times : MCReviews,
     assertions : {{"s1"}, {"s1", "s2"}}, clocks : {{}, {"clock"}}]

MCIntended == [role \in Roles |-> IF role = Fixture THEN "f" ELSE "identity"]

MCTargets(w) ==
    {SelectedTarget(w, "CASE", MCIntended, fixture, role, presented) :
        fixture \in {Absent, "g", "h"}, role \in {NoRole, Fixture, "CONFIGURATION"},
        presented \in {Absent, "f", "identity"}}

MCRequests ==
    [claim : {Claims[n] : n \in GateOrder}, position : {"PRE_EXECUTION_ENTRY", "EXECUTION_IN_PROGRESS"},
     reference : {"catalogue", Fixture, "cr", "clock"}, field : {"field"},
     sources : {<<"s1", "s2">>}, proposer : {NoActor, "GRADUATE_ENGINEER"},
     reviewer : {NoActor, "INDEPENDENT_ENGINEERING_REVIEWER"}]

ASSUME FirstBoundaryDecidesHere ==
    \A w \in MCWorlds : \A target \in MCTargets(w), request \in MCRequests, n \in GateOrder :
        Suspends(n, w, target, request) => FirstBoundary(n, w, target, request)

ASSUME EveryConditionArises ==
    \A n \in GateOrder : \E w \in MCWorlds : \E target \in MCTargets(w), request \in MCRequests :
        Suspends(n, w, target, request)

=============================================================================
