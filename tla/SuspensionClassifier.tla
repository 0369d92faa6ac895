------------------------- MODULE SuspensionClassifier -------------------------
(***************************************************************************)
(* What evaluate_suspension decides: which of the five conditions blocks a  *)
(* selected test, if any.  Its gates are asked in the accepted order (DC-005 *)
(* section 3.1) and the first that fails decides.  ValidationLifecycle has   *)
(* the transaction that stores the record.                                  *)
(*                                                                         *)
(* The functions are of                                                    *)
(*   w        what the backend controls: artefacts and those of them that   *)
(*            fail verification (corrupt), fixtures (the identities in the  *)
(*            order they are listed), conflicts, questions and times (the   *)
(*            reviews of the engineering registry by their identity: open,  *)
(*            test, field, sources), assertions (those whose source file    *)
(*            verifies) and clocks (references with a runtime failure);     *)
(*   target   the selected test with its case, the identities intended and  *)
(*            requested for each role, and the role left unresolved;        *)
(*   request  the caller's claim, lifecycle position, reference, field,     *)
(*            source assertions and the roles of its two actors.            *)
(* Failure codes, digests and the payload of the record are left out.       *)
(***************************************************************************)
EXTENDS Naturals, Sequences

Roles == {"APPLICATION_BUILD", "CONFIGURATION", "CATALOGUE", "TEST_DEFINITION",
          "CASE_DEFINITION", "CONTROLLED_FIXTURE"}
Fixture == "CONTROLLED_FIXTURE"
NoRole == "NO_ROLE"
Absent == "ABSENT"  \* no identity, or one without a value
NoActor == "NO_ACTOR"

-----------------------------------------------------------------------------
(* Identities.                                                             *)

\* evaluate_evidence: missing, unknown, or listed more than once.
Unidentified(w, role, requested, intended) ==
    \/ requested = Absent
    \/ IF role = Fixture
       THEN ~ \E i \in DOMAIN w.fixtures :
                  {j \in DOMAIN w.fixtures : w.fixtures[j] = requested} = {i}
       ELSE requested # intended

\* create_target_selection: one role at most is requested otherwise than intended,
\* and another fixture than the accepted one is that role.  (The case of a test
\* without cases is refused.)
SelectedTarget(w, test, intended, fixture, role, presented) ==
    LET other == fixture \notin {Absent, intended[Fixture]}
        chosen == IF other THEN Fixture ELSE role
        asked == IF other THEN fixture ELSE presented
        requested == [r \in Roles |-> IF r = chosen THEN asked ELSE intended[r]]
        unresolved == /\ chosen \in Roles
                      /\ Unidentified(w, chosen, requested[chosen], intended[chosen])
    IN [test |-> test, intended |-> intended, requested |-> requested,
        unresolved |-> IF unresolved THEN chosen ELSE NoRole]

\* The role to resolve: the target's, or the one a claim names.
RoleToResolve(target, request) ==
    CASE target.unresolved # NoRole -> target.unresolved
      [] target.unresolved = NoRole /\ request.claim = "IDENTITY_RESOLUTION" -> request.reference
      [] OTHER -> NoRole

\* RequiredInputRole(reference_id) is asked whatever the first gate said.
NamesNoRole(target, request) ==
    /\ target.unresolved = NoRole /\ request.claim = "IDENTITY_RESOLUTION"
    /\ request.reference \notin Roles

-----------------------------------------------------------------------------
(* The engineering registry.                                               *)

\* _single_scope_record and _binds: the open reviews of the test and the field.
InScope(rows, target, field) ==
    {id \in DOMAIN rows : rows[id].open /\ rows[id].test = target.test /\ rows[id].field = field}

\* _assertions: each once, registered, and its file unchanged.
Verifies(w, sources, least) ==
    /\ \A i, j \in DOMAIN sources : sources[i] = sources[j] => i = j
    /\ \A i \in DOMAIN sources : sources[i] \in w.assertions
    /\ Len(sources) >= least

\* A gate of the registry: verify_scoped_... and, for a claim it does not bear out
\* by itself, verify_... of the review the caller names.
ReviewGate(w, rows, least, claim, target, request) ==
    LET scope == InScope(rows, target, request.field)
        named == request.reference
    IN CASE \E a, b \in scope : a # b -> "REFUSED"
         [] \E a \in scope : scope = {a} /\ Verifies(w, rows[a].sources, least) -> "FAIL"
         [] \E a \in scope : scope = {a} /\ ~Verifies(w, rows[a].sources, least) -> "REFUSED"
         [] scope = {} /\ request.claim = claim ->
                IF /\ named \in InScope(rows, target, request.field)
                   /\ request.sources = rows[named].sources
                   /\ Verifies(w, request.sources, least)
                THEN "FAIL" ELSE "REFUSED"
         [] OTHER -> "NOT_APPLICABLE"

-----------------------------------------------------------------------------
(* The gates.                                                              *)

IntegrityGate(w, request) ==
    CASE request.reference \in w.artefacts /\ request.reference \in w.corrupt -> "FAIL"
      [] request.reference \in w.artefacts /\ request.reference \notin w.corrupt -> "PASS"
      [] request.reference \notin w.artefacts /\ request.claim = "INTEGRITY" -> "REFUSED"
      [] OTHER -> "NOT_APPLICABLE"

IdentityGate(w, target, request) ==
    LET role == RoleToResolve(target, request) IN
    IF role \in Roles /\ Unidentified(w, role, target.requested[role], target.intended[role])
    THEN "FAIL" ELSE "PASS"

ConflictGate(w, target, request) ==
    ReviewGate(w, w.conflicts, 2, "BASELINE_CONFLICT", target, request)
BehaviourGate(w, target, request) ==
    ReviewGate(w, w.questions, 0, "ENGINEERING_BEHAVIOUR", target, request)

\* A review before entry, the runtime's own authority after it.
TimeGate(w, target, request) ==
    IF request.position = "PRE_EXECUTION_ENTRY"
    THEN ReviewGate(w, w.times, 0, "TIME_AUTHORITY", target, request)
    ELSE CASE request.reference \in w.clocks -> "FAIL"
           [] request.reference \notin w.clocks /\ request.claim = "TIME_AUTHORITY" -> "REFUSED"
           [] OTHER -> "NOT_APPLICABLE"

GateOrder == 1 .. 5
Conditions == <<"VSC-005", "VSC-003", "VSC-002", "VSC-001", "VSC-004">>
Claims == <<"INTEGRITY", "IDENTITY_RESOLUTION", "BASELINE_CONFLICT", "ENGINEERING_BEHAVIOUR",
            "TIME_AUTHORITY">>

Gate(n, w, target, request) ==
    CASE n = 1 -> IntegrityGate(w, request)
      [] n = 2 -> IdentityGate(w, target, request)
      [] n = 3 -> ConflictGate(w, target, request)
      [] n = 4 -> BehaviourGate(w, target, request)
      [] n = 5 -> TimeGate(w, target, request)

\* A gate that refuses ends the evaluation, as does one that fails; those after it
\* are not reached.
Selects(n, w, target, request) ==
    /\ ~NamesNoRole(target, request)
    /\ Gate(n, w, target, request) = "FAIL"
    /\ \A m \in 1 .. n - 1 : Gate(m, w, target, request) \in {"PASS", "NOT_APPLICABLE"}

\* The backend signs for what it verifies; two engineers sign for what they review.
Authorised(n, request) ==
    IF n \in {1, 2} \/ (n = 5 /\ request.position # "PRE_EXECUTION_ENTRY")
    THEN request.proposer = NoActor /\ request.reviewer = NoActor
    ELSE /\ request.proposer = "GRADUATE_ENGINEER"
         /\ request.reviewer = "INDEPENDENT_ENGINEERING_REVIEWER"

Suspends(n, w, target, request) ==
    Selects(n, w, target, request) /\ Authorised(n, request)

-----------------------------------------------------------------------------
(* What the classifier promises.                                           *)

\* DC-005 section 3.1: the boundary n applies to the facts, whatever is claimed.
Boundary(n, w, target, request) ==
    CASE n = 1 -> request.reference \in w.artefacts \cap w.corrupt
      [] n = 2 -> \E role \in Roles :
                      Unidentified(w, role, target.requested[role], target.intended[role])
      [] n = 3 -> InScope(w.conflicts, target, request.field) # {}
      [] n = 4 -> InScope(w.questions, target, request.field) # {}
      [] n = 5 -> IF request.position = "PRE_EXECUTION_ENTRY"
                  THEN InScope(w.times, target, request.field) # {}
                  ELSE request.reference \in w.clocks

FirstBoundary(n, w, target, request) ==
    /\ Boundary(n, w, target, request)
    /\ \A m \in 1 .. n - 1 : ~Boundary(m, w, target, request)

\* Every identity the target intends is there, and its fixture is listed once.
Controlled(w, intended) ==
    \A role \in Roles : ~Unidentified(w, role, intended[role], intended[role])

\* The review that the boundary rests on is the only one and its sources verify.
Reviewed(w, rows, least, target, field) ==
    \A a, b \in InScope(rows, target, field) : a = b /\ Verifies(w, rows[a].sources, least)

=============================================================================
