--------------------------- MODULE Determination ----------------------------
(***************************************************************************)
(* Determinations: an attempt's verdict put together from the findings on  *)
(* the criteria of its method, beside the captures, comparisons and        *)
(* suspensions of ValidationLifecycle, which go on in other threads.       *)
(*                                                                         *)
(* Preparing stores one source record per context role, each in its own    *)
(* transaction, then binds an execution (a procedure has no run: it gets   *)
(* an execution of its own here) and freezes a context over the sources.   *)
(* Evaluating stores one finding per machine criterion, each in its own    *)
(* transaction; an engineering-review criterion gets its finding from a    *)
(* proposal and its finalisation.  The result is computed from the stored  *)
(* findings and evidence and inserted in a later transaction.              *)
(*                                                                         *)
(* What a source shows of a criterion is abstracted to whether its value   *)
(* is absent, agrees with the expected one, differs, or is refused by the  *)
(* criterion's normalisation.                                              *)
(***************************************************************************)
EXTENDS ValidationLifecycle, Naturals, Sequences

CONSTANTS
    Contexts,         \* identities of determination contexts
    Procedures,       \* the targets whose context kind is not SCENARIO_EXECUTION
    RolesOf,          \* the required context roles of a target, in order
    MachineCriteria,  \* its machine-comparison criteria, in order
    ReviewCriteria,   \* its engineering-review criteria
    ActorRole         \* the controlled actors and their roles

ASSUME DeterminationAssumption ==
    /\ Procedures \subseteq Targets
    /\ RolesOf \in [Targets -> Seq(STRING) \ {<< >>}]
    /\ MachineCriteria \in [Targets -> Seq(STRING)]
    /\ ReviewCriteria \in [Targets -> SUBSET STRING]
    /\ ActorRole \in [DOMAIN ActorRole -> STRING]

VARIABLES
    sources,       \* <<attempt, role>> -> criterion -> what the source shows of it
    procedures,    \* attempt -> status of its procedure execution
    contexts,      \* frozen context -> the attempt whose sources are its members
    findings,      \* <<context, criterion>> -> status of the finding
    proposals,     \* <<context, criterion>> -> who proposed and what
    finalisations, \* <<context, criterion>> -> who finalised the proposal
    determined,    \* attempt -> its DC-006 result
    work           \* thread -> what its determination call has read so far

records == <<sources, contexts, findings, proposals, finalisations>>
determinationVars == <<vars, records, procedures, determined, work>>

Elements(s) == {s[i] : i \in DOMAIN s}

RoleSet(target) == Elements(RolesOf[target])
MachineSet(target) == Elements(MachineCriteria[target])
CriteriaOf(target) == MachineSet(target) \cup ReviewCriteria[target]

\* The identities of a method's criteria are distinct, and each has one kind.
ASSUME KindAssumption ==
    \A target \in Targets : MachineSet(target) \cap ReviewCriteria[target] = {}

Shown == {"ABSENT", "AGREES", "DIFFERS", "UNREADABLE"}
Judgements == {"SATISFIED", "NOT_SATISFIED"}

DeterminationInit ==
    /\ Init
    /\ sources = << >> /\ procedures = << >> /\ contexts = << >> /\ findings = << >>
    /\ proposals = << >> /\ finalisations = << >> /\ determined = << >>
    /\ work = [t \in Threads |-> Idle]

Go(t, call) == work' = [work EXCEPT ![t] = call]
End(t) == Go(t, Idle)

\* A request thread serves one call at a time.
Free(t) == calls[t] = Idle /\ work[t] = Idle

-----------------------------------------------------------------------------
(* prepare_context                                                         *)

\* At least one role instead of at most one.
SelectorsClosedMutant(target, shown) ==
    \A c \in MachineSet(target) : \E r \in RoleSet(target) : shown[r][c] # "ABSENT"

\* _verify_selector_closure: a machine criterion's selector resolves through at
\* most one role.
SelectorsClosed(target, shown) ==
    \A c \in MachineSet(target) : \A r, s \in RoleSet(target) :
        shown[r][c] # "ABSENT" /\ shown[s][c] # "ABSENT" => r = s

\* The producer reads the attempt and the execution the caller names (e, or none),
\* and no status.
PrepareProduces(t, a, e, shown) ==
    /\ Free(t)
    /\ a \in DOMAIN attempts /\ attempts[a].known
    /\ LET target == attempts[a].target IN
       /\ target \notin Procedures => e \in DOMAIN executions
       /\ SelectorsClosed(target, shown)
    /\ Go(t, [op |-> "STORE", attempt |-> a, execution |-> e, shown |-> shown, next |-> 1])
    /\ UNCHANGED <<vars, records, procedures, determined>>

\* The role is not part of the key.
SourceIsNewMutant(a, r) == TRUE

\* The primary key of determination_source_origin_bindings.
SourceIsNew(a, r) == <<a, r>> \notin DOMAIN sources

\* The last role is left out.
RoleIsLeftMutant(target, next) == next + 1 \in DOMAIN RolesOf[target]

RoleIsLeft(target, next) == next \in DOMAIN RolesOf[target]

\* insert_produced_source, role after role; a conflict ends the call.
PrepareStores(t) ==
    /\ work[t].op = "STORE"
    /\ LET call == work[t]
           a == call.attempt
           target == attempts[a].target
           r == RolesOf[target][call.next]
       IN IF RoleIsLeft(target, call.next)
          THEN \/ /\ SourceIsNew(a, r)
                  /\ sources' = Insert(sources, <<a, r>>, call.shown[r])
                  /\ Go(t, [call EXCEPT !.next = @ + 1])
               \/ ~SourceIsNew(a, r) /\ UNCHANGED sources /\ End(t)
          ELSE UNCHANGED sources /\ Go(t, [op |-> "BIND", attempt |-> a,
                                           execution |-> call.execution])
    /\ UNCHANGED <<vars, contexts, findings, proposals, finalisations, procedures, determined>>

\* bind_context up to the context: the attempt must be open, and a scenario's
\* execution its own.  A procedure names none and gets one, in the transaction
\* of bind_attempt_procedure_execution, if the attempt is NOT_STARTED.
BindsExecution(t) ==
    /\ work[t].op = "BIND"
    /\ LET a == work[t].attempt
           e == work[t].execution
           procedure == attempts[a].target \in Procedures
           starts == procedure /\ e = NoAttempt /\ attempts[a].status = "NOT_STARTED"
           matches == ~procedure /\ e = a /\ attempts[a].status \in OpenStatuses
       IN \/ /\ starts
             /\ attempts' = [attempts EXCEPT ![a] = [@ EXCEPT !.status = "ACTIVE",
                                                             !.run = NoRun, !.bound = TRUE]]
             /\ procedures' = Insert(procedures, a, "ACTIVE")
             /\ Go(t, [op |-> "FREEZE", attempt |-> a])
          \/ /\ matches
             /\ Go(t, [op |-> "FREEZE", attempt |-> a])
             /\ UNCHANGED <<attempts, procedures>>
          \/ /\ ~starts /\ ~matches
             /\ End(t)
             /\ UNCHANGED <<attempts, procedures>>
    /\ UNCHANGED <<executions, evidence, results, suspensions, baselines, calls,
                   records, determined>>

\* insert_frozen_context asks nothing of the attempt.
FreezeInserts(t, k) ==
    /\ work[t].op = "FREEZE"
    /\ k \notin DOMAIN contexts
    /\ contexts' = Insert(contexts, k, work[t].attempt)
    /\ End(t)
    /\ UNCHANGED <<vars, sources, findings, proposals, finalisations, procedures, determined>>

-----------------------------------------------------------------------------
(* Findings                                                                *)

TargetOf(k) == attempts[contexts[k]].target

\* One finding per criterion of a context, and none once the context has its
\* result (UNIQUE, and trigger criterion_finding_no_late_insert).
FindingAdmitted(k, c) ==
    /\ <<k, c>> \notin DOMAIN findings
    /\ \A a \in DOMAIN determined : determined[a].context # k

\* The member sources of context k in which the selector of c resolves.
Candidates(k, c) ==
    {r \in RoleSet(TargetOf(k)) : sources[<<contexts[k], r>>][c] # "ABSENT"}

\* The finding on a machine criterion: a single candidate's value is compared.
Judge(k, c) ==
    IF \E r \in Candidates(k, c) : Candidates(k, c) = {r}
    THEN IF \A r \in Candidates(k, c) : sources[<<contexts[k], r>>][c] = "AGREES"
         THEN "SATISFIED" ELSE "NOT_SATISFIED"
    ELSE "NOT_EVALUATED"

\* The normalisation refuses the single value.
JudgementFails(k, c) ==
    \E r \in Candidates(k, c) : Candidates(k, c) = {r}
        /\ sources[<<contexts[k], r>>][c] = "UNREADABLE"

\* evaluate_machine_criteria lists the findings there are, once.
EvaluateReads(t, k) ==
    /\ Free(t)
    /\ k \in DOMAIN contexts
    /\ Go(t, [op |-> "EVALUATE", context |-> k, next |-> 1,
              existing |-> {c \in MachineSet(TargetOf(k)) : <<k, c>> \in DOMAIN findings}])
    /\ UNCHANGED <<vars, records, procedures, determined>>

\* Criterion after criterion; a value that cannot be judged and a conflict both
\* end the call.
EvaluateInserts(t) ==
    /\ work[t].op = "EVALUATE"
    /\ LET call == work[t]
           k == call.context
           criteria == MachineCriteria[TargetOf(k)]
           c == criteria[call.next]
           goOn == Go(t, [call EXCEPT !.next = @ + 1])
       IN IF call.next \notin DOMAIN criteria THEN UNCHANGED findings /\ End(t)
          ELSE IF c \in call.existing THEN UNCHANGED findings /\ goOn
          ELSE \/ /\ ~JudgementFails(k, c)
                  /\ FindingAdmitted(k, c)
                  /\ findings' = Insert(findings, <<k, c>>, Judge(k, c))
                  /\ goOn
               \/ /\ JudgementFails(k, c) \/ ~FindingAdmitted(k, c)
                  /\ UNCHANGED findings
                  /\ End(t)
    /\ UNCHANGED <<vars, sources, contexts, proposals, finalisations, procedures, determined>>

\* propose_review_finding: what it reads never changes, so the call is one action.
ProposeReview(k, c, actor, judgement) ==
    /\ k \in DOMAIN contexts /\ c \in ReviewCriteria[TargetOf(k)]
    /\ ActorRole[actor] = "GRADUATE_ENGINEER"
    /\ <<k, c>> \notin DOMAIN proposals
    /\ \A a \in DOMAIN determined : determined[a].context # k
    /\ proposals' = Insert(proposals, <<k, c>>, [actor |-> actor, finding |-> judgement])
    /\ UNCHANGED <<vars, sources, contexts, findings, finalisations, procedures,
                   determined, work>>

MayFinaliseReview(actor, proposer) ==
    /\ ActorRole[actor] = "INDEPENDENT_ENGINEERING_REVIEWER"
    /\ actor # proposer

\* finalise_review_finding: the finalisation and its finding in one transaction.
FinaliseReview(k, c, actor, judgement) ==
    /\ <<k, c>> \in DOMAIN proposals
    /\ MayFinaliseReview(actor, proposals[<<k, c>>].actor)
    /\ FindingAdmitted(k, c)
    /\ <<k, c>> \notin DOMAIN finalisations
    /\ finalisations' = Insert(finalisations, <<k, c>>, [actor |-> actor, finding |-> judgement])
    /\ findings' = Insert(findings, <<k, c>>, judgement)
    /\ UNCHANGED <<vars, sources, contexts, proposals, procedures, determined, work>>

-----------------------------------------------------------------------------
(* finalise_result                                                         *)

\* Content with the machine criteria.
IsDeterminateMutant(k) ==
    \A c \in MachineSet(TargetOf(k)) :
        <<k, c>> \in DOMAIN findings /\ findings[<<k, c>>] # "NOT_EVALUATED"

\* completeness: a finding on every criterion, and each of them evaluated.
IsDeterminate(k) ==
    \A c \in CriteriaOf(TargetOf(k)) :
        <<k, c>> \in DOMAIN findings /\ findings[<<k, c>>] # "NOT_EVALUATED"

VerdictOf(k) ==
    IF \E f \in DOMAIN findings : f[1] = k /\ findings[f] = "NOT_SATISFIED"
    THEN "FAIL" ELSE "PASS"

\* Reads the context, its findings and the evidence that there is now; a scenario
\* needs some, and not that it be complete.
DetermineReads(t, k) ==
    /\ Free(t)
    /\ k \in DOMAIN contexts
    /\ IsDeterminate(k)
    /\ LET scenario == TargetOf(k) \notin Procedures
           cited == IF scenario THEN ListEvidence(contexts[k]) ELSE << >>
       IN  /\ scenario => DOMAIN cited # {}
           /\ Go(t, [op |-> "DETERMINE", context |-> k, verdict |-> VerdictOf(k),
                     evidence |-> cited])
    /\ UNCHANGED <<vars, records, procedures, determined>>

ExecutionIsActive(a) ==
    IF attempts[a].target \in Procedures
    THEN a \in DOMAIN procedures /\ procedures[a] = "ACTIVE"
    ELSE executions[a].status = "ACTIVE"

\* The update of the attempt does not ask for its status.
DeterminationAdmittedMutant(k) ==
    /\ contexts[k] \notin DOMAIN determined
    /\ ExecutionIsActive(contexts[k])

\* insert_result: the attempt and the context have no result, the execution is
\* ACTIVE, the attempt open and without an executed result.
DeterminationAdmitted(k) ==
    /\ contexts[k] \notin DOMAIN determined
    /\ ExecutionIsActive(contexts[k])
    /\ contexts[k] \notin DOMAIN results
    /\ attempts[contexts[k]].status \in OpenStatuses

\* One transaction.  A scenario's result is inserted a second time, into the
\* table finalise_execution uses.
DetermineCommits(t) ==
    /\ work[t].op = "DETERMINE"
    /\ LET call == work[t]
           k == call.context
           a == contexts[k]
           procedure == attempts[a].target \in Procedures
           row == [context |-> k, verdict |-> call.verdict, evidence |-> call.evidence]
       IN \/ /\ DeterminationAdmitted(k)
             /\ determined' = Insert(determined, a, row)
             /\ attempts' = [attempts EXCEPT ![a].status = "EXECUTED"]
             /\ IF procedure
                THEN /\ procedures' = [procedures EXCEPT ![a] = "FINALISED"]
                     /\ UNCHANGED <<executions, results>>
                ELSE /\ executions' = [executions EXCEPT ![a].status = "FINALISED"]
                     /\ results' = Insert(results, a, row)
                     /\ UNCHANGED procedures
          \/ /\ ~DeterminationAdmitted(k)
             /\ UNCHANGED <<determined, attempts, procedures, executions, results>>
    /\ End(t)
    /\ UNCHANGED <<evidence, suspensions, baselines, calls, records>>

-----------------------------------------------------------------------------

\* The process stops, in every call.
DeterminationCrash ==
    /\ \E t \in Threads : ~Free(t)
    /\ calls' = [t \in Threads |-> Idle]
    /\ work' = [t \in Threads |-> Idle]
    /\ UNCHANGED <<tables, records, procedures, determined>>

\* A call of ValidationLifecycle.
ValidationStep ==
    /\ \/ \E t \in Threads : work[t] = Idle /\ Step(t)
       \/ \E a \in Attempts, target \in Targets : PrepareAttempt(a, target)
       \/ \E a \in Attempts, run \in Runs : EnterAttempt(a, run)
    /\ UNCHANGED <<records, procedures, determined, work>>

DeterminationStep(t) ==
    \/ \E a \in DOMAIN attempts, e \in Attempts \cup {NoAttempt} :
           \E shown \in [RoleSet(attempts[a].target) -> [MachineSet(attempts[a].target) -> Shown]] :
               PrepareProduces(t, a, e, shown)
    \/ PrepareStores(t)
    \/ BindsExecution(t)
    \/ EvaluateInserts(t)
    \/ DetermineCommits(t)
    \/ \E k \in Contexts : FreezeInserts(t, k) \/ EvaluateReads(t, k) \/ DetermineReads(t, k)

DeterminationNext ==
    \/ ValidationStep
    \/ \E t \in Threads : DeterminationStep(t)
    \/ \E k \in DOMAIN contexts : \E c \in ReviewCriteria[TargetOf(k)] :
           \E actor \in DOMAIN ActorRole, judgement \in Judgements :
               ProposeReview(k, c, actor, judgement) \/ FinaliseReview(k, c, actor, judgement)
    \/ DeterminationCrash

DeterminationSpec == DeterminationInit /\ [][DeterminationNext]_determinationVars

-----------------------------------------------------------------------------
(* Refinement.                                                             *)

ContextsOf(a) == {k \in DOMAIN contexts : contexts[k] = a}

ShownBy(a) == [r \in RoleSet(attempts[a].target) |-> sources[<<a, r>>]]

\* Criterion and status of each, in whatever context.
FindingsOf(a) ==
    {<<key[2], findings[key]>> : key \in {key \in DOMAIN findings : contexts[key[1]] = a}}

DecidedAs(a) ==
    IF a \in DOMAIN determined THEN determined[a].verdict
    ELSE IF a \in DOMAIN results THEN "COMPARED"
    ELSE IF a \in DOMAIN suspensions THEN "SUSPENDED" ELSE "NONE"

\* What the tables say of an attempt, whatever calls are under way for it.
CaseOf(a) ==
    [outcome |-> DecidedAs(a),
     target |-> attempts[a].target,
     shown |-> IF ContextsOf(a) = {} THEN << >> ELSE ShownBy(a),
     findings |-> FindingsOf(a)]

AtOnce == INSTANCE AtomicDeterminations
    WITH cases <- [a \in DOMAIN attempts |-> CaseOf(a)],
         Roles <- [target \in Targets |-> RoleSet(target)],
         Machine <- [target \in Targets |-> MachineSet(target)],
         Review <- ReviewCriteria

\* A context stored role by role by competing callers, findings inserted one by one
\* and a verdict computed outside its transaction cannot be told by the tables from
\* a freezing, findings and a verdict that each take place at once.
ImplementsAtomicDeterminations == AtOnce!Spec

-----------------------------------------------------------------------------
(* Properties.                                                             *)

\* The rows of a determination name rows that exist, and so do the calls under
\* way: a context's attempt has the sources of all its roles, a procedure its
\* execution, a scenario its own.
DeterminationRowsOK ==
    /\ DOMAIN procedures \subseteq DOMAIN attempts
    /\ DOMAIN contexts \subseteq Contexts
    /\ DOMAIN findings \subseteq (DOMAIN contexts) \X STRING
    /\ DOMAIN determined \subseteq DOMAIN attempts
    /\ \A k \in DOMAIN contexts :
        LET a == contexts[k] IN
        /\ a \in DOMAIN attempts
        /\ \A r \in RoleSet(TargetOf(k)) : <<a, r>> \in DOMAIN sources
        /\ IF TargetOf(k) \in Procedures THEN a \in DOMAIN procedures ELSE a \in DOMAIN executions

\* "A validation attempt has exactly one backend-produced authority source for
\* each controlled context role ...; callers cannot choose among competing
\* same-role snapshots" (migration 013): however many callers prepare an attempt
\* at once, at most one context is ever frozen for it.
OneContextPerAttempt ==
    \A k, l \in DOMAIN contexts : contexts[k] = contexts[l] => k = l

\* The two ways to a verdict and the suspension exclude one another: an attempt is
\* EXECUTED exactly if it has a result of one of them, its execution is finalised
\* exactly then, and a suspended attempt has none.
OneOutcomeOfAll ==
    \A a \in DOMAIN attempts :
        LET decided == a \in DOMAIN results \cup DOMAIN determined IN
        /\ attempts[a].status = "EXECUTED" <=> decided
        /\ attempts[a].status = "SUSPENDED" <=> a \in DOMAIN suspensions
        /\ a \in DOMAIN executions => (executions[a].status = "FINALISED" <=> a \in DOMAIN results)
        /\ a \in DOMAIN procedures => (procedures[a] = "FINALISED" <=> decided)
        /\ a \in DOMAIN determined /\ attempts[a].target \notin Procedures => a \in DOMAIN results

\* A result has "the exact criterion-finding ... membership used" (DC-006, section
\* 7): a finding on every criterion of its method, FAIL exactly if one is not
\* satisfied; a machine finding is what the one frozen source that shows its
\* criterion shows; a review finding was proposed and finalised by two people.
DeterminationRestsOnFindings ==
    \A a \in DOMAIN determined :
        LET k == determined[a].context
            status(c) == findings[<<k, c>>]
        IN  /\ contexts[k] = a
            /\ \A c \in CriteriaOf(TargetOf(k)) :
                   <<k, c>> \in DOMAIN findings /\ status(c) \in Judgements
            /\ determined[a].verdict = "FAIL" <=>
                   \E c \in CriteriaOf(TargetOf(k)) : status(c) = "NOT_SATISFIED"
            /\ \A c \in MachineSet(TargetOf(k)) : \E r \in RoleSet(TargetOf(k)) :
                   /\ sources[<<a, r>>][c] = IF status(c) = "SATISFIED" THEN "AGREES" ELSE "DIFFERS"
                   /\ \A s \in RoleSet(TargetOf(k)) \ {r} : sources[<<a, s>>][c] = "ABSENT"
            /\ \A c \in ReviewCriteria[TargetOf(k)] :
                   /\ finalisations[<<k, c>>].finding = status(c)
                   /\ finalisations[<<k, c>>].actor # proposals[<<k, c>>].actor

\* "Database-level controls shall reject ... criterion replacement, evidence/member
\* insertion/removal/replacement after finalisation" (DC-006, section 7): once an
\* attempt is determined, no call under way changes its result, the findings of its
\* context or the sources they rest on.
DeterminationsAreFinal ==
    [][\A a \in DOMAIN determined :
          LET k == determined[a].context
              ofContext == {key \in DOMAIN findings : key[1] = k}
          IN  /\ a \in DOMAIN determined' /\ determined'[a] = determined[a]
              /\ contexts'[k] = a /\ attempts'[a] = attempts[a]
              /\ {key \in DOMAIN findings' : key[1] = k} = ofContext
              /\ \A key \in ofContext : findings'[key] = findings[key]
              /\ \A r \in RoleSet(TargetOf(k)) : sources'[<<a, r>>] = sources[<<a, r>>]
      ]_determinationVars

\* "The final immutable evidence_snapshot_ids is verified to equal the persisted
\* evidence rows exactly" (I5 closeout, section 5).
DeterminedEvidenceIsExact ==
    \A a \in DOMAIN determined :
        attempts[a].target \notin Procedures => determined[a].evidence = ListEvidence(a)

=============================================================================
