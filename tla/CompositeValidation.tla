------------------------ MODULE CompositeValidation ------------------------
(***************************************************************************)
(* Composite results: the outcomes of the constituent cases of a test, put *)
(* together in a draft and finalised later with one determination, while   *)
(* other threads go on capturing, finalising and suspending.               *)
(*                                                                         *)
(* assemble_composite reads its sources one after the other.  What it puts *)
(* in a link does not change once it is so (a finalised execution with its *)
(* result and evidence, a suspension record), and an execution it saw      *)
(* unfinished may have finished since; so the whole call is one action     *)
(* that may take any execution for unfinished.  finalise_composite is one  *)
(* action for the same reason.                                             *)
(***************************************************************************)
EXTENDS ValidationLifecycle, FiniteSets

CONSTANTS
    Composites,    \* identities of composite results
    Tests          \* the tests that have constituent cases

VARIABLE composites   \* composite -> its stored row

compositeVars == <<vars, composites>>

\* The required cases of a test.
CasesOf(test) == {target \in Constituents : TestOf[target] = test}

-----------------------------------------------------------------------------

\* _verified_executed_result.
ResultVerified(a) ==
    /\ a \in DOMAIN results
    /\ attempts[a].status = "EXECUTED" /\ attempts[a].bound
    /\ attempts[a].run = executions[a].run
    /\ results[a].evidence = ListEvidence(a)

\* resolve_suspension_source.
SuspensionResolved(a) ==
    /\ a \in DOMAIN suspensions
    /\ attempts[a].status = "SUSPENDED"
    /\ a \notin DOMAIN results
    /\ IF suspensions[a].linked
       THEN /\ attempts[a].bound
            /\ attempts[a].run = suspensions[a].run
            /\ executions[a].run = attempts[a].run
            /\ suspensions[a].position = "EVIDENCE_FINALISATION" =>
                   DOMAIN ListEvidence(a) # {}
       ELSE attempts[a].run = NoRun /\ ~attempts[a].bound

\* The link to a finalised execution, and the link to a suspension.
ResultLink(a) ==
    [attempt |-> a, kind |-> "EXECUTION_RESULT", verdict |-> results[a].verdict,
     evidence |-> ListEvidence(a)]

SuspensionLink(a) ==
    [attempt |-> a, kind |-> "SUSPENSION_RESULT", verdict |-> "BLOCKED-TEST",
     evidence |-> IF suspensions[a].linked THEN ListEvidence(a) ELSE << >>]

\* What finalise_composite asks of a link again.
LinkResolves(link) ==
    LET a == link.attempt IN
    IF link.kind = "EXECUTION_RESULT"
    THEN ResultVerified(a) /\ link = ResultLink(a)
    ELSE SuspensionResolved(a) /\ link = SuspensionLink(a)

\* A suspension is looked at before a failure.
AggregateMutant(verdicts) ==
    IF "BLOCKED-TEST" \in verdicts THEN "BLOCKED-TEST"
    ELSE IF "FAIL" \in verdicts THEN "FAIL" ELSE "PASS"

\* _aggregate_verdict.
Aggregate(verdicts) ==
    IF "FAIL" \in verdicts THEN "FAIL"
    ELSE IF "BLOCKED-TEST" \in verdicts THEN "BLOCKED-TEST" ELSE "PASS"

Verdicts(links) == {links[target].verdict : target \in DOMAIN links}

\* The completeness of a draft: no case missing, none unfinished.
IsComplete(test, sources, linked) ==
    /\ sources = linked
    /\ {attempts[a].target : a \in linked} = CasesOf(test)

\* Its supplied executions and suspensions are the attempts in sources; unread
\* are the executions among them that it finds unfinished.
AssembleComposite(k, test, sources, unread) ==
    LET linked == sources \ unread
        CaseOf(target) == CHOOSE a \in linked : attempts[a].target = target
        links == [target \in {attempts[a].target : a \in linked} |->
                     LET a == CaseOf(target) IN
                     IF a \in DOMAIN results THEN ResultLink(a) ELSE SuspensionLink(a)]
    IN  /\ k \notin DOMAIN composites
        /\ sources # {}
        /\ \A a \in sources : a \in DOMAIN attempts /\ attempts[a].target \in CasesOf(test)
        /\ \A a, b \in sources : attempts[a].target = attempts[b].target => a = b
        /\ unread \subseteq DOMAIN executions
        /\ \A a \in linked : ResultVerified(a) \/ SuspensionResolved(a)
        /\ composites' = Insert(composites, k,
               [test |-> test, links |-> links, status |-> "DRAFT",
                complete |-> IsComplete(test, sources, linked), determination |-> "NONE"])
        /\ UNCHANGED vars

FinaliseComposite(k) ==
    /\ k \in DOMAIN composites
    /\ composites[k].status = "DRAFT" /\ composites[k].complete
    /\ \A target \in DOMAIN composites[k].links : LinkResolves(composites[k].links[target])
    /\ composites' = [composites EXCEPT ![k].status = "FINALISED",
                          ![k].determination = Aggregate(Verdicts(composites[k].links))]
    /\ UNCHANGED vars

CompositeInit == Init /\ composites = << >>

CompositeStep ==
    \E k \in Composites :
        \/ FinaliseComposite(k)
        \/ \E test \in Tests, sources \in SUBSET Attempts :
               \E unread \in SUBSET sources : AssembleComposite(k, test, sources, unread)

-----------------------------------------------------------------------------
(* Properties.                                                             *)

\* Every link of every composite goes on resolving, whatever other threads do
\* to the attempts: a complete draft can always be finalised, and a finalised
\* composite can be verified again at any later time.
LinksStayResolved ==
    \A k \in DOMAIN composites : \A target \in DOMAIN composites[k].links :
        /\ attempts[composites[k].links[target].attempt].target = target
        /\ LinkResolves(composites[k].links[target])

\* A determination speaks for every required case: FAIL exactly if the result of
\* some case is FAIL, PASS exactly if all of them are PASS, and BLOCKED-TEST only
\* with a suspension to show for it.
DeterminationIsSupported ==
    \A k \in DOMAIN composites : composites[k].status = "FINALISED" =>
        LET outcome(target) == composites[k].links[target].attempt
            failed == {target \in CasesOf(composites[k].test) :
                          outcome(target) \in DOMAIN results
                          /\ results[outcome(target)].verdict = "FAIL"}
            suspended == {target \in CasesOf(composites[k].test) :
                             outcome(target) \in DOMAIN suspensions}
        IN  /\ DOMAIN composites[k].links = CasesOf(composites[k].test)
            /\ composites[k].determination = "FAIL" <=> failed # {}
            /\ composites[k].determination = "PASS" <=> failed \cup suspended = {}

=============================================================================
