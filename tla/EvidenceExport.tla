---------------------------- MODULE EvidenceExport -----------------------------
(***************************************************************************)
(* Evidence packages (modules/evidence_export/service.py): an archive over *)
(* the records of an executed result, a suspension or a finalised          *)
(* composite, written to the export directory and then registered, while   *)
(* the validation service goes on.                                         *)
(*                                                                         *)
(* A generation reads its source, writes the archive, and then verifies    *)
(* and registers it.  It may fail or be cut off in between, and the        *)
(* archive is a file that no transaction takes back.  Package identities   *)
(* are minted fresh.                                                       *)
(*                                                                         *)
(* An archive is abstracted to two things.  Its content is the outcome and *)
(* the evidence of its source, which no longer change once the source      *)
(* passes its boundary.  What it has seen besides are records that do go   *)
(* on changing, each read at its own time: the scenario runs, and the      *)
(* defect, its correction and repeat links with a summary of every         *)
(* execution they name.  Of the scenario (module ScenarioRun) and of the   *)
(* investigation (module Investigation) there is what these records show.  *)
(***************************************************************************)
EXTENDS CompositeValidation, Naturals

CONSTANTS
    Packages,         \* identities of packages, and with them of archives
    Exporters,        \* request threads that generate packages
    DirectTest,       \* the test the investigation is about, and
    RegressionTest,   \* the test that follows its repeat
    RunBound          \* bound on the commands of a run

ASSUME ExportAssumption == RunBound \in Nat

VARIABLES
    progress,    \* run -> the commands it has accepted
    chain,       \* role in the investigation -> the execution recorded for it
    archives,    \* the files of the export directory: package -> what it holds
    packages,    \* registered package -> what its record has the hash of
    exports      \* exporter -> what its generation does next

sourceVars == <<compositeVars, progress, chain>>
exportVars == <<sourceVars, archives, packages, exports>>

Resting == [step |-> "IDLE"]
Partial == [kind |-> "PARTIAL"]

Export(x, call) == exports' = [exports EXCEPT ![x] = call]

-----------------------------------------------------------------------------
(* The sources, by kind.                                                   *)

\* The evidence is packed as far as it goes.
ExportBoundaryMutant(a) == a \in DOMAIN executions /\ DOMAIN ListEvidence(a) # {}

\* _verify_export_boundary: finalised, with at least one snapshot.
ExportBoundary(a) ==
    /\ a \in DOMAIN executions
    /\ executions[a].status = "FINALISED"
    /\ DOMAIN ListEvidence(a) # {}

OutcomeOf(a) == IF a \in DOMAIN results THEN results[a].verdict ELSE "NONE"

\* generate packs the execution, its result if it has one, and every snapshot.
ExecutionContent(a) ==
    [kind |-> "EXECUTION", source |-> a, evidence |-> ListEvidence(a),
     outcome |-> OutcomeOf(a)]

\* generate_suspension packs what resolve_suspension_source returns.
SuspensionContent(a) ==
    [kind |-> "SUSPENSION", source |-> a, outcome |-> "BLOCKED-TEST",
     evidence |-> SuspensionLink(a).evidence]

\* generate_composite: finalised, and the links of suspensions are resolved again.
CompositeBoundary(k) ==
    /\ k \in DOMAIN composites
    /\ composites[k].status = "FINALISED"
    /\ \A target \in DOMAIN composites[k].links :
           LET link == composites[k].links[target] IN
           IF link.kind = "EXECUTION_RESULT" THEN link.attempt \in DOMAIN results
           ELSE SuspensionResolved(link.attempt) /\ link = SuspensionLink(link.attempt)

\* It packs the evidence its constituents have now, not what the links list.
CompositeContent(k) ==
    [kind |-> "COMPOSITE", source |-> k, outcome |-> composites[k].determination,
     evidence |-> [target \in DOMAIN composites[k].links |->
                      LET link == composites[k].links[target] IN
                      IF link.kind = "EXECUTION_RESULT" THEN ListEvidence(link.attempt)
                      ELSE SuspensionLink(link.attempt).evidence]]

Exportable ==
    {ExecutionContent(a) : a \in {b \in Attempts : ExportBoundary(b)}}
    \cup {SuspensionContent(a) : a \in {b \in Attempts : SuspensionResolved(b)}}
    \cup {CompositeContent(k) : k \in {l \in Composites : CompositeBoundary(l)}}

-----------------------------------------------------------------------------
(* The records that go on changing.                                        *)

\* Commands of the scenario endpoints rewrite the row of their run.
RunAdvances(r) ==
    /\ progress[r] < RunBound
    /\ progress' = [progress EXCEPT ![r] = @ + 1]
    /\ UNCHANGED <<compositeVars, chain, archives, packages, exports>>

HasResult(a, test, verdict) ==
    /\ a \in DOMAIN results /\ results[a].verdict = verdict
    /\ TestOf[attempts[a].target] = test

\* The correction of the recorded defect, the link of the direct repeat and that of
\* the regression, which has a snapshot by then and may be closed or not.
MayTakeRole(role, a) ==
    /\ role \notin DOMAIN chain
    /\ CASE role = "ORIGINAL" -> HasResult(a, DirectTest, "FAIL")
         [] role = "DIRECT_REPEAT" ->
               /\ "ORIGINAL" \in DOMAIN chain
               /\ HasResult(a, DirectTest, "PASS")
               /\ executions[a].source = chain["ORIGINAL"]
         [] role = "REGRESSION" ->
               /\ "DIRECT_REPEAT" \in DOMAIN chain
               /\ a \in DOMAIN executions /\ DOMAIN ListEvidence(a) # {}
               /\ TestOf[attempts[a].target] = RegressionTest

ChainRoles == {"ORIGINAL", "DIRECT_REPEAT", "REGRESSION"}

ChainGrows(role, a) ==
    /\ MayTakeRole(role, a)
    /\ chain' = Insert(chain, role, a)
    /\ UNCHANGED <<compositeVars, progress, archives, packages, exports>>

\* The links name the new executions only.
RelatedExecutionsMutant(shown) == {shown[role] : role \in DOMAIN shown \ {"ORIGINAL"}}

\* related_ids.
RelatedExecutions(shown) == {shown[role] : role \in DOMAIN shown}

\* The attempts whose scenario runs are packed as they are now; an execution's own
\* package has the run as its last snapshot shows it.
RunsPacked(content) ==
    CASE content.kind = "EXECUTION" -> {}
      [] content.kind = "SUSPENSION" ->
            {a \in {content.source} : suspensions[a].linked}
      [] content.kind = "COMPOSITE" ->
            LET links == composites[content.source].links IN
            {a \in {links[target].attempt : target \in DOMAIN links} :
                a \in DOMAIN suspensions => suspensions[a].linked}

-----------------------------------------------------------------------------
(* A generation.                                                           *)

NothingSeen == [runs |-> << >>, chain |-> << >>, outcomes |-> << >>, evidence |-> << >>]

\* generate, generate_suspension and generate_composite: the source and its boundary.
\* What content holds is final then, so its readings, which are several, are one.
ExportReads(x, p) ==
    /\ exports[x] = Resting
    /\ p \notin DOMAIN archives
    /\ \A y \in Exporters : exports[y] # Resting => exports[y].package # p
    /\ \E content \in Exportable :
           Export(x, [step |-> IF content.kind = "EXECUTION" THEN "CHAIN" ELSE "READ",
                      package |-> p, content |-> content, left |-> RunsPacked(content),
                      seen |-> NothingSeen])
    /\ UNCHANGED <<sourceVars, archives, packages>>

ReadsOn(x, left, seen) ==
    Export(x, [exports[x] EXCEPT !.step = "READ", !.left = left, !.seen = seen])

\* _investigation_chain up to its summaries.  The defect and the correction are
\* written once and before any link, so the reading of the links is that of all.
ExportReadsChain(x) ==
    /\ exports[x].step = "CHAIN"
    /\ LET call == exports[x] IN
       IF call.content.source \in RelatedExecutions(chain)
       THEN ReadsOn(x, RelatedExecutions(chain), [call.seen EXCEPT !.chain = chain])
       ELSE ReadsOn(x, call.left, call.seen)
    /\ UNCHANGED <<sourceVars, archives, packages>>

\* run_context of a source.
ExportReadsRun(x, a) ==
    /\ exports[x].step = "READ" /\ exports[x].content.kind # "EXECUTION"
    /\ a \in exports[x].left
    /\ ReadsOn(x, exports[x].left \ {a},
           [exports[x].seen EXCEPT !.runs = Insert(@, a, progress[executions[a].run])])
    /\ UNCHANGED <<sourceVars, archives, packages>>

\* summary of a related execution: its row, and then its snapshots.
ExportReadsExecution(x, a) ==
    /\ exports[x].step = "READ" /\ exports[x].content.kind = "EXECUTION"
    /\ a \in exports[x].left
    /\ DOMAIN exports[x].seen.outcomes = DOMAIN exports[x].seen.evidence
    /\ ReadsOn(x, exports[x].left,
           [exports[x].seen EXCEPT !.outcomes = Insert(@, a, OutcomeOf(a))])
    /\ UNCHANGED <<sourceVars, archives, packages>>

ExportReadsEvidence(x, a) ==
    /\ exports[x].step = "READ" /\ exports[x].content.kind = "EXECUTION"
    /\ a \in exports[x].left /\ a \in DOMAIN exports[x].seen.outcomes
    /\ ReadsOn(x, exports[x].left \ {a},
           [exports[x].seen EXCEPT !.evidence = Insert(@, a, ListEvidence(a))])
    /\ UNCHANGED <<sourceVars, archives, packages>>

ArchiveOf(call) == [content |-> call.content, seen |-> call.seen]

\* _write_archive stands before the try: what a failing one leaves is not removed.
ExportWrites(x) ==
    /\ exports[x].step = "READ" /\ exports[x].left = {}
    /\ LET call == exports[x] IN
       \/ /\ archives' = Insert(archives, call.package, ArchiveOf(call))
          /\ Export(x, [call EXCEPT !.step = "REGISTER"])
       \/ /\ archives' = Insert(archives, call.package, Partial)
          /\ Export(x, Resting)
    /\ UNCHANGED <<sourceVars, packages>>

\* _verify_archive and the insertion of the record, or the except branch.
ExportRegisters(x) ==
    /\ exports[x].step = "REGISTER"
    /\ LET p == exports[x].package IN
       \/ /\ archives[p] = ArchiveOf(exports[x])
          /\ packages' = Insert(packages, p, archives[p])
          /\ UNCHANGED archives
       \/ /\ archives' = [q \in DOMAIN archives \ {p} |-> archives[q]]
          /\ UNCHANGED packages
    /\ Export(x, Resting)
    /\ UNCHANGED sourceVars

\* The process stops, in every call; files stay.
ExportCrash ==
    /\ calls' = [t \in Threads |-> Idle]
    /\ exports' = [x \in Exporters |-> Resting]
    /\ calls' # calls \/ exports' # exports
    /\ UNCHANGED <<tables, composites, progress, chain, archives, packages>>

\* archive_file and its two siblings: the file is there and has the hash.
Downloads(p) == p \in DOMAIN archives /\ archives[p] = packages[p]

ExportInit ==
    /\ CompositeInit
    /\ progress = [r \in Runs |-> 0] /\ chain = << >>
    /\ archives = << >> /\ packages = << >>
    /\ exports = [x \in Exporters |-> Resting]

\* A call of the validation service, composites included.
ServiceStep ==
    /\ \/ /\ \/ \E t \in Threads : Step(t)
             \/ \E a \in Attempts, target \in Targets : PrepareAttempt(a, target)
             \/ \E a \in Attempts, run \in Runs : EnterAttempt(a, run)
          /\ UNCHANGED composites
       \/ CompositeStep
    /\ UNCHANGED <<progress, chain, archives, packages, exports>>

ExportNext ==
    \/ ServiceStep
    \/ \E r \in Runs : RunAdvances(r)
    \/ \E role \in ChainRoles, a \in Attempts : ChainGrows(role, a)
    \/ \E x \in Exporters :
           \/ \E p \in Packages : ExportReads(x, p)
           \/ ExportReadsChain(x)
           \/ \E a \in Attempts : \/ ExportReadsRun(x, a)
                                 \/ ExportReadsExecution(x, a)
                                 \/ ExportReadsEvidence(x, a)
           \/ ExportWrites(x) \/ ExportRegisters(x)
    \/ ExportCrash

ExportSpec == ExportInit /\ [][ExportNext]_exportVars

-----------------------------------------------------------------------------
(* Properties.                                                             *)

\* What a package says of its source is final: however many captures, finalisations,
\* suspensions and compositions were under way when it was generated, its archive
\* downloads, its outcome and evidence are what they would be packed as today; a
\* result's package holds the very evidence its verdict rests on, a composite's the
\* evidence its links list.  It has the run of every source that has one, as that run
\* was at some time: runs go on meanwhile, but never back behind what is packed.
PackagesShowTheirSource ==
    \A p \in DOMAIN packages :
        LET content == packages[p].content
            runs == packages[p].seen.runs
        IN
        /\ Downloads(p)
        /\ content \in Exportable
        /\ content.kind = "EXECUTION" =>
               /\ content.source \in DOMAIN results
               /\ content.evidence = results[content.source].evidence
        /\ content.kind = "COMPOSITE" => \A target \in DOMAIN content.evidence :
               content.evidence[target] = composites[content.source].links[target].evidence
        /\ DOMAIN runs = RunsPacked(content)
        /\ \A a \in DOMAIN runs : runs[a] <= progress[executions[a].run]

\* The investigation a package shows was read record by record while it went on: the
\* package may be behind it, but has never put together what was not so.  The chain it
\* has is one the investigation went through, with the packed execution in it, shown
\* with the outcome and evidence of the package itself; every execution is there, the
\* original with FAIL, the repeat with PASS, the regression with a snapshot; nothing
\* shown is different today, and what has an outcome has all of its evidence.
PackagesShowTheInvestigation ==
    \A p \in DOMAIN packages :
        LET content == packages[p].content
            seen == packages[p].seen
            roles == DOMAIN seen.chain
        IN
        content.kind = "EXECUTION" =>
        /\ roles \subseteq DOMAIN chain /\ \A role \in roles : seen.chain[role] = chain[role]
        /\ DOMAIN seen.outcomes = {seen.chain[role] : role \in roles}
        /\ DOMAIN seen.evidence = {seen.chain[role] : role \in roles}
        /\ roles # {} =>
               /\ "ORIGINAL" \in roles /\ seen.outcomes[seen.chain["ORIGINAL"]] = "FAIL"
               /\ \E role \in roles : seen.chain[role] = content.source
               /\ seen.outcomes[content.source] = content.outcome
               /\ seen.evidence[content.source] = content.evidence
        /\ "DIRECT_REPEAT" \in roles => seen.outcomes[seen.chain["DIRECT_REPEAT"]] = "PASS"
        /\ "REGRESSION" \in roles =>
               /\ "DIRECT_REPEAT" \in roles
               /\ DOMAIN seen.evidence[seen.chain["REGRESSION"]] # {}
        /\ \A a \in DOMAIN seen.evidence :
               /\ \A c \in DOMAIN seen.evidence[a] : <<a, c>> \in DOMAIN evidence
                                                    /\ seen.evidence[a][c] = evidence[<<a, c>>]
               /\ seen.outcomes[a] # "NONE" =>
                      seen.outcomes[a] = OutcomeOf(a) /\ seen.evidence[a] = ListEvidence(a)

=============================================================================
