----------------------------- MODULE Investigation -----------------------------
(***************************************************************************)
(* The defect investigation (application/investigation_service.py): a test  *)
(* that fails on configuration 1.0 is investigated as the one defect, the   *)
(* correction selects configuration 1.1, the test is repeated on it, and a  *)
(* regression test captures one snapshot per network state.                *)
(*                                                                         *)
(* One request opens a run, starts an execution on it, drives the run,     *)
(* captures, finalises and links, and every one of these is a transaction  *)
(* of its own: other requests and the other clients of the scenario and of *)
(* the validation endpoints act in between, and the process may stop there.*)
(*                                                                         *)
(* A run is abstracted to how far its procedure has come, and a            *)
(* determination (module Determination) to the verdict it gives.  Runs and *)
(* executions of an earlier application build, which are read-only, and    *)
(* suspensions (module ValidationLifecycle), which close an execution to    *)
(* captures and results without changing its row, are left out.            *)
(***************************************************************************)
EXTENDS Naturals, Sequences

CONSTANTS
    MaxRuns,      \* bound on the runs opened
    Executions,   \* identities of validation executions
    Threads,      \* request threads
    Path,         \* version -> the states a run passes, one per accepted command
    Agreeing,     \* version -> the states whose outage is the expected one
    LoopBound,    \* most commands of one run_regression
    Interference, \* bound on the steps of other clients
    NoExecution

Versions == {"1.0", "1.1"}
Labels == {"N0", "N1", "N2", "N3", "N4", "N5"}
DirectTest == "VT-TOP-DEF-001"
RegressionTest == "VT-FML-N0-N5-001"

ASSUME InvestigationAssumption ==
    /\ Path \in [Versions -> Seq(Labels)]
    /\ \A v \in Versions : Len(Path[v]) > 1 /\ Path[v][1] = "N0" /\ Path[v][2] = "N1"
    /\ Agreeing \in [Versions -> SUBSET Labels]
    /\ LoopBound \in Nat /\ Interference \in Nat /\ MaxRuns \in Nat
    /\ NoExecution \notin Executions

VARIABLES
    runs,        \* the runs in the order they were opened: version, place on the
                 \* path, alarm, still open
    executions,  \* execution -> its row
    evidence,    \* <<execution, checkpoint>> -> the state the snapshot shows
    baselines,   \* repeated execution -> the execution its frozen baseline is for
    defect,      \* the failed execution DEF-001 is bound to
    correction,  \* COR-001 is recorded
    links,       \* relationship -> the original and the new execution
    work,        \* thread -> what its request does next
    spent        \* steps other clients have taken

records == <<defect, correction, links>>
tests == <<executions, evidence, baselines>>
investigationVars == <<runs, tests, records, work, spent>>

Idle == [step |-> "IDLE"]

\* A table with one more row.
Insert(table, key, row) ==
    [k \in DOMAIN table \cup {key} |-> IF k = key THEN row ELSE table[k]]

InvestigationInit ==
    /\ runs = << >> /\ executions = << >> /\ evidence = << >> /\ baselines = << >>
    /\ defect = NoExecution /\ correction = FALSE /\ links = << >>
    /\ work = [t \in Threads |-> Idle] /\ spent = 0

Go(t, call) == work' = [work EXCEPT ![t] = call]
At(t, step) == Go(t, [work[t] EXCEPT !.step = step])
End(t) == Go(t, Idle)

-----------------------------------------------------------------------------
(* What the scenario and the validation service do for a request.          *)

LabelOf(r) == Path[runs[r].version][runs[r].place]
Open(r) == r \in DOMAIN runs /\ runs[r].open
SomeOpen == \E r \in DOMAIN runs : runs[r].open

NewRun(version) == [version |-> version, place |-> 1, alarm |-> FALSE, open |-> TRUE]

\* initialise: a run beside those there are.
Initialised(version) == Append(runs, NewRun(version))

\* initialise_replacement_run: the latest open run is closed in the same transaction.
Replaced(version) ==
    LET prior == CHOOSE r \in DOMAIN runs :
                     runs[r].open /\ \A q \in DOMAIN runs : runs[q].open => q <= r
    IN Append([runs EXCEPT ![prior] = [@ EXCEPT !.open = FALSE]], NewRun(version))

\* The earlier answer of has_mutable_run is relied on.
OpeningAdmittedMutant(replaces) == replaces => SomeOpen

\* initialise needs that no run is open, initialise_replacement_run that one is.
OpeningAdmitted(replaces) == replaces = SomeOpen

Opened(replaces, version) == IF replaces THEN Replaced(version) ELSE Initialised(version)

\* The run at a later place on its path; the fault raises the alarm.
Moved(r, place) ==
    [runs EXCEPT ![r] = [runs[r] EXCEPT !.place = place,
                                       !.alarm = runs[r].alarm \/ LabelOf(r) = "N0"]]

\* The next command of the procedure.
Advanced(r) == Moved(r, runs[r].place + 1)
Acknowledged(r) == [runs EXCEPT ![r] = [@ EXCEPT !.alarm = FALSE]]
HasNext(r) == Open(r) /\ runs[r].place < Len(Path[runs[r].version])

NewExecution(test, r, source) ==
    [test |-> test, run |-> r, source |-> source, status |-> "ACTIVE", verdict |-> "NONE"]

\* An identity no execution has and no baseline was frozen for.
Fresh(e) == e \notin DOMAIN executions /\ \A s \in DOMAIN baselines : baselines[s] # e

\* _verify_links.
MayRepeat(test, source) ==
    source # NoExecution =>
        /\ source \in DOMAIN executions
        /\ executions[source].status = "FINALISED"
        /\ executions[source].test = test

CheckpointsOf(test) == IF test = DirectTest THEN {"POST_TRIP"} ELSE Labels

\* The checkpoint need not be one of the test's.
CaptureAdmittedMutant(e, c) ==
    /\ e \in DOMAIN executions /\ executions[e].status = "ACTIVE"
    /\ <<e, c>> \notin DOMAIN evidence

\* insert_evidence; nothing compares the state with the checkpoint.
CaptureAdmitted(e, c) ==
    /\ e \in DOMAIN executions /\ executions[e].status = "ACTIVE"
    /\ c \in CheckpointsOf(executions[e].test)
    /\ <<e, c>> \notin DOMAIN evidence

Captured(e, c) == Insert(evidence, <<e, c>>, LabelOf(executions[e].run))

VersionOf(e) == runs[executions[e].run].version

\* The direct test is compared with the one outage expected of it.
Verdict(e) ==
    IF evidence[<<e, "POST_TRIP">>] \in Agreeing[VersionOf(e)] THEN "PASS" ELSE "FAIL"

\* finalise_execution compares the direct test; the regression is determined.
FinaliseAdmitted(e) ==
    /\ e \in DOMAIN executions /\ executions[e].status = "ACTIVE"
    /\ executions[e].test = DirectTest
    /\ <<e, "POST_TRIP">> \in DOMAIN evidence

Finalised(e, verdict) ==
    [executions EXCEPT ![e] = [@ EXCEPT !.status = "FINALISED", !.verdict = verdict]]

-----------------------------------------------------------------------------
(* The requests.                                                           *)

\* _failure: a finalised FAIL of the direct test on 1.0.
IsFailure(f) ==
    /\ f \in DOMAIN executions
    /\ executions[f].test = DirectTest /\ executions[f].status = "FINALISED"
    /\ executions[f].verdict = "FAIL" /\ VersionOf(f) = "1.0"

\* record_defect: DEF-001 is UNIQUE and never replaced.
DefectAdmittedMutant == TRUE
DefectAdmitted == defect = NoExecution

RecordDefect(f) ==
    /\ IsFailure(f)
    /\ DefectAdmitted
    /\ defect' = f
    /\ UNCHANGED <<runs, tests, correction, links, work>>

\* record_correction.
RecordCorrection(f) ==
    /\ IsFailure(f) /\ defect = f
    /\ ~correction
    /\ correction' = TRUE
    /\ UNCHANGED <<runs, tests, defect, links, work>>

Purposes == {"FAILURE", "DIRECT_REPEAT", "REGRESSION"}
TestFor(purpose) == IF purpose = "REGRESSION" THEN RegressionTest ELSE DirectTest
VersionFor(purpose) == IF purpose = "FAILURE" THEN "1.0" ELSE "1.1"

\* What a request for this purpose asks of the chain.
MayBegin(purpose, f) ==
    CASE purpose = "FAILURE" -> f = NoExecution
      [] purpose = "DIRECT_REPEAT" ->
            /\ IsFailure(f) /\ defect = f /\ correction
            /\ "DIRECT_REPEAT" \notin DOMAIN links
      [] purpose = "REGRESSION" ->
            /\ IsFailure(f) /\ defect = f /\ correction
            /\ "DIRECT_REPEAT" \in DOMAIN links /\ "REGRESSION" \notin DOMAIN links
            /\ executions[links["DIRECT_REPEAT"].new].verdict = "PASS"

\* start_failure, run_direct_repeat, start_regression and run_regression (which
\* drives the run on) up to has_mutable_run.
Begins(t, purpose, f, drives) ==
    /\ work[t] = Idle
    /\ drives => purpose = "REGRESSION"
    /\ MayBegin(purpose, f)
    /\ Go(t, [step |-> "OPEN", purpose |-> purpose, failure |-> f, drives |-> drives,
              replaces |-> SomeOpen])
    /\ UNCHANGED <<runs, tests, records>>

\* What has_mutable_run answered decides which of the two is called.
Opens(t) ==
    /\ work[t].step = "OPEN"
    /\ Len(runs) < MaxRuns
    /\ LET call == work[t] IN
       \/ /\ OpeningAdmitted(call.replaces)
          /\ runs' = Opened(call.replaces, VersionFor(call.purpose))
          /\ Go(t, [step |-> IF call.purpose = "DIRECT_REPEAT" THEN "BASELINE" ELSE "BIND",
                    purpose |-> call.purpose, failure |-> call.failure,
                    drives |-> call.drives, run |-> Len(runs) + 1, execution |-> NoExecution])
       \/ ~OpeningAdmitted(call.replaces) /\ UNCHANGED runs /\ End(t)
    /\ UNCHANGED <<tests, records>>

\* capture_repeat_source_baseline.
FreezesBaseline(t, e) ==
    /\ work[t].step = "BASELINE"
    /\ Fresh(e)
    /\ LET f == work[t].failure IN
       \/ /\ f \notin DOMAIN baselines
          /\ baselines' = Insert(baselines, f, e)
          /\ Go(t, [work[t] EXCEPT !.step = "BIND", !.execution = e])
       \/ f \in DOMAIN baselines /\ UNCHANGED baselines /\ End(t)
    /\ UNCHANGED <<runs, executions, evidence, records>>

\* bind_attempt_execution.
Binds(t, e) ==
    /\ work[t].step = "BIND"
    /\ IF work[t].execution = NoExecution THEN Fresh(e) ELSE e = work[t].execution
    /\ LET call == work[t]
           repeats == call.purpose = "DIRECT_REPEAT"
       IN /\ executions' = Insert(executions, e, NewExecution(TestFor(call.purpose), call.run,
                                    IF repeats THEN call.failure ELSE NoExecution))
          /\ IF call.purpose = "REGRESSION"
             THEN Go(t, [step |-> "CAPTURE", purpose |-> call.purpose, failure |-> call.failure,
                         drives |-> call.drives, execution |-> e, checkpoint |-> "N0"])
             ELSE Go(t, [step |-> "FAULT", purpose |-> call.purpose, failure |-> call.failure,
                         drives |-> FALSE, execution |-> e, checkpoint |-> "POST_TRIP"])
    /\ UNCHANGED <<runs, evidence, baselines, records>>

\* INITIATE_FAULT, if it is still offered.
Faults(t) ==
    /\ work[t].step = "FAULT"
    /\ LET r == executions[work[t].execution].run IN
       \/ Open(r) /\ LabelOf(r) = "N0" /\ runs' = Advanced(r) /\ At(t, "CAPTURE")
       \/ ~(Open(r) /\ LabelOf(r) = "N0") /\ UNCHANGED runs /\ End(t)
    /\ UNCHANGED <<tests, records>>

\* capture_checkpoint reads the run and inserts; whatever comes in between either
\* could have come before or takes the checkpoint.  The run_regression loop goes
\* on with its next command.
Captures(t) ==
    /\ work[t].step = "CAPTURE"
    /\ LET call == work[t]
           e == call.execution
       IN \/ /\ CaptureAdmitted(e, call.checkpoint)
             /\ evidence' = Captured(e, call.checkpoint)
             /\ At(t, IF call.purpose # "REGRESSION" THEN "FINALISE"
                      ELSE IF "left" \in DOMAIN call THEN "READ" ELSE "LINK")
          \/ ~CaptureAdmitted(e, call.checkpoint) /\ UNCHANGED evidence /\ End(t)
    /\ UNCHANGED <<runs, executions, baselines, records>>

\* A repeat that fails is not linked.
GoesOnToLinkMutant(call) == call.purpose = "DIRECT_REPEAT"
GoesOnToLink(call) == call.purpose = "DIRECT_REPEAT" /\ Verdict(call.execution) = "PASS"

Finalises(t) ==
    /\ work[t].step = "FINALISE"
    /\ LET call == work[t]
           e == call.execution
       IN \/ /\ FinaliseAdmitted(e)
             /\ executions' = Finalised(e, Verdict(e))
             /\ IF GoesOnToLink(call) THEN At(t, "LINK") ELSE End(t)
          \/ ~FinaliseAdmitted(e) /\ UNCHANGED executions /\ End(t)
    /\ UNCHANGED <<runs, evidence, baselines, records>>

\* UNIQUE (defect, relationship).
LinkAdmitted(relationship) == relationship \notin DOMAIN links

Driving(e) == [step |-> "READ", purpose |-> "REGRESSION", drives |-> TRUE,
               execution |-> e, left |-> LoopBound]

\* insert_repeat_link; run_regression then drives the run it has started.
Links(t) ==
    /\ work[t].step = "LINK"
    /\ LET call == work[t]
           e == call.execution
           original == IF call.purpose = "REGRESSION" THEN links["DIRECT_REPEAT"].new
                       ELSE call.failure
       IN \/ /\ LinkAdmitted(call.purpose)
             /\ links' = Insert(links, call.purpose, [original |-> original, new |-> e])
             /\ IF call.drives THEN Go(t, Driving(e)) ELSE End(t)
          \/ ~LinkAdmitted(call.purpose) /\ UNCHANGED links /\ End(t)
    /\ UNCHANGED <<runs, tests, defect, correction>>

-----------------------------------------------------------------------------
(* The loop of run_regression.                                             *)

\* run_regression on a regression that has been started.
Resumes(t, f) ==
    /\ work[t] = Idle
    /\ IsFailure(f) /\ defect = f /\ correction
    /\ {"DIRECT_REPEAT", "REGRESSION"} \subseteq DOMAIN links
    /\ executions[links["REGRESSION"].new].status = "ACTIVE"
    /\ Go(t, Driving(links["REGRESSION"].new))
    /\ UNCHANGED <<runs, tests, records>>

\* The state decides the command, unless there is an alarm to acknowledge.
Reads(t) ==
    /\ work[t].step = "READ"
    /\ LET call == work[t]
           r == executions[call.execution].run
       IN IF call.left = 0 \/ LabelOf(r) = "N5" THEN End(t)
          ELSE Go(t, [step |-> "EXECUTE", purpose |-> "REGRESSION", drives |-> TRUE,
                      execution |-> call.execution, left |-> call.left - 1,
                      acknowledges |-> runs[r].alarm, seen |-> LabelOf(r)])
    /\ UNCHANGED <<runs, tests, records>>

\* The command that was decided, if it is offered now.
Executes(t) ==
    /\ work[t].step = "EXECUTE"
    /\ LET call == work[t]
           r == executions[call.execution].run
           offered == IF call.acknowledges THEN Open(r) /\ runs[r].alarm
                      ELSE HasNext(r) /\ LabelOf(r) = call.seen
       IN \/ offered /\ At(t, "LABEL") /\ runs' = IF call.acknowledges THEN Acknowledged(r)
                                                  ELSE Advanced(r)
          \/ ~offered /\ End(t) /\ UNCHANGED runs
    /\ UNCHANGED <<tests, records>>

\* The state is read again and names the checkpoint, if it has none yet.
Names(t) ==
    /\ work[t].step = "LABEL"
    /\ LET call == work[t]
           label == LabelOf(executions[call.execution].run)
           preserved == <<call.execution, label>> \in DOMAIN evidence
       IN Go(t, [step |-> IF preserved THEN "READ" ELSE "CAPTURE", purpose |-> "REGRESSION",
                 drives |-> TRUE, execution |-> call.execution, left |-> call.left,
                 checkpoint |-> label])
    /\ UNCHANGED <<runs, tests, records>>

\* A command is refused for its scenario time: a client has moved the clock past
\* the controlled schedule.
Refused(t) ==
    /\ work[t].step \in {"FAULT", "EXECUTE"}
    /\ End(t)
    /\ UNCHANGED <<runs, tests, records>>

\* The process stops, in every request.
Crash ==
    /\ \E t \in Threads : work[t] # Idle
    /\ work' = [t \in Threads |-> Idle]
    /\ UNCHANGED <<runs, tests, records>>

-----------------------------------------------------------------------------
(* The other clients of the scenario and the validation endpoints.         *)

\* A client initialises a run, or resets or replaces the one that is open.
ClientOpens(version) ==
    /\ Len(runs) < MaxRuns
    /\ \E replaces \in BOOLEAN :
           OpeningAdmitted(replaces) /\ runs' = Opened(replaces, version)
    /\ UNCHANGED <<tests, records, work>>

\* A client's commands up to some place on the path, or its acknowledgement.
ClientCommands(r) ==
    /\ Open(r)
    /\ \/ \E place \in runs[r].place + 1 .. Len(Path[runs[r].version]) :
              runs' = Moved(r, place)
       \/ runs[r].alarm /\ runs' = Acknowledged(r)
    /\ UNCHANGED <<tests, records, work>>

ClientStarts(e, test, r, source) ==
    /\ Fresh(e)
    /\ MayRepeat(test, source)
    /\ source \notin DOMAIN baselines
    /\ executions' = Insert(executions, e, NewExecution(test, r, source))
    /\ baselines' = IF source = NoExecution THEN baselines ELSE Insert(baselines, source, e)
    /\ UNCHANGED <<runs, evidence, records, work>>

ClientCaptures(e, c) ==
    /\ CaptureAdmitted(e, c)
    /\ evidence' = Captured(e, c)
    /\ UNCHANGED <<runs, executions, baselines, records, work>>

ClientFinalises(e) ==
    /\ FinaliseAdmitted(e)
    /\ executions' = Finalised(e, Verdict(e))
    /\ UNCHANGED <<runs, evidence, baselines, records, work>>

\* A determination takes an execution that has been finalised again.
DetermineAdmittedMutant(e) ==
    /\ e \in DOMAIN executions
    /\ \E c \in CheckpointsOf(executions[e].test) : <<e, c>> \in DOMAIN evidence

\* insert_result: the update asks for an ACTIVE execution, and finalise_result for a
\* snapshot.
DetermineAdmitted(e) ==
    /\ e \in DOMAIN executions /\ executions[e].status = "ACTIVE"
    /\ \E c \in CheckpointsOf(executions[e].test) : <<e, c>> \in DOMAIN evidence

\* finalise_determination of either test, with the verdict of its findings.
ClientDetermines(e) ==
    /\ DetermineAdmitted(e)
    /\ \E verdict \in {"PASS", "FAIL"} : executions' = Finalised(e, verdict)
    /\ UNCHANGED <<runs, evidence, baselines, records, work>>

ClientStep ==
    \/ \E version \in Versions : ClientOpens(version)
    \/ \E r \in DOMAIN runs : ClientCommands(r)
    \/ \E e \in Executions, r \in DOMAIN runs, test \in {DirectTest, RegressionTest},
          source \in Executions \cup {NoExecution} : ClientStarts(e, test, r, source)
    \/ \E e \in DOMAIN executions, c \in Labels \cup {"POST_TRIP"} : ClientCaptures(e, c)
    \/ \E e \in DOMAIN executions : ClientFinalises(e) \/ ClientDetermines(e)

RequestStep(t) ==
    \/ \E purpose \in Purposes, f \in Executions \cup {NoExecution}, drives \in BOOLEAN :
           Begins(t, purpose, f, drives)
    \/ Opens(t)
    \/ \E e \in Executions : FreezesBaseline(t, e) \/ Binds(t, e) \/ Resumes(t, e)
    \/ Faults(t) \/ Captures(t) \/ Finalises(t) \/ Links(t)
    \/ Reads(t) \/ Executes(t) \/ Names(t) \/ Refused(t)

InvestigationNext ==
    \/ /\ \/ \E t \in Threads : RequestStep(t)
          \/ \E f \in Executions : RecordDefect(f) \/ RecordCorrection(f)
          \/ Crash
       /\ UNCHANGED spent
    \/ /\ ClientStep
       /\ spent < Interference /\ spent' = spent + 1

InvestigationSpec == InvestigationInit /\ [][InvestigationNext]_investigationVars

-----------------------------------------------------------------------------
(* Properties.                                                             *)

\* Every row names rows that exist, an execution is finalised exactly if it has a
\* verdict, and a request acts on an execution that is bound.
InvestigationRowsOK ==
    /\ Len(runs) <= MaxRuns /\ DOMAIN executions \subseteq Executions
    /\ \A e \in DOMAIN executions :
        /\ executions[e].run \in DOMAIN runs
        /\ executions[e].verdict # "NONE" <=> executions[e].status = "FINALISED"
    /\ \A key \in DOMAIN evidence :
        /\ key[1] \in DOMAIN executions
        /\ key[2] \in CheckpointsOf(executions[key[1]].test)
    /\ DOMAIN baselines \subseteq DOMAIN executions
    /\ \A t \in Threads : "checkpoint" \in DOMAIN work[t] \/ "left" \in DOMAIN work[t] =>
           work[t].execution \in DOMAIN executions

\* The chain of an investigation is evidence of a repair, whoever else was at work:
\* the defect is a finalised FAIL on 1.0, the correction has its defect, the direct
\* repeat is a PASS of the same test on 1.1, for the frozen baseline of that very
\* failure, and the regression starts from that repeat, on 1.1 and on another run.
ChainIsEvidence ==
    /\ defect # NoExecution => IsFailure(defect)
    /\ correction => defect # NoExecution
    /\ "DIRECT_REPEAT" \in DOMAIN links =>
        LET d == links["DIRECT_REPEAT"].new IN
        /\ correction /\ links["DIRECT_REPEAT"].original = defect
        /\ d \in DOMAIN executions /\ executions[d].test = DirectTest
        /\ executions[d].verdict = "PASS" /\ VersionOf(d) = "1.1"
        /\ executions[d].source = defect /\ baselines[defect] = d
    /\ "REGRESSION" \in DOMAIN links =>
        LET n == links["REGRESSION"].new IN
        /\ "DIRECT_REPEAT" \in DOMAIN links
        /\ links["REGRESSION"].original = links["DIRECT_REPEAT"].new
        /\ n \in DOMAIN executions /\ executions[n].test = RegressionTest
        /\ VersionOf(n) = "1.1" /\ <<n, "N0">> \in DOMAIN evidence
        /\ executions[n].run # executions[links["DIRECT_REPEAT"].new].run

\* "DEF-001 is preserved and immutable", "The direct repeat is preserved": records
\* are never replaced, the executions they name keep their test, run and source, what
\* is finalised of them keeps its verdict, and no snapshot of theirs is rewritten: a
\* regression goes on being captured and may be determined, but once.
ChainIsPreserved ==
    [][LET cited == {defect} \cup {links[rel].new : rel \in DOMAIN links} IN
       /\ defect # NoExecution => defect' = defect
       /\ correction => correction'
       /\ \A rel \in DOMAIN links : rel \in DOMAIN links' /\ links'[rel] = links[rel]
       /\ \A e \in cited \cap DOMAIN executions :
           /\ e \in DOMAIN executions'
           /\ \A column \in {"test", "run", "source"} :
                  executions'[e][column] = executions[e][column]
           /\ executions[e].status = "FINALISED" => executions'[e] = executions[e]
           /\ \A c \in Labels \cup {"POST_TRIP"} : <<e, c>> \in DOMAIN evidence =>
                  /\ <<e, c>> \in DOMAIN evidence'
                  /\ evidence'[<<e, c>>] = evidence[<<e, c>>]
      ]_investigationVars

\* A request finds out whether a run is open, opens its own, and then drives it by its
\* identity, each in a transaction of its own.  Once another run has been opened, by
\* whomever, none of those still to come touches a run that was overtaken.
OvertakenRunsStand ==
    [][\A r \in DOMAIN runs :
          r < Len(runs) => r \in DOMAIN runs' /\ runs'[r] = runs[r]]_investigationVars

=============================================================================
