------------------------ MODULE ValidationLifecycle ------------------------
(***************************************************************************)
(* Attempts, executions, evidence, executed results and suspensions: the   *)
(* validation service over its SQLite tables.                              *)
(*                                                                         *)
(* A service call runs on a request thread.  It reads what it needs in one *)
(* or more connections and writes in a later transaction, so other threads *)
(* write in between: such a call is a reading action, which leaves what it *)
(* found in calls[t], and a writing action, whose conditions are those of  *)
(* the transaction itself (WHERE clauses, UNIQUE keys and triggers).       *)
(* Tables are functions from their keys to rows.  An attempt has at most   *)
(* one execution, so the attempt is the key of both.                       *)
(***************************************************************************)
CONSTANTS
    Attempts,      \* identities of attempts
    Threads,       \* request threads
    Targets,       \* a controlled test, with its case when it has cases
    Constituents,  \* the targets that are cases of a composite test
    Compared,      \* the targets whose verdict is an automated comparison
    TestOf,        \* the test of a target
    Runs,          \* scenario runs
    RunsFor,       \* the runs a target accepts: class, mode, configuration, fault
    Checkpoints,
    Obligations,   \* the checkpoints a target requires
    NoRun,
    NoAttempt

ASSUME ValidationAssumption ==
    /\ Constituents \subseteq Targets
    /\ Compared \subseteq Targets
    /\ RunsFor \in [Targets -> SUBSET Runs]
    /\ Obligations \in [Targets -> SUBSET Checkpoints]
    /\ NoRun \notin Runs
    /\ NoAttempt \notin Attempts

VARIABLES
    attempts,     \* attempt -> its stored row; the target selection it names is in it
    executions,   \* attempt -> the execution bound to it
    evidence,     \* <<attempt, checkpoint>> -> what the snapshot shows
    results,      \* attempt -> its executed result
    suspensions,  \* attempt -> its suspension record
    baselines,    \* execution that is repeated -> the repeat it was frozen for
    calls         \* thread -> what its call has read so far

tables == <<attempts, executions, evidence, results, suspensions, baselines>>
vars == <<tables, calls>>

Positions == {"PRE_EXECUTION_ENTRY", "EXECUTION_IN_PROGRESS", "EVIDENCE_FINALISATION"}
Observations == {"AGREES", "DIFFERS"}
OpenStatuses == {"NOT_STARTED", "ACTIVE", "INCOMPLETE"}
Idle == [op |-> "IDLE"]

\* A table with one more row.
Insert(table, key, row) ==
    [k \in DOMAIN table \cup {key} |-> IF k = key THEN row ELSE table[k]]

\* list_evidence: the snapshots of an execution, by checkpoint.
ListEvidence(a) ==
    [c \in {c \in Checkpoints : <<a, c>> \in DOMAIN evidence} |-> evidence[<<a, c>>]]

-----------------------------------------------------------------------------

Init ==
    /\ attempts = << >> /\ executions = << >> /\ evidence = << >>
    /\ results = << >> /\ suspensions = << >> /\ baselines = << >>
    /\ calls = [t \in Threads |-> Idle]

Begin(t, call) == calls' = [calls EXCEPT ![t] = call]
Return(t) == Begin(t, Idle)

\* A status the table's CHECK does not list.
NewAttemptMutant(target, known) ==
    [status |-> "DRAFT", target |-> target, run |-> NoRun, bound |-> FALSE, known |-> known]

\* The row create_target_selection inserts: known says that a caller has been
\* told the attempt's identity, which no query lists.
NewAttempt(target, known) ==
    [status |-> "NOT_STARTED", target |-> target, run |-> NoRun, bound |-> FALSE,
     known |-> known]

\* "a constituent scenario run may bind to only one validation execution".
RunIsFree(target, run) ==
    target \in Constituents => \A e \in DOMAIN executions : executions[e].run # run

\* An execution may be repeated before it is finalised.
RepeatIsAllowedMutant(target, source) ==
    source # NoAttempt =>
        /\ source \in DOMAIN executions
        /\ TestOf[attempts[source].target] = TestOf[target]

\* _verify_links.
RepeatIsAllowed(target, source) ==
    source # NoAttempt =>
        /\ source \in DOMAIN executions
        /\ executions[source].status = "FINALISED"
        /\ TestOf[attempts[source].target] = TestOf[target]

\* start_execution up to the insertion of the target selection and the attempt.
StartSelects(t, a, target, run, source) ==
    /\ calls[t] = Idle
    /\ a \notin DOMAIN attempts
    /\ run \in RunsFor[target]
    /\ RunIsFree(target, run)
    /\ RepeatIsAllowed(target, source)
    /\ attempts' = Insert(attempts, a, NewAttempt(target, FALSE))
    /\ Begin(t, [op |-> IF source = NoAttempt THEN "BIND" ELSE "BASELINE",
                 attempt |-> a, run |-> run, source |-> source])
    /\ UNCHANGED <<executions, evidence, results, suspensions, baselines>>

\* capture_repeat_source_baseline: one baseline per source, ever.
BaselineIsFree(source) == source \notin DOMAIN baselines

StartFreezesBaseline(t) ==
    /\ calls[t].op = "BASELINE"
    /\ LET call == calls[t] IN
       \/ /\ BaselineIsFree(call.source)
          /\ baselines' = Insert(baselines, call.source, call.attempt)
          /\ Begin(t, [call EXCEPT !.op = "BIND"])
       \/ /\ ~BaselineIsFree(call.source)
          /\ UNCHANGED baselines
          /\ Return(t)
    /\ UNCHANGED <<attempts, executions, evidence, results, suspensions>>

\* bind_attempt_execution; nobody else knows the attempt yet.
StartBinds(t) ==
    /\ calls[t].op = "BIND"
    /\ LET call == calls[t]
           a == call.attempt
       IN  /\ attempts[a].status = "NOT_STARTED"
           /\ attempts' = [attempts EXCEPT ![a] =
                  [@ EXCEPT !.status = "ACTIVE", !.run = call.run, !.bound = TRUE,
                            !.known = TRUE]]
           /\ executions' = Insert(executions, a,
                  [status |-> "ACTIVE", run |-> call.run, source |-> call.source])
    /\ Return(t)
    /\ UNCHANGED <<evidence, results, suspensions, baselines>>

\* create_target_selection asked for on its own.
PrepareAttempt(a, target) ==
    /\ a \notin DOMAIN attempts
    /\ attempts' = Insert(attempts, a, NewAttempt(target, TRUE))
    /\ UNCHANGED <<executions, evidence, results, suspensions, baselines, calls>>

\* enter_attempt: the row is rewritten only while it is NOT_STARTED, as it was
\* when it was read.
EnterAttempt(a, run) ==
    /\ a \in DOMAIN attempts /\ attempts[a].known
    /\ attempts[a].status = "NOT_STARTED"
    /\ run \in RunsFor[attempts[a].target]
    /\ attempts' = [attempts EXCEPT ![a] = [@ EXCEPT !.status = "INCOMPLETE", !.run = run]]
    /\ UNCHANGED <<executions, evidence, results, suspensions, baselines, calls>>

-----------------------------------------------------------------------------

\* The two statuses capture and finalisation require.  They are read one after
\* the other, but an attempt that is ACTIVE at the second reading has an
\* execution that was ACTIVE at the first.
IsActive(a) ==
    /\ a \in DOMAIN executions
    /\ executions[a].status = "ACTIVE"
    /\ attempts[a].status = "ACTIVE"

CaptureReads(t, a, c) ==
    /\ calls[t] = Idle
    /\ IsActive(a)
    /\ c \in Obligations[attempts[a].target]
    /\ Begin(t, [op |-> "CAPTURE", attempt |-> a, checkpoint |-> c])
    /\ UNCHANGED tables

\* Without the trigger of migration 010.
EvidenceAdmittedMutant(a, c) ==
    /\ <<a, c>> \notin DOMAIN evidence
    /\ executions[a].status # "FINALISED"

\* What insert_evidence is up against: one snapshot per checkpoint, and the
\* triggers that close finalised executions and suspended attempts.
EvidenceAdmitted(a, c) ==
    /\ <<a, c>> \notin DOMAIN evidence
    /\ executions[a].status # "FINALISED"
    /\ attempts[a].status # "SUSPENDED"

CaptureInserts(t) ==
    /\ calls[t].op = "CAPTURE"
    /\ LET a == calls[t].attempt
           c == calls[t].checkpoint
       IN \/ /\ EvidenceAdmitted(a, c)
             /\ \E seen \in Observations : evidence' = Insert(evidence, <<a, c>>, seen)
          \/ ~EvidenceAdmitted(a, c) /\ UNCHANGED evidence
    /\ Return(t)
    /\ UNCHANGED <<attempts, executions, results, suspensions, baselines>>

\* Content with the checkpoint that is compared.
ChecksCompleteMutant(a) == DOMAIN ListEvidence(a) # {}

\* finalise_execution up to its transaction: the verdict compares one snapshot,
\* once every required checkpoint has one.
ChecksComplete(a) == Obligations[attempts[a].target] \subseteq DOMAIN ListEvidence(a)

FinaliseReads(t, a, c) ==
    /\ calls[t] = Idle
    /\ IsActive(a)
    /\ attempts[a].target \in Compared
    /\ c \in DOMAIN ListEvidence(a)
    /\ ChecksComplete(a)
    /\ Begin(t, [op |-> "FINALISE", attempt |-> a, checkpoint |-> c,
                 evidence |-> ListEvidence(a)])
    /\ UNCHANGED tables

\* The statuses read before the transaction are relied on.
ResultAdmittedMutant(a) == a \notin DOMAIN results

\* finalise_execution_result: both rows still ACTIVE and the attempt without a
\* result.
ResultAdmitted(a) ==
    /\ executions[a].status = "ACTIVE"
    /\ attempts[a].status = "ACTIVE"
    /\ a \notin DOMAIN results

FinaliseCommits(t) ==
    /\ calls[t].op = "FINALISE"
    /\ LET call == calls[t]
           a == call.attempt
           seen == call.evidence[call.checkpoint]
       IN \/ /\ ResultAdmitted(a)
             /\ executions' = [executions EXCEPT ![a].status = "FINALISED"]
             /\ attempts' = [attempts EXCEPT ![a].status = "EXECUTED"]
             /\ results' = Insert(results, a,
                    [verdict |-> IF seen = "AGREES" THEN "PASS" ELSE "FAIL",
                     checkpoint |-> call.checkpoint, evidence |-> call.evidence])
          \/ ~ResultAdmitted(a) /\ UNCHANGED <<attempts, executions, results>>
    /\ Return(t)
    /\ UNCHANGED <<evidence, suspensions, baselines>>

-----------------------------------------------------------------------------

\* The identities are not compared.
SuspensionBindsMutant(a, position) == TRUE

\* The run and the execution a suspension names must be the attempt's, and
\* outside PRE_EXECUTION_ENTRY a record has both.
SuspensionBinds(a, position) ==
    position # "PRE_EXECUTION_ENTRY" => attempts[a].bound /\ attempts[a].run # NoRun

\* evaluate_suspension up to its transaction, for a condition its gates have
\* established.
SuspendReads(t, a, position) ==
    /\ calls[t] = Idle
    /\ a \in DOMAIN attempts /\ attempts[a].known
    /\ attempts[a].status \notin {"EXECUTED", "SUSPENDED"}
    /\ SuspensionBinds(a, position)
    /\ Begin(t, [op |-> "SUSPEND", attempt |-> a, position |-> position,
                 run |-> attempts[a].run, bound |-> attempts[a].bound])
    /\ UNCHANGED tables

\* The update does not ask for an open attempt.
SuspensionAdmittedMutant(a) == a \notin DOMAIN suspensions

\* insert_finalised_suspension: one record per attempt, and the attempt open.
SuspensionAdmitted(a) ==
    /\ a \notin DOMAIN suspensions
    /\ attempts[a].status \in OpenStatuses

\* The attempt's row is written from the copy that was read.
SuspendCommits(t) ==
    /\ calls[t].op = "SUSPEND"
    /\ LET call == calls[t]
           a == call.attempt
           linked == call.position # "PRE_EXECUTION_ENTRY"
       IN \/ /\ SuspensionAdmitted(a)
             /\ suspensions' = Insert(suspensions, a,
                    [position |-> call.position, linked |-> linked,
                     run |-> IF linked THEN call.run ELSE NoRun])
             /\ attempts' = [attempts EXCEPT ![a] =
                    [@ EXCEPT !.status = "SUSPENDED", !.run = call.run,
                              !.bound = call.bound]]
          \/ ~SuspensionAdmitted(a) /\ UNCHANGED <<attempts, suspensions>>
    /\ Return(t)
    /\ UNCHANGED <<executions, evidence, results, baselines>>

\* The process stops: calls are lost where they stand, tables stay.
Crash ==
    /\ \E t \in Threads : calls[t] # Idle
    /\ calls' = [t \in Threads |-> Idle]
    /\ UNCHANGED tables

Step(t) ==
    \/ \E a \in Attempts, target \in Targets, run \in Runs, source \in Attempts \cup {NoAttempt} :
           StartSelects(t, a, target, run, source)
    \/ StartFreezesBaseline(t)
    \/ StartBinds(t)
    \/ \E a \in Attempts, c \in Checkpoints : CaptureReads(t, a, c) \/ FinaliseReads(t, a, c)
    \/ CaptureInserts(t)
    \/ FinaliseCommits(t)
    \/ \E a \in Attempts, position \in Positions : SuspendReads(t, a, position)
    \/ SuspendCommits(t)

Next ==
    \/ \E t \in Threads : Step(t)
    \/ \E a \in Attempts, target \in Targets : PrepareAttempt(a, target)
    \/ \E a \in Attempts, run \in Runs : EnterAttempt(a, run)
    \/ Crash

Spec == Init /\ [][Next]_vars

-----------------------------------------------------------------------------
(* Properties.                                                             *)

AttemptRows ==
    [status : OpenStatuses \cup {"EXECUTED", "SUSPENDED"}, target : Targets,
     run : Runs \cup {NoRun}, bound : BOOLEAN, known : BOOLEAN]

ExecutionRows ==
    [status : {"ACTIVE", "FINALISED"}, run : Runs, source : Attempts \cup {NoAttempt}]

Calls ==
    {Idle}
    \cup [op : {"BASELINE", "BIND"}, attempt : Attempts, run : Runs,
          source : Attempts \cup {NoAttempt}]
    \cup [op : {"CAPTURE"}, attempt : Attempts, checkpoint : Checkpoints]
    \cup [op : {"FINALISE"}, attempt : Attempts, checkpoint : Checkpoints,
          evidence : UNION {[cs -> Observations] : cs \in SUBSET Checkpoints}]
    \cup [op : {"SUSPEND"}, attempt : Attempts, position : Positions,
          run : Runs \cup {NoRun}, bound : BOOLEAN]

\* A call acts on rows that exist.
CallNamesRows(t) ==
    /\ calls[t] # Idle => calls[t].attempt \in DOMAIN attempts
    /\ calls[t].op \in {"CAPTURE", "FINALISE"} => calls[t].attempt \in DOMAIN executions
    /\ calls[t].op = "BASELINE" => calls[t].source \in DOMAIN executions

CallsOK ==
    /\ calls \in [Threads -> Calls]
    /\ \A t \in Threads : CallNamesRows(t)

RowsOK ==
    /\ DOMAIN attempts \subseteq Attempts
    /\ \A a \in DOMAIN attempts : attempts[a] \in AttemptRows
    /\ DOMAIN executions \subseteq DOMAIN attempts
    /\ \A a \in DOMAIN executions : executions[a] \in ExecutionRows
    /\ DOMAIN evidence \subseteq (DOMAIN executions) \X Checkpoints
    /\ \A k \in DOMAIN evidence : evidence[k] \in Observations
    /\ DOMAIN results \subseteq DOMAIN executions
    /\ DOMAIN suspensions \subseteq DOMAIN attempts
    /\ DOMAIN baselines \subseteq DOMAIN executions

\* The rows of every table have the shape of their columns, and name rows that
\* exist: the foreign keys, of the tables and of the calls under way.
TypeOK == RowsOK /\ CallsOK

\* However the calls of different threads interleave, an attempt has at most one
\* outcome, and its three tables agree on which: executed with a result and a
\* finalised execution, suspended with a record and no result, or open with
\* neither.
OneOutcome ==
    \A a \in DOMAIN attempts :
        /\ attempts[a].status = "EXECUTED" <=> a \in DOMAIN results
        /\ attempts[a].status = "SUSPENDED" <=> a \in DOMAIN suspensions
        /\ a \in DOMAIN executions =>
               (executions[a].status = "FINALISED" <=> a \in DOMAIN results)

\* A result rests on exactly the evidence the execution has, now and for good:
\* finalise_execution reads the snapshots before its transaction, and no capture
\* under way may add one after.  The set is complete, and the verdict is the one
\* its comparison gives.
ResultsRestOnEvidence ==
    \A a \in DOMAIN results :
        /\ results[a].evidence = ListEvidence(a)
        /\ Obligations[attempts[a].target] \subseteq DOMAIN ListEvidence(a)
        /\ results[a].verdict = "PASS" <=>
               ListEvidence(a)[results[a].checkpoint] = "AGREES"

\* A suspended attempt "cannot later be reopened or converted to PASS/FAIL", and
\* an executed one is history: no call that read an earlier state, and no crash,
\* changes an attempt with an outcome, its execution, evidence, result or record.
OutcomesAreFinal ==
    [][\A a \in DOMAIN attempts :
          attempts[a].status \in {"EXECUTED", "SUSPENDED"} =>
              /\ a \in DOMAIN attempts' /\ attempts'[a] = attempts[a]
              /\ a \in DOMAIN executions <=> a \in DOMAIN executions'
              /\ a \in DOMAIN executions => executions'[a] = executions[a]
              /\ ListEvidence(a)' = ListEvidence(a)
              /\ a \in DOMAIN results <=> a \in DOMAIN results'
              /\ a \in DOMAIN results => results'[a] = results[a]
              /\ a \in DOMAIN suspensions <=> a \in DOMAIN suspensions'
              /\ a \in DOMAIN suspensions => suspensions'[a] = suspensions[a]]_vars

\* A record of a suspension after entry resolves: the attempt it suspends still
\* names the run and the execution that it names, and that execution the run.
LinkedSuspensionsResolve ==
    \A a \in DOMAIN suspensions : suspensions[a].linked =>
        /\ a \in DOMAIN executions
        /\ attempts[a].bound
        /\ suspensions[a].run = attempts[a].run
        /\ suspensions[a].run = executions[a].run

\* Repeats form a history: a repeated execution was finalised before, keeps its
\* test, has one repeat at most, and its baseline was frozen for that repeat.
RepeatsAreOfFinished ==
    \A a \in DOMAIN executions :
        LET source == executions[a].source IN
        source # NoAttempt =>
            /\ source \in DOMAIN results
            /\ TestOf[attempts[source].target] = TestOf[attempts[a].target]
            /\ source \in DOMAIN baselines /\ baselines[source] = a

\* start_execution says that a run of a constituent case may bind to only one
\* validation execution.
OneExecutionPerConstituentRun ==
    \A a, b \in DOMAIN executions :
        attempts[a].target \in Constituents /\ executions[a].run = executions[b].run => a = b

\* "Where a valid execution/run context already exists, the suspension record
\* must link it exactly" (DC-005, section 5.2).
SuspensionLinksItsExecution ==
    \A a \in DOMAIN suspensions : a \in DOMAIN executions => suspensions[a].linked

-----------------------------------------------------------------------------
(* Refinement.                                                             *)

RecordedOutcome(a) ==
    IF a \in DOMAIN results THEN results[a].verdict
    ELSE IF a \in DOMAIN suspensions THEN "SUSPENDED" ELSE "NONE"

\* What the tables say of an attempt, whatever calls are under way for it.
Entry(a) ==
    [outcome |-> RecordedOutcome(a),
     target |-> attempts[a].target,
     run |-> attempts[a].run,
     started |-> a \in DOMAIN executions,
     source |-> IF a \in DOMAIN executions THEN executions[a].source ELSE NoAttempt,
     shown |-> ListEvidence(a)]

Atomic == INSTANCE AtomicAttempts WITH book <- [a \in DOMAIN attempts |-> Entry(a)]

\* Calls that read in one transaction and write in a later one, beside others and
\* crashes, cannot be told by their tables from operations that take place at once:
\* when such a call writes, what it read is still so, or it writes nothing.  The one
\* exception is in the abstract specification itself: a suspension that had read an
\* attempt before it was entered writes back that the attempt has no run.
ImplementsAtomicAttempts == Atomic!Spec

=============================================================================
