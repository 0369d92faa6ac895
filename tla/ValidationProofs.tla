-------------------------- MODULE ValidationProofs --------------------------
(***************************************************************************)
(* Proofs about ValidationLifecycle, type correctness, one outcome per     *)
(* attempt and the finality of outcomes; about the composites and the      *)
(* packages that read its tables, whose links and contents stay true       *)
(* because what they name is final, and what else they have seen because   *)
(* it changes in one direction only; and about SuspensionClassifier, the   *)
(* condition of a suspension is the first boundary that applies to the     *)
(* facts, no claim selects it, and the claim of that boundary is never     *)
(* turned away.                                                            *)
(***************************************************************************)
EXTENDS EvidenceExport, SuspensionClassifier, TLAPS

\* The fields of a call, by what the call is.
LEMMA CallFields ==
    ASSUME NEW call \in Calls
    PROVE  /\ call.op \in {"BASELINE", "BIND"} =>
                  call.attempt \in Attempts /\ call.run \in Runs
                  /\ call.source \in Attempts \cup {NoAttempt}
           /\ call.op = "CAPTURE" => call.attempt \in Attempts /\ call.checkpoint \in Checkpoints
           /\ call.op = "FINALISE" => call.attempt \in Attempts /\ call.checkpoint \in Checkpoints
           /\ call.op = "SUSPEND" =>
                  call.attempt \in Attempts /\ call.position \in Positions
                  /\ call.run \in Runs \cup {NoRun} /\ call.bound \in BOOLEAN
           /\ call.op # "IDLE" => call # Idle
BY DEF Calls, Idle

\* The calls stay well-formed when one thread begins another, and the tables the
\* other calls name rows of only grow.
LEMMA BeginTyped ==
    ASSUME CallsOK, NEW t \in Threads, NEW call \in Calls, Begin(t, call),
           DOMAIN attempts \subseteq DOMAIN attempts',
           DOMAIN executions \subseteq DOMAIN executions',
           call # Idle => call.attempt \in DOMAIN attempts',
           call.op \in {"CAPTURE", "FINALISE"} => call.attempt \in DOMAIN executions',
           call.op = "BASELINE" => call.source \in DOMAIN executions'
    PROVE  CallsOK'
<1>1. calls' \in [Threads -> Calls] /\ calls'[t] = call
  BY DEF CallsOK, Begin
<1>2. ASSUME NEW u \in Threads PROVE CallNamesRows(u)'
  <2>1. CASE u = t BY <1>1, <2>1 DEF CallNamesRows
  <2>2. CASE u # t
    <3>1. calls'[u] = calls[u] BY <2>2 DEF CallsOK, Begin
    <3> QED BY <3>1 DEF CallsOK, CallNamesRows
  <2> QED BY <2>1, <2>2
<1> QED BY <1>1, <1>2 DEF CallsOK

\* The same, when it returns.
LEMMA ReturnTyped ==
    ASSUME CallsOK, NEW t \in Threads, Return(t),
           DOMAIN attempts \subseteq DOMAIN attempts',
           DOMAIN executions \subseteq DOMAIN executions'
    PROVE  CallsOK'
<1>1. Idle \in Calls /\ Idle.op = "IDLE" BY DEF Calls, Idle
<1> QED BY <1>1, BeginTyped DEF Return

LEMMA InitTyped == Init => TypeOK
<1> SUFFICES ASSUME Init PROVE TypeOK OBVIOUS
<1>1. DOMAIN << >> = {} OBVIOUS
<1>2. RowsOK BY <1>1 DEF Init, RowsOK
<1>3. CallsOK BY <1>1 DEF Init, CallsOK, CallNamesRows, Calls, Idle
<1> QED BY <1>2, <1>3 DEF TypeOK

-----------------------------------------------------------------------------
(* Type correctness, action by action.                                     *)

LEMMA StartSelectsTyped ==
    ASSUME TypeOK, NEW t \in Threads, NEW a \in Attempts, NEW target \in Targets,
           NEW run \in Runs, NEW source \in Attempts \cup {NoAttempt},
           StartSelects(t, a, target, run, source)
    PROVE  TypeOK'
<1> DEFINE row == NewAttempt(target, FALSE)
           call == [op |-> IF source = NoAttempt THEN "BIND" ELSE "BASELINE",
                    attempt |-> a, run |-> run, source |-> source]
<1>1. row \in AttemptRows BY DEF NewAttempt, AttemptRows, OpenStatuses
<1>2. call \in Calls BY DEF Calls
<1>3. attempts' = Insert(attempts, a, row) /\ Begin(t, call)
      /\ UNCHANGED <<executions, evidence, results, suspensions, baselines>>
  BY DEF StartSelects
<1>4. DOMAIN attempts' = DOMAIN attempts \cup {a} /\ attempts'[a] = row
      /\ \A b \in DOMAIN attempts : b # a => attempts'[b] = attempts[b]
  <2> HIDE DEF row, call
  <2> QED BY <1>3 DEF Insert
<1>5. RowsOK'
  <2> HIDE DEF row, call
  <2> QED BY <1>1, <1>3, <1>4 DEF TypeOK, RowsOK
<1>6. call.op = "BASELINE" => call.source \in DOMAIN executions'
  <2>1. call.op = "BASELINE" => source # NoAttempt OBVIOUS
  <2> QED BY <1>3, <2>1 DEF StartSelects, RepeatIsAllowed
<1>7. call.attempt = a /\ call.op \notin {"CAPTURE", "FINALISE"} OBVIOUS
<1>8. CallsOK'
  <2> HIDE DEF row, call
  <2> QED BY <1>2, <1>3, <1>4, <1>6, <1>7, BeginTyped DEF TypeOK
<1> QED BY <1>5, <1>8 DEF TypeOK

LEMMA StartFreezesBaselineTyped ==
    ASSUME TypeOK, NEW t \in Threads, StartFreezesBaseline(t)
    PROVE  TypeOK'
<1> DEFINE call == calls[t]
           next == [call EXCEPT !.op = "BIND"]
<1>1. call \in Calls /\ CallNamesRows(t) BY DEF TypeOK, CallsOK
<1>2. call.op = "BASELINE" /\ call # Idle BY DEF StartFreezesBaseline, Idle
<1>3. call.attempt \in DOMAIN attempts /\ call.source \in DOMAIN executions
  BY <1>1, <1>2 DEF CallNamesRows
<1>4. UNCHANGED <<attempts, executions, evidence, results, suspensions>>
  BY DEF StartFreezesBaseline
<1>5. CASE Begin(t, next) /\ baselines' = Insert(baselines, call.source, call.attempt)
  <2>1. next \in Calls /\ next.op = "BIND" /\ next.attempt = call.attempt
    <3>1. call \in [op : {"BASELINE", "BIND"}, attempt : Attempts, run : Runs,
                    source : Attempts \cup {NoAttempt}]
      BY <1>1, <1>2 DEF Calls, Idle
    <3> QED BY <3>1 DEF Calls
  <2>2. DOMAIN baselines' = DOMAIN baselines \cup {call.source}
    BY <1>5 DEF Insert
  <2>3. RowsOK' BY <1>3, <1>4, <2>2 DEF TypeOK, RowsOK
  <2>4. CallsOK'
    <3> HIDE DEF next
    <3> QED BY <1>3, <1>4, <1>5, <2>1, BeginTyped DEF TypeOK
  <2> QED BY <2>3, <2>4 DEF TypeOK
<1>6. CASE Return(t) /\ UNCHANGED baselines
  <2>1. RowsOK' BY <1>4, <1>6 DEF TypeOK, RowsOK
  <2>2. CallsOK' BY <1>4, <1>6, ReturnTyped DEF TypeOK
  <2> QED BY <2>1, <2>2 DEF TypeOK
<1> QED BY <1>5, <1>6 DEF StartFreezesBaseline

LEMMA StartBindsTyped ==
    ASSUME TypeOK, NEW t \in Threads, StartBinds(t)
    PROVE  TypeOK'
<1> DEFINE call == calls[t]
           a == call.attempt
           row == [status |-> "ACTIVE", run |-> call.run, source |-> call.source]
<1>1. call \in Calls /\ CallNamesRows(t) BY DEF TypeOK, CallsOK
<1>2. call.op = "BIND" /\ call # Idle BY DEF StartBinds, Idle
<1>3. a \in DOMAIN attempts /\ call.run \in Runs /\ call.source \in Attempts \cup {NoAttempt}
  BY <1>1, <1>2, CallFields DEF CallNamesRows
<1>4. /\ attempts' = [attempts EXCEPT ![a] =
             [@ EXCEPT !.status = "ACTIVE", !.run = call.run, !.bound = TRUE, !.known = TRUE]]
      /\ executions' = Insert(executions, a, row)
      /\ Return(t)
      /\ UNCHANGED <<evidence, results, suspensions, baselines>>
  BY DEF StartBinds
<1>5. DOMAIN attempts' = DOMAIN attempts /\ \A b \in DOMAIN attempts' : attempts'[b] \in AttemptRows
  BY <1>3, <1>4 DEF TypeOK, RowsOK, AttemptRows, OpenStatuses
<1>6. DOMAIN executions' = DOMAIN executions \cup {a} /\ executions'[a] = row
      /\ \A b \in DOMAIN executions : b # a => executions'[b] = executions[b]
  BY <1>4 DEF Insert
<1>7. row \in ExecutionRows BY <1>3 DEF ExecutionRows
<1>8. RowsOK'
  <2> HIDE DEF a, row
  <2> QED BY <1>3, <1>4, <1>5, <1>6, <1>7 DEF TypeOK, RowsOK, a
<1>9. CallsOK' BY <1>4, <1>5, <1>6, ReturnTyped DEF TypeOK
<1> QED BY <1>8, <1>9 DEF TypeOK

\* A step that only rewrites the row of one attempt, in the shape of its columns.
LEMMA RewriteTyped ==
    ASSUME RowsOK, NEW a \in DOMAIN attempts, NEW row \in AttemptRows,
           attempts' = [attempts EXCEPT ![a] = row],
           UNCHANGED <<executions, evidence, results, suspensions, baselines>>
    PROVE  RowsOK'
BY DEF RowsOK

LEMMA PrepareAttemptTyped ==
    ASSUME TypeOK, NEW a \in Attempts, NEW target \in Targets, PrepareAttempt(a, target)
    PROVE  TypeOK'
<1> DEFINE row == NewAttempt(target, TRUE)
<1>1. row \in AttemptRows BY DEF NewAttempt, AttemptRows, OpenStatuses
<1>2. attempts' = Insert(attempts, a, row)
      /\ UNCHANGED <<executions, evidence, results, suspensions, baselines, calls>>
  BY DEF PrepareAttempt
<1> HIDE DEF row
<1>3. DOMAIN attempts' = DOMAIN attempts \cup {a} /\ attempts'[a] = row
      /\ \A b \in DOMAIN attempts : b # a => attempts'[b] = attempts[b]
  BY <1>2 DEF Insert
<1>4. RowsOK' BY <1>1, <1>2, <1>3 DEF TypeOK, RowsOK
<1>5. CallsOK' BY <1>2, <1>3 DEF TypeOK, CallsOK, CallNamesRows
<1> QED BY <1>4, <1>5 DEF TypeOK

LEMMA EnterAttemptTyped ==
    ASSUME TypeOK, NEW a \in Attempts, NEW run \in Runs, EnterAttempt(a, run)
    PROVE  TypeOK'
<1> DEFINE row == [attempts[a] EXCEPT !.status = "INCOMPLETE", !.run = run]
<1>1. a \in DOMAIN attempts /\ attempts' = [attempts EXCEPT ![a] = row]
      /\ UNCHANGED <<executions, evidence, results, suspensions, baselines, calls>>
  BY DEF EnterAttempt
<1>2. row \in AttemptRows
  BY <1>1 DEF TypeOK, RowsOK, AttemptRows, OpenStatuses
<1> HIDE DEF row
<1>3. RowsOK' BY <1>1, <1>2, RewriteTyped DEF TypeOK
<1>4. CallsOK' BY <1>1 DEF TypeOK, CallsOK, CallNamesRows
<1> QED BY <1>3, <1>4 DEF TypeOK

LEMMA CaptureReadsTyped ==
    ASSUME TypeOK, NEW t \in Threads, NEW a \in Attempts, NEW c \in Checkpoints,
           CaptureReads(t, a, c)
    PROVE  TypeOK'
<1> DEFINE call == [op |-> "CAPTURE", attempt |-> a, checkpoint |-> c]
<1>1. call \in Calls /\ call.op = "CAPTURE" /\ call.attempt = a BY DEF Calls
<1>2. Begin(t, call) /\ UNCHANGED tables /\ a \in DOMAIN executions
  BY DEF CaptureReads, IsActive
<1>3. RowsOK' BY <1>2 DEF TypeOK, RowsOK, tables
<1>4. CallsOK'
  <2> HIDE DEF call
  <2> QED BY <1>1, <1>2, BeginTyped DEF TypeOK, RowsOK, tables
<1> QED BY <1>3, <1>4 DEF TypeOK

LEMMA CaptureInsertsTyped ==
    ASSUME TypeOK, NEW t \in Threads, CaptureInserts(t)
    PROVE  TypeOK'
<1> DEFINE a == calls[t].attempt
           c == calls[t].checkpoint
<1>1. calls[t] \in Calls /\ CallNamesRows(t) /\ calls[t].op = "CAPTURE"
  BY DEF TypeOK, CallsOK, CaptureInserts
<1>2. a \in DOMAIN executions /\ c \in Checkpoints
  BY <1>1, CallFields DEF CallNamesRows
<1>3. Return(t) /\ UNCHANGED <<attempts, executions, results, suspensions, baselines>>
  BY DEF CaptureInserts
<1>4. DOMAIN evidence' \subseteq (DOMAIN executions) \X Checkpoints
      /\ \A k \in DOMAIN evidence' : evidence'[k] \in Observations
  <2>1. CASE UNCHANGED evidence BY <2>1 DEF TypeOK, RowsOK
  <2>2. ASSUME NEW seen \in Observations, evidence' = Insert(evidence, <<a, c>>, seen)
        PROVE  <1>4
    <3>1. DOMAIN evidence' = DOMAIN evidence \cup {<<a, c>>}
          /\ \A k \in DOMAIN evidence' :
                 evidence'[k] = IF k = <<a, c>> THEN seen ELSE evidence[k]
      BY <2>2 DEF Insert
    <3>2. <<a, c>> \in (DOMAIN executions) \X Checkpoints BY <1>2
    <3> QED BY <3>1, <3>2 DEF TypeOK, RowsOK
  <2> QED BY <2>1, <2>2 DEF CaptureInserts
<1>5. RowsOK' BY <1>3, <1>4 DEF TypeOK, RowsOK
<1>6. CallsOK' BY <1>3, ReturnTyped DEF TypeOK
<1> QED BY <1>5, <1>6 DEF TypeOK

LEMMA FinaliseReadsTyped ==
    ASSUME TypeOK, NEW t \in Threads, NEW a \in Attempts, NEW c \in Checkpoints,
           FinaliseReads(t, a, c)
    PROVE  TypeOK'
<1> DEFINE call == [op |-> "FINALISE", attempt |-> a, checkpoint |-> c,
                    evidence |-> ListEvidence(a)]
<1>1. ListEvidence(a) \in UNION {[cs -> Observations] : cs \in SUBSET Checkpoints}
  <2> DEFINE cs == {d \in Checkpoints : <<a, d>> \in DOMAIN evidence}
  <2>1. \A d \in cs : evidence[<<a, d>>] \in Observations BY DEF TypeOK, RowsOK
  <2>2. ListEvidence(a) \in [cs -> Observations] BY <2>1 DEF ListEvidence
  <2>3. cs \in SUBSET Checkpoints OBVIOUS
  <2> HIDE DEF cs
  <2> QED BY <2>2, <2>3
<1>2. call \in Calls BY <1>1 DEF Calls
<1>3. Begin(t, call) /\ UNCHANGED tables /\ a \in DOMAIN executions
  BY DEF FinaliseReads, IsActive
<1>4. call.op = "FINALISE" /\ call.attempt = a OBVIOUS
<1>5. RowsOK' BY <1>3 DEF TypeOK, RowsOK, tables
<1>6. CallsOK'
  <2> HIDE DEF call
  <2> QED BY <1>2, <1>3, <1>4, BeginTyped DEF TypeOK, RowsOK, tables
<1> QED BY <1>5, <1>6 DEF TypeOK

LEMMA FinaliseCommitsTyped ==
    ASSUME TypeOK, NEW t \in Threads, FinaliseCommits(t)
    PROVE  TypeOK'
<1> DEFINE a == calls[t].attempt
<1>1. calls[t] \in Calls /\ CallNamesRows(t) /\ calls[t].op = "FINALISE"
  BY DEF TypeOK, CallsOK, FinaliseCommits
<1>2. a \in DOMAIN executions /\ a \in DOMAIN attempts
  BY <1>1 DEF CallNamesRows, TypeOK, RowsOK
<1>3. Return(t) /\ UNCHANGED <<evidence, suspensions, baselines>>
  BY DEF FinaliseCommits
<1>4. CASE UNCHANGED <<attempts, executions, results>>
  <2>1. RowsOK' BY <1>3, <1>4 DEF TypeOK, RowsOK
  <2>2. CallsOK' BY <1>3, <1>4, ReturnTyped DEF TypeOK
  <2> QED BY <2>1, <2>2 DEF TypeOK
<1>5. ASSUME NEW row,
             executions' = [executions EXCEPT ![a].status = "FINALISED"],
             attempts' = [attempts EXCEPT ![a].status = "EXECUTED"],
             results' = Insert(results, a, row)
      PROVE  TypeOK'
  <2>1. DOMAIN results' = DOMAIN results \cup {a} BY <1>5 DEF Insert
  <2>2. DOMAIN executions' = DOMAIN executions /\ DOMAIN attempts' = DOMAIN attempts
    BY <1>5
  <2>3. \A b \in DOMAIN executions' : executions'[b] \in ExecutionRows
    BY <1>2, <1>5 DEF TypeOK, RowsOK, ExecutionRows
  <2>4. \A b \in DOMAIN attempts' : attempts'[b] \in AttemptRows
    BY <1>2, <1>5 DEF TypeOK, RowsOK, AttemptRows
  <2>5. RowsOK' BY <1>2, <1>3, <2>1, <2>2, <2>3, <2>4 DEF TypeOK, RowsOK
  <2>6. CallsOK' BY <1>3, <2>2, ReturnTyped DEF TypeOK
  <2> QED BY <2>5, <2>6 DEF TypeOK
<1> QED BY <1>4, <1>5 DEF FinaliseCommits

LEMMA SuspendReadsTyped ==
    ASSUME TypeOK, NEW t \in Threads, NEW a \in Attempts, NEW position \in Positions,
           SuspendReads(t, a, position)
    PROVE  TypeOK'
<1> DEFINE call == [op |-> "SUSPEND", attempt |-> a, position |-> position,
                    run |-> attempts[a].run, bound |-> attempts[a].bound]
<1>1. Begin(t, call) /\ UNCHANGED tables /\ a \in DOMAIN attempts
  BY DEF SuspendReads
<1>2. call \in Calls BY <1>1 DEF TypeOK, RowsOK, AttemptRows, Calls
<1>3. call.op = "SUSPEND" /\ call.attempt = a OBVIOUS
<1>4. RowsOK' BY <1>1 DEF TypeOK, RowsOK, tables
<1>5. CallsOK'
  <2> HIDE DEF call
  <2> QED BY <1>1, <1>2, <1>3, BeginTyped DEF TypeOK, tables
<1> QED BY <1>4, <1>5 DEF TypeOK

\* The row insert_finalised_suspension writes.
LEMMA SuspendedRow ==
    ASSUME NEW row \in AttemptRows, NEW run \in Runs \cup {NoRun}, NEW bound \in BOOLEAN
    PROVE  [row EXCEPT !.status = "SUSPENDED", !.run = run, !.bound = bound] \in AttemptRows
BY DEF AttemptRows

LEMMA SuspendCommitsTyped ==
    ASSUME TypeOK, NEW t \in Threads, SuspendCommits(t)
    PROVE  TypeOK'
<1> DEFINE call == calls[t]
           a == call.attempt
           row == [attempts[a] EXCEPT !.status = "SUSPENDED", !.run = call.run,
                                      !.bound = call.bound]
<1>1. call \in Calls /\ CallNamesRows(t) /\ call.op = "SUSPEND"
  BY DEF TypeOK, CallsOK, SuspendCommits
<1>2. a \in DOMAIN attempts /\ call.run \in Runs \cup {NoRun} /\ call.bound \in BOOLEAN
  BY <1>1, CallFields DEF CallNamesRows, Idle
<1>3. Return(t) /\ UNCHANGED <<executions, evidence, results, baselines>>
  BY DEF SuspendCommits
<1>4. CASE UNCHANGED <<attempts, suspensions>>
  <2>1. RowsOK' BY <1>3, <1>4 DEF TypeOK, RowsOK
  <2>2. CallsOK' BY <1>3, <1>4, ReturnTyped DEF TypeOK
  <2> QED BY <2>1, <2>2 DEF TypeOK
<1>5. ASSUME NEW record, suspensions' = Insert(suspensions, a, record),
             attempts' = [attempts EXCEPT ![a] = row]
      PROVE  TypeOK'
  <2>1. DOMAIN suspensions' = DOMAIN suspensions \cup {a} BY <1>5 DEF Insert
  <2>2. row \in AttemptRows
    <3>1. attempts[a] \in AttemptRows BY <1>2 DEF TypeOK, RowsOK
    <3> QED BY <1>2, <3>1, SuspendedRow
  <2>3. DOMAIN attempts' = DOMAIN attempts
        /\ \A b \in DOMAIN attempts' : attempts'[b] \in AttemptRows
    <3> HIDE DEF row
    <3> QED BY <1>2, <1>5, <2>2 DEF TypeOK, RowsOK
  <2>4. RowsOK' BY <1>2, <1>3, <2>1, <2>3 DEF TypeOK, RowsOK
  <2>5. CallsOK' BY <1>3, <2>3, ReturnTyped DEF TypeOK
  <2> QED BY <2>4, <2>5 DEF TypeOK
<1> QED BY <1>4, <1>5 DEF SuspendCommits

LEMMA CrashTyped ==
    ASSUME TypeOK, Crash
    PROVE  TypeOK'
<1>1. RowsOK' BY DEF TypeOK, RowsOK, Crash, tables
<1>2. CallsOK' BY DEF TypeOK, CallsOK, CallNamesRows, Calls, Crash, Idle
<1> QED BY <1>1, <1>2 DEF TypeOK

LEMMA NextTyped ==
    ASSUME TypeOK, [Next]_vars
    PROVE  TypeOK'
<1>1. CASE UNCHANGED vars
  <2>1. RowsOK' BY <1>1 DEF vars, tables, TypeOK, RowsOK
  <2>2. CallsOK' BY <1>1 DEF vars, tables, TypeOK, CallsOK, CallNamesRows
  <2> QED BY <2>1, <2>2 DEF TypeOK
<1>2. ASSUME NEW t \in Threads, Step(t) PROVE TypeOK'
  BY <1>2, StartSelectsTyped, StartFreezesBaselineTyped, StartBindsTyped,
     CaptureReadsTyped, FinaliseReadsTyped, CaptureInsertsTyped, FinaliseCommitsTyped,
     SuspendReadsTyped, SuspendCommitsTyped DEF Step
<1>3. ASSUME NEW a \in Attempts, NEW target \in Targets, PrepareAttempt(a, target)
      PROVE TypeOK'
  BY <1>3, PrepareAttemptTyped
<1>4. ASSUME NEW a \in Attempts, NEW run \in Runs, EnterAttempt(a, run) PROVE TypeOK'
  BY <1>4, EnterAttemptTyped
<1>5. CASE Crash BY <1>5, CrashTyped
<1> QED BY <1>1, <1>2, <1>3, <1>4, <1>5 DEF Next

\* The rows of every table keep the shape of their columns and name rows that
\* exist, whatever calls interleave, stop or are lost.
THEOREM RowsAreWellFormed == Spec => []TypeOK
<1>1. Init => TypeOK BY InitTyped
<1>2. TypeOK /\ [Next]_vars => TypeOK' BY NextTyped
<1> QED BY <1>1, <1>2, PTL DEF Spec

-----------------------------------------------------------------------------
(* One outcome per attempt.                                                *)

\* The steps that leave the tables alone.
Reading(t) ==
    \/ \E a \in Attempts, c \in Checkpoints : CaptureReads(t, a, c) \/ FinaliseReads(t, a, c)
    \/ \E a \in Attempts, position \in Positions : SuspendReads(t, a, position)

LEMMA ReadingKeepsTables ==
    ASSUME NEW t \in Threads, Reading(t)
    PROVE  UNCHANGED tables
BY DEF Reading, CaptureReads, FinaliseReads, SuspendReads

\* The steps of Next, sorted by what they do to the tables.
LEMMA StepCases ==
    ASSUME [Next]_vars
    PROVE  \/ UNCHANGED tables
           \/ \E a \in Attempts, target \in Targets :
                  \/ PrepareAttempt(a, target)
                  \/ \E t \in Threads, run \in Runs, source \in Attempts \cup {NoAttempt} :
                         StartSelects(t, a, target, run, source)
           \/ \E a \in Attempts, run \in Runs : EnterAttempt(a, run)
           \/ \E t \in Threads :
                  \/ StartFreezesBaseline(t) \/ StartBinds(t) \/ CaptureInserts(t)
                  \/ FinaliseCommits(t) \/ SuspendCommits(t)
<1>1. CASE UNCHANGED vars BY <1>1 DEF vars
<1>2. CASE Crash BY <1>2 DEF Crash
<1>3. ASSUME NEW t \in Threads, Step(t)
      PROVE  \/ Reading(t)
             \/ \E a \in Attempts, target \in Targets, run \in Runs,
                   source \in Attempts \cup {NoAttempt} : StartSelects(t, a, target, run, source)
             \/ StartFreezesBaseline(t) \/ StartBinds(t) \/ CaptureInserts(t)
             \/ FinaliseCommits(t) \/ SuspendCommits(t)
  BY <1>3, Zenon DEF Step, Reading
<1> QED BY <1>1, <1>2, <1>3, ReadingKeepsTables DEF Next

\* A new attempt has no outcome.
LEMMA NewRowHasNoOutcome ==
    ASSUME TypeOK, OneOutcome, NEW a \in Attempts, NEW target, NEW known,
           a \notin DOMAIN attempts,
           attempts' = Insert(attempts, a, NewAttempt(target, known)),
           UNCHANGED <<executions, results, suspensions>>
    PROVE  OneOutcome'
<1> DEFINE row == NewAttempt(target, known)
<1>1. row.status = "NOT_STARTED" BY DEF NewAttempt
<1> HIDE DEF row
<1>2. DOMAIN attempts' = DOMAIN attempts \cup {a} /\ attempts'[a] = row
      /\ \A b \in DOMAIN attempts : attempts'[b] = attempts[b]
  BY DEF Insert, row
<1>3. a \notin DOMAIN executions /\ a \notin DOMAIN results /\ a \notin DOMAIN suspensions
  BY DEF TypeOK, RowsOK
<1> QED BY <1>1, <1>2, <1>3 DEF OneOutcome

LEMMA OneOutcomeKept ==
    ASSUME TypeOK, OneOutcome, [Next]_vars
    PROVE  OneOutcome'
<1>1. CASE UNCHANGED tables BY <1>1 DEF tables, OneOutcome
<1>2. ASSUME NEW a \in Attempts, NEW target \in Targets,
             \/ PrepareAttempt(a, target)
             \/ \E t \in Threads, run \in Runs, source \in Attempts \cup {NoAttempt} :
                    StartSelects(t, a, target, run, source)
      PROVE  OneOutcome'
  <2>1. CASE PrepareAttempt(a, target)
    BY <2>1, NewRowHasNoOutcome DEF PrepareAttempt
  <2>2. ASSUME NEW t \in Threads, NEW run \in Runs, NEW source \in Attempts \cup {NoAttempt},
               StartSelects(t, a, target, run, source)
        PROVE  OneOutcome'
    BY <2>2, NewRowHasNoOutcome DEF StartSelects
  <2> QED BY <1>2, <2>1, <2>2
<1>3. ASSUME NEW a \in Attempts, NEW run \in Runs, EnterAttempt(a, run)
      PROVE  OneOutcome'
  BY <1>3 DEF EnterAttempt, TypeOK, RowsOK, AttemptRows, OneOutcome
<1>4. ASSUME NEW t \in Threads PROVE CallNamesRows(t) /\ calls[t] \in Calls
  BY DEF TypeOK, CallsOK
<1>5. ASSUME NEW t \in Threads, StartFreezesBaseline(t) PROVE OneOutcome'
  BY <1>5 DEF StartFreezesBaseline, OneOutcome
<1>6. ASSUME NEW t \in Threads, StartBinds(t) PROVE OneOutcome'
  <2> DEFINE a == calls[t].attempt
  <2>1. a \in DOMAIN attempts /\ attempts[a].status = "NOT_STARTED"
    BY <1>4, <1>6 DEF StartBinds, CallNamesRows, Idle
  <2>2. a \notin DOMAIN results /\ a \notin DOMAIN suspensions
    BY <2>1 DEF OneOutcome
  <2>3. DOMAIN attempts' = DOMAIN attempts /\ attempts'[a].status = "ACTIVE"
        /\ \A b \in DOMAIN attempts : b # a => attempts'[b] = attempts[b]
    BY <1>6, <2>1 DEF StartBinds, TypeOK, RowsOK, AttemptRows
  <2>4. DOMAIN executions' = DOMAIN executions \cup {a} /\ executions'[a].status = "ACTIVE"
        /\ \A b \in DOMAIN executions : b # a => executions'[b] = executions[b]
    BY <1>6 DEF StartBinds, Insert
  <2>5. UNCHANGED <<results, suspensions>> BY <1>6 DEF StartBinds
  <2> HIDE DEF a
  <2> QED BY <2>1, <2>2, <2>3, <2>4, <2>5 DEF OneOutcome
<1>7. ASSUME NEW t \in Threads, CaptureInserts(t) PROVE OneOutcome'
  BY <1>7 DEF CaptureInserts, OneOutcome
<1>8. ASSUME NEW t \in Threads, FinaliseCommits(t) PROVE OneOutcome'
  <2> DEFINE a == calls[t].attempt
  <2>1. CASE UNCHANGED <<attempts, executions, results>>
    BY <1>8, <2>1 DEF FinaliseCommits, OneOutcome
  <2>2. ASSUME NEW row, ResultAdmitted(a),
               executions' = [executions EXCEPT ![a].status = "FINALISED"],
               attempts' = [attempts EXCEPT ![a].status = "EXECUTED"],
               results' = Insert(results, a, row)
        PROVE  OneOutcome'
    <3>1. a \in DOMAIN executions /\ a \in DOMAIN attempts
      BY <1>4, <1>8 DEF FinaliseCommits, CallNamesRows, TypeOK, RowsOK
    <3>2. a \notin DOMAIN suspensions BY <2>2, <3>1 DEF ResultAdmitted, OneOutcome
    <3>3. DOMAIN results' = DOMAIN results \cup {a} BY <2>2 DEF Insert
    <3>4. DOMAIN attempts' = DOMAIN attempts /\ attempts'[a].status = "EXECUTED"
          /\ \A b \in DOMAIN attempts : b # a => attempts'[b] = attempts[b]
      BY <2>2, <3>1 DEF TypeOK, RowsOK, AttemptRows
    <3>5. DOMAIN executions' = DOMAIN executions /\ executions'[a].status = "FINALISED"
          /\ \A b \in DOMAIN executions : b # a => executions'[b] = executions[b]
      BY <2>2, <3>1 DEF TypeOK, RowsOK, ExecutionRows
    <3>6. UNCHANGED suspensions BY <1>8 DEF FinaliseCommits
    <3> HIDE DEF a
    <3> QED BY <3>1, <3>2, <3>3, <3>4, <3>5, <3>6 DEF OneOutcome
  <2> QED BY <1>8, <2>1, <2>2 DEF FinaliseCommits
<1>9. ASSUME NEW t \in Threads, SuspendCommits(t) PROVE OneOutcome'
  <2> DEFINE a == calls[t].attempt
             row == [attempts[a] EXCEPT !.status = "SUSPENDED", !.run = calls[t].run,
                                        !.bound = calls[t].bound]
  <2>1. CASE UNCHANGED <<attempts, suspensions>>
    BY <1>9, <2>1 DEF SuspendCommits, OneOutcome
  <2>2. ASSUME NEW record, SuspensionAdmitted(a), suspensions' = Insert(suspensions, a, record),
               attempts' = [attempts EXCEPT ![a] = row]
        PROVE  OneOutcome'
    <3>1. a \in DOMAIN attempts
      BY <1>4, <1>9 DEF SuspendCommits, CallNamesRows, Idle
    <3>2. a \notin DOMAIN results
      BY <2>2, <3>1 DEF SuspensionAdmitted, OneOutcome, OpenStatuses
    <3>3. DOMAIN suspensions' = DOMAIN suspensions \cup {a} BY <2>2 DEF Insert
    <3>4. row.status = "SUSPENDED" BY <3>1 DEF TypeOK, RowsOK, AttemptRows
    <3>5. DOMAIN attempts' = DOMAIN attempts /\ attempts'[a].status = "SUSPENDED"
          /\ \A b \in DOMAIN attempts : b # a => attempts'[b] = attempts[b]
      <4> HIDE DEF row
      <4> QED BY <2>2, <3>1, <3>4
    <3>6. UNCHANGED <<executions, results>> BY <1>9 DEF SuspendCommits
    <3> HIDE DEF a, row
    <3> QED BY <3>1, <3>2, <3>3, <3>5, <3>6 DEF OneOutcome
  <2> QED BY <1>9, <2>1, <2>2 DEF SuspendCommits
<1> QED BY <1>1, <1>2, <1>3, <1>5, <1>6, <1>7, <1>8, <1>9, StepCases

\* However the calls interleave, an attempt has one outcome at most, and its three
\* tables agree on which.
THEOREM AttemptsHaveOneOutcome == Spec => []OneOutcome
<1>1. Init => OneOutcome
  <2>1. DOMAIN << >> = {} OBVIOUS
  <2> QED BY <2>1 DEF Init, OneOutcome
<1>2. TypeOK /\ OneOutcome /\ [Next]_vars => OneOutcome' BY OneOutcomeKept
<1> QED BY <1>1, <1>2, RowsAreWellFormed, PTL DEF Spec

-----------------------------------------------------------------------------
(* Outcomes are final.                                                     *)

\* What OutcomesAreFinal asks for an attempt.
Untouched(a) ==
    /\ a \in DOMAIN attempts' /\ attempts'[a] = attempts[a]
    /\ a \in DOMAIN executions <=> a \in DOMAIN executions'
    /\ a \in DOMAIN executions => executions'[a] = executions[a]
    /\ ListEvidence(a)' = ListEvidence(a)
    /\ a \in DOMAIN results <=> a \in DOMAIN results'
    /\ a \in DOMAIN results => results'[a] = results[a]
    /\ a \in DOMAIN suspensions <=> a \in DOMAIN suspensions'
    /\ a \in DOMAIN suspensions => suspensions'[a] = suspensions[a]

\* A snapshot of one attempt leaves the evidence of the others as it was.
LEMMA EvidenceOfOthers ==
    ASSUME NEW a, NEW b, a # b, NEW c, NEW seen,
           evidence' = Insert(evidence, <<b, c>>, seen)
    PROVE  ListEvidence(a)' = ListEvidence(a)
<1>1. \A d : <<a, d>> # <<b, c>> OBVIOUS
<1>2. DOMAIN evidence' = DOMAIN evidence \cup {<<b, c>>}
      /\ \A k \in DOMAIN evidence : k # <<b, c>> => evidence'[k] = evidence[k]
  BY DEF Insert
<1>3. \A d : (<<a, d>> \in DOMAIN evidence' <=> <<a, d>> \in DOMAIN evidence)
             /\ (<<a, d>> \in DOMAIN evidence => evidence'[<<a, d>>] = evidence[<<a, d>>])
  BY <1>1, <1>2
<1>4. {c1 \in Checkpoints : <<a, c1>> \in DOMAIN evidence'}
      = {c1 \in Checkpoints : <<a, c1>> \in DOMAIN evidence}
  BY <1>3
<1> QED BY <1>3, <1>4 DEF ListEvidence

LEMMA SameEvidence ==
    ASSUME NEW a, UNCHANGED evidence
    PROVE  ListEvidence(a)' = ListEvidence(a)
BY DEF ListEvidence

LEMMA ClosedIsUntouched ==
    ASSUME TypeOK, OneOutcome, [Next]_vars, NEW a \in DOMAIN attempts,
           attempts[a].status \in {"EXECUTED", "SUSPENDED"}
    PROVE  Untouched(a)
<1>1. CASE UNCHANGED tables BY <1>1, SameEvidence DEF tables, Untouched
<1>2. ASSUME NEW b \in Attempts, NEW target \in Targets,
             \/ PrepareAttempt(b, target)
             \/ \E t \in Threads, run \in Runs, source \in Attempts \cup {NoAttempt} :
                    StartSelects(t, b, target, run, source)
      PROVE  Untouched(a)
  <2>1. b \notin DOMAIN attempts
        /\ UNCHANGED <<executions, evidence, results, suspensions>>
        /\ \E row : attempts' = Insert(attempts, b, row)
    BY <1>2 DEF PrepareAttempt, StartSelects
  <2>2. a \in DOMAIN attempts' /\ attempts'[a] = attempts[a] BY <2>1 DEF Insert
  <2> QED BY <2>1, <2>2, SameEvidence DEF Untouched
<1>3. ASSUME NEW b \in Attempts, NEW run \in Runs, EnterAttempt(b, run)
      PROVE  Untouched(a)
  <2>1. a # b /\ UNCHANGED <<executions, evidence, results, suspensions>>
    BY <1>3 DEF EnterAttempt
  <2>2. a \in DOMAIN attempts' /\ attempts'[a] = attempts[a] BY <1>3, <2>1 DEF EnterAttempt
  <2> QED BY <2>1, <2>2, SameEvidence DEF Untouched
<1>4. ASSUME NEW t \in Threads, StartFreezesBaseline(t) PROVE Untouched(a)
  BY <1>4, SameEvidence DEF StartFreezesBaseline, Untouched
<1>5. ASSUME NEW t \in Threads, StartBinds(t) PROVE Untouched(a)
  <2> DEFINE b == calls[t].attempt
  <2>1. a # b BY <1>5 DEF StartBinds
  <2>2. UNCHANGED <<evidence, results, suspensions>> BY <1>5 DEF StartBinds
  <2>3. a \in DOMAIN attempts' /\ attempts'[a] = attempts[a] BY <1>5, <2>1 DEF StartBinds
  <2>4. DOMAIN executions' = DOMAIN executions \cup {b}
        /\ \A c \in DOMAIN executions : c # b => executions'[c] = executions[c]
    BY <1>5 DEF StartBinds, Insert
  <2> QED BY <2>1, <2>2, <2>3, <2>4, SameEvidence DEF Untouched
<1>6. ASSUME NEW t \in Threads, CaptureInserts(t) PROVE Untouched(a)
  <2> DEFINE b == calls[t].attempt
             c == calls[t].checkpoint
  <2>1. UNCHANGED <<attempts, executions, results, suspensions>>
    BY <1>6 DEF CaptureInserts
  <2>2. CASE UNCHANGED evidence BY <2>1, <2>2, SameEvidence DEF Untouched
  <2>3. ASSUME NEW seen, EvidenceAdmitted(b, c), evidence' = Insert(evidence, <<b, c>>, seen)
        PROVE  Untouched(a)
    <3>1. b \in DOMAIN executions
      BY <1>6 DEF CaptureInserts, TypeOK, CallsOK, CallNamesRows
    <3>2. attempts[b].status # "SUSPENDED" /\ executions[b].status # "FINALISED"
      BY <2>3 DEF EvidenceAdmitted
    <3>3. attempts[b].status # "EXECUTED"
      BY <3>1, <3>2 DEF OneOutcome, TypeOK, RowsOK
    <3>4. a # b BY <3>2, <3>3
    <3>5. ListEvidence(a)' = ListEvidence(a) BY <2>3, <3>4, EvidenceOfOthers
    <3> QED BY <2>1, <3>5 DEF Untouched
  <2> QED BY <1>6, <2>2, <2>3 DEF CaptureInserts
<1>7. ASSUME NEW t \in Threads, FinaliseCommits(t) PROVE Untouched(a)
  <2> DEFINE b == calls[t].attempt
  <2>1. UNCHANGED <<evidence, suspensions>> BY <1>7 DEF FinaliseCommits
  <2>2. CASE UNCHANGED <<attempts, executions, results>>
    BY <2>1, <2>2, SameEvidence DEF Untouched
  <2>3. ASSUME NEW row, ResultAdmitted(b),
               executions' = [executions EXCEPT ![b].status = "FINALISED"],
               attempts' = [attempts EXCEPT ![b].status = "EXECUTED"],
               results' = Insert(results, b, row)
        PROVE  Untouched(a)
    <3>1. a # b BY <2>3 DEF ResultAdmitted
    <3>2. DOMAIN results' = DOMAIN results \cup {b}
          /\ \A d \in DOMAIN results : d # b => results'[d] = results[d]
      BY <2>3 DEF Insert
    <3>3. a \in DOMAIN attempts' /\ attempts'[a] = attempts[a] BY <2>3, <3>1
    <3>4. DOMAIN executions' = DOMAIN executions
          /\ (a \in DOMAIN executions => executions'[a] = executions[a])
      BY <2>3, <3>1
    <3> HIDE DEF b
    <3> QED BY <2>1, <3>1, <3>2, <3>3, <3>4, SameEvidence DEF Untouched
  <2> QED BY <1>7, <2>2, <2>3 DEF FinaliseCommits
<1>8. ASSUME NEW t \in Threads, SuspendCommits(t) PROVE Untouched(a)
  <2> DEFINE b == calls[t].attempt
  <2>1. UNCHANGED <<executions, evidence, results>> BY <1>8 DEF SuspendCommits
  <2>2. CASE UNCHANGED <<attempts, suspensions>>
    BY <2>1, <2>2, SameEvidence DEF Untouched
  <2>3. ASSUME NEW record, NEW row, SuspensionAdmitted(b),
               suspensions' = Insert(suspensions, b, record),
               attempts' = [attempts EXCEPT ![b] = row]
        PROVE  Untouched(a)
    <3>1. a # b BY <2>3 DEF SuspensionAdmitted, OpenStatuses
    <3>2. DOMAIN suspensions' = DOMAIN suspensions \cup {b}
          /\ \A d \in DOMAIN suspensions : d # b => suspensions'[d] = suspensions[d]
      BY <2>3 DEF Insert
    <3>3. a \in DOMAIN attempts' /\ attempts'[a] = attempts[a] BY <2>3, <3>1
    <3> HIDE DEF b
    <3> QED BY <2>1, <3>1, <3>2, <3>3, SameEvidence DEF Untouched
  <2> QED BY <1>8, <2>2, <2>3 DEF SuspendCommits
<1> QED BY <1>1, <1>2, <1>3, <1>4, <1>5, <1>6, <1>7, <1>8, StepCases

\* No call that read an earlier state, and no crash, changes an attempt with an
\* outcome, its execution, its evidence, its result or its suspension.
THEOREM OutcomesStay == Spec => OutcomesAreFinal
<1> DEFINE Final == \A a \in DOMAIN attempts :
                        attempts[a].status \in {"EXECUTED", "SUSPENDED"} => Untouched(a)
<1>1. TypeOK /\ OneOutcome /\ [Next]_vars => [Final]_vars
  BY ClosedIsUntouched
<1>2. Spec => [][Final]_vars
  BY <1>1, RowsAreWellFormed, AttemptsHaveOneOutcome, PTL DEF Spec
<1> QED BY <1>2 DEF OutcomesAreFinal, Untouched

-----------------------------------------------------------------------------
(* Results rest on evidence.  What finalise_execution read before its       *)
(* transaction is still what the table holds: a capture is of a required    *)
(* checkpoint, and when all of those have a snapshot none can be added.     *)

EvidenceIsRequired ==
    \A a \in Attempts, c \in Checkpoints :
        <<a, c>> \in DOMAIN evidence => c \in Obligations[attempts[a].target]

CapturesAreRequired ==
    \A t \in Threads : calls[t].op = "CAPTURE" =>
        calls[t].checkpoint \in Obligations[attempts[calls[t].attempt].target]

Current(a, seen, c) ==
    /\ seen = ListEvidence(a)
    /\ c \in DOMAIN ListEvidence(a)
    /\ ChecksComplete(a)

FinalisationsAreCurrent ==
    \A t \in Threads : calls[t].op = "FINALISE" =>
        Current(calls[t].attempt, calls[t].evidence, calls[t].checkpoint)

EvidenceInv ==
    /\ EvidenceIsRequired
    /\ CapturesAreRequired
    /\ FinalisationsAreCurrent
    /\ ResultsRestOnEvidence

\* An attempt keeps its target.
LEMMA TargetsKept ==
    ASSUME TypeOK, [Next]_vars, NEW a \in DOMAIN attempts
    PROVE  a \in DOMAIN attempts' /\ attempts'[a].target = attempts[a].target
<1>1. attempts[a] \in AttemptRows BY DEF TypeOK, RowsOK
<1>2. CASE UNCHANGED attempts BY <1>2
<1>3. ASSUME NEW b, NEW row, b \notin DOMAIN attempts, attempts' = Insert(attempts, b, row)
      PROVE  a \in DOMAIN attempts' /\ attempts'[a].target = attempts[a].target
  BY <1>3 DEF Insert
<1>4. ASSUME NEW run \in Runs, NEW b \in Attempts, EnterAttempt(b, run)
      PROVE  a \in DOMAIN attempts' /\ attempts'[a].target = attempts[a].target
  BY <1>1, <1>4 DEF EnterAttempt, AttemptRows
<1>5. ASSUME NEW t \in Threads, StartBinds(t)
      PROVE  a \in DOMAIN attempts' /\ attempts'[a].target = attempts[a].target
  BY <1>1, <1>5 DEF StartBinds, AttemptRows
<1>6. ASSUME NEW t \in Threads, FinaliseCommits(t)
      PROVE  a \in DOMAIN attempts' /\ attempts'[a].target = attempts[a].target
  BY <1>1, <1>6 DEF FinaliseCommits, AttemptRows
<1>7. ASSUME NEW t \in Threads, SuspendCommits(t)
      PROVE  a \in DOMAIN attempts' /\ attempts'[a].target = attempts[a].target
  <2> DEFINE b == calls[t].attempt
             row == [attempts[b] EXCEPT !.status = "SUSPENDED", !.run = calls[t].run,
                                        !.bound = calls[t].bound]
  <2>1. CASE b = a
    <3>1. row.target = attempts[a].target
      <4>1. \A r \in AttemptRows : \A run, bound :
                [r EXCEPT !.status = "SUSPENDED", !.run = run, !.bound = bound].target = r.target
        BY DEF AttemptRows
      <4> QED BY <1>1, <2>1, <4>1
    <3> HIDE DEF row
    <3> QED BY <1>7, <2>1, <3>1 DEF SuspendCommits, row
  <2>2. CASE b # a BY <1>7, <2>2 DEF SuspendCommits
  <2> QED BY <2>1, <2>2
<1>8. ASSUME NEW t \in Threads, StartFreezesBaseline(t) \/ CaptureInserts(t)
      PROVE  UNCHANGED attempts
  BY <1>8 DEF StartFreezesBaseline, CaptureInserts
<1>9. ASSUME NEW b \in Attempts, NEW target \in Targets,
             \/ PrepareAttempt(b, target)
             \/ \E t \in Threads, run \in Runs, source \in Attempts \cup {NoAttempt} :
                    StartSelects(t, b, target, run, source)
      PROVE  b \notin DOMAIN attempts /\ \E row : attempts' = Insert(attempts, b, row)
  BY <1>9 DEF PrepareAttempt, StartSelects
<1>10. UNCHANGED tables => UNCHANGED attempts BY DEF tables
<1> QED BY <1>2, <1>3, <1>4, <1>5, <1>6, <1>7, <1>8, <1>9, <1>10, StepCases

\* The evidence changes only by a capture.
LEMMA EvidenceChanges ==
    ASSUME [Next]_vars
    PROVE  \/ UNCHANGED evidence
           \/ \E t \in Threads, seen \in Observations :
                  LET a == calls[t].attempt
                      c == calls[t].checkpoint
                  IN  /\ calls[t].op = "CAPTURE"
                      /\ EvidenceAdmitted(a, c)
                      /\ evidence' = Insert(evidence, <<a, c>>, seen)
<1>1. UNCHANGED tables => UNCHANGED evidence BY DEF tables
<1>2. ASSUME NEW b \in Attempts, NEW target \in Targets,
             \/ PrepareAttempt(b, target)
             \/ \E t \in Threads, run \in Runs, source \in Attempts \cup {NoAttempt} :
                    StartSelects(t, b, target, run, source)
      PROVE  UNCHANGED evidence
  BY <1>2 DEF PrepareAttempt, StartSelects
<1>3. ASSUME NEW b \in Attempts, NEW run \in Runs, EnterAttempt(b, run)
      PROVE  UNCHANGED evidence
  BY <1>3 DEF EnterAttempt
<1>4. ASSUME NEW t \in Threads,
             StartFreezesBaseline(t) \/ StartBinds(t) \/ FinaliseCommits(t) \/ SuspendCommits(t)
      PROVE  UNCHANGED evidence
  BY <1>4 DEF StartFreezesBaseline, StartBinds, FinaliseCommits, SuspendCommits
<1>5. ASSUME NEW t \in Threads, CaptureInserts(t)
      PROVE  \/ UNCHANGED evidence
             \/ \E seen \in Observations :
                    LET a == calls[t].attempt
                        c == calls[t].checkpoint
                    IN  /\ calls[t].op = "CAPTURE"
                        /\ EvidenceAdmitted(a, c)
                        /\ evidence' = Insert(evidence, <<a, c>>, seen)
  BY <1>5, Zenon DEF CaptureInserts
<1> QED BY <1>1, <1>2, <1>3, <1>4, <1>5, StepCases

\* A complete set of snapshots stays as it is.
LEMMA CompleteEvidenceKept ==
    ASSUME TypeOK, EvidenceInv, [Next]_vars, NEW a \in DOMAIN attempts, ChecksComplete(a)
    PROVE  ListEvidence(a)' = ListEvidence(a) /\ ChecksComplete(a)'
<1>1. ListEvidence(a)' = ListEvidence(a)
  <2>1. CASE UNCHANGED evidence BY <2>1, SameEvidence
  <2>2. ASSUME NEW t \in Threads, NEW seen \in Observations, calls[t].op = "CAPTURE",
               EvidenceAdmitted(calls[t].attempt, calls[t].checkpoint),
               evidence' = Insert(evidence, <<calls[t].attempt, calls[t].checkpoint>>, seen)
        PROVE  ListEvidence(a)' = ListEvidence(a)
    <3> DEFINE b == calls[t].attempt
               c == calls[t].checkpoint
    <3>1. c \in Obligations[attempts[b].target]
      BY <2>2 DEF EvidenceInv, CapturesAreRequired
    <3>2. CASE b = a
      <4>1. c \in DOMAIN ListEvidence(a) BY <3>1, <3>2 DEF ChecksComplete
      <4>2. <<a, c>> \in DOMAIN evidence BY <4>1 DEF ListEvidence
      <4> QED BY <2>2, <3>2, <4>2 DEF EvidenceAdmitted
    <3>3. CASE b # a BY <2>2, <3>3, EvidenceOfOthers
    <3> QED BY <3>2, <3>3
  <2> QED BY <2>1, <2>2, EvidenceChanges
<1>2. attempts'[a].target = attempts[a].target BY TargetsKept
<1> QED BY <1>1, <1>2 DEF ChecksComplete

\* A thread's call is the one it was making, or a capture or a finalisation that
\* has just read, or of another kind.
LEMMA CallChanges ==
    ASSUME TypeOK, [Next]_vars, NEW u \in Threads
    PROVE  \/ calls'[u] = calls[u]
           \/ calls'[u].op \in {"IDLE", "BASELINE", "BIND", "SUSPEND"}
           \/ \E a \in Attempts, c \in Checkpoints :
                  CaptureReads(u, a, c) \/ FinaliseReads(u, a, c)
<1>1. calls \in [Threads -> Calls] BY DEF TypeOK, CallsOK
<1>2. ASSUME NEW t \in Threads, NEW call, Begin(t, call)
      PROVE  calls'[u] = IF u = t THEN call ELSE calls[u]
  BY <1>1, <1>2 DEF Begin
<1>3. Idle.op = "IDLE" BY DEF Idle
<1>4. ASSUME NEW t \in Threads, Return(t)
      PROVE  calls'[u] = calls[u] \/ calls'[u].op = "IDLE"
  BY <1>2, <1>3, <1>4 DEF Return
<1>5. CASE UNCHANGED calls BY <1>5
<1>6. CASE Crash BY <1>3, <1>6 DEF Crash
<1>7. ASSUME NEW t \in Threads,
             StartBinds(t) \/ CaptureInserts(t) \/ FinaliseCommits(t) \/ SuspendCommits(t)
      PROVE  Return(t)
  BY <1>7 DEF StartBinds, CaptureInserts, FinaliseCommits, SuspendCommits
<1>8. ASSUME NEW t \in Threads, StartFreezesBaseline(t)
      PROVE  calls'[u] = calls[u] \/ calls'[u].op \in {"IDLE", "BIND"}
  <2> DEFINE next == [calls[t] EXCEPT !.op = "BIND"]
  <2>1. calls[t] \in [op : {"BASELINE", "BIND"}, attempt : Attempts, run : Runs,
                      source : Attempts \cup {NoAttempt}]
    <3>1. calls[t] \in Calls BY <1>1
    <3> QED BY <1>8, <3>1 DEF StartFreezesBaseline, Calls, Idle
  <2>2. next.op = "BIND" BY <2>1
  <2> HIDE DEF next
  <2> QED BY <1>2, <1>4, <1>8, <2>2 DEF StartFreezesBaseline, next
<1>9. ASSUME NEW t \in Threads, NEW a \in Attempts, NEW target \in Targets, NEW run \in Runs,
             NEW source \in Attempts \cup {NoAttempt}, StartSelects(t, a, target, run, source)
      PROVE  calls'[u] = calls[u] \/ calls'[u].op \in {"BASELINE", "BIND"}
  BY <1>2, <1>9 DEF StartSelects
<1>10. ASSUME NEW t \in Threads, NEW a \in Attempts, NEW position \in Positions,
              SuspendReads(t, a, position)
       PROVE  calls'[u] = calls[u] \/ calls'[u].op = "SUSPEND"
  BY <1>2, <1>10 DEF SuspendReads
<1>11. ASSUME NEW t \in Threads, NEW a \in Attempts, NEW c \in Checkpoints,
              CaptureReads(t, a, c) \/ FinaliseReads(t, a, c), u # t
       PROVE  calls'[u] = calls[u]
  BY <1>2, <1>11 DEF CaptureReads, FinaliseReads
<1>12. ASSUME NEW a \in Attempts, NEW target \in Targets, PrepareAttempt(a, target)
       PROVE  UNCHANGED calls
  BY <1>12 DEF PrepareAttempt
<1>13. ASSUME NEW a \in Attempts, NEW run \in Runs, EnterAttempt(a, run)
       PROVE  UNCHANGED calls
  BY <1>13 DEF EnterAttempt
<1>14. UNCHANGED vars => UNCHANGED calls BY DEF vars
<1> QED BY <1>4, <1>5, <1>6, <1>7, <1>8, <1>9, <1>10, <1>11, <1>12, <1>13, <1>14 DEF Next, Step

\* The results change only by a finalisation.
LEMMA ResultChanges ==
    ASSUME [Next]_vars
    PROVE  \/ UNCHANGED results
           \/ \E t \in Threads :
                  LET call == calls[t]
                      seen == call.evidence[call.checkpoint]
                  IN  /\ call.op = "FINALISE"
                      /\ results' = Insert(results, call.attempt,
                             [verdict |-> IF seen = "AGREES" THEN "PASS" ELSE "FAIL",
                              checkpoint |-> call.checkpoint, evidence |-> call.evidence])
<1>1. UNCHANGED tables => UNCHANGED results BY DEF tables
<1>2. ASSUME NEW b \in Attempts, NEW target \in Targets,
             \/ PrepareAttempt(b, target)
             \/ \E t \in Threads, run \in Runs, source \in Attempts \cup {NoAttempt} :
                    StartSelects(t, b, target, run, source)
      PROVE  UNCHANGED results
  BY <1>2 DEF PrepareAttempt, StartSelects
<1>3. ASSUME NEW b \in Attempts, NEW run \in Runs, EnterAttempt(b, run)
      PROVE  UNCHANGED results
  BY <1>3 DEF EnterAttempt
<1>4. ASSUME NEW t \in Threads,
             StartFreezesBaseline(t) \/ StartBinds(t) \/ CaptureInserts(t) \/ SuspendCommits(t)
      PROVE  UNCHANGED results
  BY <1>4 DEF StartFreezesBaseline, StartBinds, CaptureInserts, SuspendCommits
<1>5. ASSUME NEW t \in Threads, FinaliseCommits(t)
      PROVE  \/ UNCHANGED results
             \/ LET call == calls[t]
                    seen == call.evidence[call.checkpoint]
                IN  /\ call.op = "FINALISE"
                    /\ results' = Insert(results, call.attempt,
                           [verdict |-> IF seen = "AGREES" THEN "PASS" ELSE "FAIL",
                            checkpoint |-> call.checkpoint, evidence |-> call.evidence])
  BY <1>5, Zenon DEF FinaliseCommits
<1> QED BY <1>1, <1>2, <1>3, <1>4, <1>5, StepCases

LEMMA EvidenceInvKept ==
    ASSUME TypeOK, EvidenceInv, [Next]_vars
    PROVE  EvidenceInv'
<1>1. EvidenceIsRequired'
  <2> SUFFICES ASSUME NEW a \in Attempts, NEW c \in Checkpoints, <<a, c>> \in DOMAIN evidence'
               PROVE  c \in Obligations[attempts'[a].target]
    BY DEF EvidenceIsRequired
  <2>1. CASE <<a, c>> \in DOMAIN evidence
    <3>1. a \in DOMAIN attempts BY <2>1 DEF TypeOK, RowsOK
    <3>2. attempts'[a].target = attempts[a].target BY <3>1, TargetsKept
    <3> QED BY <2>1, <3>2 DEF EvidenceInv, EvidenceIsRequired
  <2>2. ASSUME NEW t \in Threads, NEW seen \in Observations, calls[t].op = "CAPTURE",
               <<a, c>> \notin DOMAIN evidence,
               evidence' = Insert(evidence, <<calls[t].attempt, calls[t].checkpoint>>, seen)
        PROVE  c \in Obligations[attempts'[a].target]
    <3>1. DOMAIN evidence'
          = DOMAIN evidence \cup {<<calls[t].attempt, calls[t].checkpoint>>}
      BY <2>2 DEF Insert
    <3>2. a = calls[t].attempt /\ c = calls[t].checkpoint BY <2>2, <3>1
    <3>3. a \in DOMAIN attempts
      BY <2>2, <3>2 DEF TypeOK, CallsOK, CallNamesRows, Idle
    <3>4. attempts'[a].target = attempts[a].target BY <3>3, TargetsKept
    <3> QED BY <2>2, <3>2, <3>4 DEF EvidenceInv, CapturesAreRequired
  <2> QED BY <2>1, <2>2, EvidenceChanges
<1>2. ASSUME NEW u \in Threads, calls'[u].op \in {"CAPTURE", "FINALISE"}, calls'[u] = calls[u]
      PROVE  calls[u].attempt \in DOMAIN attempts
  BY <1>2 DEF TypeOK, CallsOK, CallNamesRows, Idle
<1>3. CapturesAreRequired'
  <2> SUFFICES ASSUME NEW u \in Threads, calls'[u].op = "CAPTURE"
               PROVE  calls'[u].checkpoint
                      \in Obligations[attempts'[calls'[u].attempt].target]
    BY DEF CapturesAreRequired
  <2>1. CASE calls'[u] = calls[u]
    <3>1. calls[u].attempt \in DOMAIN attempts BY <1>2, <2>1
    <3>2. attempts'[calls[u].attempt].target = attempts[calls[u].attempt].target
      BY <3>1, TargetsKept
    <3> QED BY <2>1, <3>2 DEF EvidenceInv, CapturesAreRequired
  <2>2. ASSUME NEW a \in Attempts, NEW c \in Checkpoints, CaptureReads(u, a, c)
        PROVE  calls'[u].checkpoint \in Obligations[attempts'[calls'[u].attempt].target]
    <3>1. calls'[u] = [op |-> "CAPTURE", attempt |-> a, checkpoint |-> c]
      BY <2>2 DEF CaptureReads, Begin, TypeOK, CallsOK
    <3> QED BY <2>2, <3>1 DEF CaptureReads, tables
  <2>3. ASSUME NEW a \in Attempts, NEW c \in Checkpoints, FinaliseReads(u, a, c)
        PROVE  FALSE
    <3>1. calls'[u].op = "FINALISE" BY <2>3 DEF FinaliseReads, Begin, TypeOK, CallsOK
    <3> QED BY <3>1
  <2> QED BY <2>1, <2>2, <2>3, CallChanges
<1>4. FinalisationsAreCurrent'
  <2> SUFFICES ASSUME NEW u \in Threads, NEW a, NEW seen, NEW c,
                      calls'[u].op = "FINALISE", calls'[u].attempt = a,
                      calls'[u].evidence = seen, calls'[u].checkpoint = c
               PROVE  Current(a, seen, c)'
    BY DEF FinalisationsAreCurrent, Current, ListEvidence, ChecksComplete
  <2>1. CASE calls'[u] = calls[u]
    <3>1. a \in DOMAIN attempts BY <1>2, <2>1
    <3>2. Current(a, seen, c) BY <2>1 DEF EvidenceInv, FinalisationsAreCurrent
    <3>3. ListEvidence(a)' = ListEvidence(a) /\ ChecksComplete(a)'
      BY <3>1, <3>2, CompleteEvidenceKept DEF Current
    <3> QED BY <3>2, <3>3 DEF Current
  <2>2. ASSUME NEW b \in Attempts, NEW d \in Checkpoints, FinaliseReads(u, b, d)
        PROVE  Current(a, seen, c)'
    <3>1. calls'[u] = [op |-> "FINALISE", attempt |-> b, checkpoint |-> d,
                       evidence |-> ListEvidence(b)]
      BY <2>2 DEF FinaliseReads, Begin, TypeOK, CallsOK
    <3>2. UNCHANGED <<attempts, evidence>> BY <2>2 DEF FinaliseReads, tables
    <3>3. Current(b, ListEvidence(b), d) BY <2>2 DEF FinaliseReads, Current
    <3>4. a = b /\ seen = ListEvidence(b) /\ c = d BY <3>1
    <3>5. Current(a, seen, c) BY <3>3, <3>4
    <3> QED BY <3>2, <3>5 DEF Current, ListEvidence, ChecksComplete
  <2>3. ASSUME NEW b \in Attempts, NEW d \in Checkpoints, CaptureReads(u, b, d)
        PROVE  FALSE
    <3>1. calls'[u].op = "CAPTURE" BY <2>3 DEF CaptureReads, Begin, TypeOK, CallsOK
    <3> QED BY <3>1
  <2> QED BY <2>1, <2>2, <2>3, CallChanges
<1>5. ResultsRestOnEvidence'
  <2> DEFINE Rests(a, row, seen) ==
                 /\ row.evidence = seen
                 /\ Obligations[attempts[a].target] \subseteq DOMAIN seen
                 /\ row.verdict = "PASS" <=> seen[row.checkpoint] = "AGREES"
  <2>1. \A a \in DOMAIN results : Rests(a, results[a], ListEvidence(a))
    BY DEF EvidenceInv, ResultsRestOnEvidence
  <2>2. ASSUME NEW a \in DOMAIN attempts, ChecksComplete(a)
        PROVE  ListEvidence(a)' = ListEvidence(a)
               /\ attempts'[a].target = attempts[a].target
    BY <2>2, CompleteEvidenceKept, TargetsKept
  <2>3. ASSUME NEW a \in DOMAIN results
        PROVE  a \in DOMAIN attempts /\ ChecksComplete(a)
    BY <2>1 DEF TypeOK, RowsOK, ChecksComplete
  <2>4. CASE UNCHANGED results
    <3>1. ASSUME NEW a \in DOMAIN results
          PROVE  ListEvidence(a)' = ListEvidence(a)
                 /\ attempts'[a].target = attempts[a].target
      BY <2>2, <2>3
    <3> QED BY <2>1, <2>4, <3>1 DEF ResultsRestOnEvidence
  <2>5. ASSUME NEW t \in Threads, calls[t].op = "FINALISE",
               results' = Insert(results, calls[t].attempt,
                   [verdict |-> IF calls[t].evidence[calls[t].checkpoint] = "AGREES"
                                THEN "PASS" ELSE "FAIL",
                    checkpoint |-> calls[t].checkpoint, evidence |-> calls[t].evidence])
        PROVE  ResultsRestOnEvidence'
    <3> DEFINE b == calls[t].attempt
               row == [verdict |-> IF calls[t].evidence[calls[t].checkpoint] = "AGREES"
                                   THEN "PASS" ELSE "FAIL",
                       checkpoint |-> calls[t].checkpoint, evidence |-> calls[t].evidence]
    <3>1. b \in DOMAIN attempts /\ ChecksComplete(b) /\ calls[t].evidence = ListEvidence(b)
      BY <2>5 DEF EvidenceInv, FinalisationsAreCurrent, Current, TypeOK, CallsOK, CallNamesRows, Idle
    <3>2. Rests(b, row, ListEvidence(b)) BY <3>1 DEF ChecksComplete
    <3>3. DOMAIN results' = DOMAIN results \cup {b} /\ results'[b] = row
          /\ \A a \in DOMAIN results : a # b => results'[a] = results[a]
      <4> HIDE DEF row, b
      <4> QED BY <2>5 DEF Insert, row, b
    <3> HIDE DEF row, b
    <3>4. ASSUME NEW a \in DOMAIN results'
          PROVE  Rests(a, results'[a], ListEvidence(a)) /\ a \in DOMAIN attempts
                 /\ ChecksComplete(a)
      BY <2>1, <2>3, <3>1, <3>2, <3>3
    <3>5. ASSUME NEW a \in DOMAIN results'
          PROVE  ListEvidence(a)' = ListEvidence(a)
                 /\ attempts'[a].target = attempts[a].target
      BY <2>2, <3>4
    <3> QED BY <3>4, <3>5 DEF ResultsRestOnEvidence
  <2> QED BY <2>4, <2>5, ResultChanges
<1> QED BY <1>1, <1>3, <1>4, <1>5 DEF EvidenceInv

\* A result rests on exactly the evidence of its execution, for good: the set is
\* complete, and the verdict is the one its comparison gives.
THEOREM ResultsStaySupported == Spec => []ResultsRestOnEvidence
<1>1. Init => EvidenceInv
  <2>1. DOMAIN << >> = {} OBVIOUS
  <2> QED BY <2>1 DEF Init, EvidenceInv, EvidenceIsRequired, CapturesAreRequired,
                      FinalisationsAreCurrent, ResultsRestOnEvidence, Idle
<1>2. TypeOK /\ EvidenceInv /\ [Next]_vars => EvidenceInv' BY EvidenceInvKept
<1>3. EvidenceInv => ResultsRestOnEvidence BY DEF EvidenceInv
<1> QED BY <1>1, <1>2, <1>3, RowsAreWellFormed, PTL DEF Spec

-----------------------------------------------------------------------------
(* Suspensions after entry resolve.  SuspendCommits writes the attempt's row *)
(* from the copy it read, so the invariant is about the copies: one that     *)
(* says the attempt is bound names the run of its execution.                 *)

AttemptsNameExecutions ==
    \A a \in DOMAIN attempts : attempts[a].bound =>
        a \in DOMAIN executions /\ executions[a].run = attempts[a].run

ExecutionsAreStarted ==
    \A a \in DOMAIN executions : attempts[a].status # "NOT_STARTED"

CopiesNameExecutions ==
    \A t \in Threads : calls[t].op = "SUSPEND" =>
        /\ calls[t].bound =>
               /\ calls[t].attempt \in DOMAIN executions
               /\ executions[calls[t].attempt].run = calls[t].run
        /\ calls[t].position # "PRE_EXECUTION_ENTRY" => calls[t].bound

BindingInv ==
    /\ AttemptsNameExecutions
    /\ ExecutionsAreStarted
    /\ CopiesNameExecutions
    /\ LinkedSuspensionsResolve

\* An execution keeps its run.
LEMMA ExecutionsKeepRun ==
    ASSUME TypeOK, ExecutionsAreStarted, [Next]_vars, NEW a \in DOMAIN executions
    PROVE  a \in DOMAIN executions' /\ executions'[a].run = executions[a].run
<1>1. executions[a] \in ExecutionRows BY DEF TypeOK, RowsOK
<1>2. CASE UNCHANGED executions BY <1>2
<1>3. UNCHANGED tables => UNCHANGED executions BY DEF tables
<1>4. ASSUME NEW b \in Attempts, NEW target \in Targets,
             \/ PrepareAttempt(b, target)
             \/ \E t \in Threads, run \in Runs, source \in Attempts \cup {NoAttempt} :
                    StartSelects(t, b, target, run, source)
      PROVE  UNCHANGED executions
  BY <1>4 DEF PrepareAttempt, StartSelects
<1>5. ASSUME NEW b \in Attempts, NEW run \in Runs, EnterAttempt(b, run)
      PROVE  UNCHANGED executions
  BY <1>5 DEF EnterAttempt
<1>6. ASSUME NEW t \in Threads,
             StartFreezesBaseline(t) \/ CaptureInserts(t) \/ SuspendCommits(t)
      PROVE  UNCHANGED executions
  BY <1>6 DEF StartFreezesBaseline, CaptureInserts, SuspendCommits
<1>7. ASSUME NEW t \in Threads, StartBinds(t)
      PROVE  a \in DOMAIN executions' /\ executions'[a].run = executions[a].run
  <2>1. a # calls[t].attempt BY <1>7 DEF StartBinds, ExecutionsAreStarted
  <2> QED BY <1>7, <2>1 DEF StartBinds, Insert
<1>8. ASSUME NEW t \in Threads, FinaliseCommits(t)
      PROVE  a \in DOMAIN executions' /\ executions'[a].run = executions[a].run
  BY <1>1, <1>8 DEF FinaliseCommits, ExecutionRows
<1> QED BY <1>2, <1>3, <1>4, <1>5, <1>6, <1>7, <1>8, StepCases

\* The suspensions change only by a commit.
LEMMA SuspensionChanges ==
    ASSUME [Next]_vars
    PROVE  \/ UNCHANGED suspensions
           \/ \E t \in Threads : SuspendCommits(t)
<1>1. UNCHANGED tables => UNCHANGED suspensions BY DEF tables
<1>2. ASSUME NEW b \in Attempts, NEW target \in Targets,
             \/ PrepareAttempt(b, target)
             \/ \E t \in Threads, run \in Runs, source \in Attempts \cup {NoAttempt} :
                    StartSelects(t, b, target, run, source)
      PROVE  UNCHANGED suspensions
  BY <1>2 DEF PrepareAttempt, StartSelects
<1>3. ASSUME NEW b \in Attempts, NEW run \in Runs, EnterAttempt(b, run)
      PROVE  UNCHANGED suspensions
  BY <1>3 DEF EnterAttempt
<1>4. ASSUME NEW t \in Threads,
             StartFreezesBaseline(t) \/ StartBinds(t) \/ CaptureInserts(t) \/ FinaliseCommits(t)
      PROVE  UNCHANGED suspensions
  BY <1>4 DEF StartFreezesBaseline, StartBinds, CaptureInserts, FinaliseCommits
<1> QED BY <1>1, <1>2, <1>3, <1>4, StepCases

\* What a commit does to the row of the attempt it suspends, and to the others.
LEMMA SuspendedAttempt ==
    ASSUME TypeOK, NEW t \in Threads, SuspendCommits(t), ~UNCHANGED <<attempts, suspensions>>
    PROVE  LET call == calls[t]
               a == call.attempt
           IN  /\ a \in DOMAIN attempts /\ DOMAIN attempts' = DOMAIN attempts
               /\ attempts'[a].run = call.run /\ attempts'[a].bound = call.bound
               /\ attempts'[a].status = "SUSPENDED"
               /\ \A b \in DOMAIN attempts : b # a => attempts'[b] = attempts[b]
               /\ DOMAIN suspensions' = DOMAIN suspensions \cup {a}
               /\ suspensions'[a].linked <=> call.position # "PRE_EXECUTION_ENTRY"
               /\ suspensions'[a].linked => suspensions'[a].run = call.run
<1> DEFINE call == calls[t]
           a == call.attempt
           row == [attempts[a] EXCEPT !.status = "SUSPENDED", !.run = call.run,
                                      !.bound = call.bound]
           linked == call.position # "PRE_EXECUTION_ENTRY"
           record == [position |-> call.position, linked |-> linked,
                      run |-> IF linked THEN call.run ELSE NoRun]
<1>1. call \in Calls /\ CallNamesRows(t) /\ call.op = "SUSPEND"
  BY DEF TypeOK, CallsOK, SuspendCommits
<1>2. a \in DOMAIN attempts BY <1>1, CallFields DEF CallNamesRows, Idle
<1>3. row.status = "SUSPENDED" /\ row.run = call.run /\ row.bound = call.bound
  <2>1. attempts[a] \in AttemptRows BY <1>2 DEF TypeOK, RowsOK
  <2>2. ASSUME NEW r \in AttemptRows, NEW run, NEW bound
        PROVE  LET s == [r EXCEPT !.status = "SUSPENDED", !.run = run, !.bound = bound]
               IN  s.status = "SUSPENDED" /\ s.run = run /\ s.bound = bound
    BY DEF AttemptRows
  <2> HIDE DEF a, call
  <2> QED BY <2>1, <2>2
<1>4. (record.linked <=> linked) /\ (record.linked => record.run = call.run)
  OBVIOUS
<1>5. attempts' = [attempts EXCEPT ![a] = row] /\ suspensions' = Insert(suspensions, a, record)
  BY DEF SuspendCommits
<1> HIDE DEF row, record
<1>6. DOMAIN attempts' = DOMAIN attempts /\ attempts'[a] = row
      /\ \A b \in DOMAIN attempts : b # a => attempts'[b] = attempts[b]
  BY <1>2, <1>5
<1>7. DOMAIN suspensions' = DOMAIN suspensions \cup {a} /\ suspensions'[a] = record
  BY <1>5 DEF Insert
<1> QED BY <1>2, <1>3, <1>4, <1>6, <1>7

\* A row of an attempt changes with its binding, or not at all.
LEMMA BoundRows ==
    ASSUME TypeOK, BindingInv, [Next]_vars, NEW a \in DOMAIN attempts'
    PROVE  /\ attempts'[a].bound =>
                  a \in DOMAIN executions' /\ executions'[a].run = attempts'[a].run
           /\ a \in DOMAIN executions' => attempts'[a].status # "NOT_STARTED"
<1> DEFINE Goal == /\ attempts'[a].bound =>
                          a \in DOMAIN executions' /\ executions'[a].run = attempts'[a].run
                   /\ a \in DOMAIN executions' => attempts'[a].status # "NOT_STARTED"
<1>1. ASSUME a \in DOMAIN attempts, attempts'[a] = attempts[a],
             a \in DOMAIN executions' => a \in DOMAIN executions
      PROVE  Goal
  BY <1>1, ExecutionsKeepRun
     DEF BindingInv, AttemptsNameExecutions, ExecutionsAreStarted
<1>2. CASE UNCHANGED tables BY <1>1, <1>2 DEF tables
<1>3. ASSUME NEW b \in Attempts, NEW target, NEW known, b \notin DOMAIN attempts,
             attempts' = Insert(attempts, b, NewAttempt(target, known)), UNCHANGED executions
      PROVE  Goal
  <2>1. b \notin DOMAIN executions BY <1>3 DEF TypeOK, RowsOK
  <2>2. CASE a = b
    <3>1. attempts'[a] = NewAttempt(target, known) BY <1>3, <2>2 DEF Insert
    <3>2. attempts'[a].bound = FALSE BY <3>1 DEF NewAttempt
    <3> QED BY <1>3, <2>1, <2>2, <3>2
  <2>3. CASE a # b
    <3>1. a \in DOMAIN attempts /\ attempts'[a] = attempts[a] BY <1>3, <2>3 DEF Insert
    <3> QED BY <1>1, <1>3, <3>1
  <2> QED BY <2>2, <2>3
<1>4. ASSUME NEW b \in Attempts, NEW target \in Targets,
             \/ PrepareAttempt(b, target)
             \/ \E t \in Threads, run \in Runs, source \in Attempts \cup {NoAttempt} :
                    StartSelects(t, b, target, run, source)
      PROVE  Goal
  BY <1>3, <1>4 DEF PrepareAttempt, StartSelects
<1>5. ASSUME NEW b \in Attempts, NEW run \in Runs, EnterAttempt(b, run)
      PROVE  Goal
  <2>1. UNCHANGED executions /\ DOMAIN attempts' = DOMAIN attempts BY <1>5 DEF EnterAttempt
  <2>2. CASE a = b
    <3>1. attempts[a] \in AttemptRows BY <2>1 DEF TypeOK, RowsOK
    <3>2. attempts'[a].status = "INCOMPLETE" /\ attempts'[a].bound = attempts[a].bound
      BY <1>5, <2>2, <3>1 DEF EnterAttempt, AttemptRows
    <3>3. a \notin DOMAIN executions
      BY <1>5, <2>2 DEF EnterAttempt, BindingInv, ExecutionsAreStarted
    <3>4. ~attempts[a].bound BY <2>1, <3>3 DEF BindingInv, AttemptsNameExecutions
    <3> QED BY <3>2, <3>4
  <2>3. CASE a # b
    <3>1. a \in DOMAIN attempts /\ attempts'[a] = attempts[a]
      BY <1>5, <2>1, <2>3 DEF EnterAttempt
    <3> QED BY <1>1, <2>1, <3>1
  <2> QED BY <2>2, <2>3
<1>6. ASSUME NEW t \in Threads, StartFreezesBaseline(t) \/ CaptureInserts(t)
      PROVE  Goal
  <2>1. UNCHANGED <<attempts, executions>> BY <1>6 DEF StartFreezesBaseline, CaptureInserts
  <2> QED BY <1>1, <2>1
<1>7. ASSUME NEW t \in Threads, StartBinds(t)
      PROVE  Goal
  <2> DEFINE b == calls[t].attempt
  <2>1. b \in DOMAIN attempts
    BY <1>7 DEF StartBinds, TypeOK, CallsOK, CallNamesRows, Idle
  <2>2. DOMAIN attempts' = DOMAIN attempts BY <1>7 DEF StartBinds
  <2>3. DOMAIN executions' = DOMAIN executions \cup {b}
        /\ executions'[b].run = calls[t].run
    BY <1>7 DEF StartBinds, Insert
  <2>4. CASE a = b
    <3>1. attempts[a] \in AttemptRows BY <2>2 DEF TypeOK, RowsOK
    <3>2. attempts'[a].run = calls[t].run /\ attempts'[a].status = "ACTIVE"
      BY <1>7, <2>2, <2>4, <3>1 DEF StartBinds, AttemptRows
    <3> HIDE DEF b
    <3> QED BY <2>3, <2>4, <3>2
  <2>5. CASE a # b
    <3>1. attempts'[a] = attempts[a] BY <1>7, <2>2, <2>5 DEF StartBinds
    <3> HIDE DEF b
    <3> QED BY <1>1, <2>2, <2>3, <2>5, <3>1
  <2> QED BY <2>4, <2>5
<1>8. ASSUME NEW t \in Threads, FinaliseCommits(t)
      PROVE  Goal
  <2> DEFINE b == calls[t].attempt
  <2>1. CASE UNCHANGED <<attempts, executions>> BY <1>1, <2>1
  <2>2. CASE attempts' = [attempts EXCEPT ![b].status = "EXECUTED"]
             /\ executions' = [executions EXCEPT ![b].status = "FINALISED"]
    <3>1. DOMAIN attempts' = DOMAIN attempts /\ DOMAIN executions' = DOMAIN executions
      BY <2>2
    <3>2. attempts[a] \in AttemptRows BY <3>1 DEF TypeOK, RowsOK
    <3>3. attempts'[a].run = attempts[a].run /\ attempts'[a].bound = attempts[a].bound
          /\ (attempts'[a].status = attempts[a].status \/ attempts'[a].status = "EXECUTED")
      BY <2>2, <3>1, <3>2 DEF AttemptRows
    <3> HIDE DEF b
    <3> QED BY <3>1, <3>3, ExecutionsKeepRun
            DEF BindingInv, AttemptsNameExecutions, ExecutionsAreStarted
  <2> QED BY <1>8, <2>1, <2>2 DEF FinaliseCommits
<1>9. ASSUME NEW t \in Threads, SuspendCommits(t)
      PROVE  Goal
  <2> DEFINE b == calls[t].attempt
  <2>1. UNCHANGED executions BY <1>9 DEF SuspendCommits
  <2>2. CASE UNCHANGED attempts BY <1>1, <2>1, <2>2
  <2>3. CASE ~UNCHANGED attempts
    <3>1. /\ DOMAIN attempts' = DOMAIN attempts
          /\ attempts'[b].run = calls[t].run /\ attempts'[b].bound = calls[t].bound
          /\ attempts'[b].status = "SUSPENDED"
          /\ \A d \in DOMAIN attempts : d # b => attempts'[d] = attempts[d]
      BY <1>9, <2>3, SuspendedAttempt
    <3>2. calls[t].bound => b \in DOMAIN executions /\ executions[b].run = calls[t].run
      BY <1>9 DEF SuspendCommits, BindingInv, CopiesNameExecutions
    <3> HIDE DEF b
    <3> QED BY <1>1, <2>1, <3>1, <3>2
  <2> QED BY <2>2, <2>3
<1> QED BY <1>2, <1>4, <1>5, <1>6, <1>7, <1>8, <1>9, StepCases

\* A suspension that is under way has just read its copy, or had read it before.
LEMMA CopyChanges ==
    ASSUME TypeOK, [Next]_vars, NEW u \in Threads, calls'[u].op = "SUSPEND"
    PROVE  \/ calls'[u] = calls[u]
           \/ \E a \in Attempts, position \in Positions : SuspendReads(u, a, position)
<1>1. calls \in [Threads -> Calls] BY DEF TypeOK, CallsOK
<1>2. ASSUME NEW t \in Threads, NEW call, Begin(t, call)
      PROVE  calls'[u] = IF u = t THEN call ELSE calls[u]
  BY <1>1, <1>2 DEF Begin
<1>3. Idle.op = "IDLE" BY DEF Idle
<1>4. ASSUME NEW t \in Threads, Return(t) PROVE calls'[u] = calls[u]
  BY <1>2, <1>3, <1>4 DEF Return
<1>5. CASE UNCHANGED calls BY <1>5
<1>6. CASE Crash BY <1>3, <1>6 DEF Crash
<1>7. ASSUME NEW t \in Threads,
             StartBinds(t) \/ CaptureInserts(t) \/ FinaliseCommits(t) \/ SuspendCommits(t)
      PROVE  calls'[u] = calls[u]
  BY <1>4, <1>7 DEF StartBinds, CaptureInserts, FinaliseCommits, SuspendCommits
<1>8. ASSUME NEW t \in Threads, StartFreezesBaseline(t)
      PROVE  calls'[u] = calls[u]
  <2> DEFINE next == [calls[t] EXCEPT !.op = "BIND"]
  <2>1. calls[t] \in [op : {"BASELINE", "BIND"}, attempt : Attempts, run : Runs,
                      source : Attempts \cup {NoAttempt}]
    <3>1. calls[t] \in Calls BY <1>1
    <3> QED BY <1>8, <3>1 DEF StartFreezesBaseline, Calls, Idle
  <2>2. next.op = "BIND" BY <2>1
  <2>3. CASE Begin(t, next)
    <3> HIDE DEF next
    <3> QED BY <1>2, <2>2, <2>3
  <2>4. CASE Return(t) BY <1>4, <2>4
  <2> QED BY <1>8, <2>3, <2>4 DEF StartFreezesBaseline
<1>9. ASSUME NEW t \in Threads, NEW a \in Attempts, NEW target \in Targets, NEW run \in Runs,
             NEW source \in Attempts \cup {NoAttempt}, StartSelects(t, a, target, run, source)
      PROVE  calls'[u] = calls[u]
  BY <1>2, <1>9 DEF StartSelects
<1>10. ASSUME NEW t \in Threads, NEW a \in Attempts, NEW position \in Positions,
              SuspendReads(t, a, position), u # t
       PROVE  calls'[u] = calls[u]
  BY <1>2, <1>10 DEF SuspendReads
<1>11. ASSUME NEW t \in Threads, NEW a \in Attempts, NEW c \in Checkpoints,
              CaptureReads(t, a, c) \/ FinaliseReads(t, a, c)
       PROVE  calls'[u] = calls[u]
  BY <1>2, <1>11 DEF CaptureReads, FinaliseReads
<1>12. ASSUME NEW a \in Attempts, NEW target \in Targets, PrepareAttempt(a, target)
       PROVE  UNCHANGED calls
  BY <1>12 DEF PrepareAttempt
<1>13. ASSUME NEW a \in Attempts, NEW run \in Runs, EnterAttempt(a, run)
       PROVE  UNCHANGED calls
  BY <1>13 DEF EnterAttempt
<1>14. UNCHANGED vars => UNCHANGED calls BY DEF vars
<1> QED BY <1>5, <1>6, <1>7, <1>8, <1>9, <1>10, <1>11, <1>12, <1>13, <1>14 DEF Next, Step

LEMMA BindingInvKept ==
    ASSUME TypeOK, OneOutcome, BindingInv, [Next]_vars
    PROVE  BindingInv'
<1>1. AttemptsNameExecutions'
  BY BoundRows DEF AttemptsNameExecutions
<1>2. ExecutionsAreStarted'
  <2>1. TypeOK' BY NextTyped
  <2> QED BY <2>1, BoundRows DEF ExecutionsAreStarted, TypeOK, RowsOK
<1>3. CopiesNameExecutions'
  <2> SUFFICES ASSUME NEW u \in Threads, calls'[u].op = "SUSPEND"
               PROVE  /\ calls'[u].bound =>
                             /\ calls'[u].attempt \in DOMAIN executions'
                             /\ executions'[calls'[u].attempt].run = calls'[u].run
                      /\ calls'[u].position # "PRE_EXECUTION_ENTRY" => calls'[u].bound
    BY DEF CopiesNameExecutions
  <2>1. CASE calls'[u] = calls[u]
    BY <2>1, ExecutionsKeepRun DEF BindingInv, CopiesNameExecutions
  <2>2. ASSUME NEW a \in Attempts, NEW position \in Positions, SuspendReads(u, a, position)
        PROVE  /\ calls'[u].bound =>
                      /\ calls'[u].attempt \in DOMAIN executions'
                      /\ executions'[calls'[u].attempt].run = calls'[u].run
               /\ calls'[u].position # "PRE_EXECUTION_ENTRY" => calls'[u].bound
    <3>1. calls'[u] = [op |-> "SUSPEND", attempt |-> a, position |-> position,
                       run |-> attempts[a].run, bound |-> attempts[a].bound]
      BY <2>2 DEF SuspendReads, Begin, TypeOK, CallsOK
    <3>2. UNCHANGED executions /\ a \in DOMAIN attempts BY <2>2 DEF SuspendReads, tables
    <3>3. position # "PRE_EXECUTION_ENTRY" => attempts[a].bound
      BY <2>2 DEF SuspendReads, SuspensionBinds
    <3>4. attempts[a].bound => a \in DOMAIN executions /\ executions[a].run = attempts[a].run
      BY <3>2 DEF BindingInv, AttemptsNameExecutions
    <3>5. /\ calls'[u].attempt = a /\ calls'[u].position = position
          /\ calls'[u].run = attempts[a].run /\ calls'[u].bound = attempts[a].bound
      BY <3>1
    <3> QED BY <3>2, <3>3, <3>4, <3>5
  <2> QED BY <2>1, <2>2, CopyChanges
<1>4. LinkedSuspensionsResolve'
  <2> SUFFICES ASSUME NEW a \in DOMAIN suspensions', suspensions'[a].linked
               PROVE  /\ a \in DOMAIN executions'
                      /\ attempts'[a].bound
                      /\ suspensions'[a].run = attempts'[a].run
                      /\ suspensions'[a].run = executions'[a].run
    BY DEF LinkedSuspensionsResolve
  <2>1. CASE a \in DOMAIN suspensions
    <3>1. a \in DOMAIN attempts /\ attempts[a].status = "SUSPENDED"
      BY <2>1 DEF TypeOK, RowsOK, OneOutcome
    <3>2. Untouched(a) BY <3>1, ClosedIsUntouched
    <3> QED BY <2>1, <3>2 DEF Untouched, BindingInv, LinkedSuspensionsResolve
  <2>2. ASSUME a \notin DOMAIN suspensions, NEW t \in Threads, SuspendCommits(t)
        PROVE  /\ a \in DOMAIN executions'
               /\ attempts'[a].bound
               /\ suspensions'[a].run = attempts'[a].run
               /\ suspensions'[a].run = executions'[a].run
    <3> DEFINE b == calls[t].attempt
    <3>1. /\ DOMAIN suspensions' = DOMAIN suspensions \cup {b}
          /\ suspensions'[b].linked => calls[t].position # "PRE_EXECUTION_ENTRY"
          /\ suspensions'[b].linked => suspensions'[b].run = calls[t].run
          /\ attempts'[b].run = calls[t].run /\ attempts'[b].bound = calls[t].bound
      BY <2>2, SuspendedAttempt
    <3>2. calls[t].op = "SUSPEND" /\ UNCHANGED executions BY <2>2 DEF SuspendCommits
    <3>3. calls[t].position # "PRE_EXECUTION_ENTRY" =>
              /\ calls[t].bound /\ b \in DOMAIN executions
              /\ executions[b].run = calls[t].run
      BY <3>2 DEF BindingInv, CopiesNameExecutions
    <3>4. a = b BY <2>2, <3>1
    <3> HIDE DEF b
    <3> QED BY <3>1, <3>2, <3>3, <3>4
  <2> QED BY <2>1, <2>2, SuspensionChanges
<1> QED BY <1>1, <1>2, <1>3, <1>4 DEF BindingInv

\* A record of a suspension after entry resolves for good: its attempt goes on
\* naming the run and the execution it names.
THEOREM LinkedSuspensionsStayResolved == Spec => []LinkedSuspensionsResolve
<1>1. Init => BindingInv
  <2>1. DOMAIN << >> = {} OBVIOUS
  <2> QED BY <2>1 DEF Init, BindingInv, AttemptsNameExecutions, ExecutionsAreStarted,
                      CopiesNameExecutions, LinkedSuspensionsResolve, Idle
<1>2. TypeOK /\ OneOutcome /\ BindingInv /\ [Next]_vars => BindingInv' BY BindingInvKept
<1>3. BindingInv => LinkedSuspensionsResolve BY DEF BindingInv
<1> QED BY <1>1, <1>2, <1>3, RowsAreWellFormed, AttemptsHaveOneOutcome, PTL DEF Spec

-----------------------------------------------------------------------------
(* Repeats are of finished executions.                                     *)

\* What a call that starts a repeat of source as a has made sure of.
RepeatsFinished(a, source) ==
    /\ source \in DOMAIN results
    /\ TestOf[attempts[source].target] = TestOf[attempts[a].target]

FrozenFor(a, source) == source \in DOMAIN baselines /\ baselines[source] = a

\* The calls that start a repeat go on to one of a finished execution, for which
\* the baseline is frozen before the execution is bound.
PendingRepeats ==
    \A t \in Threads :
        LET call == calls[t] IN
        /\ call.op = "BASELINE" => RepeatsFinished(call.attempt, call.source)
        /\ call.op = "BIND" /\ call.source # NoAttempt =>
               /\ RepeatsFinished(call.attempt, call.source)
               /\ FrozenFor(call.attempt, call.source)

RepeatInv == PendingRepeats /\ RepeatsAreOfFinished

\* Results, targets and baselines stay, so what a call has made sure of does.
LEMMA RepeatsFinishedKept ==
    ASSUME TypeOK, [Next]_vars, NEW a \in DOMAIN attempts, NEW source, RepeatsFinished(a, source)
    PROVE  source \in DOMAIN results'
           /\ TestOf[attempts'[source].target] = TestOf[attempts'[a].target]
<1>1. source \in DOMAIN results' BY ResultChanges DEF RepeatsFinished, Insert
<1>2. source \in DOMAIN attempts BY DEF RepeatsFinished, TypeOK, RowsOK
<1>3. /\ attempts'[a].target = attempts[a].target
      /\ attempts'[source].target = attempts[source].target
  BY <1>2, TargetsKept
<1> QED BY <1>1, <1>3 DEF RepeatsFinished

\* The baselines change only by a freeze, which finds none of that source.
LEMMA BaselineChanges ==
    ASSUME [Next]_vars
    PROVE  \/ UNCHANGED baselines
           \/ \E t \in Threads :
                  /\ StartFreezesBaseline(t)
                  /\ calls[t].source \notin DOMAIN baselines
                  /\ baselines' = Insert(baselines, calls[t].source, calls[t].attempt)
<1>1. UNCHANGED tables => UNCHANGED baselines BY DEF tables
<1>2. ASSUME NEW b \in Attempts, NEW target \in Targets,
             \/ PrepareAttempt(b, target)
             \/ \E t \in Threads, run \in Runs, source \in Attempts \cup {NoAttempt} :
                    StartSelects(t, b, target, run, source)
      PROVE  UNCHANGED baselines
  BY <1>2 DEF PrepareAttempt, StartSelects
<1>3. ASSUME NEW b \in Attempts, NEW run \in Runs, EnterAttempt(b, run)
      PROVE  UNCHANGED baselines
  BY <1>3 DEF EnterAttempt
<1>4. ASSUME NEW t \in Threads,
             StartBinds(t) \/ CaptureInserts(t) \/ FinaliseCommits(t) \/ SuspendCommits(t)
      PROVE  UNCHANGED baselines
  BY <1>4 DEF StartBinds, CaptureInserts, FinaliseCommits, SuspendCommits
<1>5. ASSUME NEW t \in Threads, StartFreezesBaseline(t)
      PROVE  \/ UNCHANGED baselines
             \/ /\ calls[t].source \notin DOMAIN baselines
                /\ baselines' = Insert(baselines, calls[t].source, calls[t].attempt)
  BY <1>5 DEF StartFreezesBaseline, BaselineIsFree
<1> QED BY <1>1, <1>2, <1>3, <1>4, <1>5, StepCases

LEMMA FrozenForKept ==
    ASSUME [Next]_vars, NEW a, NEW source, FrozenFor(a, source)
    PROVE  source \in DOMAIN baselines' /\ baselines'[source] = a
BY BaselineChanges DEF FrozenFor, Insert

\* An execution is one there was, with the same source, or has just been bound.
LEMMA ExecutionChanges ==
    ASSUME TypeOK, [Next]_vars, NEW a \in DOMAIN executions'
    PROVE  \/ a \in DOMAIN executions /\ executions'[a].source = executions[a].source
           \/ \E t \in Threads :
                  /\ calls[t].op = "BIND" /\ calls[t].attempt = a
                  /\ executions'[a].source = calls[t].source
<1> DEFINE Goal == \/ a \in DOMAIN executions /\ executions'[a].source = executions[a].source
                   \/ \E t \in Threads :
                          /\ calls[t].op = "BIND" /\ calls[t].attempt = a
                          /\ executions'[a].source = calls[t].source
<1>1. CASE UNCHANGED executions BY <1>1
<1>2. UNCHANGED tables => UNCHANGED executions BY DEF tables
<1>3. ASSUME NEW b \in Attempts, NEW target \in Targets,
             \/ PrepareAttempt(b, target)
             \/ \E t \in Threads, run \in Runs, source \in Attempts \cup {NoAttempt} :
                    StartSelects(t, b, target, run, source)
      PROVE  UNCHANGED executions
  BY <1>3 DEF PrepareAttempt, StartSelects
<1>4. ASSUME NEW b \in Attempts, NEW run \in Runs, EnterAttempt(b, run)
      PROVE  UNCHANGED executions
  BY <1>4 DEF EnterAttempt
<1>5. ASSUME NEW t \in Threads,
             StartFreezesBaseline(t) \/ CaptureInserts(t) \/ SuspendCommits(t)
      PROVE  UNCHANGED executions
  BY <1>5 DEF StartFreezesBaseline, CaptureInserts, SuspendCommits
<1>6. ASSUME NEW t \in Threads, StartBinds(t) PROVE Goal
  <2>1. calls[t].op = "BIND" BY <1>6 DEF StartBinds
  <2>2. PICK row : executions' = Insert(executions, calls[t].attempt, row)
                   /\ row.source = calls[t].source
    BY <1>6 DEF StartBinds
  <2>3. CASE a = calls[t].attempt BY <2>1, <2>2, <2>3 DEF Insert
  <2>4. CASE a # calls[t].attempt BY <2>2, <2>4 DEF Insert
  <2> QED BY <2>3, <2>4
<1>7. ASSUME NEW t \in Threads, FinaliseCommits(t) PROVE Goal
  <2>1. DOMAIN executions' = DOMAIN executions BY <1>7 DEF FinaliseCommits
  <2>2. executions[a] \in ExecutionRows BY <2>1 DEF TypeOK, RowsOK
  <2> QED BY <1>7, <2>1, <2>2 DEF FinaliseCommits, ExecutionRows
<1> QED BY <1>1, <1>2, <1>3, <1>4, <1>5, <1>6, <1>7, StepCases

\* A call that starts an execution was under way, has just selected its attempt,
\* or has just frozen the baseline.
LEMMA StartChanges ==
    ASSUME TypeOK, [Next]_vars, NEW u \in Threads, calls'[u].op \in {"BASELINE", "BIND"}
    PROVE  \/ calls'[u] = calls[u]
           \/ \E a \in Attempts, target \in Targets, run \in Runs,
                 source \in Attempts \cup {NoAttempt} : StartSelects(u, a, target, run, source)
           \/ /\ StartFreezesBaseline(u)
              /\ calls'[u].op = "BIND"
              /\ calls'[u].attempt = calls[u].attempt /\ calls'[u].source = calls[u].source
              /\ calls'[u].run = calls[u].run
              /\ baselines' = Insert(baselines, calls[u].source, calls[u].attempt)
<1>1. calls \in [Threads -> Calls] BY DEF TypeOK, CallsOK
<1>2. ASSUME NEW t \in Threads, NEW call, Begin(t, call)
      PROVE  calls'[u] = IF u = t THEN call ELSE calls[u]
  BY <1>1, <1>2 DEF Begin
<1>3. Idle.op = "IDLE" BY DEF Idle
<1>4. ASSUME NEW t \in Threads, Return(t) PROVE calls'[u] = calls[u]
  BY <1>2, <1>3, <1>4 DEF Return
<1>5. CASE UNCHANGED calls BY <1>5
<1>6. CASE Crash BY <1>3, <1>6 DEF Crash
<1>7. ASSUME NEW t \in Threads,
             StartBinds(t) \/ CaptureInserts(t) \/ FinaliseCommits(t) \/ SuspendCommits(t)
      PROVE  calls'[u] = calls[u]
  BY <1>4, <1>7 DEF StartBinds, CaptureInserts, FinaliseCommits, SuspendCommits
<1>8. ASSUME NEW t \in Threads, StartFreezesBaseline(t)
      PROVE  \/ calls'[u] = calls[u]
             \/ /\ u = t
                /\ calls'[u].op = "BIND"
                /\ calls'[u].attempt = calls[u].attempt /\ calls'[u].source = calls[u].source
                /\ calls'[u].run = calls[u].run
                /\ baselines' = Insert(baselines, calls[u].source, calls[u].attempt)
  <2> DEFINE next == [calls[t] EXCEPT !.op = "BIND"]
  <2>1. calls[t] \in [op : {"BASELINE", "BIND"}, attempt : Attempts, run : Runs,
                      source : Attempts \cup {NoAttempt}]
    <3>1. calls[t] \in Calls BY <1>1
    <3> QED BY <1>8, <3>1 DEF StartFreezesBaseline, Calls, Idle
  <2>2. next.op = "BIND" /\ next.attempt = calls[t].attempt /\ next.source = calls[t].source
        /\ next.run = calls[t].run
    BY <2>1
  <2>3. CASE Begin(t, next) /\ baselines' = Insert(baselines, calls[t].source, calls[t].attempt)
    <3> HIDE DEF next
    <3> QED BY <1>2, <2>2, <2>3
  <2>4. CASE Return(t) BY <1>4, <2>4
  <2> QED BY <1>8, <2>3, <2>4 DEF StartFreezesBaseline
<1>9. ASSUME NEW t \in Threads, NEW a \in Attempts, NEW target \in Targets, NEW run \in Runs,
             NEW source \in Attempts \cup {NoAttempt}, StartSelects(t, a, target, run, source),
             u # t
      PROVE  calls'[u] = calls[u]
  BY <1>2, <1>9 DEF StartSelects
<1>10. ASSUME NEW t \in Threads, NEW a \in Attempts, NEW position \in Positions,
              SuspendReads(t, a, position)
       PROVE  calls'[u] = calls[u]
  BY <1>2, <1>10 DEF SuspendReads
<1>11. ASSUME NEW t \in Threads, NEW a \in Attempts, NEW c \in Checkpoints,
              CaptureReads(t, a, c) \/ FinaliseReads(t, a, c)
       PROVE  calls'[u] = calls[u]
  BY <1>2, <1>11 DEF CaptureReads, FinaliseReads
<1>12. ASSUME NEW a \in Attempts, NEW target \in Targets, PrepareAttempt(a, target)
       PROVE  UNCHANGED calls
  BY <1>12 DEF PrepareAttempt
<1>13. ASSUME NEW a \in Attempts, NEW run \in Runs, EnterAttempt(a, run)
       PROVE  UNCHANGED calls
  BY <1>13 DEF EnterAttempt
<1>14. UNCHANGED vars => UNCHANGED calls BY DEF vars
<1> QED BY <1>5, <1>6, <1>7, <1>8, <1>9, <1>10, <1>11, <1>12, <1>13, <1>14 DEF Next, Step

LEMMA RepeatInvKept ==
    ASSUME TypeOK, OneOutcome, RepeatInv, [Next]_vars
    PROVE  RepeatInv'
<1>1. PendingRepeats'
  <2> DEFINE Checked(a, source) ==
                 source \in DOMAIN results'
                 /\ TestOf[attempts'[source].target] = TestOf[attempts'[a].target]
             Frozen(a, source) == source \in DOMAIN baselines' /\ baselines'[source] = a
  <2> SUFFICES ASSUME NEW u \in Threads, NEW a, NEW source,
                      calls'[u].op \in {"BASELINE", "BIND"},
                      a = calls'[u].attempt, source = calls'[u].source
               PROVE  /\ calls'[u].op = "BASELINE" => Checked(a, source)
                      /\ calls'[u].op = "BIND" /\ source # NoAttempt =>
                             Checked(a, source) /\ Frozen(a, source)
    BY DEF PendingRepeats, RepeatsFinished, FrozenFor
  <2>1. CASE calls'[u] = calls[u]
    <3>1. a \in DOMAIN attempts
      BY <2>1 DEF TypeOK, CallsOK, CallNamesRows, Idle
    <3>2. /\ calls[u].op = "BASELINE" => RepeatsFinished(a, source)
          /\ calls[u].op = "BIND" /\ source # NoAttempt =>
                 RepeatsFinished(a, source) /\ FrozenFor(a, source)
      BY <2>1 DEF RepeatInv, PendingRepeats
    <3> QED BY RepeatsFinishedKept, FrozenForKept, <2>1, <3>1, <3>2
  <2>2. ASSUME NEW b \in Attempts, NEW target \in Targets, NEW run \in Runs,
               NEW from \in Attempts \cup {NoAttempt}, StartSelects(u, b, target, run, from)
        PROVE  source # NoAttempt => Checked(a, source) /\ calls'[u].op = "BASELINE"
    <3>1. calls'[u] = [op |-> IF from = NoAttempt THEN "BIND" ELSE "BASELINE",
                       attempt |-> b, run |-> run, source |-> from]
      BY <2>2 DEF StartSelects, Begin, TypeOK, CallsOK
    <3>2. a = b /\ source = from /\ (from # NoAttempt => calls'[u].op = "BASELINE")
      BY <3>1
    <3>3. /\ b \notin DOMAIN attempts
          /\ attempts' = Insert(attempts, b, NewAttempt(target, FALSE))
          /\ UNCHANGED results
      BY <2>2 DEF StartSelects
    <3>4. attempts'[b].target = target BY <3>3 DEF Insert, NewAttempt
    <3>5. from # NoAttempt =>
              /\ from \in DOMAIN results
              /\ from \in DOMAIN attempts
              /\ TestOf[attempts[from].target] = TestOf[target]
      BY <2>2 DEF StartSelects, RepeatIsAllowed, OneOutcome, TypeOK, RowsOK
    <3>6. from \in DOMAIN attempts => attempts'[from] = attempts[from]
      BY <3>3 DEF Insert
    <3> QED BY <3>2, <3>3, <3>4, <3>5, <3>6
  <2>3. ASSUME StartFreezesBaseline(u), calls'[u].op = "BIND",
               a = calls[u].attempt, source = calls[u].source,
               baselines' = Insert(baselines, source, a)
        PROVE  Checked(a, source) /\ Frozen(a, source)
    <3>1. calls[u].op = "BASELINE" BY <2>3 DEF StartFreezesBaseline
    <3>2. a \in DOMAIN attempts BY <2>3, <3>1 DEF TypeOK, CallsOK, CallNamesRows, Idle
    <3>3. RepeatsFinished(a, source) BY <2>3, <3>1 DEF RepeatInv, PendingRepeats
    <3>4. Frozen(a, source) BY <2>3 DEF Insert
    <3> QED BY RepeatsFinishedKept, <3>2, <3>3, <3>4
  <2>4. ASSUME NEW b \in Attempts, NEW target \in Targets, NEW run \in Runs,
               NEW from \in Attempts \cup {NoAttempt}, StartSelects(u, b, target, run, from)
        PROVE  source = NoAttempt => calls'[u].op = "BIND"
    <3>1. calls'[u] = [op |-> IF from = NoAttempt THEN "BIND" ELSE "BASELINE",
                       attempt |-> b, run |-> run, source |-> from]
      BY <2>4 DEF StartSelects, Begin, TypeOK, CallsOK
    <3> QED BY <3>1
  <2> HIDE DEF Checked, Frozen
  <2> QED BY <2>1, <2>2, <2>3, <2>4, StartChanges
<1>2. RepeatsAreOfFinished'
  <2> SUFFICES ASSUME NEW a \in DOMAIN executions', NEW source,
                      source = executions'[a].source, source # NoAttempt
               PROVE  /\ source \in DOMAIN results'
                      /\ TestOf[attempts'[source].target] = TestOf[attempts'[a].target]
                      /\ source \in DOMAIN baselines' /\ baselines'[source] = a
    BY DEF RepeatsAreOfFinished
  <2>1. a \in DOMAIN attempts /\ RepeatsFinished(a, source) /\ FrozenFor(a, source)
    <3>1. CASE a \in DOMAIN executions /\ executions'[a].source = executions[a].source
      BY <3>1 DEF RepeatInv, RepeatsAreOfFinished, RepeatsFinished, FrozenFor, TypeOK, RowsOK
    <3>2. ASSUME NEW t \in Threads, calls[t].op = "BIND", calls[t].attempt = a,
                 executions'[a].source = calls[t].source
          PROVE  a \in DOMAIN attempts /\ RepeatsFinished(a, source) /\ FrozenFor(a, source)
      BY <3>2 DEF RepeatInv, PendingRepeats, TypeOK, CallsOK, CallNamesRows, Idle
    <3> QED BY <3>1, <3>2, ExecutionChanges
  <2> QED BY RepeatsFinishedKept, FrozenForKept, <2>1
<1> QED BY <1>1, <1>2 DEF RepeatInv

\* Repeats form a history, for any number of callers that repeat the same execution:
\* what is repeated was finalised, keeps its test, and has the one repeat its baseline
\* was frozen for.
THEOREM RepeatsStayOfFinished == Spec => []RepeatsAreOfFinished
<1>1. Init => RepeatInv
  <2>1. DOMAIN << >> = {} OBVIOUS
  <2> QED BY <2>1 DEF Init, RepeatInv, PendingRepeats, RepeatsAreOfFinished, Idle
<1>2. TypeOK /\ OneOutcome /\ RepeatInv /\ [Next]_vars => RepeatInv' BY RepeatInvKept
<1>3. RepeatInv => RepeatsAreOfFinished BY DEF RepeatInv
<1> QED BY <1>1, <1>2, <1>3, RowsAreWellFormed, AttemptsHaveOneOutcome, PTL DEF Spec

-----------------------------------------------------------------------------
(* Attempts are atomic.  The operations of AtomicAttempts take place when    *)
(* the calls write.  What a call read holds when it writes: the call that    *)
(* starts an execution has its attempt to itself, and the copy a suspension  *)
(* writes back is of the run the attempt still has, or of none.              *)

\* What is known of the tables of the service.
ServiceInv ==
    /\ TypeOK /\ OneOutcome /\ EvidenceInv /\ BindingInv
    /\ \A a \in DOMAIN results : results[a].verdict \in {"PASS", "FAIL"}

LEMMA ServiceInitially == Init => ServiceInv
<1> SUFFICES ASSUME Init PROVE ServiceInv OBVIOUS
<1>1. DOMAIN << >> = {} OBVIOUS
<1>2. TypeOK BY InitTyped
<1>3. OneOutcome BY <1>1 DEF Init, OneOutcome
<1>4. EvidenceInv
  BY <1>1 DEF Init, EvidenceInv, EvidenceIsRequired, CapturesAreRequired,
              FinalisationsAreCurrent, ResultsRestOnEvidence, Idle
<1>5. BindingInv
  BY <1>1 DEF Init, BindingInv, AttemptsNameExecutions, ExecutionsAreStarted,
              CopiesNameExecutions, LinkedSuspensionsResolve, Idle
<1> QED BY <1>1, <1>2, <1>3, <1>4, <1>5 DEF Init, ServiceInv

LEMMA ServiceKept ==
    ASSUME ServiceInv, [Next]_vars
    PROVE  ServiceInv'
<1>1. TypeOK' BY NextTyped DEF ServiceInv
<1>2. OneOutcome' BY OneOutcomeKept DEF ServiceInv
<1>3. EvidenceInv' BY EvidenceInvKept DEF ServiceInv
<1>4. BindingInv' BY BindingInvKept DEF ServiceInv
<1>5. \A a \in DOMAIN results' : results'[a].verdict \in {"PASS", "FAIL"}
  <2>1. CASE UNCHANGED results BY <2>1 DEF ServiceInv
  <2>2. ASSUME NEW b, NEW row, row.verdict \in {"PASS", "FAIL"},
               results' = Insert(results, b, row)
        PROVE  \A a \in DOMAIN results' : results'[a].verdict \in {"PASS", "FAIL"}
    BY <2>2 DEF ServiceInv, Insert
  <2>3. \/ UNCHANGED results
        \/ \E b, row : row.verdict \in {"PASS", "FAIL"} /\ results' = Insert(results, b, row)
    <3>1. ASSUME NEW call, NEW seen,
                 results' = Insert(results, call.attempt,
                    [verdict |-> IF seen = "AGREES" THEN "PASS" ELSE "FAIL",
                     checkpoint |-> call.checkpoint, evidence |-> call.evidence])
          PROVE  \E b, row : row.verdict \in {"PASS", "FAIL"} /\ results' = Insert(results, b, row)
      <4> DEFINE row == [verdict |-> IF seen = "AGREES" THEN "PASS" ELSE "FAIL",
                         checkpoint |-> call.checkpoint, evidence |-> call.evidence]
      <4>1. row.verdict \in {"PASS", "FAIL"} OBVIOUS
      <4> HIDE DEF row
      <4>2. results' = Insert(results, call.attempt, row) BY <3>1 DEF row
      <4> QED BY <4>1, <4>2
    <3> QED BY <3>1, ResultChanges
  <2> QED BY <2>1, <2>2, <2>3
<1> QED BY <1>1, <1>2, <1>3, <1>4, <1>5 DEF ServiceInv

UnstartedHaveNoRun ==
    \A a \in DOMAIN attempts :
        attempts[a].status = "NOT_STARTED" => attempts[a].run = NoRun

\* The run of an execution that is being started is one its target accepts.
StartsFit ==
    \A t \in Threads : calls[t].op \in {"BASELINE", "BIND"} =>
        calls[t].run \in RunsFor[attempts[calls[t].attempt].target]

\* Until it is bound, an attempt is known to the call that starts it alone.
StartsAreUnknown ==
    \A t \in Threads : calls[t].op \in {"BASELINE", "BIND"} =>
        /\ ~attempts[calls[t].attempt].known
        /\ \A u \in Threads \ {t} : calls[u].op \in {"BASELINE", "BIND"} =>
               calls[u].attempt # calls[t].attempt

\* What a suspension has copied of an attempt that is not suspended meanwhile.
CopyFits(a, run) ==
    /\ attempts[a].known
    /\ attempts[a].status # "SUSPENDED" =>
           /\ run \in {attempts[a].run, NoRun}
           /\ a \in DOMAIN executions => run = attempts[a].run

CopiesFit ==
    \A t \in Threads : calls[t].op = "SUSPEND" => CopyFits(calls[t].attempt, calls[t].run)

AtomicInv ==
    /\ UnstartedHaveNoRun
    /\ StartsFit
    /\ StartsAreUnknown
    /\ CopiesFit

\* How a step may change the row of an attempt, or add it.
RowChange(a) ==
    \/ /\ a \in DOMAIN attempts /\ attempts'[a] = attempts[a]
    \/ /\ a \notin DOMAIN attempts
       /\ attempts'[a].status = "NOT_STARTED" /\ attempts'[a].run = NoRun
    \/ /\ a \in DOMAIN attempts /\ attempts[a].status = "NOT_STARTED"
       /\ attempts'[a].status = "INCOMPLETE" /\ attempts'[a].known = attempts[a].known
    \/ /\ a \in DOMAIN attempts /\ attempts'[a].status = "ACTIVE"
       /\ attempts'[a].known
       /\ \E t \in Threads : calls[t].op = "BIND" /\ calls[t].attempt = a /\ calls'[t] = Idle
    \/ /\ a \in DOMAIN attempts /\ attempts'[a].status = "EXECUTED"
       /\ attempts'[a].run = attempts[a].run /\ attempts'[a].known = attempts[a].known
    \/ /\ a \in DOMAIN attempts /\ attempts'[a].status = "SUSPENDED"
       /\ attempts'[a].known = attempts[a].known

LEMMA RowChanges ==
    ASSUME TypeOK, [Next]_vars, NEW a \in DOMAIN attempts'
    PROVE  RowChange(a)
<1>1. CASE UNCHANGED attempts BY <1>1 DEF RowChange
<1>2. UNCHANGED tables => UNCHANGED attempts BY DEF tables
<1>3. ASSUME NEW b \in Attempts, NEW target \in Targets, NEW known,
             b \notin DOMAIN attempts,
             attempts' = Insert(attempts, b, NewAttempt(target, known))
      PROVE  RowChange(a)
  <2> DEFINE row == NewAttempt(target, known)
  <2>1. row.status = "NOT_STARTED" /\ row.run = NoRun BY DEF NewAttempt
  <2> HIDE DEF row
  <2>2. DOMAIN attempts' = DOMAIN attempts \cup {b} /\ attempts'[b] = row
        /\ \A d \in DOMAIN attempts : attempts'[d] = attempts[d]
    BY <1>3 DEF Insert, row
  <2> QED BY <1>3, <2>1, <2>2 DEF RowChange
<1>4. ASSUME NEW b \in Attempts, NEW target \in Targets,
             \/ PrepareAttempt(b, target)
             \/ \E t \in Threads, run \in Runs, source \in Attempts \cup {NoAttempt} :
                    StartSelects(t, b, target, run, source)
      PROVE  RowChange(a)
  BY <1>3, <1>4 DEF PrepareAttempt, StartSelects
<1>5. ASSUME NEW b \in Attempts, NEW run \in Runs, EnterAttempt(b, run)
      PROVE  RowChange(a)
  <2>1. DOMAIN attempts' = DOMAIN attempts BY <1>5 DEF EnterAttempt
  <2>2. attempts[a] \in AttemptRows BY <2>1 DEF TypeOK, RowsOK
  <2> QED BY <1>5, <2>1, <2>2 DEF EnterAttempt, AttemptRows, RowChange
<1>6. ASSUME NEW t \in Threads, StartFreezesBaseline(t) \/ CaptureInserts(t)
      PROVE  UNCHANGED attempts
  BY <1>6 DEF StartFreezesBaseline, CaptureInserts
<1>7. ASSUME NEW t \in Threads, StartBinds(t)
      PROVE  RowChange(a)
  <2>1. DOMAIN attempts' = DOMAIN attempts BY <1>7 DEF StartBinds
  <2>2. attempts[a] \in AttemptRows BY <2>1 DEF TypeOK, RowsOK
  <2>3. CASE a = calls[t].attempt
    <3>1. attempts'[a].status = "ACTIVE" /\ attempts'[a].known
      BY <1>7, <2>1, <2>2, <2>3 DEF StartBinds, AttemptRows
    <3>2. calls'[t] = Idle /\ calls[t].op = "BIND"
      BY <1>7 DEF StartBinds, Return, Begin, TypeOK, CallsOK
    <3> QED BY <2>1, <2>3, <3>1, <3>2 DEF RowChange
  <2>4. CASE a # calls[t].attempt
    <3>1. attempts'[a] = attempts[a] BY <1>7, <2>1, <2>4 DEF StartBinds
    <3> QED BY <2>1, <3>1 DEF RowChange
  <2> QED BY <2>3, <2>4
<1>8. ASSUME NEW t \in Threads, FinaliseCommits(t)
      PROVE  RowChange(a)
  <2> DEFINE b == calls[t].attempt
  <2>1. CASE UNCHANGED attempts BY <1>1, <2>1
  <2>2. CASE attempts' = [attempts EXCEPT ![b].status = "EXECUTED"]
    <3>1. DOMAIN attempts' = DOMAIN attempts BY <2>2
    <3>2. attempts[a] \in AttemptRows BY <3>1 DEF TypeOK, RowsOK
    <3> HIDE DEF b
    <3>3. CASE a = b
      <4>1. attempts'[a].run = attempts[a].run /\ attempts'[a].known = attempts[a].known
            /\ attempts'[a].status = "EXECUTED"
        BY <2>2, <3>1, <3>2, <3>3 DEF AttemptRows
      <4> QED BY <3>1, <4>1 DEF RowChange
    <3>4. CASE a # b BY <2>2, <3>1, <3>4 DEF RowChange
    <3> QED BY <3>3, <3>4
  <2> QED BY <1>8, <2>1, <2>2 DEF FinaliseCommits
<1>9. ASSUME NEW t \in Threads, SuspendCommits(t)
      PROVE  RowChange(a)
  <2> DEFINE b == calls[t].attempt
             row == [attempts[b] EXCEPT !.status = "SUSPENDED", !.run = calls[t].run,
                                        !.bound = calls[t].bound]
  <2>1. CASE UNCHANGED attempts BY <1>1, <2>1
  <2>2. CASE attempts' = [attempts EXCEPT ![b] = row]
    <3> HIDE DEF row, b
    <3>1. DOMAIN attempts' = DOMAIN attempts BY <2>2
    <3>2. attempts[a] \in AttemptRows BY <3>1 DEF TypeOK, RowsOK
    <3>3. CASE a = b
      <4>1. ASSUME NEW r \in AttemptRows, NEW run, NEW bound
            PROVE  LET s == [r EXCEPT !.status = "SUSPENDED", !.run = run, !.bound = bound]
                   IN  s.status = "SUSPENDED" /\ s.known = r.known
        BY DEF AttemptRows
      <4>2. row.status = "SUSPENDED" /\ row.known = attempts[a].known
        BY <3>2, <3>3, <4>1 DEF row, b
      <4>3. attempts'[a] = row BY <2>2, <3>1, <3>3
      <4> QED BY <3>1, <4>2, <4>3 DEF RowChange
    <3>4. CASE a # b BY <2>2, <3>1, <3>4 DEF RowChange
    <3> QED BY <3>3, <3>4
  <2> QED BY <1>9, <2>1, <2>2 DEF SuspendCommits
<1> QED BY <1>1, <1>2, <1>4, <1>5, <1>6, <1>7, <1>8, <1>9, StepCases

\* What is known stays known, and only a binding makes it so.
LEMMA KnownKept ==
    ASSUME TypeOK, [Next]_vars, NEW a \in DOMAIN attempts
    PROVE  /\ a \in DOMAIN attempts'
           /\ attempts[a].known => attempts'[a].known
           /\ \/ attempts'[a].known = attempts[a].known
              \/ \E t \in Threads :
                     calls[t].op = "BIND" /\ calls[t].attempt = a /\ calls'[t] = Idle
<1>1. a \in DOMAIN attempts' BY TargetsKept
<1>2. RowChange(a) BY <1>1, RowChanges
<1>3. attempts[a].known \in BOOLEAN BY DEF TypeOK, RowsOK, AttemptRows
<1> QED BY <1>1, <1>2, <1>3 DEF RowChange

\* A call that starts an execution had selected its attempt before, and goes on with
\* the run it was asked for, or has just selected it.
LEMMA StartGoesOn ==
    ASSUME TypeOK, [Next]_vars, NEW u \in Threads, calls'[u].op \in {"BASELINE", "BIND"}
    PROVE  \/ /\ calls[u].op \in {"BASELINE", "BIND"}
              /\ calls'[u].attempt = calls[u].attempt /\ calls'[u].run = calls[u].run
           \/ \E a \in Attempts, target \in Targets, run \in Runs :
                  /\ calls'[u].attempt = a /\ calls'[u].run = run
                  /\ a \notin DOMAIN attempts
                  /\ run \in RunsFor[target]
                  /\ attempts' = Insert(attempts, a, NewAttempt(target, FALSE))
                  /\ \A v \in Threads \ {u} : calls'[v] = calls[v]
<1>1. CASE calls'[u] = calls[u] BY <1>1
<1>2. ASSUME NEW a \in Attempts, NEW target \in Targets, NEW run \in Runs,
             NEW source \in Attempts \cup {NoAttempt}, StartSelects(u, a, target, run, source)
      PROVE  /\ calls'[u].attempt = a /\ calls'[u].run = run
             /\ a \notin DOMAIN attempts
             /\ run \in RunsFor[target]
             /\ attempts' = Insert(attempts, a, NewAttempt(target, FALSE))
             /\ \A v \in Threads \ {u} : calls'[v] = calls[v]
  <2>1. calls' = [calls EXCEPT ![u] =
                     [op |-> IF source = NoAttempt THEN "BIND" ELSE "BASELINE",
                      attempt |-> a, run |-> run, source |-> source]]
    BY <1>2 DEF StartSelects, Begin
  <2>2. calls'[u] = [op |-> IF source = NoAttempt THEN "BIND" ELSE "BASELINE",
                     attempt |-> a, run |-> run, source |-> source]
        /\ \A v \in Threads \ {u} : calls'[v] = calls[v]
    BY <2>1 DEF TypeOK, CallsOK
  <2>3. calls'[u].attempt = a /\ calls'[u].run = run BY <2>2
  <2> QED BY <1>2, <2>2, <2>3 DEF StartSelects
<1>3. StartFreezesBaseline(u) => calls[u].op = "BASELINE" BY DEF StartFreezesBaseline
<1> QED BY <1>1, <1>2, <1>3, StartChanges

LEMMA AtomicInvKept ==
    ASSUME TypeOK, OneOutcome, BindingInv, AtomicInv, [Next]_vars
    PROVE  AtomicInv'
<1>1. UnstartedHaveNoRun'
  <2> SUFFICES ASSUME NEW a \in DOMAIN attempts', attempts'[a].status = "NOT_STARTED"
               PROVE  attempts'[a].run = NoRun
    BY DEF UnstartedHaveNoRun
  <2>1. RowChange(a) BY RowChanges
  <2> QED BY <2>1 DEF RowChange, AtomicInv, UnstartedHaveNoRun
<1>2. StartsFit'
  <2> SUFFICES ASSUME NEW u \in Threads, calls'[u].op \in {"BASELINE", "BIND"}
               PROVE  calls'[u].run \in RunsFor[attempts'[calls'[u].attempt].target]
    BY DEF StartsFit
  <2>1. CASE /\ calls[u].op \in {"BASELINE", "BIND"}
             /\ calls'[u].attempt = calls[u].attempt /\ calls'[u].run = calls[u].run
    <3>1. calls[u].attempt \in DOMAIN attempts
      BY <2>1 DEF TypeOK, CallsOK, CallNamesRows, Idle
    <3>2. attempts'[calls[u].attempt].target = attempts[calls[u].attempt].target
      BY <3>1, TargetsKept
    <3> QED BY <2>1, <3>2 DEF AtomicInv, StartsFit
  <2>2. ASSUME NEW a \in Attempts, NEW target \in Targets, NEW run \in Runs,
               calls'[u].attempt = a, calls'[u].run = run, run \in RunsFor[target],
               attempts' = Insert(attempts, a, NewAttempt(target, FALSE))
        PROVE  calls'[u].run \in RunsFor[attempts'[calls'[u].attempt].target]
    <3>1. attempts'[a] = NewAttempt(target, FALSE) BY <2>2 DEF Insert
    <3>2. attempts'[a].target = target BY <3>1 DEF NewAttempt
    <3> QED BY <2>2, <3>2
  <2> QED BY <2>1, <2>2, StartGoesOn
<1>3. StartsAreUnknown'
  <2> DEFINE Starts(u) == calls[u].op \in {"BASELINE", "BIND"}
  <2>a. ASSUME NEW u \in Threads, Starts(u)
        PROVE  /\ calls[u].attempt \in DOMAIN attempts
               /\ ~attempts[calls[u].attempt].known
               /\ \A v \in Threads \ {u} : Starts(v) => calls[v].attempt # calls[u].attempt
    BY <2>a DEF AtomicInv, StartsAreUnknown, TypeOK, CallsOK, CallNamesRows, Idle
  <2>1. ASSUME NEW u \in Threads, calls'[u].op \in {"BASELINE", "BIND"}
        PROVE  ~attempts'[calls'[u].attempt].known
    <3>1. CASE Starts(u) /\ calls'[u].attempt = calls[u].attempt
      <4> DEFINE a == calls[u].attempt
      <4>1. a \in DOMAIN attempts /\ ~attempts[a].known BY <2>a, <3>1
      <4>2. ASSUME NEW t \in Threads, calls[t].op = "BIND", calls[t].attempt = a,
                   calls'[t] = Idle
            PROVE  FALSE
        <5>1. t # u BY <2>1, <4>2 DEF Idle
        <5> QED BY <2>a, <3>1, <4>2, <5>1
      <4>3. attempts'[a].known = attempts[a].known BY <4>1, <4>2, KnownKept
      <4> QED BY <3>1, <4>1, <4>3
    <3>2. ASSUME NEW a \in Attempts, NEW target \in Targets, calls'[u].attempt = a,
                 attempts' = Insert(attempts, a, NewAttempt(target, FALSE))
          PROVE  ~attempts'[calls'[u].attempt].known
      <4>1. attempts'[a] = NewAttempt(target, FALSE) BY <3>2 DEF Insert
      <4>2. attempts'[a].known = FALSE BY <4>1 DEF NewAttempt
      <4> QED BY <3>2, <4>2
    <3> QED BY <2>1, <3>1, <3>2, StartGoesOn
  <2>2. ASSUME NEW u \in Threads, NEW v \in Threads \ {u}, calls'[u].op \in {"BASELINE", "BIND"},
               calls'[v].op \in {"BASELINE", "BIND"}
        PROVE  calls'[u].attempt # calls'[v].attempt
    <3> DEFINE Kept(w) == Starts(w) /\ calls'[w].attempt = calls[w].attempt
               Selected(w) == /\ calls'[w].attempt \notin DOMAIN attempts
                              /\ \A x \in Threads \ {w} : calls'[x] = calls[x]
    <3>1. Kept(u) \/ Selected(u) BY <2>2, StartGoesOn
    <3>2. Kept(v) \/ Selected(v) BY <2>2, StartGoesOn
    <3>3. ASSUME NEW w \in Threads, NEW x \in Threads \ {w}, Selected(w), Kept(x)
          PROVE  calls'[w].attempt # calls'[x].attempt
      BY <2>a, <3>3
    <3>4. ASSUME Selected(u), Selected(v) PROVE calls'[u].attempt # calls'[v].attempt
      <4>1. calls'[v] = calls[v] BY <3>4
      <4>2. Kept(v) BY <2>2, <4>1
      <4> QED BY <3>3, <3>4, <4>2
    <3>5. ASSUME Kept(u), Kept(v) PROVE calls'[u].attempt # calls'[v].attempt
      BY <2>a, <3>5
    <3> HIDE DEF Kept, Selected
    <3> QED BY <3>1, <3>2, <3>3, <3>4, <3>5
  <2> QED BY <2>1, <2>2 DEF StartsAreUnknown
<1>4. CopiesFit'
  <2> SUFFICES ASSUME NEW u \in Threads, NEW a, NEW run, calls'[u].op = "SUSPEND",
                      a = calls'[u].attempt, run = calls'[u].run
               PROVE  CopyFits(a, run)'
    BY DEF CopiesFit, CopyFits
  <2>1. CASE calls'[u] = calls[u]
    <3>1. a \in DOMAIN attempts /\ CopyFits(a, run)
      BY <2>1 DEF AtomicInv, CopiesFit, TypeOK, CallsOK, CallNamesRows, Idle
    <3>2. a \in DOMAIN attempts' /\ attempts'[a].known
      BY <3>1, KnownKept DEF CopyFits
    <3>3. RowChange(a) BY <3>2, RowChanges
    <3>4. ASSUME NEW t \in Threads, calls[t].op = "BIND", calls[t].attempt = a
          PROVE  FALSE
      BY <3>1, <3>4 DEF AtomicInv, StartsAreUnknown, CopyFits
    <3>5. a \in DOMAIN executions' => a \in DOMAIN executions
      BY <3>4, ExecutionChanges
    <3>6. ASSUME attempts'[a].status # "SUSPENDED"
          PROVE  /\ run \in {attempts'[a].run, NoRun}
                 /\ a \in DOMAIN executions' => run = attempts'[a].run
      <4>1. CASE attempts[a].status = "NOT_STARTED"
        <5>1. attempts[a].run = NoRun /\ a \notin DOMAIN executions
          BY <3>1, <4>1 DEF AtomicInv, UnstartedHaveNoRun, BindingInv, ExecutionsAreStarted
        <5>2. run = NoRun BY <3>1, <4>1, <5>1 DEF CopyFits
        <5> QED BY <3>5, <5>1, <5>2
      <4>2. CASE attempts[a].status # "NOT_STARTED"
        <5>1. attempts'[a].run = attempts[a].run /\ attempts[a].status # "SUSPENDED"
          <6>1. ASSUME attempts[a].status = "SUSPENDED" PROVE attempts'[a] = attempts[a]
            BY <3>1, <6>1, ClosedIsUntouched DEF Untouched
          <6> QED BY <3>1, <3>3, <3>4, <3>6, <4>2, <6>1 DEF RowChange
        <5> QED BY <3>1, <3>5, <5>1 DEF CopyFits
      <4> QED BY <4>1, <4>2
    <3> QED BY <3>2, <3>6 DEF CopyFits
  <2>2. ASSUME NEW b \in Attempts, NEW position \in Positions, SuspendReads(u, b, position)
        PROVE  CopyFits(a, run)'
    <3>1. calls'[u] = [op |-> "SUSPEND", attempt |-> b, position |-> position,
                       run |-> attempts[b].run, bound |-> attempts[b].bound]
      BY <2>2 DEF SuspendReads, Begin, TypeOK, CallsOK
    <3>2. a = b /\ run = attempts[b].run BY <3>1
    <3>3. UNCHANGED <<attempts, executions>> /\ attempts[b].known
      BY <2>2 DEF SuspendReads, tables
    <3> QED BY <3>2, <3>3 DEF CopyFits
  <2> QED BY <2>1, <2>2, CopyChanges
<1> QED BY <1>1, <1>2, <1>3, <1>4 DEF AtomicInv

\* The mapped variable.
Book == [a \in DOMAIN attempts |-> Entry(a)]

Row(outcome, target, run, started, source, shown) ==
    [outcome |-> outcome, target |-> target, run |-> run, started |-> started,
     source |-> source, shown |-> shown]

SourceOf(a) == IF a \in DOMAIN executions THEN executions[a].source ELSE NoAttempt

LEMMA RowFields ==
    ASSUME NEW o, NEW g, NEW r, NEW s, NEW f, NEW e
    PROVE  /\ Row(o, g, r, s, f, e).outcome = o /\ Row(o, g, r, s, f, e).target = g
           /\ Row(o, g, r, s, f, e).run = r /\ Row(o, g, r, s, f, e).started = s
           /\ Row(o, g, r, s, f, e).source = f /\ Row(o, g, r, s, f, e).shown = e
BY DEF Row

\* A row with some of its fields rewritten.
LEMMA RowEntered ==
    ASSUME NEW o, NEW g, NEW r, NEW s, NEW f, NEW e, NEW run
    PROVE  [Row(o, g, r, s, f, e) EXCEPT !.run = run] = Row(o, g, run, s, f, e)
BY DEF Row

LEMMA RowShown ==
    ASSUME NEW o, NEW g, NEW r, NEW s, NEW f, NEW e, NEW shown
    PROVE  [Row(o, g, r, s, f, e) EXCEPT !.shown = shown] = Row(o, g, r, s, f, shown)
BY DEF Row

LEMMA RowDecided ==
    ASSUME NEW o, NEW g, NEW r, NEW s, NEW f, NEW e, NEW outcome
    PROVE  [Row(o, g, r, s, f, e) EXCEPT !.outcome = outcome] = Row(outcome, g, r, s, f, e)
BY DEF Row

ClosedRow(row, outcome, run) == [row EXCEPT !.outcome = outcome, !.run = run]

LEMMA RowClosed ==
    ASSUME NEW o, NEW g, NEW r, NEW s, NEW f, NEW e, NEW outcome, NEW run
    PROVE  ClosedRow(Row(o, g, r, s, f, e), outcome, run) = Row(outcome, g, run, s, f, e)
<1>1. [Row(o, g, r, s, f, e) EXCEPT !.outcome = outcome, !.run = run]
      = [[Row(o, g, r, s, f, e) EXCEPT !.outcome = outcome] EXCEPT !.run = run]
  OBVIOUS
<1>2. [Row(o, g, r, s, f, e) EXCEPT !.outcome = outcome] = Row(outcome, g, r, s, f, e)
  BY RowDecided
<1>3. [Row(outcome, g, r, s, f, e) EXCEPT !.run = run] = Row(outcome, g, run, s, f, e)
  BY RowEntered
<1> QED BY <1>1, <1>2, <1>3 DEF ClosedRow

StartedRow(row, run, started, source) ==
    [row EXCEPT !.run = run, !.started = started, !.source = source]

LEMMA RowStarted ==
    ASSUME NEW o, NEW g, NEW r, NEW s, NEW f, NEW e, NEW run, NEW started, NEW source
    PROVE  StartedRow(Row(o, g, r, s, f, e), run, started, source)
           = Row(o, g, run, started, source, e)
<1>1. [Row(o, g, r, s, f, e) EXCEPT !.run = run, !.started = started, !.source = source]
      = [[[Row(o, g, r, s, f, e) EXCEPT !.run = run]
             EXCEPT !.started = started] EXCEPT !.source = source]
  OBVIOUS
<1>2. [Row(o, g, run, s, f, e) EXCEPT !.started = started] = Row(o, g, run, started, f, e)
  BY DEF Row
<1>3. [Row(o, g, run, started, f, e) EXCEPT !.source = source]
      = Row(o, g, run, started, source, e)
  BY DEF Row
<1>4. [Row(o, g, r, s, f, e) EXCEPT !.run = run] = Row(o, g, run, s, f, e) BY RowEntered
<1> QED BY <1>1, <1>2, <1>3, <1>4 DEF StartedRow

LEMMA EntryRow ==
    ASSUME NEW a
    PROVE  /\ Entry(a) = Row(RecordedOutcome(a), attempts[a].target, attempts[a].run,
                             a \in DOMAIN executions, SourceOf(a), ListEvidence(a))
           /\ Entry(a)' = Row(RecordedOutcome(a)', attempts'[a].target, attempts'[a].run,
                              a \in DOMAIN executions', SourceOf(a)', ListEvidence(a)')
BY DEF Entry, Row, SourceOf

LEMMA BookRows ==
    /\ DOMAIN Book = DOMAIN attempts
    /\ DOMAIN Book' = DOMAIN attempts'
    /\ \A a \in DOMAIN attempts : Book[a] = Entry(a)
    /\ \A a \in DOMAIN attempts' : Book'[a] = Entry(a)'
<1>1. /\ DOMAIN Book = DOMAIN attempts
      /\ \A a \in DOMAIN attempts : Book[a] = Entry(a)
  BY DEF Book
<1>2. /\ DOMAIN Book' = DOMAIN attempts'
      /\ \A a \in DOMAIN attempts' : Book'[a] = Entry(a)'
  BY DEF Book
<1> QED BY <1>1, <1>2

\* The book with one entry rewritten.
LEMMA Rewritten ==
    ASSUME NEW a \in DOMAIN attempts, DOMAIN attempts' = DOMAIN attempts,
           \A b \in DOMAIN attempts : b # a => Entry(b)' = Entry(b),
           NEW entry, Entry(a)' = entry
    PROVE  Book' = [Book EXCEPT ![a] = entry]
<1>1. \A b \in DOMAIN attempts : Book'[b] = IF b = a THEN entry ELSE Book[b]
  BY BookRows
<1>2. \A b \in DOMAIN attempts : Book'[b] = [Book EXCEPT ![a] = entry][b]
  BY <1>1, BookRows
<1>3. Book' = [b \in DOMAIN Book' |-> Book'[b]] /\ Book = [b \in DOMAIN Book |-> Book[b]]
  BY BookRows DEF Book
<1> QED BY <1>1, <1>3, BookRows

LEMMA BookFields ==
    ASSUME NEW a \in DOMAIN attempts
    PROVE  /\ Book[a].outcome = RecordedOutcome(a)
           /\ Book[a].target = attempts[a].target
           /\ Book[a].run = attempts[a].run
           /\ Book[a].started <=> a \in DOMAIN executions
           /\ Book[a].source = SourceOf(a)
           /\ Book[a].shown = ListEvidence(a)
<1>1. Book[a] = Entry(a) BY BookRows
<1>2. Entry(a).outcome = RecordedOutcome(a) BY DEF Entry
<1>3. Entry(a).target = attempts[a].target BY DEF Entry
<1>4. Entry(a).run = attempts[a].run BY DEF Entry
<1>5. Entry(a).started = (a \in DOMAIN executions) BY DEF Entry
<1>6. Entry(a).source = SourceOf(a) BY DEF Entry, SourceOf
<1>7. Entry(a).shown = ListEvidence(a) BY DEF Entry
<1> QED BY <1>1, <1>2, <1>3, <1>4, <1>5, <1>6, <1>7

LEMMA NoFunction == [x \in {} |-> x] = << >>
OBVIOUS

\* What an attempt's entry is made of is as it was.
Same(a) ==
    /\ attempts'[a].target = attempts[a].target /\ attempts'[a].run = attempts[a].run
    /\ a \in DOMAIN executions <=> a \in DOMAIN executions'
    /\ a \in DOMAIN executions => executions'[a].source = executions[a].source
    /\ ListEvidence(a)' = ListEvidence(a)
    /\ a \in DOMAIN results <=> a \in DOMAIN results'
    /\ a \in DOMAIN results => results'[a].verdict = results[a].verdict
    /\ a \in DOMAIN suspensions <=> a \in DOMAIN suspensions'

LEMMA EntryKept ==
    ASSUME NEW a, Same(a)
    PROVE  Entry(a)' = Entry(a)
<1>1. RecordedOutcome(a)' = RecordedOutcome(a) BY DEF Same, RecordedOutcome
<1>2. SourceOf(a)' = SourceOf(a) BY DEF Same, SourceOf
<1>3. (a \in DOMAIN executions') = (a \in DOMAIN executions) BY DEF Same
<1> QED BY <1>1, <1>2, <1>3, EntryRow DEF Same

\* What the book says of an attempt that may still be given a run.
Unbound(a) ==
    /\ RecordedOutcome(a) = "NONE" /\ a \notin DOMAIN executions
    /\ attempts[a].run = NoRun

LEMMA BookUnbound ==
    ASSUME NEW a \in DOMAIN attempts, Unbound(a)
    PROVE  Atomic!IsUnbound(a)
<1>1. Book[a].outcome = "NONE" /\ ~Book[a].started /\ Book[a].run = NoRun
  BY BookFields DEF Unbound
<1> QED BY <1>1 DEF Book, Atomic!IsUnbound

LEMMA BookEnters ==
    ASSUME NEW a \in DOMAIN attempts, NEW run \in RunsFor[attempts[a].target], Unbound(a),
           Book' = [Book EXCEPT ![a] = [Book[a] EXCEPT !.run = run]]
    PROVE  Atomic!Enter(a, run)
<1>1. Atomic!IsUnbound(a) BY BookUnbound
<1>2. run \in RunsFor[Book[a].target] BY BookFields
<1> QED BY <1>1, <1>2 DEF Book, Atomic!Enter, Atomic!Change

LEMMA BookStarts ==
    ASSUME NEW a \in DOMAIN attempts, NEW run \in RunsFor[attempts[a].target], Unbound(a),
           NEW source,
           source # NoAttempt =>
               /\ source \in DOMAIN attempts
               /\ RecordedOutcome(source) \in {"PASS", "FAIL"}
               /\ TestOf[attempts[source].target] = TestOf[attempts[a].target]
               /\ \A b \in DOMAIN attempts : SourceOf(b) # source,
           Book' = [Book EXCEPT ![a] =
                       [Book[a] EXCEPT !.run = run, !.started = TRUE, !.source = source]]
    PROVE  Atomic!Start(a, run, source)
<1>1. Atomic!IsUnbound(a) BY BookUnbound
<1>2. run \in RunsFor[Book[a].target] BY BookFields
<1>3. ASSUME source # NoAttempt
      PROVE  /\ source \in DOMAIN Book
             /\ Book[source].outcome \in {"PASS", "FAIL"}
             /\ TestOf[Book[source].target] = TestOf[Book[a].target]
             /\ \A b \in DOMAIN Book : Book[b].source # source
  <2>1. DOMAIN Book = DOMAIN attempts BY BookRows
  <2>2. \A b \in DOMAIN attempts : Book[b].source = SourceOf(b) BY BookFields
  <2>3. Book[a].target = attempts[a].target BY BookFields
  <2> QED BY <1>3, <2>1, <2>2, <2>3, BookFields
<1>4. source # NoAttempt => Atomic!Repeatable(a, source)
  BY <1>3 DEF Book, Atomic!Repeatable
<1> QED BY <1>1, <1>2, <1>4 DEF Book, Atomic!Start, Atomic!Change

LEMMA BookShows ==
    ASSUME NEW a \in DOMAIN attempts, NEW c, NEW seen,
           RecordedOutcome(a) = "NONE", a \in DOMAIN executions,
           c \in Obligations[attempts[a].target], c \notin DOMAIN ListEvidence(a),
           Book' = [Book EXCEPT ![a] = [Book[a] EXCEPT !.shown =
                       [d \in DOMAIN @ \cup {c} |-> IF d = c THEN seen ELSE @[d]]]]
    PROVE  Atomic!Show(a, c, seen)
<1>1. Book[a].outcome = "NONE" /\ Book[a].started BY BookFields
<1>2. c \in Obligations[Book[a].target] \ DOMAIN Book[a].shown BY BookFields
<1> QED BY <1>1, <1>2 DEF Book, Atomic!Show, Atomic!Change

LEMMA BookDecides ==
    ASSUME NEW a \in DOMAIN attempts, NEW c \in DOMAIN ListEvidence(a),
           RecordedOutcome(a) = "NONE", a \in DOMAIN executions, ChecksComplete(a),
           Book' = [Book EXCEPT ![a] = [Book[a] EXCEPT !.outcome =
                       IF Book[a].shown[c] = "AGREES" THEN "PASS" ELSE "FAIL"]]
    PROVE  Atomic!Decide(a)
<1>1. Book[a].outcome = "NONE" /\ Book[a].started BY BookFields
<1>2. Obligations[Book[a].target] \subseteq DOMAIN Book[a].shown
  BY BookFields DEF ChecksComplete
<1>3. c \in DOMAIN Book[a].shown BY BookFields
<1> QED BY <1>1, <1>2, <1>3 DEF Book, Atomic!Decide, Atomic!Change

LEMMA BookSuspends ==
    ASSUME NEW a \in DOMAIN attempts, NEW run \in {attempts[a].run, NoRun},
           RecordedOutcome(a) = "NONE",
           a \in DOMAIN executions => run = attempts[a].run,
           Book' = [Book EXCEPT ![a] = [Book[a] EXCEPT !.outcome = "SUSPENDED", !.run = run]]
    PROVE  Atomic!Suspend(a)
<1>1. Book[a].outcome = "NONE" BY BookFields
<1>2. run \in {Book[a].run, NoRun} /\ (Book[a].started => run = Book[a].run) BY BookFields
<1> QED BY <1>1, <1>2 DEF Book, Atomic!Suspend, Atomic!Change

LEMMA BookSelects ==
    ASSUME NEW a, NEW target, a \notin DOMAIN attempts,
           DOMAIN attempts' = DOMAIN attempts \cup {a},
           \A b \in DOMAIN attempts : Entry(b)' = Entry(b),
           Entry(a)' = Row("NONE", target, NoRun, FALSE, NoAttempt, << >>)
    PROVE  Atomic!Select(a, target)
<1> DEFINE new == Row("NONE", target, NoRun, FALSE, NoAttempt, << >>)
<1>1. Book' = [b \in DOMAIN attempts' |-> Entry(b)'] BY DEF Book
<1>2. \A b \in DOMAIN attempts' : Entry(b)' = IF b # a THEN Book[b] ELSE new
  BY BookRows
<1>3. Book' = [b \in DOMAIN Book \cup {a} |-> IF b # a THEN Book[b] ELSE new]
  <2> HIDE DEF new
  <2> QED BY <1>1, <1>2, BookRows
<1> QED BY <1>3, BookRows DEF Book, Row, Atomic!Select

\* A step that writes none of these tables leaves the book as it is.
LEMMA StepStutters ==
    ASSUME UNCHANGED <<attempts, executions, evidence, results, suspensions>>
    PROVE  Book' = Book
<1>1. \A a \in DOMAIN attempts : Entry(a)' = Entry(a)
  BY SameEvidence, EntryKept DEF Same
<1> QED BY <1>1 DEF Book

LEMMA SelectMaps ==
    ASSUME TypeOK, NEW a \in Attempts, NEW target, NEW known, a \notin DOMAIN attempts,
           attempts' = Insert(attempts, a, NewAttempt(target, known)),
           UNCHANGED <<executions, evidence, results, suspensions>>
    PROVE  Atomic!Select(a, target)
<1> DEFINE row == NewAttempt(target, known)
<1>1. row.target = target /\ row.run = NoRun BY DEF NewAttempt
<1> HIDE DEF row
<1>2. DOMAIN attempts' = DOMAIN attempts \cup {a} /\ attempts'[a] = row
      /\ \A b \in DOMAIN attempts : attempts'[b] = attempts[b]
  BY DEF Insert, row
<1>3. \A b \in DOMAIN attempts : Entry(b)' = Entry(b)
  BY <1>2, SameEvidence, EntryKept DEF Same
<1>4. a \notin DOMAIN executions /\ a \notin DOMAIN results /\ a \notin DOMAIN suspensions
  BY DEF TypeOK, RowsOK
<1>5. RecordedOutcome(a)' = "NONE" /\ SourceOf(a)' = NoAttempt
  BY <1>4 DEF RecordedOutcome, SourceOf
<1>6. ListEvidence(a)' = << >>
  <2>1. \A c \in Checkpoints : <<a, c>> \notin DOMAIN evidence'
    BY <1>4 DEF TypeOK, RowsOK
  <2>2. {c \in Checkpoints : <<a, c>> \in DOMAIN evidence'} = {} BY <2>1
  <2>3. ListEvidence(a)' = [c \in {} |-> evidence'[<<a, c>>]] BY <2>2 DEF ListEvidence
  <2> QED BY <2>3
<1>7. (a \in DOMAIN executions') = FALSE BY <1>4
<1>8. Entry(a)' = Row("NONE", target, NoRun, FALSE, NoAttempt, << >>)
  BY <1>1, <1>2, <1>5, <1>6, <1>7, EntryRow
<1> QED BY <1>2, <1>3, <1>8, BookSelects

\* An attempt that is not started has no outcome, no execution and no run.
LEMMA UnstartedIsUnbound ==
    ASSUME OneOutcome, BindingInv, AtomicInv, NEW a \in DOMAIN attempts,
           attempts[a].status = "NOT_STARTED"
    PROVE  Unbound(a)
BY DEF OneOutcome, BindingInv, ExecutionsAreStarted, AtomicInv, UnstartedHaveNoRun,
       RecordedOutcome, Unbound

LEMMA EnterMaps ==
    ASSUME TypeOK, OneOutcome, BindingInv, AtomicInv,
           NEW a \in Attempts, NEW run \in Runs, EnterAttempt(a, run)
    PROVE  Atomic!Enter(a, run)
<1>1. a \in DOMAIN attempts /\ run \in RunsFor[attempts[a].target]
      /\ UNCHANGED <<executions, evidence, results, suspensions>>
      /\ attempts[a].status = "NOT_STARTED"
  BY DEF EnterAttempt
<1>2. Unbound(a) BY <1>1, UnstartedIsUnbound
<1>3. DOMAIN attempts' = DOMAIN attempts
      /\ attempts'[a].target = attempts[a].target /\ attempts'[a].run = run
      /\ \A b \in DOMAIN attempts : b # a => attempts'[b] = attempts[b]
  BY <1>1 DEF EnterAttempt, TypeOK, RowsOK, AttemptRows
<1>4. \A b \in DOMAIN attempts : b # a => Entry(b)' = Entry(b)
  BY <1>1, <1>3, SameEvidence, EntryKept DEF Same
<1>5. Entry(a)' = [Book[a] EXCEPT !.run = run]
  <2>1. RecordedOutcome(a)' = RecordedOutcome(a) /\ SourceOf(a)' = SourceOf(a)
        /\ ListEvidence(a)' = ListEvidence(a)
    BY <1>1, SameEvidence DEF RecordedOutcome, SourceOf
  <2>2. (a \in DOMAIN executions') = (a \in DOMAIN executions) BY <1>1
  <2>3. Entry(a)' = Row(RecordedOutcome(a), attempts[a].target, run,
                        a \in DOMAIN executions, SourceOf(a), ListEvidence(a))
    BY <1>3, <2>1, <2>2, EntryRow
  <2>4. Book[a] = Row(RecordedOutcome(a), attempts[a].target, attempts[a].run,
                      a \in DOMAIN executions, SourceOf(a), ListEvidence(a))
    BY <1>1, BookRows, EntryRow
  <2>5. [Row(RecordedOutcome(a), attempts[a].target, attempts[a].run,
             a \in DOMAIN executions, SourceOf(a), ListEvidence(a)) EXCEPT !.run = run]
        = Row(RecordedOutcome(a), attempts[a].target, run,
              a \in DOMAIN executions, SourceOf(a), ListEvidence(a))
    BY RowEntered
  <2> QED BY <2>3, <2>4, <2>5
<1>6. Book' = [Book EXCEPT ![a] = [Book[a] EXCEPT !.run = run]]
  BY <1>1, <1>3, <1>4, <1>5, Rewritten
<1> QED BY <1>1, <1>2, <1>6, BookEnters

LEMMA BindMaps ==
    ASSUME ServiceInv, RepeatInv, AtomicInv, NEW t \in Threads, StartBinds(t),
           NEW a, NEW run, NEW source,
           calls[t].attempt = a, calls[t].run = run, calls[t].source = source
    PROVE  Atomic!Start(a, run, source)
<1> TypeOK /\ OneOutcome /\ BindingInv BY DEF ServiceInv
<1>1. calls[t].op = "BIND" /\ attempts[a].status = "NOT_STARTED"
      /\ UNCHANGED <<evidence, results, suspensions>>
  BY DEF StartBinds
<1>2. a \in DOMAIN attempts BY <1>1 DEF TypeOK, CallsOK, CallNamesRows, Idle
<1>3. Unbound(a) BY <1>1, <1>2, UnstartedIsUnbound
<1>4. run \in RunsFor[attempts[a].target] BY <1>1 DEF AtomicInv, StartsFit
<1>5. DOMAIN attempts' = DOMAIN attempts
      /\ attempts'[a].target = attempts[a].target /\ attempts'[a].run = run
      /\ \A b \in DOMAIN attempts : b # a => attempts'[b] = attempts[b]
  <2>1. attempts[a] \in AttemptRows BY <1>2 DEF TypeOK, RowsOK
  <2> QED BY <1>2, <2>1 DEF StartBinds, AttemptRows
<1>6. DOMAIN executions' = DOMAIN executions \cup {a}
      /\ executions'[a].source = source
      /\ \A b \in DOMAIN executions : b # a => executions'[b] = executions[b]
  <2>1. PICK row : executions' = Insert(executions, a, row) /\ row.source = source
    BY DEF StartBinds
  <2> QED BY <2>1 DEF Insert
<1>7. \A b \in DOMAIN attempts : b # a => Entry(b)' = Entry(b)
  BY <1>1, <1>5, <1>6, SameEvidence, EntryKept DEF Same
<1>8. Entry(a)' = [Book[a] EXCEPT !.run = run, !.started = TRUE, !.source = source]
  <2>1. RecordedOutcome(a)' = RecordedOutcome(a) /\ ListEvidence(a)' = ListEvidence(a)
    BY <1>1, SameEvidence DEF RecordedOutcome
  <2>2. (a \in DOMAIN executions') = TRUE /\ SourceOf(a)' = source
    BY <1>6 DEF SourceOf
  <2>3. PICK target, shown, no, yes : /\ target = attempts[a].target
                                      /\ shown = ListEvidence(a)
                                      /\ no = FALSE /\ yes = TRUE
    OBVIOUS
  <2>4. RecordedOutcome(a) = "NONE" /\ (a \in DOMAIN executions) = FALSE
        /\ SourceOf(a) = NoAttempt /\ attempts[a].run = NoRun
    BY <1>3 DEF Unbound, SourceOf
  <2>5. Entry(a)' = Row("NONE", target, run, TRUE, source, shown)
    BY <1>5, <2>1, <2>2, <2>3, <2>4, EntryRow
  <2>6. Book[a] = Row("NONE", target, NoRun, FALSE, NoAttempt, shown)
    BY <1>2, <2>3, <2>4, BookRows, EntryRow
  <2>7. StartedRow(Row("NONE", target, NoRun, no, NoAttempt, shown), run, yes, source)
        = Row("NONE", target, run, yes, source, shown)
    BY RowStarted
  <2>8. Entry(a)' = StartedRow(Book[a], run, TRUE, source) BY <2>3, <2>5, <2>6, <2>7
  <2> QED BY <2>8 DEF StartedRow
<1>9. Book' = [Book EXCEPT ![a] =
                  [Book[a] EXCEPT !.run = run, !.started = TRUE, !.source = source]]
  BY <1>2, <1>5, <1>7, <1>8, Rewritten
<1>10. ASSUME source # NoAttempt
       PROVE  /\ source \in DOMAIN attempts
              /\ RecordedOutcome(source) \in {"PASS", "FAIL"}
              /\ TestOf[attempts[source].target] = TestOf[attempts[a].target]
              /\ \A b \in DOMAIN attempts : SourceOf(b) # source
  <2>1. RepeatsFinished(a, source) /\ FrozenFor(a, source)
    BY <1>1, <1>10 DEF RepeatInv, PendingRepeats
  <2>2. source \in DOMAIN attempts BY <2>1 DEF RepeatsFinished, TypeOK, RowsOK
  <2>3. RecordedOutcome(source) \in {"PASS", "FAIL"}
    BY <2>1 DEF RepeatsFinished, RecordedOutcome, ServiceInv
  <2>4. ASSUME NEW b \in DOMAIN attempts, SourceOf(b) = source PROVE FALSE
    <3>1. b \in DOMAIN executions /\ executions[b].source = source
      BY <1>10, <2>4 DEF SourceOf
    <3>2. baselines[source] = b BY <1>10, <3>1 DEF RepeatInv, RepeatsAreOfFinished
    <3>3. a = b BY <2>1, <3>2 DEF FrozenFor
    <3> QED BY <1>3, <3>1, <3>3 DEF Unbound
  <2> QED BY <2>1, <2>2, <2>3, <2>4 DEF RepeatsFinished
<1> QED BY <1>2, <1>3, <1>4, <1>9, <1>10, BookStarts

\* The snapshots of an execution, with one more.
LEMMA EvidenceInserted ==
    ASSUME NEW a, NEW c \in Checkpoints, NEW seen,
           evidence' = Insert(evidence, <<a, c>>, seen)
    PROVE  ListEvidence(a)' = [d \in DOMAIN ListEvidence(a) \cup {c} |->
                                  IF d = c THEN seen ELSE ListEvidence(a)[d]]
<1>1. DOMAIN evidence' = DOMAIN evidence \cup {<<a, c>>}
      /\ evidence'[<<a, c>>] = seen
      /\ \A k \in DOMAIN evidence : k # <<a, c>> => evidence'[k] = evidence[k]
  BY DEF Insert
<1>2. \A d : <<a, d>> = <<a, c>> <=> d = c OBVIOUS
<1>3. \A d : (<<a, d>> \in DOMAIN evidence' <=> <<a, d>> \in DOMAIN evidence \/ d = c)
             /\ (<<a, d>> \in DOMAIN evidence /\ d # c =>
                    evidence'[<<a, d>>] = evidence[<<a, d>>])
  BY <1>1, <1>2
<1>4. DOMAIN ListEvidence(a) = {d \in Checkpoints : <<a, d>> \in DOMAIN evidence}
      /\ \A d \in DOMAIN ListEvidence(a) : ListEvidence(a)[d] = evidence[<<a, d>>]
  BY DEF ListEvidence
<1>5. {d \in Checkpoints : <<a, d>> \in DOMAIN evidence'} = DOMAIN ListEvidence(a) \cup {c}
  BY <1>3, <1>4
<1>6. ListEvidence(a)' = [d \in DOMAIN ListEvidence(a) \cup {c} |-> evidence'[<<a, d>>]]
  BY <1>5 DEF ListEvidence
<1>7. \A d \in DOMAIN ListEvidence(a) \cup {c} :
          evidence'[<<a, d>>] = IF d = c THEN seen ELSE ListEvidence(a)[d]
  BY <1>1, <1>3, <1>4
<1> QED BY <1>6, <1>7

LEMMA InsertMaps ==
    ASSUME TypeOK, OneOutcome, EvidenceInv, NEW t \in Threads, CaptureInserts(t),
           NEW a, NEW c, calls[t].attempt = a, calls[t].checkpoint = c
    PROVE  \/ Book' = Book
           \/ \E seen \in Observations : Atomic!Show(a, c, seen)
<1>1. calls[t].op = "CAPTURE" /\ UNCHANGED <<attempts, executions, results, suspensions>>
  BY DEF CaptureInserts
<1>2. a \in DOMAIN attempts /\ a \in DOMAIN executions /\ c \in Checkpoints
  BY <1>1, CallFields DEF TypeOK, CallsOK, CallNamesRows, Idle
<1>3. c \in Obligations[attempts[a].target] BY <1>1 DEF EvidenceInv, CapturesAreRequired
<1>4. CASE UNCHANGED evidence BY <1>1, <1>4, StepStutters
<1>5. ASSUME NEW seen \in Observations, EvidenceAdmitted(a, c),
             evidence' = Insert(evidence, <<a, c>>, seen)
      PROVE  Atomic!Show(a, c, seen)
  <2> DEFINE more == [d \in DOMAIN ListEvidence(a) \cup {c} |->
                         IF d = c THEN seen ELSE ListEvidence(a)[d]]
  <2>1. c \notin DOMAIN ListEvidence(a) BY <1>5 DEF EvidenceAdmitted, ListEvidence
  <2>2. RecordedOutcome(a) = "NONE"
    BY <1>2, <1>5 DEF EvidenceAdmitted, OneOutcome, RecordedOutcome
  <2>3. ListEvidence(a)' = more BY <1>2, <1>5, EvidenceInserted
  <2>4. \A b \in DOMAIN attempts : b # a => Entry(b)' = Entry(b)
    BY <1>1, <1>5, EvidenceOfOthers, EntryKept DEF Same
  <2>5. Entry(a)' = [Book[a] EXCEPT !.shown = [d \in DOMAIN @ \cup {c} |->
                                                  IF d = c THEN seen ELSE @[d]]]
    <3>1. RecordedOutcome(a)' = RecordedOutcome(a) /\ SourceOf(a)' = SourceOf(a)
      BY <1>1 DEF RecordedOutcome, SourceOf
    <3>2. (a \in DOMAIN executions') = (a \in DOMAIN executions) BY <1>1
    <3>3. Entry(a)' = Row(RecordedOutcome(a), attempts[a].target, attempts[a].run,
                          a \in DOMAIN executions, SourceOf(a), more)
      <4> HIDE DEF more
      <4> QED BY <1>1, <2>3, <3>1, <3>2, EntryRow
    <3>4. Book[a] = Row(RecordedOutcome(a), attempts[a].target, attempts[a].run,
                        a \in DOMAIN executions, SourceOf(a), ListEvidence(a))
      BY <1>2, BookRows, EntryRow
    <3>5. [Row(RecordedOutcome(a), attempts[a].target, attempts[a].run,
               a \in DOMAIN executions, SourceOf(a), ListEvidence(a)) EXCEPT !.shown = more]
          = Row(RecordedOutcome(a), attempts[a].target, attempts[a].run,
                a \in DOMAIN executions, SourceOf(a), more)
      BY RowShown
    <3>6. Entry(a)' = [Book[a] EXCEPT !.shown = more]
      <4> HIDE DEF more
      <4> QED BY <3>3, <3>4, <3>5
    <3>7. Book[a].shown = ListEvidence(a) BY <1>2, BookFields
    <3> QED BY <3>6, <3>7
  <2>6. Book' = [Book EXCEPT ![a] = [Book[a] EXCEPT !.shown =
                    [d \in DOMAIN @ \cup {c} |-> IF d = c THEN seen ELSE @[d]]]]
    BY <1>1, <1>2, <2>4, <2>5, Rewritten
  <2> QED BY <1>2, <1>3, <2>1, <2>2, <2>6, BookShows
<1> QED BY <1>4, <1>5 DEF CaptureInserts

LEMMA FinaliseMaps ==
    ASSUME TypeOK, OneOutcome, EvidenceInv, NEW t \in Threads, FinaliseCommits(t),
           NEW a, calls[t].attempt = a
    PROVE  Book' = Book \/ Atomic!Decide(a)
<1>1. calls[t].op = "FINALISE" /\ UNCHANGED <<evidence, suspensions>> BY DEF FinaliseCommits
<1>2. a \in DOMAIN attempts /\ a \in DOMAIN executions
  BY <1>1, CallFields DEF TypeOK, CallsOK, CallNamesRows, Idle
<1>3. CASE UNCHANGED <<attempts, executions, results>> BY <1>1, <1>3, StepStutters
<1>4. ASSUME NEW c, NEW seen, NEW evid, NEW verdict,
             c = calls[t].checkpoint, evid = calls[t].evidence, seen = evid[c],
             verdict = (IF seen = "AGREES" THEN "PASS" ELSE "FAIL"),
             ResultAdmitted(a),
             executions' = [executions EXCEPT ![a].status = "FINALISED"],
             attempts' = [attempts EXCEPT ![a].status = "EXECUTED"],
             results' = Insert(results, a,
                 [verdict |-> verdict, checkpoint |-> c, evidence |-> evid])
      PROVE  Atomic!Decide(a)
  <2>1. Current(a, evid, c) BY <1>1, <1>4 DEF EvidenceInv, FinalisationsAreCurrent
  <2>2. RecordedOutcome(a) = "NONE"
    BY <1>2, <1>4 DEF ResultAdmitted, OneOutcome, RecordedOutcome
  <2>3. DOMAIN attempts' = DOMAIN attempts
        /\ attempts'[a].target = attempts[a].target /\ attempts'[a].run = attempts[a].run
        /\ \A b \in DOMAIN attempts : b # a => attempts'[b] = attempts[b]
    <3>1. attempts[a] \in AttemptRows BY <1>2 DEF TypeOK, RowsOK
    <3> QED BY <1>2, <1>4, <3>1 DEF AttemptRows
  <2>4. DOMAIN executions' = DOMAIN executions
        /\ executions'[a].source = executions[a].source
        /\ \A b \in DOMAIN executions : b # a => executions'[b] = executions[b]
    <3>1. executions[a] \in ExecutionRows BY <1>2 DEF TypeOK, RowsOK
    <3> QED BY <1>2, <1>4, <3>1 DEF ExecutionRows
  <2>5. DOMAIN results' = DOMAIN results \cup {a} /\ results'[a].verdict = verdict
        /\ \A b \in DOMAIN results : b # a => results'[b] = results[b]
    <3> DEFINE row == [verdict |-> verdict, checkpoint |-> c, evidence |-> evid]
    <3>1. row.verdict = verdict OBVIOUS
    <3> HIDE DEF row
    <3> QED BY <1>4, <3>1 DEF Insert, row
  <2>6. \A b \in DOMAIN attempts : b # a => Entry(b)' = Entry(b)
    BY <1>1, <2>3, <2>4, <2>5, SameEvidence, EntryKept DEF Same
  <2>7. Entry(a)' = [Book[a] EXCEPT !.outcome = verdict]
    <3>1. RecordedOutcome(a)' = verdict BY <2>5 DEF RecordedOutcome
    <3>2. SourceOf(a)' = SourceOf(a) /\ ListEvidence(a)' = ListEvidence(a)
          /\ (a \in DOMAIN executions') = (a \in DOMAIN executions)
      BY <1>1, <2>4, SameEvidence DEF SourceOf
    <3>3. Entry(a)' = Row(verdict, attempts[a].target, attempts[a].run,
                          a \in DOMAIN executions, SourceOf(a), ListEvidence(a))
      BY <2>3, <3>1, <3>2, EntryRow
    <3>4. Book[a] = Row(RecordedOutcome(a), attempts[a].target, attempts[a].run,
                        a \in DOMAIN executions, SourceOf(a), ListEvidence(a))
      BY <1>2, BookRows, EntryRow
    <3>5. [Row(RecordedOutcome(a), attempts[a].target, attempts[a].run,
               a \in DOMAIN executions, SourceOf(a), ListEvidence(a)) EXCEPT !.outcome = verdict]
          = Row(verdict, attempts[a].target, attempts[a].run,
                a \in DOMAIN executions, SourceOf(a), ListEvidence(a))
      BY RowDecided
    <3> QED BY <3>3, <3>4, <3>5
  <2>8. Book' = [Book EXCEPT ![a] = [Book[a] EXCEPT !.outcome = verdict]]
    BY <1>2, <2>3, <2>6, <2>7, Rewritten
  <2>9. verdict = IF Book[a].shown[c] = "AGREES" THEN "PASS" ELSE "FAIL"
    <3>1. Book[a].shown = ListEvidence(a) BY <1>2, BookFields
    <3> QED BY <1>4, <2>1, <3>1 DEF Current
  <2>10. Book' = [Book EXCEPT ![a] = [Book[a] EXCEPT !.outcome =
                     IF Book[a].shown[c] = "AGREES" THEN "PASS" ELSE "FAIL"]]
    BY <2>8, <2>9
  <2> QED BY <1>2, <2>1, <2>2, <2>10, BookDecides DEF Current
<1> QED BY <1>3, <1>4 DEF FinaliseCommits

LEMMA SuspendMaps ==
    ASSUME ServiceInv, AtomicInv, NEW t \in Threads, SuspendCommits(t),
           NEW a, calls[t].attempt = a
    PROVE  Book' = Book \/ Atomic!Suspend(a)
<1> TypeOK /\ OneOutcome BY DEF ServiceInv
<1>1. calls[t].op = "SUSPEND" /\ UNCHANGED <<executions, evidence, results>>
  BY DEF SuspendCommits
<1>2. a \in DOMAIN attempts /\ CopyFits(a, calls[t].run)
  BY <1>1 DEF TypeOK, CallsOK, CallNamesRows, Idle, AtomicInv, CopiesFit
<1>3. CASE UNCHANGED <<attempts, suspensions>> BY <1>1, <1>3, StepStutters
<1>4. ASSUME ~UNCHANGED <<attempts, suspensions>>
      PROVE  Atomic!Suspend(a)
  <2>1. SuspensionAdmitted(a) BY <1>4 DEF SuspendCommits
  <2>2. RecordedOutcome(a) = "NONE"
    BY <1>2, <2>1 DEF SuspensionAdmitted, OpenStatuses, OneOutcome, RecordedOutcome
  <2>3. PICK run : run = calls[t].run OBVIOUS
  <2>4. run \in {attempts[a].run, NoRun} /\ (a \in DOMAIN executions => run = attempts[a].run)
    BY <1>2, <2>1, <2>3 DEF SuspensionAdmitted, OpenStatuses, CopyFits
  <2>5. /\ DOMAIN attempts' = DOMAIN attempts /\ attempts'[a].run = run
        /\ \A b \in DOMAIN attempts : b # a => attempts'[b] = attempts[b]
        /\ DOMAIN suspensions' = DOMAIN suspensions \cup {a}
    BY <1>4, <2>3, SuspendedAttempt
  <2>6. attempts'[a].target = attempts[a].target
    <3>1. [Next]_vars BY DEF Next, Step
    <3> QED BY <1>2, <3>1, TargetsKept
  <2>7. \A b \in DOMAIN attempts : b # a => Entry(b)' = Entry(b)
    BY <1>1, <2>5, SameEvidence, EntryKept DEF Same
  <2>8. Entry(a)' = ClosedRow(Book[a], "SUSPENDED", run)
    <3>1. RecordedOutcome(a)' = "SUSPENDED"
      BY <1>1, <2>2, <2>5 DEF RecordedOutcome, ServiceInv
    <3>2. SourceOf(a)' = SourceOf(a) /\ ListEvidence(a)' = ListEvidence(a)
          /\ (a \in DOMAIN executions') = (a \in DOMAIN executions)
      BY <1>1, SameEvidence DEF SourceOf
    <3>3. Entry(a)' = Row("SUSPENDED", attempts[a].target, run,
                          a \in DOMAIN executions, SourceOf(a), ListEvidence(a))
      BY <2>5, <2>6, <3>1, <3>2, EntryRow
    <3>4. Book[a] = Row(RecordedOutcome(a), attempts[a].target, attempts[a].run,
                        a \in DOMAIN executions, SourceOf(a), ListEvidence(a))
      BY <1>2, BookRows, EntryRow
    <3>5. ClosedRow(Row(RecordedOutcome(a), attempts[a].target, attempts[a].run,
                        a \in DOMAIN executions, SourceOf(a), ListEvidence(a)),
                    "SUSPENDED", run)
          = Row("SUSPENDED", attempts[a].target, run,
                a \in DOMAIN executions, SourceOf(a), ListEvidence(a))
      BY RowClosed
    <3> QED BY <3>3, <3>4, <3>5
  <2>9. Book' = [Book EXCEPT ![a] = [Book[a] EXCEPT !.outcome = "SUSPENDED", !.run = run]]
    <3>1. Book' = [Book EXCEPT ![a] = ClosedRow(Book[a], "SUSPENDED", run)]
      BY <1>2, <2>5, <2>7, <2>8, Rewritten
    <3> QED BY <3>1 DEF ClosedRow
  <2> QED BY <1>2, <2>2, <2>4, <2>9, BookSuspends
<1> QED BY <1>3, <1>4

\* The steps of AtomicAttempts, on the mapped variable.
LEMMA StepMaps ==
    ASSUME ServiceInv, RepeatInv, AtomicInv, [Next]_vars
    PROVE  \/ Book' = Book
           \/ \E a \in Attempts, target \in Targets : Atomic!Select(a, target)
           \/ \E a \in DOMAIN attempts :
                  \/ \E run \in Runs : Atomic!Enter(a, run)
                  \/ \E run \in Runs, source \in Attempts \cup {NoAttempt} :
                         Atomic!Start(a, run, source)
                  \/ \E c \in Checkpoints, seen \in Observations : Atomic!Show(a, c, seen)
                  \/ Atomic!Decide(a)
                  \/ Atomic!Suspend(a)
<1> DEFINE Goal ==
           \/ Book' = Book
           \/ \E a \in Attempts, target \in Targets : Atomic!Select(a, target)
           \/ \E a \in DOMAIN attempts :
                  \/ \E run \in Runs : Atomic!Enter(a, run)
                  \/ \E run \in Runs, source \in Attempts \cup {NoAttempt} :
                         Atomic!Start(a, run, source)
                  \/ \E c \in Checkpoints, seen \in Observations : Atomic!Show(a, c, seen)
                  \/ Atomic!Decide(a)
                  \/ Atomic!Suspend(a)
<1> TypeOK /\ OneOutcome /\ EvidenceInv /\ BindingInv BY DEF ServiceInv
<1>1. ASSUME UNCHANGED tables PROVE Goal BY <1>1, StepStutters DEF tables
<1>2. ASSUME NEW a \in Attempts, NEW target \in Targets,
             \/ PrepareAttempt(a, target)
             \/ \E t \in Threads, run \in Runs, source \in Attempts \cup {NoAttempt} :
                    StartSelects(t, a, target, run, source)
      PROVE  Goal
  <2>1. PICK known : /\ a \notin DOMAIN attempts
                     /\ attempts' = Insert(attempts, a, NewAttempt(target, known))
                     /\ UNCHANGED <<executions, evidence, results, suspensions>>
    BY <1>2 DEF PrepareAttempt, StartSelects
  <2>2. Atomic!Select(a, target) BY <2>1, SelectMaps
  <2> QED BY <2>2
<1>3. ASSUME NEW a \in Attempts, NEW run \in Runs, EnterAttempt(a, run) PROVE Goal
  <2>1. Atomic!Enter(a, run) /\ a \in DOMAIN attempts BY <1>3, EnterMaps DEF EnterAttempt
  <2> QED BY <2>1
<1>4. ASSUME NEW t \in Threads
      PROVE  /\ calls[t] \in Calls
             /\ calls[t] # Idle => calls[t].attempt \in DOMAIN attempts
  BY DEF TypeOK, CallsOK, CallNamesRows
<1>5. ASSUME NEW t \in Threads, StartFreezesBaseline(t) PROVE Goal
  <2>1. UNCHANGED <<attempts, executions, evidence, results, suspensions>>
    BY <1>5 DEF StartFreezesBaseline
  <2> QED BY <2>1, StepStutters
<1>6. ASSUME NEW t \in Threads, StartBinds(t) PROVE Goal
  <2>1. PICK a, run, source :
            calls[t].attempt = a /\ calls[t].run = run /\ calls[t].source = source
    OBVIOUS
  <2>2. calls[t].op = "BIND" BY <1>6 DEF StartBinds
  <2>3. a \in DOMAIN attempts /\ run \in Runs /\ source \in Attempts \cup {NoAttempt}
    BY <1>4, <2>1, <2>2, CallFields
  <2>4. Atomic!Start(a, run, source) BY <1>6, <2>1, BindMaps
  <2> QED BY <2>3, <2>4
<1>7. ASSUME NEW t \in Threads, CaptureInserts(t) PROVE Goal
  <2>1. PICK a, c : calls[t].attempt = a /\ calls[t].checkpoint = c OBVIOUS
  <2>2. calls[t].op = "CAPTURE" BY <1>7 DEF CaptureInserts
  <2>3. a \in DOMAIN attempts /\ c \in Checkpoints BY <1>4, <2>1, <2>2, CallFields
  <2>4. Book' = Book \/ \E seen \in Observations : Atomic!Show(a, c, seen)
    BY <1>7, <2>1, InsertMaps
  <2> QED BY <2>3, <2>4
<1>8. ASSUME NEW t \in Threads, FinaliseCommits(t) PROVE Goal
  <2>1. PICK a : calls[t].attempt = a OBVIOUS
  <2>2. calls[t].op = "FINALISE" BY <1>8 DEF FinaliseCommits
  <2>3. a \in DOMAIN attempts BY <1>4, <2>1, <2>2, CallFields
  <2>4. Book' = Book \/ Atomic!Decide(a) BY <1>8, <2>1, FinaliseMaps
  <2> QED BY <2>3, <2>4
<1>9. ASSUME NEW t \in Threads, SuspendCommits(t) PROVE Goal
  <2>1. PICK a : calls[t].attempt = a OBVIOUS
  <2>2. calls[t].op = "SUSPEND" BY <1>9 DEF SuspendCommits
  <2>3. a \in DOMAIN attempts BY <1>4, <2>1, <2>2, CallFields
  <2>4. Book' = Book \/ Atomic!Suspend(a) BY <1>9, <2>1, SuspendMaps
  <2> QED BY <2>3, <2>4
<1> HIDE DEF Goal
<1>10. Goal BY <1>1, <1>2, <1>3, <1>5, <1>6, <1>7, <1>8, <1>9, StepCases
<1> QED BY <1>10 DEF Goal

\* Calls that read in one transaction and write in a later one, beside any number of
\* others and of crashes, cannot be told by their tables from operations that take
\* place at once.
THEOREM AttemptsAreAtomic == Spec => ImplementsAtomicAttempts
<1>1. Init => Atomic!Init
  <2> SUFFICES ASSUME Init PROVE Atomic!Init OBVIOUS
  <2>1. DOMAIN attempts = {} BY DEF Init
  <2>2. Book = [a \in {} |-> Entry(a)] BY <2>1 DEF Book
  <2>3. Book = << >> BY <2>2
  <2> QED BY <2>3 DEF Book, Atomic!Init
<1>2. ASSUME ServiceInv, RepeatInv, AtomicInv, [Next]_vars
      PROVE  [Atomic!Next]_([a \in DOMAIN attempts |-> Entry(a)])
  <2>1. CASE Book' = Book BY <2>1 DEF Book
  <2>2. ASSUME NEW a \in Attempts, NEW target \in Targets, Atomic!Select(a, target)
        PROVE  Atomic!Next
    BY <2>2 DEF Atomic!Next
  <2>3. ASSUME NEW a \in DOMAIN attempts,
               \/ \E run \in Runs : Atomic!Enter(a, run)
               \/ \E run \in Runs, source \in Attempts \cup {NoAttempt} :
                      Atomic!Start(a, run, source)
               \/ \E c \in Checkpoints, seen \in Observations : Atomic!Show(a, c, seen)
               \/ Atomic!Decide(a)
               \/ Atomic!Suspend(a)
        PROVE  Atomic!Next
    <3>1. a \in DOMAIN [b \in DOMAIN attempts |-> Entry(b)] OBVIOUS
    <3> QED BY <2>3, <3>1 DEF Observations, Atomic!Next
  <2> QED BY <1>2, <2>1, <2>2, <2>3, StepMaps
<1>3. Init => ServiceInv /\ RepeatInv /\ AtomicInv
  <2>1. DOMAIN << >> = {} OBVIOUS
  <2> SUFFICES ASSUME Init PROVE ServiceInv /\ RepeatInv /\ AtomicInv OBVIOUS
  <2>2. ServiceInv BY ServiceInitially
  <2>3. RepeatInv BY <2>1 DEF Init, RepeatInv, PendingRepeats, RepeatsAreOfFinished, Idle
  <2>4. AtomicInv
    BY <2>1 DEF Init, AtomicInv, UnstartedHaveNoRun, StartsFit, StartsAreUnknown, CopiesFit,
                Idle
  <2> QED BY <2>2, <2>3, <2>4
<1>4. ServiceInv /\ RepeatInv /\ AtomicInv /\ [Next]_vars => (ServiceInv /\ RepeatInv /\ AtomicInv)'
  BY ServiceKept, RepeatInvKept, AtomicInvKept DEF ServiceInv
<1> QED BY <1>1, <1>2, <1>3, <1>4, PTL DEF Spec, ImplementsAtomicAttempts, Atomic!Spec

-----------------------------------------------------------------------------
(* Composites and packages only read the tables of the validation service. *)

\* Whatever is neither a call of the service nor a crash leaves its tables alone.
LEMMA OthersOnlyRead ==
    ASSUME [ExportNext]_exportVars
    PROVE  ServiceStep \/ ExportCrash \/ UNCHANGED compositeVars
<1>1. CASE UNCHANGED exportVars BY <1>1 DEF exportVars, sourceVars
<1>2. ASSUME NEW r \in Runs, RunAdvances(r) PROVE UNCHANGED compositeVars
  BY <1>2 DEF RunAdvances
<1>3. ASSUME NEW role \in ChainRoles, NEW a \in Attempts, ChainGrows(role, a)
      PROVE  UNCHANGED compositeVars
  BY <1>3 DEF ChainGrows
<1>4. ASSUME NEW x \in Exporters, NEW p \in Packages, ExportReads(x, p)
      PROVE  UNCHANGED compositeVars
  BY <1>4 DEF ExportReads, sourceVars
<1>5. ASSUME NEW x \in Exporters, ExportReadsChain(x) \/ ExportWrites(x) \/ ExportRegisters(x)
      PROVE  UNCHANGED compositeVars
  BY <1>5 DEF ExportReadsChain, ExportWrites, ExportRegisters, sourceVars
<1>6. ASSUME NEW x \in Exporters, NEW a \in Attempts,
             ExportReadsRun(x, a) \/ ExportReadsExecution(x, a) \/ ExportReadsEvidence(x, a)
      PROVE  UNCHANGED compositeVars
  BY <1>6 DEF ExportReadsRun, ExportReadsExecution, ExportReadsEvidence, sourceVars
<1> QED BY <1>1, <1>2, <1>3, <1>4, <1>5, <1>6 DEF ExportNext

LEMMA ExportStepIsServiceStep ==
    ASSUME TypeOK, [ExportNext]_exportVars
    PROVE  [Next]_vars
<1>1. CASE UNCHANGED compositeVars BY <1>1 DEF compositeVars
<1>2. CASE ServiceStep
  <2>1. CompositeStep => UNCHANGED vars
    BY DEF CompositeStep, FinaliseComposite, AssembleComposite
  <2> QED BY <1>2, <2>1 DEF ServiceStep, Next
<1>3. CASE ExportCrash
  <2>1. calls' = [t \in Threads |-> Idle] /\ UNCHANGED tables BY <1>3 DEF ExportCrash
  <2>2. CASE \E t \in Threads : calls[t] # Idle BY <2>1, <2>2 DEF Next, Crash
  <2>3. CASE \A t \in Threads : calls[t] = Idle
    <3>1. calls' = calls BY <2>1, <2>3 DEF TypeOK, CallsOK
    <3> QED BY <2>1, <3>1 DEF vars
  <2> QED BY <2>2, <2>3
<1> QED BY <1>1, <1>2, <1>3, OthersOnlyRead

LEMMA ServiceStays == ExportSpec => []ServiceInv
<1>1. ExportInit => ServiceInv BY ServiceInitially DEF ExportInit, CompositeInit
<1>2. ServiceInv /\ [ExportNext]_exportVars => ServiceInv'
  BY ServiceKept, ExportStepIsServiceStep DEF ServiceInv
<1> QED BY <1>1, <1>2, PTL DEF ExportSpec

\* Whatever is composed and packaged, the service's tables go on as they do
\* without: its theorems hold beside composites and exports.
THEOREM ExportsOnlyRead == ExportSpec => Spec
<1>1. ExportInit => Init BY DEF ExportInit, CompositeInit
<1>2. ServiceInv /\ [ExportNext]_exportVars => [Next]_vars
  BY ExportStepIsServiceStep DEF ServiceInv
<1> QED BY <1>1, <1>2, ServiceStays, PTL DEF ExportSpec, Spec

-----------------------------------------------------------------------------
(* Links go on resolving, because what they name is final.                 *)

\* What a link names, and what it is.
LEMMA LinkNames ==
    ASSUME ServiceInv, NEW link, LinkResolves(link)
    PROVE  LET a == link.attempt IN
           /\ a \in DOMAIN attempts
           /\ attempts[a].status \in {"EXECUTED", "SUSPENDED"}
           /\ \/ ResultVerified(a) /\ link = ResultLink(a) /\ a \notin DOMAIN suspensions
              \/ SuspensionResolved(a) /\ link = SuspensionLink(a) /\ a \in DOMAIN suspensions
<1> DEFINE a == link.attempt
<1>1. CASE ResultVerified(a) /\ link = ResultLink(a)
  <2>1. a \in DOMAIN attempts BY <1>1 DEF ResultVerified, ServiceInv, TypeOK, RowsOK
  <2>2. attempts[a].status = "EXECUTED" BY <1>1 DEF ResultVerified
  <2>3. a \notin DOMAIN suspensions BY <2>1, <2>2 DEF ServiceInv, OneOutcome
  <2> HIDE DEF a
  <2> QED BY <1>1, <2>1, <2>2, <2>3 DEF a
<1>2. CASE SuspensionResolved(a) /\ link = SuspensionLink(a)
  <2>1. a \in DOMAIN suspensions /\ attempts[a].status = "SUSPENDED"
    BY <1>2 DEF SuspensionResolved
  <2>2. a \in DOMAIN attempts BY <2>1 DEF ServiceInv, TypeOK, RowsOK
  <2> HIDE DEF a
  <2> QED BY <1>2, <2>1, <2>2 DEF a
<1> QED BY <1>1, <1>2 DEF LinkResolves

\* An untouched attempt goes on resolving, to the same link.
LEMMA ResultStays ==
    ASSUME ServiceInv, NEW a, ResultVerified(a), Untouched(a)
    PROVE  ResultVerified(a)' /\ ResultLink(a)' = ResultLink(a)
<1>1. a \in DOMAIN executions BY DEF ResultVerified, ServiceInv, TypeOK, RowsOK
<1>2. ResultVerified(a)' BY <1>1 DEF ResultVerified, Untouched
<1>3. ResultLink(a)' = ResultLink(a) BY DEF ResultVerified, ResultLink, Untouched
<1> QED BY <1>2, <1>3

LEMMA SuspensionStays ==
    ASSUME ServiceInv, NEW a, SuspensionResolved(a), Untouched(a)
    PROVE  SuspensionResolved(a)' /\ SuspensionLink(a)' = SuspensionLink(a)
<1>1. a \in DOMAIN suspensions BY DEF SuspensionResolved
<1>2. suspensions[a].linked => a \in DOMAIN executions
  BY <1>1 DEF ServiceInv, BindingInv, LinkedSuspensionsResolve
<1>3. /\ a \in DOMAIN suspensions' /\ suspensions'[a] = suspensions[a]
      /\ attempts'[a] = attempts[a] /\ a \notin DOMAIN results'
      /\ ListEvidence(a)' = ListEvidence(a)
      /\ suspensions[a].linked => executions'[a] = executions[a]
  BY <1>1, <1>2 DEF SuspensionResolved, Untouched
<1>4. SuspensionLink(a)' = SuspensionLink(a) BY <1>3 DEF SuspensionLink
<1>5. SuspensionResolved(a)'
  <2>1. CASE suspensions[a].linked BY <1>3, <2>1 DEF SuspensionResolved
  <2>2. CASE ~suspensions[a].linked BY <1>3, <2>2 DEF SuspensionResolved
  <2> QED BY <2>1, <2>2
<1> QED BY <1>4, <1>5

LEMMA LinkStays ==
    ASSUME ServiceInv, [Next]_vars, NEW link, LinkResolves(link)
    PROVE  LinkResolves(link)' /\ attempts'[link.attempt] = attempts[link.attempt]
<1> DEFINE a == link.attempt
<1>1. Untouched(a)
  BY LinkNames, ClosedIsUntouched DEF ServiceInv
<1>2. attempts'[a] = attempts[a] BY <1>1 DEF Untouched
<1>3. CASE link.kind = "EXECUTION_RESULT"
  <2>1. ResultVerified(a) /\ link = ResultLink(a) BY <1>3 DEF LinkResolves
  <2>2. ResultVerified(a)' /\ link = ResultLink(a)' BY <1>1, <2>1, ResultStays
  <2> QED BY <1>2, <1>3, <2>2 DEF LinkResolves
<1>4. CASE link.kind # "EXECUTION_RESULT"
  <2>1. SuspensionResolved(a) /\ link = SuspensionLink(a) BY <1>4 DEF LinkResolves
  <2>2. SuspensionResolved(a)' /\ link = SuspensionLink(a)' BY <1>1, <2>1, SuspensionStays
  <2> QED BY <1>2, <1>4, <2>2 DEF LinkResolves
<1> QED BY <1>3, <1>4

-----------------------------------------------------------------------------
(* Composites.                                                             *)

\* How a step changes the composites: a draft is added, or one is finalised.
LEMMA CompositeChanges ==
    ASSUME [ExportNext]_exportVars
    PROVE  \/ UNCHANGED composites
           \/ \E k \in Composites : FinaliseComposite(k)
           \/ \E k \in Composites, test \in Tests, sources \in SUBSET Attempts :
                  \E unread \in SUBSET sources : AssembleComposite(k, test, sources, unread)
<1>1. UNCHANGED compositeVars => UNCHANGED composites BY DEF compositeVars
<1>2. ServiceStep => UNCHANGED composites \/ CompositeStep BY DEF ServiceStep
<1>3. ExportCrash => UNCHANGED composites BY DEF ExportCrash
<1>4. CompositeStep =>
           \/ \E k \in Composites : FinaliseComposite(k)
           \/ \E k \in Composites, test \in Tests, sources \in SUBSET Attempts :
                  \E unread \in SUBSET sources : AssembleComposite(k, test, sources, unread)
  BY DEF CompositeStep
<1> QED BY <1>1, <1>2, <1>3, <1>4, OthersOnlyRead

\* The links of a composite resolve, each for its case.
LinksHold(k) ==
    \A target \in DOMAIN composites[k].links :
        /\ attempts[composites[k].links[target].attempt].target = target
        /\ LinkResolves(composites[k].links[target])

Columns == {"test", "links", "status", "complete", "determination"}

\* A complete draft has every case, and a determination is of its links.
RowHolds(k) ==
    /\ DOMAIN composites[k] = Columns
    /\ composites[k].complete => DOMAIN composites[k].links = CasesOf(composites[k].test)
    /\ composites[k].status = "FINALISED" =>
           /\ composites[k].complete
           /\ composites[k].determination = Aggregate(Verdicts(composites[k].links))

CompositeInv ==
    /\ DOMAIN composites \subseteq Composites
    /\ \A k \in DOMAIN composites : LinksHold(k) /\ RowHolds(k)

\* The links of a composite that stays, whatever the service does meanwhile.
LEMMA LinksHoldOn ==
    ASSUME ServiceInv, [Next]_vars, NEW k \in DOMAIN composites, LinksHold(k),
           k \in DOMAIN composites', composites'[k].links = composites[k].links
    PROVE  LinksHold(k)'
<1>1. ASSUME NEW target \in DOMAIN composites[k].links,
             NEW link, link = composites[k].links[target]
      PROVE  attempts'[link.attempt].target = target /\ LinkResolves(link)'
  <2>1. attempts[link.attempt].target = target /\ LinkResolves(link) BY <1>1 DEF LinksHold
  <2> QED BY <2>1, LinkStays
<1>2. ASSUME NEW target \in DOMAIN composites'[k].links
      PROVE  /\ attempts'[composites'[k].links[target].attempt].target = target
             /\ LinkResolves(composites[k].links[target])'
  <2>1. PICK link : link = composites[k].links[target] OBVIOUS
  <2>2. attempts'[link.attempt].target = target /\ LinkResolves(link)' BY <1>1, <2>1
  <2>3. link = composites'[k].links[target] BY <2>1
  <2> QED BY <2>2, <2>3 DEF LinkResolves, ResultVerified, ResultLink, SuspensionResolved,
                            SuspensionLink
<1> QED BY <1>2 DEF LinksHold

LEMMA RowHoldsOn ==
    ASSUME NEW k \in DOMAIN composites, RowHolds(k), composites'[k] = composites[k]
    PROVE  RowHolds(k)'
BY DEF RowHolds, Verdicts

\* What an assembled draft holds.
LEMMA Assembled ==
    ASSUME ServiceInv, NEW k \in Composites, NEW test, NEW sources, NEW unread,
           AssembleComposite(k, test, sources, unread)
    PROVE  /\ k \notin DOMAIN composites
           /\ \E row : /\ composites' = Insert(composites, k, row)
                       /\ DOMAIN row = Columns /\ row.status = "DRAFT"
                       /\ row.complete => DOMAIN row.links = CasesOf(row.test)
                       /\ \A target \in DOMAIN row.links :
                              /\ attempts[row.links[target].attempt].target = target
                              /\ LinkResolves(row.links[target])
<1> DEFINE linked == sources \ unread
           CaseOf(target) == CHOOSE a \in linked : attempts[a].target = target
           cases == {attempts[a].target : a \in linked}
           links == [target \in cases |->
                        LET a == CaseOf(target) IN
                        IF a \in DOMAIN results THEN ResultLink(a) ELSE SuspensionLink(a)]
           row == [test |-> test, links |-> links, status |-> "DRAFT",
                   complete |-> IsComplete(test, sources, linked), determination |-> "NONE"]
<1>1. k \notin DOMAIN composites /\ composites' = Insert(composites, k, row)
      /\ \A a \in linked : ResultVerified(a) \/ SuspensionResolved(a)
  BY DEF AssembleComposite
<1>2. ASSUME NEW target \in cases
      PROVE  /\ attempts[links[target].attempt].target = target
             /\ LinkResolves(links[target])
  <2>1. PICK a : a = CaseOf(target) OBVIOUS
  <2>2. a \in linked /\ attempts[a].target = target BY <2>1
  <2>3. links[target] = IF a \in DOMAIN results THEN ResultLink(a) ELSE SuspensionLink(a)
    BY <2>1
  <2>4. ResultVerified(a) \/ SuspensionResolved(a) BY <1>1, <2>2
  <2> HIDE DEF links
  <2>5. links[target].attempt = a BY <2>3 DEF ResultLink, SuspensionLink
  <2>6. CASE a \in DOMAIN results
    <3>1. ResultVerified(a) BY <2>4, <2>6 DEF SuspensionResolved
    <3>2. links[target] = ResultLink(a) BY <2>3, <2>6
    <3>3. links[target].kind = "EXECUTION_RESULT" BY <3>2 DEF ResultLink
    <3> QED BY <2>2, <2>5, <3>1, <3>2, <3>3 DEF LinkResolves
  <2>7. CASE a \notin DOMAIN results
    <3>1. SuspensionResolved(a) BY <2>4, <2>7 DEF ResultVerified
    <3>2. links[target] = SuspensionLink(a) BY <2>3, <2>7
    <3>3. links[target].kind = "SUSPENSION_RESULT" BY <3>2 DEF SuspensionLink
    <3> QED BY <2>2, <2>5, <3>1, <3>2, <3>3 DEF LinkResolves
  <2> QED BY <2>6, <2>7
<1>3. DOMAIN links = cases OBVIOUS
<1>4. IsComplete(test, sources, linked) => cases = CasesOf(test) BY DEF IsComplete
<1>5. DOMAIN row = Columns /\ row.links = links /\ row.test = test /\ row.status = "DRAFT"
      /\ row.complete = IsComplete(test, sources, linked)
  <2> HIDE DEF links, linked
  <2> QED BY DEF Columns
<1> HIDE DEF row, links, cases
<1> QED BY <1>1, <1>2, <1>3, <1>4, <1>5

LEMMA AssembleKeeps ==
    ASSUME ServiceInv, CompositeInv, NEW k \in Composites, NEW test, NEW sources, NEW unread,
           AssembleComposite(k, test, sources, unread)
    PROVE  CompositeInv'
<1>1. PICK row : /\ composites' = Insert(composites, k, row)
                 /\ DOMAIN row = Columns /\ row.status = "DRAFT"
                 /\ row.complete => DOMAIN row.links = CasesOf(row.test)
                 /\ \A target \in DOMAIN row.links :
                        /\ attempts[row.links[target].attempt].target = target
                        /\ LinkResolves(row.links[target])
  BY Assembled
<1>2. k \notin DOMAIN composites BY Assembled
<1>3. UNCHANGED vars BY DEF AssembleComposite
<1>4. DOMAIN composites' = DOMAIN composites \cup {k} /\ composites'[k] = row
      /\ \A l \in DOMAIN composites : composites'[l] = composites[l]
  BY <1>1, <1>2 DEF Insert
<1>5. RowHolds(k)' BY <1>1, <1>4 DEF RowHolds
<1>6. LinksHold(k)'
  <2>1. UNCHANGED <<attempts, executions, evidence, results, suspensions>>
    BY <1>3 DEF vars, tables
  <2>2. \A link : LinkResolves(link)' <=> LinkResolves(link)
    BY <2>1 DEF LinkResolves, ResultVerified, ResultLink, SuspensionResolved,
                SuspensionLink, ListEvidence
  <2>3. \A target \in DOMAIN row.links : LinkResolves(row.links[target])'
    BY <1>1, <2>2
  <2>4. \A target \in DOMAIN composites'[k].links : LinkResolves(composites[k].links[target])'
    BY <1>4, <2>3 DEF LinkResolves, ResultVerified, ResultLink, SuspensionResolved,
                      SuspensionLink
  <2> QED BY <1>1, <1>4, <2>1, <2>4 DEF LinksHold
<1>7. ASSUME NEW l \in DOMAIN composites PROVE LinksHold(l)' /\ RowHolds(l)'
  BY <1>3, <1>4, LinksHoldOn, RowHoldsOn DEF CompositeInv
<1> QED BY <1>4, <1>5, <1>6, <1>7 DEF CompositeInv

LEMMA FinaliseKeeps ==
    ASSUME ServiceInv, CompositeInv, NEW k \in Composites, FinaliseComposite(k)
    PROVE  CompositeInv'
<1>1. UNCHANGED vars /\ k \in DOMAIN composites /\ composites[k].complete
  BY DEF FinaliseComposite
<1>2. DOMAIN composites' = DOMAIN composites
      /\ \A l \in DOMAIN composites : l # k => composites'[l] = composites[l]
  BY DEF FinaliseComposite
<1>3. LinksHold(k) /\ RowHolds(k) /\ DOMAIN composites[k] = Columns
  BY <1>1 DEF CompositeInv, RowHolds
<1> DEFINE row == [composites[k] EXCEPT !.status = "FINALISED",
                       !.determination = Aggregate(Verdicts(composites[k].links))]
<1>4. composites'[k] = row
  BY <1>1 DEF FinaliseComposite
<1>5. DOMAIN row = Columns /\ row.links = composites[k].links /\ row.test = composites[k].test
      /\ row.complete = composites[k].complete
      /\ row.determination = Aggregate(Verdicts(composites[k].links))
  BY <1>3 DEF Columns
<1> HIDE DEF row
<1>6. RowHolds(k)' BY <1>1, <1>3, <1>4, <1>5 DEF RowHolds, Verdicts
<1>7. LinksHold(k)' BY <1>1, <1>2, <1>3, <1>4, <1>5, LinksHoldOn
<1>8. ASSUME NEW l \in DOMAIN composites, l # k PROVE LinksHold(l)' /\ RowHolds(l)'
  BY <1>1, <1>2, <1>8, LinksHoldOn, RowHoldsOn DEF CompositeInv
<1> QED BY <1>2, <1>6, <1>7, <1>8 DEF CompositeInv

LEMMA CompositeInvKept ==
    ASSUME ServiceInv, CompositeInv, [ExportNext]_exportVars
    PROVE  CompositeInv'
<1>1. CASE UNCHANGED composites
  <2>1. [Next]_vars BY ExportStepIsServiceStep DEF ServiceInv
  <2>2. ASSUME NEW k \in DOMAIN composites PROVE LinksHold(k)' /\ RowHolds(k)'
    BY <1>1, <2>1, LinksHoldOn, RowHoldsOn DEF CompositeInv
  <2> QED BY <1>1, <2>2 DEF CompositeInv
<1> QED BY <1>1, CompositeChanges, AssembleKeeps, FinaliseKeeps

LEMMA CompositesStay == ExportSpec => []CompositeInv
<1>1. ExportInit => CompositeInv
  <2>1. DOMAIN << >> = {} OBVIOUS
  <2> QED BY <2>1 DEF ExportInit, CompositeInit, CompositeInv
<1>2. ServiceInv /\ CompositeInv /\ [ExportNext]_exportVars => CompositeInv'
  BY CompositeInvKept
<1> QED BY <1>1, <1>2, ServiceStays, PTL DEF ExportSpec

\* A link names a final outcome, so it resolves for good, to its case.
THEOREM LinksStayResolvedForGood == ExportSpec => []LinksStayResolved
<1>1. CompositeInv => LinksStayResolved BY DEF CompositeInv, LinksHold, LinksStayResolved
<1> QED BY <1>1, CompositesStay, PTL

\* What the verdict of a link says of the attempt it names.
LEMMA LinkVerdict ==
    ASSUME ServiceInv, NEW link, LinkResolves(link)
    PROVE  LET a == link.attempt IN
           /\ link.verdict = "FAIL" <=> a \in DOMAIN results /\ results[a].verdict = "FAIL"
           /\ link.verdict = "BLOCKED-TEST" <=> a \in DOMAIN suspensions
           /\ link.verdict \in {"PASS", "FAIL", "BLOCKED-TEST"}
<1> DEFINE a == link.attempt
<1>1. CASE ResultVerified(a) /\ link = ResultLink(a) /\ a \notin DOMAIN suspensions
  <2>1. a \in DOMAIN results /\ link.verdict = results[a].verdict
    BY <1>1 DEF ResultVerified, ResultLink
  <2>2. results[a].verdict \in {"PASS", "FAIL"} BY <2>1 DEF ServiceInv
  <2> QED BY <1>1, <2>1, <2>2
<1>2. CASE SuspensionResolved(a) /\ link = SuspensionLink(a) /\ a \in DOMAIN suspensions
  <2>1. a \notin DOMAIN results /\ link.verdict = "BLOCKED-TEST"
    BY <1>2 DEF SuspensionResolved, SuspensionLink
  <2> QED BY <1>2, <2>1
<1> QED BY <1>1, <1>2, LinkNames

\* The aggregate of the links is what the outcomes of the required cases say.
THEOREM DeterminationsAreSupported == ExportSpec => []DeterminationIsSupported
<1>1. ASSUME ServiceInv, CompositeInv PROVE DeterminationIsSupported
  <2> SUFFICES ASSUME NEW k \in DOMAIN composites, composites[k].status = "FINALISED"
               PROVE  LET outcome(target) == composites[k].links[target].attempt
                          failed == {target \in CasesOf(composites[k].test) :
                                        outcome(target) \in DOMAIN results
                                        /\ results[outcome(target)].verdict = "FAIL"}
                          suspended == {target \in CasesOf(composites[k].test) :
                                           outcome(target) \in DOMAIN suspensions}
                      IN  /\ DOMAIN composites[k].links = CasesOf(composites[k].test)
                          /\ composites[k].determination = "FAIL" <=> failed # {}
                          /\ composites[k].determination = "PASS" <=> failed \cup suspended = {}
    BY DEF DeterminationIsSupported
  <2> DEFINE links == composites[k].links
             cases == CasesOf(composites[k].test)
             outcome(target) == links[target].attempt
             failed == {target \in cases :
                           outcome(target) \in DOMAIN results
                           /\ results[outcome(target)].verdict = "FAIL"}
             suspended == {target \in cases : outcome(target) \in DOMAIN suspensions}
  <2>1. DOMAIN links = cases /\ composites[k].determination = Aggregate(Verdicts(links))
    BY <1>1 DEF CompositeInv, RowHolds
  <2>2. ASSUME NEW target \in cases
        PROVE  /\ links[target].verdict = "FAIL" <=> target \in failed
               /\ links[target].verdict = "BLOCKED-TEST" <=> target \in suspended
               /\ links[target].verdict \in {"PASS", "FAIL", "BLOCKED-TEST"}
    <3>1. LinkResolves(links[target]) BY <1>1, <2>1 DEF CompositeInv, LinksHold
    <3> QED BY <1>1, <3>1, LinkVerdict
  <2> HIDE DEF links, cases, failed, suspended
  <2>3. "FAIL" \in Verdicts(links) <=> failed # {}
    <3>1. failed \subseteq cases BY DEF failed
    <3> QED BY <2>1, <2>2, <3>1 DEF Verdicts
  <2>4. "BLOCKED-TEST" \in Verdicts(links) <=> suspended # {}
    <3>1. suspended \subseteq cases BY DEF suspended
    <3> QED BY <2>1, <2>2, <3>1 DEF Verdicts
  <2>5. /\ composites[k].determination = "FAIL" <=> failed # {}
        /\ composites[k].determination = "PASS" <=> failed \cup suspended = {}
    BY <2>1, <2>3, <2>4 DEF Aggregate
  <2> QED BY <2>1, <2>5 DEF links, cases, failed, suspended
<1> QED BY <1>1, CompositesStay, ServiceStays, PTL

-----------------------------------------------------------------------------
(* Packages.  What passes its boundary is final, so the content that was   *)
(* read stays what would be read, until it is registered and ever after.   *)
(* The other records a package has seen go on changing, but in one         *)
(* direction: runs advance, roles are taken, snapshots are added, and an   *)
(* execution gets its outcome, each of them for good.                      *)

\* What PackagesShowTheirSource asks of a content.
ShowsSource(content) ==
    /\ content \in Exportable
    /\ content.kind = "EXECUTION" =>
           /\ content.source \in DOMAIN results
           /\ content.evidence = results[content.source].evidence
    /\ content.kind = "COMPOSITE" => \A target \in DOMAIN content.evidence :
           content.evidence[target] = composites[content.source].links[target].evidence

\* The same, by the kind of the source.
Shows(content) ==
    \/ \E a \in Attempts :
          /\ ExportBoundary(a) /\ content = ExecutionContent(a)
          /\ a \in DOMAIN results /\ results[a].evidence = ListEvidence(a)
    \/ \E a \in Attempts : SuspensionResolved(a) /\ content = SuspensionContent(a)
    \/ \E k \in Composites :
          /\ CompositeBoundary(k) /\ content = CompositeContent(k)
          /\ LinksHold(k)

\* A result link's evidence is the list, a suspension link's what its record gives.
LEMMA LinkEvidence ==
    ASSUME NEW link, LinkResolves(link)
    PROVE  link.evidence = IF link.kind = "EXECUTION_RESULT" THEN ListEvidence(link.attempt)
                           ELSE SuspensionLink(link.attempt).evidence
BY DEF LinkResolves, ResultLink, SuspensionLink

LEMMA ShowsImplies ==
    ASSUME NEW content, Shows(content)
    PROVE  ShowsSource(content)
<1>1. CASE \E a \in Attempts :
              /\ ExportBoundary(a) /\ content = ExecutionContent(a)
              /\ a \in DOMAIN results /\ results[a].evidence = ListEvidence(a)
  <2>1. PICK a \in Attempts :
              /\ ExportBoundary(a) /\ content = ExecutionContent(a)
              /\ a \in DOMAIN results /\ results[a].evidence = ListEvidence(a)
    BY <1>1
  <2>2. content.kind = "EXECUTION" /\ content.source = a /\ content.evidence = ListEvidence(a)
    BY <2>1 DEF ExecutionContent
  <2>3. content \in Exportable BY <2>1 DEF Exportable
  <2> QED BY <2>1, <2>2, <2>3 DEF ShowsSource
<1>2. CASE \E a \in Attempts : SuspensionResolved(a) /\ content = SuspensionContent(a)
  <2>1. content \in Exportable BY <1>2 DEF Exportable
  <2>2. content.kind = "SUSPENSION" BY <1>2 DEF SuspensionContent
  <2> QED BY <2>1, <2>2 DEF ShowsSource
<1>3. CASE \E k \in Composites :
              /\ CompositeBoundary(k) /\ content = CompositeContent(k)
              /\ LinksHold(k)
  <2>1. PICK k \in Composites :
              /\ CompositeBoundary(k) /\ content = CompositeContent(k)
              /\ LinksHold(k)
    BY <1>3
  <2>2. content \in Exportable BY <2>1 DEF Exportable
  <2>3. /\ content.kind = "COMPOSITE" /\ content.source = k
        /\ content.evidence = [target \in DOMAIN composites[k].links |->
                      LET link == composites[k].links[target] IN
                      IF link.kind = "EXECUTION_RESULT" THEN ListEvidence(link.attempt)
                      ELSE SuspensionLink(link.attempt).evidence]
    BY <2>1 DEF CompositeContent
  <2>4. \A target \in DOMAIN content.evidence :
            content.evidence[target] = composites[k].links[target].evidence
    BY <2>1, <2>3, LinkEvidence DEF LinksHold
  <2> QED BY <2>2, <2>3, <2>4 DEF ShowsSource
<1> QED BY <1>1, <1>2, <1>3 DEF Shows

\* What may be exported shows its source.
LEMMA ExportableShows ==
    ASSUME ServiceInv, CompositeInv, NEW content \in Exportable
    PROVE  Shows(content)
<1>1. CASE \E a \in Attempts : ExportBoundary(a) /\ content = ExecutionContent(a)
  <2>1. PICK a \in Attempts : ExportBoundary(a) /\ content = ExecutionContent(a) BY <1>1
  <2>2. a \in DOMAIN attempts /\ a \in DOMAIN results
    BY <2>1 DEF ExportBoundary, ServiceInv, TypeOK, RowsOK, OneOutcome
  <2>3. results[a].evidence = ListEvidence(a)
    BY <2>2 DEF ServiceInv, EvidenceInv, ResultsRestOnEvidence
  <2> QED BY <2>1, <2>2, <2>3 DEF Shows
<1>2. CASE \E a \in Attempts : SuspensionResolved(a) /\ content = SuspensionContent(a)
  BY <1>2 DEF Shows
<1>3. CASE \E k \in Composites : CompositeBoundary(k) /\ content = CompositeContent(k)
  BY <1>3 DEF Shows, CompositeBoundary, CompositeInv
<1> QED BY <1>1, <1>2, <1>3 DEF Exportable

\* A composite that passes its boundary is not written again.
LEMMA FinalisedStays ==
    ASSUME [ExportNext]_exportVars, NEW k \in DOMAIN composites,
           composites[k].status = "FINALISED"
    PROVE  k \in DOMAIN composites' /\ composites'[k] = composites[k]
<1>1. ASSUME NEW l \in Composites, FinaliseComposite(l)
      PROVE  k \in DOMAIN composites' /\ composites'[k] = composites[k]
  <2>1. l # k BY <1>1 DEF FinaliseComposite
  <2> QED BY <1>1, <2>1 DEF FinaliseComposite
<1>2. ASSUME NEW l \in Composites, NEW test, NEW sources, NEW unread,
             AssembleComposite(l, test, sources, unread)
      PROVE  k \in DOMAIN composites' /\ composites'[k] = composites[k]
  <2>1. l \notin DOMAIN composites /\ \E row : composites' = Insert(composites, l, row)
    BY <1>2 DEF AssembleComposite
  <2> QED BY <2>1 DEF Insert
<1> QED BY <1>1, <1>2, CompositeChanges

LEMMA ExecutionShows ==
    ASSUME ServiceInv, [Next]_vars, NEW a \in Attempts, ExportBoundary(a), a \in DOMAIN results
    PROVE  ExportBoundary(a)' /\ ExecutionContent(a)' = ExecutionContent(a)
           /\ a \in DOMAIN results' /\ results'[a].evidence = results[a].evidence
           /\ ListEvidence(a)' = ListEvidence(a)
<1>1. a \in DOMAIN attempts /\ attempts[a].status = "EXECUTED"
  BY DEF ExportBoundary, ServiceInv, TypeOK, RowsOK, OneOutcome
<1>2. Untouched(a) BY <1>1, ClosedIsUntouched DEF ServiceInv
<1>3. ExportBoundary(a)' BY <1>2 DEF Untouched, ExportBoundary
<1>4. ExecutionContent(a)' = ExecutionContent(a) BY <1>2 DEF Untouched, ExecutionContent, OutcomeOf
<1> QED BY <1>2, <1>3, <1>4 DEF Untouched

LEMMA SuspensionShows ==
    ASSUME ServiceInv, [Next]_vars, NEW a \in Attempts, SuspensionResolved(a)
    PROVE  SuspensionResolved(a)' /\ SuspensionContent(a)' = SuspensionContent(a)
<1>1. a \in DOMAIN attempts /\ attempts[a].status = "SUSPENDED"
  BY DEF SuspensionResolved, ServiceInv, TypeOK, RowsOK
<1>2. Untouched(a) BY <1>1, ClosedIsUntouched DEF ServiceInv
<1>3. SuspensionResolved(a)' /\ SuspensionLink(a)' = SuspensionLink(a) BY <1>2, SuspensionStays
<1> QED BY <1>3 DEF SuspensionContent

\* The content of a composite is what its links list.
ListedBy(k) ==
    [kind |-> "COMPOSITE", source |-> k, outcome |-> composites[k].determination,
     evidence |-> [target \in DOMAIN composites[k].links |-> composites[k].links[target].evidence]]

LEMMA ContentIsListed ==
    \A k : LinksHold(k) => CompositeContent(k) = ListedBy(k)
<1> SUFFICES ASSUME NEW k, LinksHold(k) PROVE CompositeContent(k) = ListedBy(k)
  OBVIOUS
<1> DEFINE links == composites[k].links
           packed == [target \in DOMAIN links |->
                         LET link == links[target] IN
                         IF link.kind = "EXECUTION_RESULT" THEN ListEvidence(link.attempt)
                         ELSE SuspensionLink(link.attempt).evidence]
<1>1. \A target \in DOMAIN links : packed[target] = links[target].evidence
  BY LinkEvidence DEF LinksHold
<1>2. packed = [target \in DOMAIN links |-> links[target].evidence] BY <1>1
<1> QED BY <1>2 DEF CompositeContent, ListedBy

LEMMA CompositeShows ==
    ASSUME ServiceInv, [Next]_vars, [ExportNext]_exportVars, NEW k \in Composites,
           CompositeBoundary(k), LinksHold(k)
    PROVE  CompositeBoundary(k)' /\ CompositeContent(k)' = CompositeContent(k) /\ LinksHold(k)'
<1>1. k \in DOMAIN composites' /\ composites'[k] = composites[k]
      /\ composites[k].status = "FINALISED"
  BY FinalisedStays DEF CompositeBoundary
<1>2. LinksHold(k)' BY <1>1, LinksHoldOn DEF CompositeBoundary
<1>3. PICK links : links = composites[k].links OBVIOUS
<1>4. \A target \in DOMAIN links : LinkResolves(links[target])'
  <2>1. \A target \in DOMAIN links : LinkResolves(links[target])
    BY <1>3 DEF LinksHold
  <2> QED BY <2>1, LinkStays
<1>5. \A target \in DOMAIN links :
          LET link == links[target] IN
          IF link.kind = "EXECUTION_RESULT" THEN link.attempt \in DOMAIN results'
          ELSE SuspensionResolved(link.attempt)' /\ link = SuspensionLink(link.attempt)'
  BY <1>4 DEF LinkResolves, ResultVerified
<1>6. CompositeBoundary(k)'
  <2>1. ASSUME NEW target \in DOMAIN composites'[k].links
        PROVE  (LET link == composites[k].links[target] IN
                IF link.kind = "EXECUTION_RESULT" THEN link.attempt \in DOMAIN results
                ELSE SuspensionResolved(link.attempt) /\ link = SuspensionLink(link.attempt))'
    <3>1. PICK link : link = links[target] OBVIOUS
    <3>2. composites'[k].links[target] = link BY <1>1, <1>3, <3>1
    <3>3. target \in DOMAIN links BY <1>1, <1>3
    <3>4. CASE link.kind = "EXECUTION_RESULT" BY <1>5, <3>1, <3>2, <3>3, <3>4
    <3>5. CASE link.kind # "EXECUTION_RESULT"
      <4>1. SuspensionResolved(link.attempt)' /\ link = SuspensionLink(link.attempt)'
        BY <1>5, <3>1, <3>3, <3>5
      <4>2. SuspensionResolved(composites[k].links[target].attempt)'
        BY <3>2, <4>1 DEF SuspensionResolved, ListEvidence
      <4>3. SuspensionLink(composites[k].links[target].attempt)' = link
        BY <3>2, <4>1 DEF SuspensionLink, ListEvidence
      <4> QED BY <3>2, <3>5, <4>2, <4>3
    <3> QED BY <3>4, <3>5
  <2> QED BY <1>1, <2>1 DEF CompositeBoundary
<1>7. CompositeContent(k)' = ListedBy(k)
  <2>1. ASSUME NEW target \in DOMAIN links
        PROVE  links[target].evidence =
                 (LET link == composites[k].links[target] IN
                  IF link.kind = "EXECUTION_RESULT" THEN ListEvidence(link.attempt)
                  ELSE SuspensionLink(link.attempt).evidence)'
    <3>1. PICK link : link = links[target] OBVIOUS
    <3>2. composites'[k].links[target] = link BY <1>1, <1>3, <3>1
    <3>3. LinkResolves(link)' BY <1>4, <3>1
    <3>4. CASE link.kind = "EXECUTION_RESULT"
      <4>1. link = ResultLink(link.attempt)' BY <3>3, <3>4 DEF LinkResolves
      <4>2. link.evidence = ListEvidence(link.attempt)' BY <4>1 DEF ResultLink
      <4>3. link.evidence = ListEvidence(composites[k].links[target].attempt)'
        BY <3>2, <4>2 DEF ListEvidence
      <4> QED BY <3>1, <3>2, <3>4, <4>3
    <3>5. CASE link.kind # "EXECUTION_RESULT"
      <4>1. link = SuspensionLink(link.attempt)' BY <3>3, <3>5 DEF LinkResolves
      <4>2. link = SuspensionLink(composites[k].links[target].attempt)'
        BY <3>2, <4>1 DEF SuspensionLink, ListEvidence
      <4> QED BY <3>1, <3>2, <3>5, <4>2
    <3> QED BY <3>4, <3>5
  <2>2. (CompositeContent(k).evidence)' =
            [target \in DOMAIN links |->
                 (LET link == composites[k].links[target] IN
                  IF link.kind = "EXECUTION_RESULT" THEN ListEvidence(link.attempt)
                  ELSE SuspensionLink(link.attempt).evidence)']
    BY <1>1, <1>3 DEF CompositeContent
  <2>3. (CompositeContent(k).evidence)' = [target \in DOMAIN links |-> links[target].evidence]
    BY <2>1, <2>2
  <2> QED BY <1>1, <1>3, <2>3 DEF CompositeContent, ListedBy
<1>8. CompositeContent(k) = ListedBy(k) BY ContentIsListed
<1> QED BY <1>2, <1>6, <1>7, <1>8

LEMMA ShowsOn ==
    ASSUME ServiceInv, [ExportNext]_exportVars, NEW content, Shows(content)
    PROVE  Shows(content)'
<1>1. [Next]_vars BY ExportStepIsServiceStep DEF ServiceInv
<1>2. ASSUME NEW a \in Attempts,
             ExportBoundary(a), content = ExecutionContent(a),
             a \in DOMAIN results, results[a].evidence = ListEvidence(a)
      PROVE  Shows(content)'
  BY <1>1, <1>2, ExecutionShows DEF Shows
<1>3. ASSUME NEW a \in Attempts, SuspensionResolved(a), content = SuspensionContent(a)
      PROVE  Shows(content)'
  BY <1>1, <1>3, SuspensionShows DEF Shows
<1>4. ASSUME NEW k \in Composites, CompositeBoundary(k), content = CompositeContent(k), LinksHold(k)
      PROVE  Shows(content)'
  BY <1>1, <1>4, CompositeShows DEF Shows
<1> QED BY <1>2, <1>3, <1>4 DEF Shows

-----------------------------------------------------------------------------
(* What a generation sees of the records that go on changing.              *)

LEMMA EvidenceStays ==
    ASSUME [Next]_vars, NEW key \in DOMAIN evidence
    PROVE  key \in DOMAIN evidence' /\ evidence'[key] = evidence[key]
<1>1. CASE UNCHANGED evidence BY <1>1
<1>2. ASSUME NEW a, NEW c, NEW row, EvidenceAdmitted(a, c),
             evidence' = Insert(evidence, <<a, c>>, row)
      PROVE  key \in DOMAIN evidence' /\ evidence'[key] = evidence[key]
  BY <1>2 DEF EvidenceAdmitted, Insert
<1> QED BY <1>1, <1>2, EvidenceChanges

LEMMA ListStays ==
    ASSUME [Next]_vars, NEW a
    PROVE  DOMAIN ListEvidence(a) \subseteq DOMAIN ListEvidence(a)'
BY EvidenceStays DEF ListEvidence

\* Who has an outcome is executed.
LEMMA OutcomeStays ==
    ASSUME ServiceInv, [Next]_vars, NEW a, OutcomeOf(a) # "NONE"
    PROVE  OutcomeOf(a)' = OutcomeOf(a) /\ ListEvidence(a)' = ListEvidence(a)
<1>1. a \in DOMAIN results BY DEF OutcomeOf
<1>2. a \in DOMAIN attempts /\ attempts[a].status = "EXECUTED"
  BY <1>1 DEF ServiceInv, TypeOK, RowsOK, OneOutcome
<1>3. Untouched(a) BY <1>2, ClosedIsUntouched DEF ServiceInv
<1> QED BY <1>1, <1>3 DEF Untouched, OutcomeOf

RunsInv == progress \in [Runs -> Nat]

LEMMA RunsAdvance ==
    ASSUME RunsInv, [ExportNext]_exportVars
    PROVE  RunsInv' /\ \A r \in Runs : progress[r] <= progress'[r]
<1>1. CASE UNCHANGED progress BY <1>1 DEF RunsInv
<1>2. ASSUME NEW r \in Runs, RunAdvances(r)
      PROVE  RunsInv' /\ \A q \in Runs : progress[q] <= progress'[q]
  BY <1>2 DEF RunAdvances, RunsInv
<1>3. UNCHANGED exportVars \/ ServiceStep \/ ExportCrash => UNCHANGED progress
  BY DEF exportVars, sourceVars, ServiceStep, ExportCrash
<1>4. ASSUME NEW role \in ChainRoles, NEW a \in Attempts, ChainGrows(role, a)
      PROVE  UNCHANGED progress
  BY <1>4 DEF ChainGrows
<1>5. ASSUME NEW x \in Exporters, NEW p \in Packages, ExportReads(x, p)
      PROVE  UNCHANGED progress
  BY <1>5 DEF ExportReads, sourceVars
<1>6. ASSUME NEW x \in Exporters, ExportReadsChain(x) \/ ExportWrites(x) \/ ExportRegisters(x)
      PROVE  UNCHANGED progress
  BY <1>6 DEF ExportReadsChain, ExportWrites, ExportRegisters, sourceVars
<1>7. ASSUME NEW x \in Exporters, NEW a \in Attempts,
             ExportReadsRun(x, a) \/ ExportReadsExecution(x, a) \/ ExportReadsEvidence(x, a)
      PROVE  UNCHANGED progress
  BY <1>7 DEF ExportReadsRun, ExportReadsExecution, ExportReadsEvidence, sourceVars
<1> QED BY <1>1, <1>2, <1>3, <1>4, <1>5, <1>6, <1>7 DEF ExportNext

\* How the chain changes.
LEMMA ChainChanges ==
    ASSUME [ExportNext]_exportVars
    PROVE  UNCHANGED chain \/ \E role \in ChainRoles, a \in Attempts : ChainGrows(role, a)
<1>1. UNCHANGED exportVars \/ ServiceStep \/ ExportCrash => UNCHANGED chain
  BY DEF exportVars, sourceVars, ServiceStep, ExportCrash
<1>2. ASSUME NEW r \in Runs, RunAdvances(r) PROVE UNCHANGED chain BY <1>2 DEF RunAdvances
<1>3. ASSUME NEW x \in Exporters, NEW p \in Packages, ExportReads(x, p)
      PROVE  UNCHANGED chain
  BY <1>3 DEF ExportReads, sourceVars
<1>4. ASSUME NEW x \in Exporters, ExportReadsChain(x) \/ ExportWrites(x) \/ ExportRegisters(x)
      PROVE  UNCHANGED chain
  BY <1>4 DEF ExportReadsChain, ExportWrites, ExportRegisters, sourceVars
<1>5. ASSUME NEW x \in Exporters, NEW a \in Attempts,
             ExportReadsRun(x, a) \/ ExportReadsExecution(x, a) \/ ExportReadsEvidence(x, a)
      PROVE  UNCHANGED chain
  BY <1>5 DEF ExportReadsRun, ExportReadsExecution, ExportReadsEvidence, sourceVars
<1> QED BY <1>1, <1>2, <1>3, <1>4, <1>5 DEF ExportNext

LEMMA ChainStays ==
    ASSUME [ExportNext]_exportVars, NEW role \in DOMAIN chain
    PROVE  role \in DOMAIN chain' /\ chain'[role] = chain[role]
BY ChainChanges DEF ChainGrows, MayTakeRole, Insert

\* The roles are taken in their order.
InOrder(shown) ==
    /\ DOMAIN shown # {} => "ORIGINAL" \in DOMAIN shown
    /\ "REGRESSION" \in DOMAIN shown => "DIRECT_REPEAT" \in DOMAIN shown

\* The original failed, its repeat passed, the regression has a snapshot.
ChainInv ==
    /\ InOrder(chain)
    /\ "ORIGINAL" \in DOMAIN chain => OutcomeOf(chain["ORIGINAL"]) = "FAIL"
    /\ "DIRECT_REPEAT" \in DOMAIN chain => OutcomeOf(chain["DIRECT_REPEAT"]) = "PASS"
    /\ "REGRESSION" \in DOMAIN chain => DOMAIN ListEvidence(chain["REGRESSION"]) # {}

LEMMA ChainKept ==
    ASSUME ServiceInv, ChainInv, [ExportNext]_exportVars
    PROVE  ChainInv'
<1>1. [Next]_vars BY ExportStepIsServiceStep DEF ServiceInv
<1>2. CASE UNCHANGED chain
  <2>1. \A a : OutcomeOf(a) # "NONE" => OutcomeOf(a)' = OutcomeOf(a) BY <1>1, OutcomeStays
  <2>2. \A a : DOMAIN ListEvidence(a) \subseteq DOMAIN ListEvidence(a)' BY <1>1, ListStays
  <2>3. PICK roles : roles = chain OBVIOUS
  <2>4. /\ "ORIGINAL" \in DOMAIN roles => OutcomeOf(roles["ORIGINAL"])' = "FAIL"
        /\ "DIRECT_REPEAT" \in DOMAIN roles => OutcomeOf(roles["DIRECT_REPEAT"])' = "PASS"
        /\ "REGRESSION" \in DOMAIN roles => DOMAIN ListEvidence(roles["REGRESSION"])' # {}
    <3>1. OutcomeOf(roles["ORIGINAL"]) # "NONE"
             => OutcomeOf(roles["ORIGINAL"])' = OutcomeOf(roles["ORIGINAL"])
      BY <1>1, OutcomeStays
    <3>2. OutcomeOf(roles["DIRECT_REPEAT"]) # "NONE"
             => OutcomeOf(roles["DIRECT_REPEAT"])' = OutcomeOf(roles["DIRECT_REPEAT"])
      BY <1>1, OutcomeStays
    <3>3. DOMAIN ListEvidence(roles["REGRESSION"]) \subseteq DOMAIN ListEvidence(roles["REGRESSION"])'
      BY <1>1, ListStays
    <3> QED BY <2>3, <3>1, <3>2, <3>3 DEF ChainInv
  <2>5. roles = chain' BY <1>2, <2>3
  <2> QED BY <2>3, <2>4, <2>5 DEF ChainInv, InOrder, OutcomeOf, ListEvidence
<1>3. ASSUME NEW role \in ChainRoles, NEW a \in Attempts, ChainGrows(role, a)
      PROVE  ChainInv'
  <2>1. MayTakeRole(role, a) /\ chain' = Insert(chain, role, a) /\ UNCHANGED vars
    BY <1>3 DEF ChainGrows, compositeVars
  <2>2. \A b : OutcomeOf(b)' = OutcomeOf(b) /\ ListEvidence(b)' = ListEvidence(b)
    BY <2>1 DEF vars, tables, OutcomeOf, ListEvidence
  <2>3. DOMAIN chain' = DOMAIN chain \cup {role} /\ chain'[role] = a /\ role \notin DOMAIN chain
        /\ \A other \in DOMAIN chain : chain'[other] = chain[other]
    BY <2>1 DEF Insert, MayTakeRole
  <2>4. /\ UNCHANGED results /\ UNCHANGED evidence BY <2>1 DEF vars, tables
  <2>5. CASE role = "ORIGINAL"
    <3>1. OutcomeOf(a) = "FAIL" BY <2>1, <2>5 DEF MayTakeRole, HasResult, OutcomeOf
    <3> QED BY <2>3, <2>4, <2>5, <3>1 DEF ChainInv, InOrder, OutcomeOf, ListEvidence
  <2>6. CASE role = "DIRECT_REPEAT"
    <3>1. OutcomeOf(a) = "PASS" /\ "ORIGINAL" \in DOMAIN chain
      BY <2>1, <2>6 DEF MayTakeRole, HasResult, OutcomeOf
    <3> QED BY <2>3, <2>4, <2>6, <3>1 DEF ChainInv, InOrder, OutcomeOf, ListEvidence
  <2>7. CASE role = "REGRESSION"
    <3>1. DOMAIN ListEvidence(a) # {} /\ "DIRECT_REPEAT" \in DOMAIN chain
      BY <2>1, <2>7 DEF MayTakeRole
    <3> QED BY <2>3, <2>4, <2>7, <3>1 DEF ChainInv, InOrder, OutcomeOf, ListEvidence
  <2> QED BY <2>5, <2>6, <2>7 DEF ChainRoles
<1> QED BY <1>2, <1>3, ChainChanges

\* What was seen of an execution's row, of its snapshots, and of a run.
OutcomeHolds(content, seen, a) ==
    /\ seen.outcomes[a] # "NONE" => seen.outcomes[a] = OutcomeOf(a)
    /\ a = content.source => seen.outcomes[a] # "NONE"
    /\ \A role \in {"ORIGINAL", "DIRECT_REPEAT"} \cap DOMAIN seen.chain :
           a = seen.chain[role] => seen.outcomes[a] # "NONE"

SnapshotsHold(seen, a) ==
    /\ a \in DOMAIN seen.outcomes
    /\ \A c \in DOMAIN seen.evidence[a] : <<a, c>> \in DOMAIN evidence
                                         /\ seen.evidence[a][c] = evidence[<<a, c>>]
    /\ seen.outcomes[a] # "NONE" => seen.evidence[a] = ListEvidence(a)
    /\ "REGRESSION" \in DOMAIN seen.chain /\ a = seen.chain["REGRESSION"] =>
           DOMAIN seen.evidence[a] # {}

RunHolds(seen, a) ==
    /\ a \in DOMAIN executions /\ seen.runs[a] \in Nat
    /\ seen.runs[a] <= progress[executions[a].run]

ChainSeen(content, shown) ==
    /\ \A role \in DOMAIN shown : role \in DOMAIN chain /\ shown[role] = chain[role]
    /\ InOrder(shown)
    /\ DOMAIN shown # {} => content.source \in RelatedExecutions(shown)

SeenHolds(content, seen) ==
    /\ DOMAIN seen = {"runs", "chain", "outcomes", "evidence"}
    /\ ChainSeen(content, seen.chain)
    /\ \A a \in DOMAIN seen.outcomes : OutcomeHolds(content, seen, a)
    /\ \A a \in DOMAIN seen.evidence : SnapshotsHold(seen, a)
    /\ \A a \in DOMAIN seen.runs : RunHolds(seen, a)

\* What was seen stays so.
LEMMA SeenHoldsOn ==
    ASSUME ServiceInv, RunsInv, [ExportNext]_exportVars, NEW content, NEW seen,
           SeenHolds(content, seen)
    PROVE  SeenHolds(content, seen)'
<1>1. [Next]_vars BY ExportStepIsServiceStep DEF ServiceInv
<1>2. ChainSeen(content, seen.chain)'
  BY ChainStays DEF SeenHolds, ChainSeen
<1>3. ASSUME NEW a \in DOMAIN seen.outcomes PROVE OutcomeHolds(content, seen, a)'
  <2>1. OutcomeHolds(content, seen, a) BY DEF SeenHolds
  <2>2. OutcomeOf(a) # "NONE" => OutcomeOf(a)' = OutcomeOf(a) BY <1>1, OutcomeStays
  <2> QED BY <2>1, <2>2 DEF OutcomeHolds
<1>4. ASSUME NEW a \in DOMAIN seen.evidence PROVE SnapshotsHold(seen, a)'
  <2>1. SnapshotsHold(seen, a) BY DEF SeenHolds
  <2>2. seen.outcomes[a] # "NONE" => ListEvidence(a)' = ListEvidence(a)
    <3>1. OutcomeHolds(content, seen, a) BY <2>1 DEF SeenHolds, SnapshotsHold
    <3> QED BY <1>1, <3>1, OutcomeStays DEF OutcomeHolds
  <2>3. \A key \in DOMAIN evidence : key \in DOMAIN evidence' /\ evidence'[key] = evidence[key]
    BY <1>1, EvidenceStays
  <2> QED BY <2>1, <2>2, <2>3 DEF SnapshotsHold
<1>5. ASSUME NEW a \in DOMAIN seen.runs PROVE RunHolds(seen, a)'
  <2>1. RunHolds(seen, a) BY DEF SeenHolds
  <2>2. a \in DOMAIN executions' /\ executions'[a].run = executions[a].run
    BY <1>1, <2>1, ExecutionsKeepRun DEF RunHolds, ServiceInv, BindingInv
  <2>3. executions[a].run \in Runs BY <2>1 DEF RunHolds, ServiceInv, TypeOK, RowsOK, ExecutionRows
  <2>4. PICK r \in Runs : r = executions[a].run BY <2>3
  <2>5. progress[r] \in Nat /\ progress'[r] \in Nat /\ progress[r] <= progress'[r]
    BY RunsAdvance DEF RunsInv
  <2>6. seen.runs[a] \in Nat /\ seen.runs[a] <= progress[r] BY <2>1, <2>4 DEF RunHolds
  <2>7. seen.runs[a] <= progress'[r] BY <2>5, <2>6
  <2> QED BY <2>2, <2>4, <2>6, <2>7 DEF RunHolds
<1> QED BY <1>2, <1>3, <1>4, <1>5 DEF SeenHolds

\* The runs a package needs are known once its content is.
LEMMA RunsPackedStay ==
    ASSUME ServiceInv, [ExportNext]_exportVars, NEW content, Shows(content)
    PROVE  RunsPacked(content)' = RunsPacked(content)
           /\ RunsPacked(content) \subseteq DOMAIN executions
<1>1. [Next]_vars BY ExportStepIsServiceStep DEF ServiceInv
<1>2. ASSUME NEW a \in Attempts, content = ExecutionContent(a)
      PROVE  RunsPacked(content)' = RunsPacked(content)
             /\ RunsPacked(content) \subseteq DOMAIN executions
  <2>1. content.kind = "EXECUTION" BY <1>2 DEF ExecutionContent
  <2> QED BY <2>1 DEF RunsPacked
<1>3. ASSUME NEW a \in Attempts, SuspensionResolved(a), content = SuspensionContent(a)
      PROVE  RunsPacked(content)' = RunsPacked(content)
             /\ RunsPacked(content) \subseteq DOMAIN executions
  <2>1. content.kind = "SUSPENSION" /\ content.source = a BY <1>3 DEF SuspensionContent
  <2>2. a \in DOMAIN suspensions /\ a \in DOMAIN attempts /\ attempts[a].status = "SUSPENDED"
    BY <1>3 DEF SuspensionResolved, ServiceInv, TypeOK, RowsOK
  <2>3. suspensions'[a] = suspensions[a]
    BY <1>1, <2>2, ClosedIsUntouched DEF Untouched, ServiceInv
  <2>4. suspensions[a].linked => a \in DOMAIN executions
    BY <2>2 DEF ServiceInv, BindingInv, LinkedSuspensionsResolve
  <2> QED BY <2>1, <2>3, <2>4 DEF RunsPacked
<1>4. ASSUME NEW k \in Composites, CompositeBoundary(k), content = CompositeContent(k),
             LinksHold(k)
      PROVE  RunsPacked(content)' = RunsPacked(content)
             /\ RunsPacked(content) \subseteq DOMAIN executions
  <2>1. content.kind = "COMPOSITE" /\ content.source = k BY <1>4 DEF CompositeContent
  <2>2. PICK links : links = composites[k].links OBVIOUS
  <2>3. composites'[k].links = links BY <1>4, <2>2, FinalisedStays DEF CompositeBoundary
  <2> DEFINE linked == {links[target].attempt : target \in DOMAIN links}
  <2>4. ASSUME NEW a \in linked
        PROVE  /\ a \in DOMAIN suspensions <=> a \in DOMAIN suspensions'
               /\ a \in DOMAIN suspensions => suspensions'[a] = suspensions[a]
               /\ (a \in DOMAIN suspensions => suspensions[a].linked) => a \in DOMAIN executions
    <3>1. PICK target \in DOMAIN links : a = links[target].attempt OBVIOUS
    <3>2. PICK link : link = links[target] OBVIOUS
    <3>3. LinkResolves(link) BY <1>4, <2>2, <3>2 DEF LinksHold
    <3>4. a = link.attempt BY <3>1, <3>2
    <3>5. /\ a \in DOMAIN attempts /\ attempts[a].status \in {"EXECUTED", "SUSPENDED"}
          /\ ResultVerified(a) \/ a \in DOMAIN suspensions
      BY <3>3, <3>4, LinkNames
    <3>6. Untouched(a) BY <1>1, <3>5, ClosedIsUntouched DEF ServiceInv
    <3>7. ResultVerified(a) => a \in DOMAIN executions
      BY DEF ResultVerified, ServiceInv, TypeOK, RowsOK
    <3>8. a \in DOMAIN suspensions /\ suspensions[a].linked => a \in DOMAIN executions
      BY DEF ServiceInv, BindingInv, LinkedSuspensionsResolve
    <3> QED BY <3>5, <3>6, <3>7, <3>8 DEF Untouched
  <2>5. RunsPacked(content) = {a \in linked : a \in DOMAIN suspensions => suspensions[a].linked}
    BY <2>1, <2>2 DEF RunsPacked
  <2>6. RunsPacked(content)' =
            {a \in linked : a \in DOMAIN suspensions' => suspensions'[a].linked}
    BY <2>1, <2>3 DEF RunsPacked
  <2> HIDE DEF linked
  <2> QED BY <2>4, <2>5, <2>6
<1> QED BY <1>2, <1>3, <1>4 DEF Shows

-----------------------------------------------------------------------------
(* Generations.                                                            *)

\* What is read and what is left to read make up what a package has to have.
ReadSoFar(content, seen, left) ==
    /\ DOMAIN seen.runs \cup (IF content.kind = "EXECUTION" THEN {} ELSE left)
           = RunsPacked(content)
    /\ DOMAIN seen.evidence \cup (IF content.kind = "EXECUTION" THEN left ELSE {})
           = RelatedExecutions(seen.chain)
    /\ content.kind = "EXECUTION" => left \cap DOMAIN seen.evidence = {}
    /\ DOMAIN seen.outcomes \subseteq RelatedExecutions(seen.chain)


CallColumns == {"step", "package", "content", "left", "seen"}

\* A generation has its package's name for itself, and holds what its source shows.
GenerationHolds(call) ==
    /\ DOMAIN call = CallColumns
    /\ call.step \in {"CHAIN", "READ", "REGISTER"}
    /\ Shows(call.content) /\ call.package \notin DOMAIN packages
    /\ SeenHolds(call.content, call.seen) /\ ReadSoFar(call.content, call.seen, call.left)
    /\ call.step = "CHAIN" =>
           /\ call.content.kind = "EXECUTION" /\ call.left = {} /\ call.seen = NothingSeen
    /\ IF call.step = "REGISTER"
       THEN /\ call.left = {}
            /\ call.package \in DOMAIN archives
            /\ archives[call.package] = ArchiveOf(call)
       ELSE call.package \notin DOMAIN archives

CallHolds(call) == call = Resting \/ GenerationHolds(call)

GenerationsHold == DOMAIN exports = Exporters /\ \A x \in Exporters : CallHolds(exports[x])

OnePackageEach ==
    \A x, y \in Exporters :
        exports[x] # Resting /\ exports[y] # Resting /\ x # y =>
            exports[x].package # exports[y].package

ArchiveHolds(archive) ==
    /\ Shows(archive.content)
    /\ SeenHolds(archive.content, archive.seen)
    /\ ReadSoFar(archive.content, archive.seen, {})

PackageHolds(p) == Downloads(p) /\ ArchiveHolds(packages[p])

PackageInv ==
    /\ GenerationsHold /\ OnePackageEach
    /\ \A p \in DOMAIN packages : PackageHolds(p)

\* Generations under way, and what the invariant is preserved under.
ExportInv == ServiceInv /\ CompositeInv /\ RunsInv /\ ChainInv

LEMMA ReadSoFarOn ==
    ASSUME ServiceInv, [ExportNext]_exportVars, NEW content, NEW seen, NEW left,
           Shows(content), ReadSoFar(content, seen, left)
    PROVE  ReadSoFar(content, seen, left)'
<1>1. RunsPacked(content)' = RunsPacked(content) BY RunsPackedStay
<1> QED BY <1>1 DEF ReadSoFar, RelatedExecutions

\* Other generations and other packages go on as they are.
LEMMA CallHoldsOn ==
    ASSUME ExportInv, [ExportNext]_exportVars, NEW call, CallHolds(call),
           call # Resting =>
               /\ call.package \in DOMAIN packages' => call.package \in DOMAIN packages
               /\ call.package \in DOMAIN archives <=> call.package \in DOMAIN archives'
               /\ call.package \in DOMAIN archives =>
                      archives'[call.package] = archives[call.package]
    PROVE  CallHolds(call)'
<1>1. CASE call = Resting BY <1>1 DEF CallHolds
<1>2. CASE call # Resting
  <2>1. GenerationHolds(call) BY <1>2 DEF CallHolds
  <2>2. PICK content, seen, left :
            content = call.content /\ seen = call.seen /\ left = call.left
    OBVIOUS
  <2>3. Shows(content)' /\ SeenHolds(content, seen)' /\ ReadSoFar(content, seen, left)'
    BY <2>1, <2>2, ShowsOn, SeenHoldsOn, ReadSoFarOn DEF GenerationHolds, ExportInv
  <2>4. Shows(call.content)' /\ SeenHolds(call.content, call.seen)'
        /\ ReadSoFar(call.content, call.seen, call.left)'
    BY <2>2, <2>3
  <2> QED BY <1>2, <2>1, <2>4 DEF CallHolds, GenerationHolds, ArchiveOf
<1> QED BY <1>1, <1>2

LEMMA ArchiveHoldsOn ==
    ASSUME ExportInv, [ExportNext]_exportVars, NEW archive, ArchiveHolds(archive)
    PROVE  ArchiveHolds(archive)'
<1>1. PICK content, seen : content = archive.content /\ seen = archive.seen OBVIOUS
<1>2. Shows(content)' /\ SeenHolds(content, seen)' /\ ReadSoFar(content, seen, {})'
  BY <1>1, ShowsOn, SeenHoldsOn, ReadSoFarOn DEF ArchiveHolds, ExportInv
<1> QED BY <1>1, <1>2 DEF ArchiveHolds

LEMMA PackageHoldsOn ==
    ASSUME ExportInv, [ExportNext]_exportVars, NEW p \in DOMAIN packages, PackageHolds(p),
           p \in DOMAIN packages', packages'[p] = packages[p],
           p \in DOMAIN archives', archives'[p] = archives[p]
    PROVE  PackageHolds(p)'
<1>1. PICK archive : archive = packages[p] OBVIOUS
<1>2. ArchiveHolds(archive)' BY <1>1, ArchiveHoldsOn DEF PackageHolds
<1>3. ArchiveHolds(packages[p])'
  <2>1. packages'[p] = archive BY <1>1
  <2> QED BY <1>2, <2>1
<1> QED BY <1>3 DEF PackageHolds, Downloads

\* Steps that only let generations go on or end.
LEMMA OthersKeepPackages ==
    ASSUME ExportInv, PackageInv, [ExportNext]_exportVars, UNCHANGED <<archives, packages>>,
           DOMAIN exports' = Exporters,
           \A x \in Exporters : exports'[x] \in {exports[x], Resting}
    PROVE  PackageInv'
<1>1. ASSUME NEW x \in Exporters PROVE CallHolds(exports[x])'
  <2>1. PICK call : call = exports'[x] OBVIOUS
  <2>2. CallHolds(call) BY <2>1 DEF PackageInv, GenerationsHold, CallHolds
  <2>3. CallHolds(call)' BY <2>2, CallHoldsOn
  <2> QED BY <2>1, <2>3
<1>2. GenerationsHold' BY <1>1 DEF GenerationsHold
<1>3. OnePackageEach' BY DEF PackageInv, OnePackageEach
<1>4. ASSUME NEW p \in DOMAIN packages' PROVE PackageHolds(p)'
  <2>1. PackageHolds(p) /\ p \in DOMAIN archives BY DEF PackageInv, PackageHolds, Downloads
  <2> QED BY <2>1, PackageHoldsOn
<1> QED BY <1>2, <1>3, <1>4 DEF PackageInv

LEMMA ExportReadsKeeps ==
    ASSUME ExportInv, PackageInv, [ExportNext]_exportVars,
           NEW x \in Exporters, NEW p \in Packages, ExportReads(x, p)
    PROVE  PackageInv'
<1> DEFINE begun(content) ==
             [step |-> IF content.kind = "EXECUTION" THEN "CHAIN" ELSE "READ",
              package |-> p, content |-> content, left |-> RunsPacked(content),
              seen |-> NothingSeen]
<1>1. PICK content \in Exportable : Export(x, begun(content)) BY DEF ExportReads
<1>2. Shows(content) BY ExportableShows DEF ExportInv
<1>3. p \notin DOMAIN archives /\ UNCHANGED <<archives, packages>>
      /\ \A y \in Exporters : exports[y] # Resting => exports[y].package # p
  BY DEF ExportReads
<1>4. p \notin DOMAIN packages BY <1>3 DEF PackageInv, PackageHolds, Downloads
<1>5. DOMAIN exports' = Exporters /\ exports'[x] = begun(content)
      /\ \A y \in Exporters : y # x => exports'[y] = exports[y]
  BY <1>1 DEF PackageInv, GenerationsHold, Export
<1>6. DOMAIN NothingSeen = {"runs", "chain", "outcomes", "evidence"}
      /\ DOMAIN NothingSeen.runs = {} /\ DOMAIN NothingSeen.chain = {}
      /\ DOMAIN NothingSeen.outcomes = {} /\ DOMAIN NothingSeen.evidence = {}
  <2>1. DOMAIN << >> = {} OBVIOUS
  <2> QED BY <2>1 DEF NothingSeen
<1>7. SeenHolds(content, NothingSeen) BY <1>6 DEF SeenHolds, ChainSeen, InOrder
<1>8. ReadSoFar(content, NothingSeen, RunsPacked(content))
      /\ (content.kind = "EXECUTION" => RunsPacked(content) = {})
  <2>1. content.kind = "EXECUTION" => RunsPacked(content) = {} BY DEF RunsPacked
  <2>2. RelatedExecutions(NothingSeen.chain) = {} BY <1>6 DEF RelatedExecutions
  <2> QED BY <1>6, <2>1, <2>2 DEF ReadSoFar
<1>9. PICK call : call = begun(content) OBVIOUS
<1>10. /\ DOMAIN call = CallColumns /\ call.package = p /\ call.content = content
       /\ call.left = RunsPacked(content) /\ call.seen = NothingSeen
       /\ call.step = IF content.kind = "EXECUTION" THEN "CHAIN" ELSE "READ"
  BY <1>9 DEF CallColumns
<1> HIDE DEF begun
<1>11. CallHolds(call)
  BY <1>2, <1>3, <1>4, <1>7, <1>8, <1>10 DEF CallHolds, GenerationHolds
<1>12. ASSUME NEW y \in Exporters PROVE CallHolds(exports[y])'
  <2>1. PICK other : other = exports'[y] OBVIOUS
  <2>2. CallHolds(other) BY <1>5, <1>9, <1>11, <2>1 DEF PackageInv, GenerationsHold
  <2>3. CallHolds(other)' BY <1>3, <2>2, CallHoldsOn
  <2> QED BY <2>1, <2>3
<1>13. GenerationsHold' BY <1>5, <1>12 DEF GenerationsHold
<1>14. OnePackageEach'
  <2>1. exports'[x].package = p BY <1>5, <1>9, <1>10
  <2> QED BY <1>3, <1>5, <2>1 DEF PackageInv, OnePackageEach
<1>15. ASSUME NEW q \in DOMAIN packages' PROVE PackageHolds(q)'
  <2>1. PackageHolds(q) /\ q \in DOMAIN archives
    BY <1>3 DEF PackageInv, PackageHolds, Downloads
  <2> QED BY <1>3, <2>1, PackageHoldsOn
<1> QED BY <1>13, <1>14, <1>15 DEF PackageInv

\* A generation that reads, writes or registers its own package, and goes on or ends.
LEMMA OwnPackageKeeps ==
    ASSUME ExportInv, PackageInv, [ExportNext]_exportVars, NEW x \in Exporters,
           exports[x] # Resting, NEW p, p = exports[x].package,
           NEW call, Export(x, call), call # Resting => call.package = p,
           CallHolds(call)',
           \A q \in DOMAIN archives \cup DOMAIN archives' : q # p =>
               q \in DOMAIN archives /\ q \in DOMAIN archives' /\ archives'[q] = archives[q],
           \A q \in DOMAIN packages \cup DOMAIN packages' : q # p =>
               q \in DOMAIN packages /\ q \in DOMAIN packages' /\ packages'[q] = packages[q],
           p \in DOMAIN packages' => PackageHolds(p)'
    PROVE  PackageInv'
<1>1. DOMAIN exports' = Exporters /\ exports'[x] = call
      /\ \A y \in Exporters : y # x => exports'[y] = exports[y]
  BY DEF PackageInv, GenerationsHold, Export
<1>2. ASSUME NEW y \in Exporters PROVE CallHolds(exports[y])'
  <2>1. PICK other : other = exports'[y] OBVIOUS
  <2>2. CASE y = x BY <1>1, <2>2
  <2>3. CASE y # x
    <3>1. CallHolds(other) /\ other = exports[y]
      BY <1>1, <2>1, <2>3 DEF PackageInv, GenerationsHold
    <3>2. other # Resting => other.package # p
      BY <2>3, <3>1 DEF PackageInv, OnePackageEach
    <3>3. CallHolds(other)' BY <3>1, <3>2, CallHoldsOn
    <3> QED BY <2>1, <3>3
  <2> QED BY <2>2, <2>3
<1>3. GenerationsHold' BY <1>1, <1>2 DEF GenerationsHold
<1>4. OnePackageEach' BY <1>1 DEF PackageInv, OnePackageEach
<1>5. ASSUME NEW q \in DOMAIN packages' PROVE PackageHolds(q)'
  <2>1. CASE q = p BY <2>1
  <2>2. CASE q # p
    <3>1. q \in DOMAIN packages /\ packages'[q] = packages[q] BY <2>2
    <3>2. PackageHolds(q) /\ q \in DOMAIN archives
      BY <3>1 DEF PackageInv, PackageHolds, Downloads
    <3> QED BY <2>2, <3>1, <3>2, PackageHoldsOn
  <2> QED BY <2>1, <2>2
<1> QED BY <1>3, <1>4, <1>5 DEF PackageInv

\* A generation that reads on.
LEMMA ReadKeeps ==
    ASSUME ExportInv, PackageInv, [ExportNext]_exportVars, NEW x \in Exporters,
           exports[x].step \in {"CHAIN", "READ"}, UNCHANGED <<archives, packages>>,
           NEW left, NEW seen, ReadsOn(x, left, seen),
           SeenHolds(exports[x].content, seen), ReadSoFar(exports[x].content, seen, left)
    PROVE  PackageInv'
<1>1. exports[x] # Resting BY DEF Resting
<1>2. GenerationHolds(exports[x]) BY <1>1 DEF PackageInv, GenerationsHold, CallHolds
<1>3. PICK call : call = [exports[x] EXCEPT !.step = "READ", !.left = left, !.seen = seen]
  OBVIOUS
<1>4. DOMAIN exports[x] = CallColumns BY <1>2 DEF GenerationHolds
<1>5. /\ DOMAIN call = CallColumns /\ call.step = "READ" /\ call.left = left
      /\ call.seen = seen /\ call.package = exports[x].package
      /\ call.content = exports[x].content
  BY <1>3, <1>4 DEF CallColumns
<1>6. CallHolds(call) BY <1>2, <1>5 DEF GenerationHolds, CallHolds
<1>7. CallHolds(call)' BY <1>6, CallHoldsOn
<1>8. exports[x].package \notin DOMAIN packages BY <1>2 DEF GenerationHolds
<1>9. Export(x, call) BY <1>3 DEF ReadsOn
<1> QED BY <1>1, <1>5, <1>7, <1>8, <1>9, OwnPackageKeeps

LEMMA ExportReadsChainKeeps ==
    ASSUME ExportInv, PackageInv, [ExportNext]_exportVars, NEW x \in Exporters,
           ExportReadsChain(x)
    PROVE  PackageInv'
<1> DEFINE call == exports[x]
           source == call.content.source
<1>1. call.step = "CHAIN" /\ UNCHANGED <<archives, packages>> BY DEF ExportReadsChain
<1>2. GenerationHolds(call)
  BY <1>1 DEF PackageInv, GenerationsHold, CallHolds, Resting
<1>3. call.content.kind = "EXECUTION" /\ call.left = {} /\ call.seen = NothingSeen
      /\ DOMAIN call = CallColumns /\ SeenHolds(call.content, call.seen)
      /\ ReadSoFar(call.content, call.seen, call.left)
  BY <1>1, <1>2 DEF GenerationHolds
<1>4. CASE source \in RelatedExecutions(chain)
  <2>1. PICK seen : seen = [call.seen EXCEPT !.chain = chain] OBVIOUS
  <2>2. /\ DOMAIN seen = {"runs", "chain", "outcomes", "evidence"}
        /\ seen.runs = << >> /\ seen.chain = chain
        /\ seen.outcomes = << >> /\ seen.evidence = << >>
    BY <1>3, <2>1 DEF NothingSeen
  <2>3. DOMAIN << >> = {} OBVIOUS
  <2>4. ChainSeen(call.content, chain) BY <1>4 DEF ChainSeen, ExportInv, ChainInv
  <2>5. SeenHolds(call.content, seen) BY <2>2, <2>3, <2>4 DEF SeenHolds
  <2>6. ReadSoFar(call.content, seen, RelatedExecutions(chain))
    <3>1. RunsPacked(call.content) = {} BY <1>3 DEF RunsPacked
    <3> QED BY <1>3, <2>2, <2>3, <3>1 DEF ReadSoFar
  <2>7. ReadsOn(x, RelatedExecutions(chain), seen) BY <1>4, <2>1 DEF ExportReadsChain
  <2> QED BY <1>1, <2>5, <2>6, <2>7, ReadKeeps
<1>5. CASE source \notin RelatedExecutions(chain)
  <2>1. ReadsOn(x, call.left, call.seen) BY <1>5 DEF ExportReadsChain
  <2> QED BY <1>1, <1>3, <2>1, ReadKeeps
<1> QED BY <1>4, <1>5

LEMMA ExportReadsRunKeeps ==
    ASSUME ExportInv, PackageInv, [ExportNext]_exportVars, NEW x \in Exporters,
           NEW a \in Attempts, ExportReadsRun(x, a)
    PROVE  PackageInv'
<1>1. PICK call : call = exports[x] OBVIOUS
<1>2. call.step = "READ" /\ call.content.kind # "EXECUTION" /\ a \in call.left
      /\ UNCHANGED <<archives, packages>>
  BY <1>1 DEF ExportReadsRun
<1>3. GenerationHolds(call)
  BY <1>1, <1>2 DEF PackageInv, GenerationsHold, CallHolds, Resting
<1>4. /\ DOMAIN call = CallColumns /\ Shows(call.content)
      /\ SeenHolds(call.content, call.seen) /\ ReadSoFar(call.content, call.seen, call.left)
  BY <1>3 DEF GenerationHolds
<1> DEFINE now == progress[executions[a].run]
           runs == Insert(call.seen.runs, a, now)
<1>5. PICK seen : seen = [call.seen EXCEPT !.runs = runs] OBVIOUS
<1>6. /\ DOMAIN seen = {"runs", "chain", "outcomes", "evidence"}
      /\ seen.runs = runs /\ seen.chain = call.seen.chain
      /\ seen.outcomes = call.seen.outcomes /\ seen.evidence = call.seen.evidence
  BY <1>4, <1>5 DEF SeenHolds
<1>7. DOMAIN seen.runs = DOMAIN call.seen.runs \cup {a} /\ seen.runs[a] = now
      /\ \A b \in DOMAIN call.seen.runs : b # a => seen.runs[b] = call.seen.runs[b]
  BY <1>6 DEF Insert
<1>8. a \in DOMAIN executions /\ now \in Nat
  <2>1. a \in RunsPacked(call.content) BY <1>2, <1>4 DEF ReadSoFar
  <2>2. a \in DOMAIN executions BY <1>4, <2>1, RunsPackedStay DEF ExportInv
  <2>3. executions[a].run \in Runs
    BY <2>2 DEF ExportInv, ServiceInv, TypeOK, RowsOK, ExecutionRows
  <2> QED BY <2>2, <2>3 DEF ExportInv, RunsInv
<1>9. RunHolds(seen, a)
  <2>1. now <= now BY <1>8
  <2> QED BY <1>7, <1>8, <2>1 DEF RunHolds
<1> HIDE DEF now, runs
<1>10. SeenHolds(call.content, seen)
  <2>1. ChainSeen(call.content, seen.chain) BY <1>4, <1>6 DEF SeenHolds
  <2>2. \A b \in DOMAIN seen.outcomes : OutcomeHolds(call.content, seen, b)
    BY <1>4, <1>6 DEF SeenHolds, OutcomeHolds
  <2>3. \A b \in DOMAIN seen.evidence : SnapshotsHold(seen, b)
    BY <1>4, <1>6 DEF SeenHolds, SnapshotsHold
  <2>4. \A b \in DOMAIN seen.runs : RunHolds(seen, b)
    BY <1>4, <1>7, <1>9 DEF SeenHolds, RunHolds
  <2> QED BY <1>6, <2>1, <2>2, <2>3, <2>4 DEF SeenHolds
<1>11. ReadSoFar(call.content, seen, call.left \ {a})
  BY <1>2, <1>4, <1>6, <1>7 DEF ReadSoFar
<1>12. ReadsOn(x, call.left \ {a}, seen) BY <1>1, <1>5 DEF ExportReadsRun, runs, now
<1> QED BY <1>1, <1>2, <1>10, <1>11, <1>12, ReadKeeps

\* The packed execution, the original and its repeat have outcomes when they are read.
LEMMA ReadOutcomeHolds ==
    ASSUME ExportInv, NEW content, Shows(content), content.kind = "EXECUTION",
           NEW seen, ChainSeen(content, seen.chain), NEW a,
           a \in DOMAIN seen.outcomes, seen.outcomes[a] = OutcomeOf(a)
    PROVE  OutcomeHolds(content, seen, a)
<1>1. OutcomeOf(content.source) # "NONE"
  <2>1. PICK b \in Attempts : content = ExecutionContent(b) /\ b \in DOMAIN results
    BY DEF Shows, SuspensionContent, CompositeContent
  <2>2. content.source = b BY <2>1 DEF ExecutionContent
  <2>3. results[b].verdict \in {"PASS", "FAIL"} BY <2>1 DEF ExportInv, ServiceInv
  <2> QED BY <2>1, <2>2, <2>3 DEF OutcomeOf
<1>2. \A role \in {"ORIGINAL", "DIRECT_REPEAT"} \cap DOMAIN seen.chain :
          OutcomeOf(seen.chain[role]) # "NONE"
  BY DEF ChainSeen, ExportInv, ChainInv
<1> QED BY <1>1, <1>2 DEF OutcomeHolds

LEMMA ExportReadsExecutionKeeps ==
    ASSUME ExportInv, PackageInv, [ExportNext]_exportVars, NEW x \in Exporters,
           NEW a \in Attempts, ExportReadsExecution(x, a)
    PROVE  PackageInv'
<1>1. PICK call : call = exports[x] OBVIOUS
<1>2. call.step = "READ" /\ call.content.kind = "EXECUTION" /\ a \in call.left
      /\ UNCHANGED <<archives, packages>>
  BY <1>1 DEF ExportReadsExecution
<1>3. GenerationHolds(call)
  BY <1>1, <1>2 DEF PackageInv, GenerationsHold, CallHolds, Resting
<1>4. /\ DOMAIN call = CallColumns /\ Shows(call.content)
      /\ SeenHolds(call.content, call.seen) /\ ReadSoFar(call.content, call.seen, call.left)
  BY <1>3 DEF GenerationHolds
<1> DEFINE outcomes == Insert(call.seen.outcomes, a, OutcomeOf(a))
<1>5. PICK seen : seen = [call.seen EXCEPT !.outcomes = outcomes] OBVIOUS
<1>6. /\ DOMAIN seen = {"runs", "chain", "outcomes", "evidence"}
      /\ seen.outcomes = outcomes /\ seen.chain = call.seen.chain
      /\ seen.runs = call.seen.runs /\ seen.evidence = call.seen.evidence
  BY <1>4, <1>5 DEF SeenHolds
<1>7. DOMAIN seen.outcomes = DOMAIN call.seen.outcomes \cup {a}
      /\ seen.outcomes[a] = OutcomeOf(a)
      /\ \A b \in DOMAIN call.seen.outcomes : b # a => seen.outcomes[b] = call.seen.outcomes[b]
  BY <1>6 DEF Insert
<1> HIDE DEF outcomes
<1>8. a \notin DOMAIN call.seen.evidence /\ a \in RelatedExecutions(call.seen.chain)
  BY <1>2, <1>4 DEF ReadSoFar
<1>9. SeenHolds(call.content, seen)
  <2>1. ChainSeen(call.content, seen.chain) BY <1>4, <1>6 DEF SeenHolds
  <2>2. OutcomeHolds(call.content, seen, a)
    BY <1>2, <1>4, <1>7, <2>1, ReadOutcomeHolds
  <2>3. \A b \in DOMAIN seen.outcomes : OutcomeHolds(call.content, seen, b)
    BY <1>4, <1>6, <1>7, <2>2 DEF SeenHolds, OutcomeHolds
  <2>4. \A b \in DOMAIN seen.evidence : SnapshotsHold(seen, b)
    BY <1>4, <1>6, <1>7, <1>8 DEF SeenHolds, SnapshotsHold
  <2>5. \A b \in DOMAIN seen.runs : RunHolds(seen, b)
    BY <1>4, <1>6 DEF SeenHolds, RunHolds
  <2> QED BY <1>6, <2>1, <2>3, <2>4, <2>5 DEF SeenHolds
<1>10. ReadSoFar(call.content, seen, call.left)
  BY <1>2, <1>4, <1>6, <1>7, <1>8 DEF ReadSoFar
<1>11. ReadsOn(x, call.left, seen) BY <1>1, <1>5 DEF ExportReadsExecution, outcomes
<1> QED BY <1>1, <1>2, <1>9, <1>10, <1>11, ReadKeeps

LEMMA ExportReadsEvidenceKeeps ==
    ASSUME ExportInv, PackageInv, [ExportNext]_exportVars, NEW x \in Exporters,
           NEW a \in Attempts, ExportReadsEvidence(x, a)
    PROVE  PackageInv'
<1>1. PICK call : call = exports[x] OBVIOUS
<1>2. call.step = "READ" /\ call.content.kind = "EXECUTION" /\ a \in call.left
      /\ a \in DOMAIN call.seen.outcomes /\ UNCHANGED <<archives, packages>>
  BY <1>1 DEF ExportReadsEvidence
<1>3. GenerationHolds(call)
  BY <1>1, <1>2 DEF PackageInv, GenerationsHold, CallHolds, Resting
<1>4. /\ DOMAIN call = CallColumns /\ Shows(call.content)
      /\ SeenHolds(call.content, call.seen) /\ ReadSoFar(call.content, call.seen, call.left)
  BY <1>3 DEF GenerationHolds
<1> DEFINE snapshots == Insert(call.seen.evidence, a, ListEvidence(a))
<1>5. PICK seen : seen = [call.seen EXCEPT !.evidence = snapshots] OBVIOUS
<1>6. /\ DOMAIN seen = {"runs", "chain", "outcomes", "evidence"}
      /\ seen.evidence = snapshots /\ seen.chain = call.seen.chain
      /\ seen.runs = call.seen.runs /\ seen.outcomes = call.seen.outcomes
  BY <1>4, <1>5 DEF SeenHolds
<1>7. DOMAIN seen.evidence = DOMAIN call.seen.evidence \cup {a}
      /\ seen.evidence[a] = ListEvidence(a)
      /\ \A b \in DOMAIN call.seen.evidence : b # a => seen.evidence[b] = call.seen.evidence[b]
  BY <1>6 DEF Insert
<1> HIDE DEF snapshots
<1>8. SnapshotsHold(seen, a)
  <2>1. \A c \in DOMAIN seen.evidence[a] : <<a, c>> \in DOMAIN evidence
                                          /\ seen.evidence[a][c] = evidence[<<a, c>>]
    BY <1>7 DEF ListEvidence
  <2>2. "REGRESSION" \in DOMAIN seen.chain =>
            /\ "REGRESSION" \in DOMAIN chain
            /\ seen.chain["REGRESSION"] = chain["REGRESSION"]
    BY <1>4, <1>6 DEF SeenHolds, ChainSeen
  <2>3. "REGRESSION" \in DOMAIN seen.chain /\ a = seen.chain["REGRESSION"] =>
            DOMAIN seen.evidence[a] # {}
    BY <1>7, <2>2 DEF ExportInv, ChainInv
  <2> QED BY <1>2, <1>6, <1>7, <2>1, <2>3 DEF SnapshotsHold
<1>9. SeenHolds(call.content, seen)
  <2>1. ChainSeen(call.content, seen.chain) BY <1>4, <1>6 DEF SeenHolds
  <2>2. \A b \in DOMAIN seen.outcomes : OutcomeHolds(call.content, seen, b)
    BY <1>4, <1>6 DEF SeenHolds, OutcomeHolds
  <2>3. \A b \in DOMAIN seen.evidence : SnapshotsHold(seen, b)
    BY <1>4, <1>6, <1>7, <1>8 DEF SeenHolds, SnapshotsHold
  <2>4. \A b \in DOMAIN seen.runs : RunHolds(seen, b)
    BY <1>4, <1>6 DEF SeenHolds, RunHolds
  <2> QED BY <1>6, <2>1, <2>2, <2>3, <2>4 DEF SeenHolds
<1>10. ReadSoFar(call.content, seen, call.left \ {a})
  BY <1>2, <1>4, <1>6, <1>7 DEF ReadSoFar
<1>11. ReadsOn(x, call.left \ {a}, seen) BY <1>1, <1>5 DEF ExportReadsEvidence, snapshots
<1> QED BY <1>1, <1>2, <1>9, <1>10, <1>11, ReadKeeps

LEMMA ExportWritesKeeps ==
    ASSUME ExportInv, PackageInv, [ExportNext]_exportVars, NEW x \in Exporters, ExportWrites(x)
    PROVE  PackageInv'
<1>1. PICK call, p : call = exports[x] /\ p = call.package OBVIOUS
<1>2. call.step = "READ" /\ call.left = {} /\ UNCHANGED packages
  BY <1>1 DEF ExportWrites
<1>3. call # Resting BY <1>2 DEF Resting
<1>4. GenerationHolds(call) BY <1>1, <1>3 DEF PackageInv, GenerationsHold, CallHolds
<1>5. p \notin DOMAIN packages /\ p \notin DOMAIN archives /\ DOMAIN call = CallColumns
  BY <1>1, <1>2, <1>4 DEF GenerationHolds
<1>6. PICK next : next = [call EXCEPT !.step = "REGISTER"] OBVIOUS
<1>7. /\ DOMAIN next = CallColumns /\ next.step = "REGISTER" /\ next.package = p
      /\ next.content = call.content /\ next.left = {} /\ next.seen = call.seen
  BY <1>1, <1>2, <1>5, <1>6 DEF CallColumns
<1>8. CASE archives' = Insert(archives, p, ArchiveOf(call)) /\ Export(x, next)
  <2>1. DOMAIN archives' = DOMAIN archives \cup {p} /\ archives'[p] = ArchiveOf(call)
        /\ \A q \in DOMAIN archives : q # p => archives'[q] = archives[q]
    BY <1>8 DEF Insert
  <2>2. PICK content, seen : content = call.content /\ seen = call.seen OBVIOUS
  <2>3. Shows(content)' /\ SeenHolds(content, seen)' /\ ReadSoFar(content, seen, {})'
    BY <1>2, <1>4, <2>2, ShowsOn, SeenHoldsOn, ReadSoFarOn DEF GenerationHolds, ExportInv
  <2>4. Shows(next.content)' /\ SeenHolds(next.content, next.seen)'
        /\ ReadSoFar(next.content, next.seen, next.left)'
    BY <1>7, <2>2, <2>3
  <2>5. ArchiveOf(call) = ArchiveOf(next) BY <1>7 DEF ArchiveOf
  <2>6. GenerationHolds(next)'
    BY <1>2, <1>5, <1>7, <2>1, <2>4, <2>5 DEF GenerationHolds, ArchiveOf
  <2>7. CallHolds(next)' BY <2>6 DEF CallHolds
  <2> QED BY <1>1, <1>2, <1>3, <1>5, <1>7, <1>8, <2>1, <2>7, OwnPackageKeeps
<1>9. CASE archives' = Insert(archives, p, Partial) /\ Export(x, Resting)
  <2>1. DOMAIN archives' = DOMAIN archives \cup {p}
        /\ \A q \in DOMAIN archives : q # p => archives'[q] = archives[q]
    BY <1>9 DEF Insert
  <2>2. CallHolds(Resting)' BY DEF CallHolds, Resting
  <2> QED BY <1>1, <1>2, <1>3, <1>5, <1>9, <2>1, <2>2, OwnPackageKeeps
<1> QED BY <1>1, <1>6, <1>8, <1>9 DEF ExportWrites

LEMMA ExportRegistersKeeps ==
    ASSUME ExportInv, PackageInv, [ExportNext]_exportVars, NEW x \in Exporters, ExportRegisters(x)
    PROVE  PackageInv'
<1>1. PICK call, p : call = exports[x] /\ p = call.package OBVIOUS
<1>2. call.step = "REGISTER" /\ Export(x, Resting) BY <1>1 DEF ExportRegisters
<1>3. call # Resting BY <1>2 DEF Resting
<1>4. GenerationHolds(call) BY <1>1, <1>3 DEF PackageInv, GenerationsHold, CallHolds
<1>5. /\ p \notin DOMAIN packages /\ p \in DOMAIN archives
      /\ archives[p] = ArchiveOf(call) /\ call.left = {}
  BY <1>1, <1>2, <1>4 DEF GenerationHolds
<1>6. ArchiveHolds(archives[p])
  <2>1. ArchiveOf(call).content = call.content /\ ArchiveOf(call).seen = call.seen
    BY DEF ArchiveOf
  <2> QED BY <1>4, <1>5, <2>1 DEF GenerationHolds, ArchiveHolds
<1>7. CallHolds(Resting)' BY DEF CallHolds, Resting
<1>8. CASE packages' = Insert(packages, p, archives[p]) /\ UNCHANGED archives
  <2>1. DOMAIN packages' = DOMAIN packages \cup {p} /\ packages'[p] = archives[p]
        /\ \A q \in DOMAIN packages : q # p => packages'[q] = packages[q]
    BY <1>5, <1>8 DEF Insert
  <2>2. PackageHolds(p)'
    <3>1. PICK archive : archive = archives[p] OBVIOUS
    <3>2. ArchiveHolds(archive)' BY <1>6, <3>1, ArchiveHoldsOn
    <3>3. ArchiveHolds(packages[p])'
      <4>1. packages'[p] = archive BY <2>1, <3>1
      <4> QED BY <3>2, <4>1
    <3>4. Downloads(p)' BY <1>5, <1>8, <2>1 DEF Downloads
    <3> QED BY <3>3, <3>4 DEF PackageHolds
  <2> QED BY <1>1, <1>2, <1>3, <1>7, <1>8, <2>1, <2>2, OwnPackageKeeps
<1>9. CASE archives' = [q \in DOMAIN archives \ {p} |-> archives[q]] /\ UNCHANGED packages
  <2>1. \A q \in DOMAIN archives \cup DOMAIN archives' : q # p =>
            q \in DOMAIN archives /\ q \in DOMAIN archives' /\ archives'[q] = archives[q]
    BY <1>9
  <2> QED BY <1>1, <1>2, <1>3, <1>5, <1>7, <1>9, <2>1, OwnPackageKeeps
<1> QED BY <1>1, <1>8, <1>9 DEF ExportRegisters

LEMMA PackageInvKept ==
    ASSUME ExportInv, PackageInv, [ExportNext]_exportVars
    PROVE  PackageInv'
<1>1. CASE UNCHANGED <<archives, packages, exports>>
  <2>1. DOMAIN exports' = Exporters BY <1>1 DEF PackageInv, GenerationsHold
  <2> QED BY <1>1, <2>1, OthersKeepPackages
<1>2. CASE ExportCrash
  <2>1. UNCHANGED <<archives, packages>> /\ exports' = [x \in Exporters |-> Resting]
    BY <1>2 DEF ExportCrash
  <2> QED BY <2>1, OthersKeepPackages
<1>3. UNCHANGED exportVars \/ ServiceStep => UNCHANGED <<archives, packages, exports>>
  BY DEF exportVars, ServiceStep
<1>4. ASSUME NEW r \in Runs, RunAdvances(r) PROVE UNCHANGED <<archives, packages, exports>>
  BY <1>4 DEF RunAdvances
<1>5. ASSUME NEW role \in ChainRoles, NEW a \in Attempts, ChainGrows(role, a)
      PROVE  UNCHANGED <<archives, packages, exports>>
  BY <1>5 DEF ChainGrows
<1> QED BY <1>1, <1>2, <1>3, <1>4, <1>5, ExportReadsKeeps, ExportReadsChainKeeps,
           ExportReadsRunKeeps, ExportReadsExecutionKeeps, ExportReadsEvidenceKeeps,
           ExportWritesKeeps, ExportRegistersKeeps
        DEF ExportNext

LEMMA PackagesStay == ExportSpec => [](ExportInv /\ PackageInv)
<1>1. ExportInit => RunsInv /\ ChainInv /\ PackageInv
  <2>1. DOMAIN << >> = {} OBVIOUS
  <2> QED BY <2>1 DEF ExportInit, RunsInv, ChainInv, InOrder, PackageInv, GenerationsHold,
                      OnePackageEach, CallHolds, Resting
<1>2. ServiceInv /\ CompositeInv /\ RunsInv /\ ChainInv /\ PackageInv
      /\ [ExportNext]_exportVars => (RunsInv /\ ChainInv /\ PackageInv)'
  BY PackageInvKept, RunsAdvance, ChainKept DEF ExportInv
<1>3. ServiceInv /\ CompositeInv /\ RunsInv /\ ChainInv => ExportInv BY DEF ExportInv
<1> QED BY <1>1, <1>2, <1>3, ServiceStays, CompositesStay, PTL DEF ExportSpec

\* The archive a record has the hash of is there; its outcome and evidence are what
\* its source would be packed as today, and it has the run of every source that has
\* one, which the scenario may have taken further since, whatever was done meanwhile.
THEOREM PackagesGoOnShowing == ExportSpec => []PackagesShowTheirSource
<1>1. ASSUME PackageInv PROVE PackagesShowTheirSource
  <2> SUFFICES ASSUME NEW p \in DOMAIN packages
               PROVE  LET content == packages[p].content
                          runs == packages[p].seen.runs
                      IN
                      /\ Downloads(p) /\ ShowsSource(content)
                      /\ DOMAIN runs = RunsPacked(content)
                      /\ \A a \in DOMAIN runs : runs[a] <= progress[executions[a].run]
    BY DEF PackagesShowTheirSource, ShowsSource
  <2>1. Downloads(p) /\ ArchiveHolds(packages[p]) BY <1>1 DEF PackageInv, PackageHolds
  <2>2. ShowsSource(packages[p].content) BY <2>1, ShowsImplies DEF ArchiveHolds
  <2>3. DOMAIN packages[p].seen.runs = RunsPacked(packages[p].content)
    BY <2>1 DEF ArchiveHolds, ReadSoFar
  <2>4. \A a \in DOMAIN packages[p].seen.runs :
            packages[p].seen.runs[a] <= progress[executions[a].run]
    BY <2>1 DEF ArchiveHolds, SeenHolds, RunHolds
  <2> QED BY <2>1, <2>2, <2>3, <2>4
<1> QED BY <1>1, PackagesStay, PTL

\* A package that shows the investigation was read from it record by record while it
\* went on, and yet shows a chain that it went through, with every execution in it: a
\* failure, its passed repeat and a regression under way, the packed execution as the
\* package has it, and nothing that is not so today.
THEOREM PackagesGoOnShowingTheInvestigation ==
    ExportSpec => []PackagesShowTheInvestigation
<1>1. ASSUME ExportInv, PackageInv PROVE PackagesShowTheInvestigation
  <2> SUFFICES ASSUME NEW p \in DOMAIN packages, packages[p].content.kind = "EXECUTION"
               PROVE  LET content == packages[p].content
                          seen == packages[p].seen
                          roles == DOMAIN seen.chain
                      IN
        /\ roles \subseteq DOMAIN chain /\ \A role \in roles : seen.chain[role] = chain[role]
        /\ DOMAIN seen.outcomes = {seen.chain[role] : role \in roles}
        /\ DOMAIN seen.evidence = {seen.chain[role] : role \in roles}
        /\ roles # {} =>
               /\ "ORIGINAL" \in roles /\ seen.outcomes[seen.chain["ORIGINAL"]] = "FAIL"
               /\ \E role \in roles : seen.chain[role] = content.source
               /\ seen.outcomes[content.source] = content.outcome
               /\ seen.evidence[content.source] = content.evidence
        /\ "DIRECT_REPEAT" \in roles => seen.outcomes[seen.chain["DIRECT_REPEAT"]] = "PASS"
        /\ "REGRESSION" \in roles =>
               /\ "DIRECT_REPEAT" \in roles
               /\ DOMAIN seen.evidence[seen.chain["REGRESSION"]] # {}
        /\ \A a \in DOMAIN seen.evidence :
               /\ \A c \in DOMAIN seen.evidence[a] : <<a, c>> \in DOMAIN evidence
                                                    /\ seen.evidence[a][c] = evidence[<<a, c>>]
               /\ seen.outcomes[a] # "NONE" =>
                      seen.outcomes[a] = OutcomeOf(a) /\ seen.evidence[a] = ListEvidence(a)
    BY DEF PackagesShowTheInvestigation
  <2>1. PICK content, seen : content = packages[p].content /\ seen = packages[p].seen OBVIOUS
  <2>2. Shows(content) /\ SeenHolds(content, seen) /\ ReadSoFar(content, seen, {})
    BY <1>1, <2>1 DEF PackageInv, PackageHolds, ArchiveHolds
  <2>3. content.kind = "EXECUTION" BY <2>1
  <2> DEFINE roles == DOMAIN seen.chain
             related == {seen.chain[role] : role \in roles}
  <2>4. DOMAIN seen.evidence = related /\ DOMAIN seen.outcomes = related
    <3>1. DOMAIN seen.evidence = related /\ DOMAIN seen.outcomes \subseteq related
      BY <2>2, <2>3 DEF ReadSoFar, RelatedExecutions
    <3>2. DOMAIN seen.evidence \subseteq DOMAIN seen.outcomes
      BY <2>2 DEF SeenHolds, SnapshotsHold
    <3> QED BY <3>1, <3>2
  <2>5. /\ \A role \in roles : role \in DOMAIN chain /\ seen.chain[role] = chain[role]
        /\ InOrder(seen.chain)
        /\ roles # {} => content.source \in related
    BY <2>2 DEF SeenHolds, ChainSeen, RelatedExecutions
  <2>6. \A a \in related : OutcomeHolds(content, seen, a) /\ SnapshotsHold(seen, a)
    BY <2>2, <2>4 DEF SeenHolds
  <2>7. \A role \in roles : seen.chain[role] \in related OBVIOUS
  <2>8. content.outcome = OutcomeOf(content.source)
        /\ content.evidence = ListEvidence(content.source)
    <3>1. PICK b \in Attempts : content = ExecutionContent(b)
      BY <2>2, <2>3 DEF Shows, SuspensionContent, CompositeContent
    <3> QED BY <3>1 DEF ExecutionContent
  <2>9. roles # {} =>
            /\ "ORIGINAL" \in roles /\ seen.outcomes[seen.chain["ORIGINAL"]] = "FAIL"
            /\ \E role \in roles : seen.chain[role] = content.source
            /\ seen.outcomes[content.source] = content.outcome
            /\ seen.evidence[content.source] = content.evidence
    <3> SUFFICES ASSUME roles # {}
                 PROVE  /\ "ORIGINAL" \in roles
                        /\ seen.outcomes[seen.chain["ORIGINAL"]] = "FAIL"
                        /\ \E role \in roles : seen.chain[role] = content.source
                        /\ seen.outcomes[content.source] = content.outcome
                        /\ seen.evidence[content.source] = content.evidence
      OBVIOUS
    <3>1. "ORIGINAL" \in roles BY <2>5 DEF InOrder
    <3>2. seen.outcomes[seen.chain["ORIGINAL"]] = "FAIL"
      BY <1>1, <2>5, <2>6, <2>7, <3>1 DEF OutcomeHolds, ExportInv, ChainInv
    <3>3. content.source \in related BY <2>5
    <3>4. seen.outcomes[content.source] = content.outcome
          /\ seen.evidence[content.source] = content.evidence
      BY <2>6, <2>8, <3>3 DEF OutcomeHolds, SnapshotsHold
    <3> QED BY <3>1, <3>2, <3>3, <3>4
  <2>10. "DIRECT_REPEAT" \in roles => seen.outcomes[seen.chain["DIRECT_REPEAT"]] = "PASS"
    BY <1>1, <2>5, <2>6, <2>7 DEF OutcomeHolds, ExportInv, ChainInv
  <2>11. "REGRESSION" \in roles =>
             /\ "DIRECT_REPEAT" \in roles
             /\ DOMAIN seen.evidence[seen.chain["REGRESSION"]] # {}
    BY <2>5, <2>6, <2>7 DEF InOrder, SnapshotsHold
  <2>12. \A a \in DOMAIN seen.evidence :
             /\ \A c \in DOMAIN seen.evidence[a] : <<a, c>> \in DOMAIN evidence
                                                  /\ seen.evidence[a][c] = evidence[<<a, c>>]
             /\ seen.outcomes[a] # "NONE" =>
                    seen.outcomes[a] = OutcomeOf(a) /\ seen.evidence[a] = ListEvidence(a)
    BY <2>4, <2>6 DEF OutcomeHolds, SnapshotsHold
  <2> QED BY <2>1, <2>4, <2>5, <2>9, <2>10, <2>11, <2>12
<1> QED BY <1>1, PackagesStay, PTL

-----------------------------------------------------------------------------
(* The classifier of suspensions.                                         *)

\* A selected target leaves the one role unresolved that does not resolve.
LEMMA SelectedResolves ==
    ASSUME NEW w, NEW test, NEW intended, NEW fixture, NEW role \in Roles \cup {NoRole},
           NEW presented, Controlled(w, intended),
           NEW target, target = SelectedTarget(w, test, intended, fixture, role, presented)
    PROVE  /\ target.unresolved \in Roles \cup {NoRole}
           /\ \A r \in Roles : target.unresolved = r <=>
                  Unidentified(w, r, target.requested[r], target.intended[r])
<1> DEFINE other == fixture \notin {Absent, intended[Fixture]}
           chosen == IF other THEN Fixture ELSE role
           asked == IF other THEN fixture ELSE presented
           requested == [r \in Roles |-> IF r = chosen THEN asked ELSE intended[r]]
           unresolved == /\ chosen \in Roles
                         /\ Unidentified(w, chosen, requested[chosen], intended[chosen])
<1>1. /\ target.intended = intended /\ target.requested = requested
      /\ target.unresolved = IF unresolved THEN chosen ELSE NoRole
  BY DEF SelectedTarget
<1>2. chosen \in Roles \cup {NoRole} /\ NoRole \notin Roles BY DEF Roles, Fixture, NoRole
<1>3. \A r \in Roles : r # chosen => requested[r] = intended[r] OBVIOUS
<1>4. \A r \in Roles : ~Unidentified(w, r, intended[r], intended[r]) BY DEF Controlled
<1> HIDE DEF chosen, requested, unresolved
<1>5. unresolved <=> chosen \in Roles /\ Unidentified(w, chosen, requested[chosen], intended[chosen])
  BY DEF unresolved
<1> QED BY <1>1, <1>2, <1>3, <1>4, <1>5

\* A gate of the registry fails of an open review and no other.
LEMMA ReviewGateFails ==
    ASSUME NEW w, NEW rows, NEW least, NEW claim, NEW target, NEW request
    PROVE  LET gate == ReviewGate(w, rows, least, claim, target, request)
               scope == InScope(rows, target, request.field)
           IN /\ gate = "FAIL" => scope # {}
              /\ gate \in {"PASS", "NOT_APPLICABLE"} => scope = {}
              /\ scope = {} /\ request.claim # claim => gate = "NOT_APPLICABLE"
              /\ scope # {} /\ Reviewed(w, rows, least, target, request.field) => gate = "FAIL"
<1> DEFINE scope == InScope(rows, target, request.field)
<1>1. CASE scope = {}
  <2>1. ~ \E a \in scope : TRUE BY <1>1
  <2> QED BY <1>1, <2>1 DEF ReviewGate
<1>2. CASE \E a, b \in scope : a # b BY <1>2 DEF ReviewGate, Reviewed
<1>3. ASSUME NEW a \in scope, scope = {a}
      PROVE  /\ ReviewGate(w, rows, least, claim, target, request) \in {"FAIL", "REFUSED"}
             /\ Verifies(w, rows[a].sources, least) =>
                    ReviewGate(w, rows, least, claim, target, request) = "FAIL"
  BY <1>3 DEF ReviewGate
<1>4. scope = {} \/ (\E a, b \in scope : a # b) \/ \E a \in scope : scope = {a}
  OBVIOUS
<1> QED BY <1>1, <1>2, <1>3, <1>4 DEF Reviewed

\* A gate that fails is at its boundary; one that passes is not.
LEMMA GatesAreBoundaries ==
    ASSUME NEW w, NEW target, NEW request, NEW n \in GateOrder, ~NamesNoRole(target, request),
           target.unresolved \in Roles \cup {NoRole},
           \A r \in Roles : target.unresolved = r <=>
               Unidentified(w, r, target.requested[r], target.intended[r])
    PROVE  /\ Gate(n, w, target, request) = "FAIL" => Boundary(n, w, target, request)
           /\ Gate(n, w, target, request) \in {"PASS", "NOT_APPLICABLE"} =>
                  ~Boundary(n, w, target, request)
<1>1. CASE n = 1 BY <1>1 DEF Gate, Boundary, IntegrityGate
<1>2. CASE n = 2
  <2>1. NoRole \notin Roles BY DEF Roles, NoRole
  <2> QED BY <1>2, <2>1 DEF Gate, Boundary, IdentityGate, RoleToResolve, NamesNoRole
<1>3. CASE n = 3
  <2>1. Gate(n, w, target, request) = ReviewGate(w, w.conflicts, 2, "BASELINE_CONFLICT", target, request)
    BY <1>3 DEF Gate, ConflictGate
  <2>2. Boundary(n, w, target, request) <=> InScope(w.conflicts, target, request.field) # {}
    BY <1>3 DEF Boundary
  <2> QED BY <2>1, <2>2, ReviewGateFails
<1>4. CASE n = 4
  <2>1. Gate(n, w, target, request) = ReviewGate(w, w.questions, 0, "ENGINEERING_BEHAVIOUR", target, request)
    BY <1>4 DEF Gate, BehaviourGate
  <2>2. Boundary(n, w, target, request) <=> InScope(w.questions, target, request.field) # {}
    BY <1>4 DEF Boundary
  <2> QED BY <2>1, <2>2, ReviewGateFails
<1>5. CASE n = 5
  <2>1. CASE request.position = "PRE_EXECUTION_ENTRY"
    <3>1. Gate(n, w, target, request) = ReviewGate(w, w.times, 0, "TIME_AUTHORITY", target, request)
      BY <1>5, <2>1 DEF Gate, TimeGate
    <3>2. Boundary(n, w, target, request) <=> InScope(w.times, target, request.field) # {}
      BY <1>5, <2>1 DEF Boundary
    <3> QED BY <3>1, <3>2, ReviewGateFails
  <2>2. CASE request.position # "PRE_EXECUTION_ENTRY"
    BY <1>5, <2>2 DEF Gate, Boundary, TimeGate
  <2> QED BY <2>1, <2>2
<1> QED BY <1>1, <1>2, <1>3, <1>4, <1>5 DEF GateOrder

\* The condition of a suspension is the first boundary that applies to the facts:
\* what the caller claims, names as its sources or signs with does not enter.
THEOREM FirstBoundaryDecides ==
    ASSUME NEW w, NEW test, NEW intended, NEW fixture, NEW role \in Roles \cup {NoRole},
           NEW presented, Controlled(w, intended), NEW request, NEW n \in GateOrder,
           NEW target, target = SelectedTarget(w, test, intended, fixture, role, presented),
           Suspends(n, w, target, request)
    PROVE  FirstBoundary(n, w, target, request)
<1>1. ~NamesNoRole(target, request) BY DEF Suspends, Selects
<1>2. /\ target.unresolved \in Roles \cup {NoRole}
      /\ \A r \in Roles : target.unresolved = r <=>
             Unidentified(w, r, target.requested[r], target.intended[r])
  BY SelectedResolves
<1>3. \A m \in 1 .. n - 1 : m \in GateOrder BY DEF GateOrder
<1> QED BY <1>1, <1>2, <1>3, GatesAreBoundaries DEF Suspends, Selects, FirstBoundary

\* Two callers who present the same reference, field and position of the same
\* target are never given different conditions, whatever they claim.
THEOREM ClaimsDoNotSelect ==
    ASSUME NEW w, NEW test, NEW intended, NEW fixture, NEW role \in Roles \cup {NoRole},
           NEW presented, Controlled(w, intended),
           NEW target, target = SelectedTarget(w, test, intended, fixture, role, presented),
           NEW p, NEW q, p.reference = q.reference, p.field = q.field, p.position = q.position,
           NEW m \in GateOrder, NEW n \in GateOrder,
           Suspends(m, w, target, p), Suspends(n, w, target, q)
    PROVE  m = n /\ Conditions[m] = Conditions[n]
<1>1. FirstBoundary(m, w, target, p) /\ FirstBoundary(n, w, target, q) BY FirstBoundaryDecides
<1>2. \A k \in GateOrder : Boundary(k, w, target, p) <=> Boundary(k, w, target, q)
  BY DEF Boundary
<1> QED BY <1>1, <1>2 DEF FirstBoundary, GateOrder

\* The caller who claims the first boundary that applies is given it, if a review
\* it rests on is the only one of its scope and its sources verify.
THEOREM FirstBoundaryIsFound ==
    ASSUME NEW w, NEW test, NEW intended, NEW fixture, NEW role \in Roles \cup {NoRole},
           NEW presented, Controlled(w, intended),
           NEW target, target = SelectedTarget(w, test, intended, fixture, role, presented),
           NEW request, NEW n \in GateOrder, FirstBoundary(n, w, target, request),
           request.claim = Claims[n],
           Reviewed(w, w.conflicts, 2, target, request.field),
           Reviewed(w, w.questions, 0, target, request.field),
           Reviewed(w, w.times, 0, target, request.field)
    PROVE  Selects(n, w, target, request)
<1>1. /\ target.unresolved \in Roles \cup {NoRole}
      /\ \A r \in Roles : target.unresolved = r <=>
             Unidentified(w, r, target.requested[r], target.intended[r])
  BY SelectedResolves
<1>2. NoRole \notin Roles BY DEF Roles, NoRole
<1>3. n = 2 => target.unresolved \in Roles
  BY <1>1 DEF FirstBoundary, Boundary
<1>4. n > 2 => target.unresolved = NoRole
  <2>1. n > 2 => ~Boundary(2, w, target, request) BY DEF FirstBoundary, GateOrder
  <2> QED BY <1>1, <2>1 DEF Boundary
<1>5. ~NamesNoRole(target, request)
  BY <1>2, <1>3 DEF NamesNoRole, Claims, GateOrder
<1>6. Gate(n, w, target, request) = "FAIL"
  <2>1. Boundary(n, w, target, request) BY DEF FirstBoundary
  <2>2. CASE n = 1 BY <2>1, <2>2 DEF Gate, Boundary, IntegrityGate
  <2>3. CASE n = 2 BY <1>1, <1>2, <1>3, <2>3 DEF Gate, IdentityGate, RoleToResolve
  <2>4. CASE n = 3 BY <2>1, <2>4, ReviewGateFails DEF Gate, Boundary, ConflictGate
  <2>5. CASE n = 4 BY <2>1, <2>5, ReviewGateFails DEF Gate, Boundary, BehaviourGate
  <2>6. CASE n = 5 BY <2>1, <2>6, ReviewGateFails DEF Gate, Boundary, TimeGate
  <2> QED BY <2>2, <2>3, <2>4, <2>5, <2>6 DEF GateOrder
<1>7. ASSUME NEW m \in 1 .. n - 1
      PROVE  Gate(m, w, target, request) \in {"PASS", "NOT_APPLICABLE"}
  <2>1. ~Boundary(m, w, target, request) BY DEF FirstBoundary
  <2>2. m \in GateOrder /\ n > m /\ m \in 1 .. 4 BY DEF GateOrder
  <2>3. request.claim # Claims[m] BY <2>2 DEF Claims, GateOrder
  <2>4. CASE m = 1 BY <2>1, <2>3, <2>4 DEF Gate, Boundary, IntegrityGate, Claims
  <2>5. CASE m = 2
    <3>1. target.unresolved = NoRole /\ request.claim # "IDENTITY_RESOLUTION"
      BY <1>4, <2>2, <2>3, <2>5 DEF Claims
    <3> QED BY <1>2, <2>5, <3>1 DEF Gate, IdentityGate, RoleToResolve
  <2>6. CASE m = 3 BY <2>1, <2>3, <2>6, ReviewGateFails DEF Gate, Boundary, ConflictGate, Claims
  <2>7. CASE m = 4 BY <2>1, <2>3, <2>7, ReviewGateFails DEF Gate, Boundary, BehaviourGate, Claims
  <2> QED BY <2>2, <2>4, <2>5, <2>6, <2>7
<1> QED BY <1>5, <1>6, <1>7 DEF Selects
=============================================================================
