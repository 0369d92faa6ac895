------------------------- MODULE InvestigationProofs -------------------------
(***************************************************************************)
(* Proofs about Investigation: its rows are well-formed, a run that was     *)
(* overtaken stands, what is recorded is a chain of evidence, and it is     *)
(* preserved.                                                               *)
(***************************************************************************)
EXTENDS Investigation, TLAPS

-----------------------------------------------------------------------------
(* The rows.                                                               *)

RunRows == [version : Versions, place : Nat, alarm : BOOLEAN, open : BOOLEAN]

Tests == {DirectTest, RegressionTest}

ExecutionRows ==
    [test : Tests, run : Nat, source : Executions \cup {NoExecution},
     status : {"ACTIVE", "FINALISED"}, verdict : {"NONE", "PASS", "FAIL"}]

RunsTyped == runs \in Seq(RunRows) /\ Len(runs) <= MaxRuns

ExecutionsTyped ==
    /\ DOMAIN executions \subseteq Executions
    /\ \A e \in DOMAIN executions :
        /\ executions[e] \in ExecutionRows
        /\ executions[e].run \in DOMAIN runs
        /\ executions[e].verdict # "NONE" <=> executions[e].status = "FINALISED"

EvidenceTyped ==
    \A key \in DOMAIN evidence :
        /\ key[1] \in DOMAIN executions
        /\ key[2] \in CheckpointsOf(executions[key[1]].test)

\* A baseline is of an execution, and for one identity.
BaselinesTyped ==
    /\ \A s \in DOMAIN baselines : s \in DOMAIN executions /\ baselines[s] \in Executions
    /\ \A r, s \in DOMAIN baselines : baselines[r] = baselines[s] => r = s

RowsTyped ==
    /\ RunsTyped /\ ExecutionsTyped /\ EvidenceTyped /\ BaselinesTyped
    /\ correction \in BOOLEAN
    /\ DOMAIN work = Threads

\* What a step never takes back.
RunsKept ==
    \A r \in DOMAIN runs :
        /\ r \in DOMAIN runs' /\ runs'[r].version = runs[r].version
        /\ r < Len(runs) => runs'[r] = runs[r]

ExecutionsKept ==
    \A e \in DOMAIN executions :
        /\ e \in DOMAIN executions'
        /\ executions'[e].test = executions[e].test
        /\ executions'[e].run = executions[e].run
        /\ executions'[e].source = executions[e].source
        /\ executions[e].status = "FINALISED" => executions'[e] = executions[e]

EvidenceKept ==
    \A key \in DOMAIN evidence : key \in DOMAIN evidence' /\ evidence'[key] = evidence[key]

BaselinesKept ==
    \A s \in DOMAIN baselines : s \in DOMAIN baselines' /\ baselines'[s] = baselines[s]

TestsKept == ExecutionsKept /\ EvidenceKept /\ BaselinesKept

RecordsKept ==
    /\ defect # NoExecution => defect' = defect
    /\ correction => correction'
    /\ \A rel \in DOMAIN links : rel \in DOMAIN links' /\ links'[rel] = links[rel]

Kept == RunsKept /\ TestsKept /\ RecordsKept

-----------------------------------------------------------------------------
(* Runs.                                                                   *)

\* No run but the last is open: a run is opened only if none is, or in the place of the
\* open one.
OpenIsLatest == \A r \in DOMAIN runs : runs[r].open => r = Len(runs)

LEMMA OpenedTyped ==
    ASSUME RunsTyped, OpenIsLatest, NEW version \in Versions, Len(runs) < MaxRuns,
           NEW replaces \in BOOLEAN, OpeningAdmitted(replaces), runs' = Opened(replaces, version)
    PROVE  /\ RunsTyped' /\ RunsKept /\ OpenIsLatest'
           /\ Len(runs) + 1 \in DOMAIN runs' /\ Len(runs) + 1 \notin DOMAIN runs
           /\ runs'[Len(runs) + 1].version = version
<1> DEFINE n == Len(runs)
<1>1. n \in Nat /\ DOMAIN runs = 1 .. n /\ \A q \in 1 .. n : runs[q] \in RunRows
  BY DEF RunsTyped
<1>2. NewRun(version) \in RunRows /\ NewRun(version).version = version
  BY DEF NewRun, RunRows
<1>3. PICK kept : /\ runs' = Append(kept, NewRun(version))
                  /\ kept \in Seq(RunRows) /\ Len(kept) = n
                  /\ \A q \in 1 .. n : kept[q].version = runs[q].version /\ ~kept[q].open
                  /\ \A q \in 1 .. n : q < n => kept[q] = runs[q]
  <2>1. CASE ~replaces
    <3>1. \A q \in 1 .. n : ~runs[q].open
      BY <1>1, <2>1 DEF OpeningAdmitted, SomeOpen
    <3>2. runs' = Append(runs, NewRun(version)) BY <2>1 DEF Opened, Initialised
    <3>3. runs \in Seq(RunRows) BY DEF RunsTyped
    <3> QED BY <3>1, <3>2, <3>3
  <2>2. CASE replaces
    <3> DEFINE Latest(r) == runs[r].open /\ \A q \in DOMAIN runs : runs[q].open => q <= r
               prior == CHOOSE r \in DOMAIN runs : Latest(r)
               row == [runs[n] EXCEPT !.open = FALSE]
    <3>1. SomeOpen BY <2>2 DEF OpeningAdmitted
    <3>2. n \in DOMAIN runs /\ Latest(n) BY <1>1, <3>1 DEF SomeOpen, OpenIsLatest
    <3>3. prior \in DOMAIN runs /\ Latest(prior) BY <3>2
    <3>4. prior = n BY <3>3 DEF OpenIsLatest
    <3>5. Replaced(version) = Append([runs EXCEPT ![prior] = [runs[prior] EXCEPT !.open = FALSE]],
                                     NewRun(version))
      BY Zenon DEF Replaced
    <3> HIDE DEF prior
    <3>6. runs' = Append([runs EXCEPT ![n] = row], NewRun(version))
      BY <2>2, <3>4, <3>5 DEF Opened
    <3>7. row \in RunRows /\ row.version = runs[n].version /\ ~row.open
      BY <1>1, <3>2 DEF RunRows
    <3> HIDE DEF row
    <3> DEFINE closed == [q \in DOMAIN runs |-> IF q = n THEN row ELSE runs[q]]
    <3>8. \A q \in 1 .. n : q # n => ~runs[q].open BY <1>1 DEF OpenIsLatest
    <3>9. \A q \in 1 .. n : /\ closed[q] \in RunRows /\ ~closed[q].open
                            /\ closed[q].version = runs[q].version
                            /\ q < n => closed[q] = runs[q]
      <4>1. closed[n] = row BY <1>1, <3>2
      <4>2. \A q \in 1 .. n : q # n => closed[q] = runs[q] BY <1>1
      <4> HIDE DEF closed
      <4>3. ASSUME NEW q \in 1 .. n
            PROVE  /\ closed[q] \in RunRows /\ closed[q].open = FALSE
                   /\ closed[q].version = runs[q].version
                   /\ q < n => closed[q] = runs[q]
        <5>1. CASE q = n BY <1>1, <3>7, <4>1, <5>1
        <5>2. CASE q # n
          <6>1. runs[q] \in RunRows /\ ~runs[q].open /\ closed[q] = runs[q]
            BY <1>1, <3>8, <4>2, <5>2
          <6>2. runs[q].open = FALSE BY <6>1 DEF RunRows
          <6> QED BY <6>1, <6>2
        <5> QED BY <5>1, <5>2
      <4> QED BY <4>3
    <3>10. closed \in Seq(RunRows) /\ Len(closed) = n
      <4>1. \A q \in 1 .. n : closed[q] \in RunRows BY <3>9
      <4>2. closed = [q \in 1 .. n |-> closed[q]] BY <1>1
      <4> HIDE DEF closed
      <4> QED BY <1>1, <4>1, <4>2
    <3>11. [runs EXCEPT ![n] = row] = closed BY Zenon
    <3> HIDE DEF closed
    <3>12. runs' = Append(closed, NewRun(version)) BY <3>6, <3>11
    <3> QED BY <3>9, <3>10, <3>12
  <2> QED BY <2>1, <2>2
<1>4. /\ runs' \in Seq(RunRows) /\ Len(runs') = n + 1 /\ DOMAIN runs' = 1 .. n + 1
      /\ \A q \in 1 .. n : runs'[q] = kept[q]
      /\ runs'[n + 1] = NewRun(version)
  BY <1>1, <1>2, <1>3
<1>5. RunsTyped'
  <2>1. MaxRuns \in Nat BY InvestigationAssumption
  <2> QED BY <1>1, <1>4, <2>1 DEF RunsTyped
<1>6. RunsKept BY <1>1, <1>3, <1>4 DEF RunsKept
<1>7. OpenIsLatest' BY <1>1, <1>3, <1>4 DEF OpenIsLatest
<1> QED BY <1>1, <1>2, <1>4, <1>5, <1>6, <1>7

\* A command changes one run, not its version, and opens none.
LEMMA CommandTyped ==
    ASSUME RunsTyped, OpenIsLatest, NEW r \in DOMAIN runs, runs[r].open, NEW row \in RunRows,
           row.version = runs[r].version, row.open = runs[r].open,
           runs' = [runs EXCEPT ![r] = row]
    PROVE  RunsTyped' /\ RunsKept /\ OpenIsLatest'
<1>1. runs' \in Seq(RunRows) /\ Len(runs') = Len(runs) /\ DOMAIN runs' = DOMAIN runs
  BY DEF RunsTyped
<1>2. \A q \in DOMAIN runs : runs'[q].version = runs[q].version /\ runs'[q].open = runs[q].open
  OBVIOUS
<1>3. r = Len(runs) BY DEF OpenIsLatest
<1>4. \A q \in DOMAIN runs : q # r => runs'[q] = runs[q] OBVIOUS
<1> QED BY <1>1, <1>2, <1>3, <1>4 DEF RunsTyped, RunsKept, OpenIsLatest

LEMMA MovedTyped ==
    ASSUME RunsTyped, OpenIsLatest, NEW r \in DOMAIN runs, runs[r].open, NEW place \in Nat,
           runs' = Moved(r, place)
    PROVE  RunsTyped' /\ RunsKept /\ OpenIsLatest'
<1> DEFINE rung == runs[r].alarm \/ LabelOf(r) = "N0"
           row == [runs[r] EXCEPT !.place = place, !.alarm = rung]
<1>1. runs[r] \in RunRows BY DEF RunsTyped
<1>2. runs' = [runs EXCEPT ![r] = row] BY Zenon DEF Moved
<1>3. rung \in BOOLEAN OBVIOUS
<1> HIDE DEF rung
<1>4. row \in RunRows /\ row.version = runs[r].version /\ row.open = runs[r].open
  BY <1>1, <1>3 DEF RunRows
<1> HIDE DEF row
<1> QED BY <1>2, <1>4, CommandTyped

LEMMA AdvancedTyped ==
    ASSUME RunsTyped, OpenIsLatest, NEW r \in DOMAIN runs, runs[r].open,
           runs' = Advanced(r) \/ runs' = Acknowledged(r)
    PROVE  RunsTyped' /\ RunsKept /\ OpenIsLatest'
<1>1. runs[r] \in RunRows BY DEF RunsTyped
<1>2. CASE runs' = Advanced(r)
  <2>1. runs[r].place + 1 \in Nat BY <1>1 DEF RunRows
  <2> QED BY <1>2, <2>1, MovedTyped DEF Advanced
<1>3. CASE runs' = Acknowledged(r)
  <2> DEFINE row == [runs[r] EXCEPT !.alarm = FALSE]
  <2>1. runs' = [runs EXCEPT ![r] = row] BY <1>3 DEF Acknowledged
  <2>2. row \in RunRows /\ row.version = runs[r].version /\ row.open = runs[r].open
    BY <1>1 DEF RunRows
  <2> HIDE DEF row
  <2> QED BY <2>1, <2>2, CommandTyped
<1> QED BY <1>2, <1>3

-----------------------------------------------------------------------------
(* Executions, evidence and baselines.                                     *)

LEMMA NewExecutionTyped ==
    ASSUME RowsTyped, NEW e \in Executions, e \notin DOMAIN executions, NEW test \in Tests,
           NEW r \in DOMAIN runs, NEW source \in Executions \cup {NoExecution},
           executions' = Insert(executions, e, NewExecution(test, r, source)),
           UNCHANGED <<runs, evidence>>
    PROVE  /\ ExecutionsTyped' /\ EvidenceTyped' /\ ExecutionsKept /\ EvidenceKept
           /\ DOMAIN executions' = DOMAIN executions \cup {e}
           /\ executions'[e] = NewExecution(test, r, source)
<1> DEFINE row == NewExecution(test, r, source)
<1>1. r \in Nat BY DEF RowsTyped, RunsTyped
<1>2. row \in ExecutionRows /\ row.run = r /\ row.verdict = "NONE" /\ row.status = "ACTIVE"
  BY <1>1 DEF NewExecution, ExecutionRows
<1> HIDE DEF row
<1>3. /\ DOMAIN executions' = DOMAIN executions \cup {e} /\ executions'[e] = row
      /\ \A d \in DOMAIN executions : executions'[d] = executions[d]
  BY DEF Insert, row
<1>4. ExecutionsTyped' BY <1>2, <1>3 DEF RowsTyped, ExecutionsTyped
<1>5. EvidenceTyped' BY <1>3 DEF RowsTyped, EvidenceTyped
<1> QED BY <1>3, <1>4, <1>5 DEF ExecutionsKept, EvidenceKept, row

LEMMA FinalisedTyped ==
    ASSUME RowsTyped, NEW e \in DOMAIN executions, executions[e].status = "ACTIVE",
           NEW verdict \in {"PASS", "FAIL"}, executions' = Finalised(e, verdict),
           UNCHANGED <<runs, evidence>>
    PROVE  /\ ExecutionsTyped' /\ EvidenceTyped' /\ ExecutionsKept /\ EvidenceKept
           /\ DOMAIN executions' = DOMAIN executions
           /\ executions'[e].verdict = verdict
<1> DEFINE row == [executions[e] EXCEPT !.status = "FINALISED", !.verdict = verdict]
<1>1. executions[e] \in ExecutionRows BY DEF RowsTyped, ExecutionsTyped
<1>2. executions' = [executions EXCEPT ![e] = row] BY DEF Finalised
<1>3. /\ row \in ExecutionRows /\ row.status = "FINALISED" /\ row.verdict = verdict
      /\ row.test = executions[e].test /\ row.run = executions[e].run
      /\ row.source = executions[e].source
  BY <1>1 DEF ExecutionRows
<1> HIDE DEF row
<1>4. ExecutionsTyped' BY <1>2, <1>3 DEF RowsTyped, ExecutionsTyped
<1>5. EvidenceTyped' BY <1>2, <1>3 DEF RowsTyped, EvidenceTyped
<1>6. ExecutionsKept BY <1>2, <1>3 DEF ExecutionsKept
<1> QED BY <1>2, <1>3, <1>4, <1>5, <1>6 DEF EvidenceKept

LEMMA CapturedTyped ==
    ASSUME RowsTyped, NEW e, NEW c, CaptureAdmitted(e, c), evidence' = Captured(e, c),
           UNCHANGED <<runs, executions>>
    PROVE  /\ ExecutionsTyped' /\ EvidenceTyped' /\ ExecutionsKept /\ EvidenceKept
           /\ <<e, c>> \in DOMAIN evidence'
<1>1. /\ DOMAIN evidence' = DOMAIN evidence \cup {<<e, c>>}
      /\ \A key \in DOMAIN evidence : evidence'[key] = evidence[key]
  BY DEF Insert, CaptureAdmitted, Captured
<1> QED BY <1>1 DEF CaptureAdmitted, RowsTyped, ExecutionsTyped, EvidenceTyped, ExecutionsKept,
                    EvidenceKept

\* A baseline for an identity nobody holds.
LEMMA FrozenTyped ==
    ASSUME RowsTyped, NEW s \in DOMAIN executions, s \notin DOMAIN baselines, NEW e \in Executions,
           Fresh(e), baselines' = Insert(baselines, s, e), ExecutionsKept
    PROVE  BaselinesTyped' /\ BaselinesKept /\ s \in DOMAIN baselines' /\ baselines'[s] = e
<1>1. /\ DOMAIN baselines' = DOMAIN baselines \cup {s} /\ baselines'[s] = e
      /\ \A r \in DOMAIN baselines : baselines'[r] = baselines[r]
  BY DEF Insert
<1>2. \A r \in DOMAIN baselines : baselines[r] # e BY DEF Fresh
<1>3. BaselinesTyped' BY <1>1, <1>2 DEF RowsTyped, BaselinesTyped, ExecutionsKept
<1> QED BY <1>1, <1>3 DEF BaselinesKept

LEMMA BaselinesStay ==
    ASSUME RowsTyped, ExecutionsKept, UNCHANGED baselines
    PROVE  BaselinesTyped' /\ BaselinesKept
BY DEF RowsTyped, BaselinesTyped, BaselinesKept, ExecutionsKept

LEMMA TestsStay ==
    ASSUME RowsTyped, RunsKept, RunsTyped', UNCHANGED tests
    PROVE  ExecutionsTyped' /\ EvidenceTyped' /\ BaselinesTyped' /\ TestsKept
<1>1. ExecutionsTyped' BY DEF RowsTyped, ExecutionsTyped, RunsKept, tests
<1>2. ExecutionsKept /\ EvidenceKept BY DEF tests, ExecutionsKept, EvidenceKept
<1>3. BaselinesTyped' /\ BaselinesKept BY <1>2, BaselinesStay DEF tests
<1> QED BY <1>1, <1>2, <1>3 DEF RowsTyped, EvidenceTyped, tests, TestsKept

-----------------------------------------------------------------------------
(* The calls under way.                                                    *)

\* What a request was begun for, and nothing takes back.
Chained(call) ==
    /\ call.purpose \in Purposes
    /\ call.purpose = "DIRECT_REPEAT" =>
           IsFailure(call.failure) /\ defect = call.failure /\ correction
    /\ call.purpose = "REGRESSION" => correction /\ "DIRECT_REPEAT" \in DOMAIN links

\* A run for this purpose, and not the direct repeat's.
OnRun(call, r) ==
    /\ r \in DOMAIN runs
    /\ runs[r].version = VersionFor(call.purpose)
    /\ call.purpose = "REGRESSION" => r # executions[links["DIRECT_REPEAT"].new].run

IsBaselineOf(e, s) == s \in DOMAIN baselines /\ baselines[s] = e

Opening(call) ==
    /\ call.step \in {"IDLE", "OPEN"}
    /\ "checkpoint" \notin DOMAIN call /\ "left" \notin DOMAIN call
    /\ call.step = "OPEN" => Chained(call)

\* A request for a repeat holds an identity that nobody else can bind.
Starting(call) ==
    /\ call.step \in {"BASELINE", "BIND"}
    /\ DOMAIN call = {"step", "purpose", "failure", "drives", "run", "execution"}
    /\ Chained(call) /\ OnRun(call, call.run)
    /\ call.step = "BASELINE" => call.purpose = "DIRECT_REPEAT"
    /\ call.step = "BIND" =>
           IF call.purpose = "DIRECT_REPEAT"
           THEN /\ call.execution \in Executions \ DOMAIN executions
                /\ IsBaselineOf(call.execution, call.failure)
           ELSE call.execution = NoExecution

Testing(call) ==
    /\ call.step \in {"FAULT", "CAPTURE", "FINALISE", "LINK"}
    /\ DOMAIN call = {"step", "purpose", "failure", "drives", "execution", "checkpoint"}
    /\ Chained(call)
    /\ call.execution \in DOMAIN executions
    /\ executions[call.execution].test = TestFor(call.purpose)
    /\ OnRun(call, executions[call.execution].run)
    /\ call.purpose = "DIRECT_REPEAT" =>
           /\ executions[call.execution].source = call.failure
           /\ IsBaselineOf(call.execution, call.failure)
    /\ call.step \in {"FAULT", "FINALISE"} => call.purpose # "REGRESSION"
    /\ call.step = "CAPTURE" /\ call.purpose = "REGRESSION" => call.checkpoint = "N0"
    /\ call.step = "LINK" =>
           /\ call.purpose # "FAILURE"
           /\ call.purpose = "DIRECT_REPEAT" =>
                  /\ executions[call.execution].status = "FINALISED"
                  /\ executions[call.execution].verdict = "PASS"
           /\ call.purpose = "REGRESSION" => <<call.execution, "N0">> \in DOMAIN evidence

\* The loop of run_regression.
Looping(call) ==
    /\ call.step \in {"READ", "EXECUTE", "LABEL", "CAPTURE"}
    /\ {"step", "purpose", "execution", "left"} \subseteq DOMAIN call
    /\ call.purpose = "REGRESSION"
    /\ call.execution \in DOMAIN executions

CallOK(call) == Opening(call) \/ Starting(call) \/ Testing(call) \/ Looping(call)

CallsOK == \A t \in Threads : CallOK(work[t])

\* The repeat of the defect is being bound by one request.
Binding(call) == call.step = "BIND" /\ call.purpose = "DIRECT_REPEAT"

OneBinding == \A t, u \in Threads : Binding(work[t]) /\ Binding(work[u]) => t = u

\* The frozen baseline of the repeat that is linked is there.
RepeatFrozen == "DIRECT_REPEAT" \in DOMAIN links => defect \in DOMAIN baselines

Chain ==
    /\ ChainIsEvidence /\ RepeatFrozen
    /\ DOMAIN links \subseteq {"DIRECT_REPEAT", "REGRESSION"}

InvestigationInv == RowsTyped /\ OpenIsLatest /\ Chain /\ CallsOK /\ OneBinding

-----------------------------------------------------------------------------
(* The chain and the calls outlast every step that takes nothing back.     *)

LEMMA FailureKept ==
    ASSUME RowsTyped, Kept, NEW f, IsFailure(f)
    PROVE  IsFailure(f)'
<1>1. f \in DOMAIN executions /\ executions[f].run \in DOMAIN runs
  BY DEF IsFailure, RowsTyped, ExecutionsTyped
<1> QED BY <1>1 DEF IsFailure, Kept, TestsKept, ExecutionsKept, RunsKept, VersionOf

LEMMA ChainKept ==
    ASSUME RowsTyped, Chain, Kept, UNCHANGED records
    PROVE  Chain'
<1>1. UNCHANGED <<defect, correction, links>> BY DEF records
<1>2. \A e \in DOMAIN executions : executions[e].run \in DOMAIN runs
  BY DEF RowsTyped, ExecutionsTyped
<1>3. defect # NoExecution => IsFailure(defect)'
  BY <1>1, FailureKept DEF Chain, ChainIsEvidence
<1>4. ASSUME NEW e \in DOMAIN executions
      PROVE  /\ e \in DOMAIN executions' /\ executions'[e].test = executions[e].test
             /\ executions'[e].run = executions[e].run
             /\ executions'[e].source = executions[e].source
             /\ executions[e].verdict = "PASS" => executions'[e].verdict = "PASS"
             /\ runs'[executions'[e].run].version = runs[executions[e].run].version
  BY <1>2 DEF Kept, TestsKept, ExecutionsKept, RunsKept, RowsTyped, ExecutionsTyped
<1>5. CASE "DIRECT_REPEAT" \in DOMAIN links
  <2> DEFINE d == links["DIRECT_REPEAT"].new
  <2>1. /\ correction /\ links["DIRECT_REPEAT"].original = defect
        /\ d \in DOMAIN executions /\ executions[d].test = DirectTest
        /\ executions[d].verdict = "PASS" /\ VersionOf(d) = "1.1"
        /\ executions[d].source = defect /\ IsBaselineOf(d, defect)
    BY <1>5 DEF Chain, ChainIsEvidence, RepeatFrozen, IsBaselineOf
  <2>2. /\ d \in DOMAIN executions' /\ executions'[d].test = DirectTest
        /\ executions'[d].verdict = "PASS" /\ VersionOf(d)' = "1.1"
        /\ executions'[d].source = defect
    BY <1>1, <1>4, <2>1 DEF VersionOf
  <2>3. IsBaselineOf(d, defect)' BY <1>1, <2>1 DEF Kept, TestsKept, BaselinesKept, IsBaselineOf
  <2>4. CASE "REGRESSION" \in DOMAIN links
    <3> DEFINE n == links["REGRESSION"].new
    <3>1. /\ links["REGRESSION"].original = d
          /\ n \in DOMAIN executions /\ executions[n].test = RegressionTest
          /\ VersionOf(n) = "1.1" /\ <<n, "N0">> \in DOMAIN evidence
          /\ executions[n].run # executions[d].run
      BY <2>4 DEF Chain, ChainIsEvidence
    <3>2. /\ n \in DOMAIN executions' /\ executions'[n].test = RegressionTest
          /\ VersionOf(n)' = "1.1" /\ <<n, "N0">> \in DOMAIN evidence'
          /\ executions'[n].run # executions'[d].run
      BY <1>1, <1>4, <2>1, <3>1 DEF VersionOf, Kept, TestsKept, EvidenceKept
    <3> QED BY <1>1, <1>3, <2>1, <2>2, <2>3, <3>1, <3>2
            DEF Chain, ChainIsEvidence, RepeatFrozen, IsBaselineOf
  <2> QED BY <1>1, <1>3, <1>5, <2>1, <2>2, <2>3, <2>4
          DEF Chain, ChainIsEvidence, RepeatFrozen, IsBaselineOf
<1>6. CASE "DIRECT_REPEAT" \notin DOMAIN links
  BY <1>1, <1>3, <1>6 DEF Chain, ChainIsEvidence, RepeatFrozen
<1> QED BY <1>5, <1>6

\* The run of an execution a request works on, and of the direct repeat.
LEMMA OnRunKept ==
    ASSUME RowsTyped, Chain, Kept, NEW call, Chained(call), NEW r, OnRun(call, r)
    PROVE  OnRun(call, r)' /\ Chained(call)'
<1>1. Chained(call)'
  <2>1. IsFailure(call.failure) => call.failure # NoExecution
    BY InvestigationAssumption DEF IsFailure, RowsTyped, ExecutionsTyped
  <2> QED BY <2>1, FailureKept DEF Chained, Kept, RecordsKept
<1>2. OnRun(call, r)'
  <2>1. r \in DOMAIN runs' /\ runs'[r].version = VersionFor(call.purpose)
    BY DEF OnRun, Kept, RunsKept
  <2>2. CASE call.purpose = "REGRESSION"
    <3>1. "DIRECT_REPEAT" \in DOMAIN links /\ links["DIRECT_REPEAT"].new \in DOMAIN executions
      BY <2>2 DEF Chained, Chain, ChainIsEvidence
    <3> QED BY <2>1, <2>2, <3>1 DEF OnRun, Kept, RecordsKept, TestsKept, ExecutionsKept
  <2> QED BY <2>1, <2>2 DEF OnRun
<1> QED BY <1>1, <1>2

\* A call that waits stays as it should be, if nobody binds the identity it holds.
LEMMA CallKept ==
    ASSUME RowsTyped, Chain, Kept, NEW call, CallOK(call),
           Binding(call) => call.execution \notin DOMAIN executions'
    PROVE  CallOK(call)'
<1>1. \A e, s : IsBaselineOf(e, s) => IsBaselineOf(e, s)'
  BY DEF IsBaselineOf, Kept, TestsKept, BaselinesKept
<1>2. CASE Opening(call)
  <2>1. Chained(call) => Chained(call)'
    <3>1. IsFailure(call.failure) => call.failure # NoExecution
      BY InvestigationAssumption DEF IsFailure, RowsTyped, ExecutionsTyped
    <3> QED BY <3>1, FailureKept DEF Chained, Kept, RecordsKept
  <2> QED BY <1>2, <2>1 DEF Opening, CallOK
<1>3. CASE Starting(call)
  <2>1. OnRun(call, call.run)' /\ Chained(call)' BY <1>3, OnRunKept DEF Starting
  <2>2. Starting(call)' BY <1>1, <1>3, <2>1 DEF Starting, Binding
  <2> QED BY <2>2 DEF CallOK
<1>4. CASE Testing(call)
  <2> DEFINE e == call.execution
  <2>1. Chained(call)' /\ \A r : OnRun(call, r) => OnRun(call, r)'
    BY <1>4, OnRunKept DEF Testing
  <2>2. /\ e \in DOMAIN executions /\ e \in DOMAIN executions'
        /\ executions'[e].test = executions[e].test
        /\ executions'[e].run = executions[e].run
        /\ executions'[e].source = executions[e].source
        /\ executions[e].status = "FINALISED" => executions'[e] = executions[e]
        /\ <<e, "N0">> \in DOMAIN evidence => <<e, "N0">> \in DOMAIN evidence'
    BY <1>4 DEF Testing, Kept, TestsKept, ExecutionsKept, EvidenceKept
  <2>3. OnRun(call, executions[e].run) BY <1>4 DEF Testing
  <2>4. OnRun(call, executions[e].run)' BY <2>1, <2>2, <2>3 DEF OnRun
  <2>5. Testing(call)' BY <1>1, <1>4, <2>1, <2>2, <2>4 DEF Testing
  <2> QED BY <2>5 DEF CallOK
<1>5. CASE Looping(call)
  BY <1>5 DEF Looping, CallOK, Kept, TestsKept, ExecutionsKept
<1> QED BY <1>2, <1>3, <1>4, <1>5 DEF CallOK

\* The identity that a repeat being bound holds.
LEMMA Held ==
    ASSUME InvestigationInv, NEW u \in Threads, Binding(work[u])
    PROVE  /\ work[u].execution \notin DOMAIN executions
           /\ IsBaselineOf(work[u].execution, defect)
BY DEF InvestigationInv, CallsOK, CallOK, Opening, Starting, Testing, Looping, Binding, Chained

LEMMA NobodyHolds ==
    ASSUME InvestigationInv, NEW e, Fresh(e), DOMAIN executions' \subseteq DOMAIN executions \cup {e},
           NEW u \in Threads, Binding(work[u])
    PROVE  work[u].execution \notin DOMAIN executions'
BY Held DEF Fresh, IsBaselineOf

\* A step of one request: the rows, the chain and the other calls stay in order.
LEMMA RequestKeeps ==
    ASSUME InvestigationInv, NEW t \in Threads, NEW call, Go(t, call),
           RunsTyped', OpenIsLatest', ExecutionsTyped', EvidenceTyped', BaselinesTyped',
           RunsKept, TestsKept, UNCHANGED records,
           CallOK(call)',
           \A u \in Threads \ {t} : Binding(work[u]) =>
               work[u].execution \notin DOMAIN executions' /\ ~Binding(call)
    PROVE  InvestigationInv' /\ Kept
<1>1. DOMAIN work' = Threads /\ work'[t] = call
      /\ \A u \in Threads : u # t => work'[u] = work[u]
  BY DEF Go, InvestigationInv, RowsTyped
<1>2. UNCHANGED <<defect, correction, links>> BY DEF records
<1>3. Kept BY <1>2 DEF Kept, RecordsKept
<1>4. RowsTyped' BY <1>1, <1>2 DEF InvestigationInv, RowsTyped
<1>5. Chain' BY <1>3, ChainKept DEF InvestigationInv
<1>6. ASSUME NEW u \in Threads, u # t PROVE CallOK(work[u])'
  <2>1. CallOK(work[u]) /\ work'[u] = work[u] BY <1>1, <1>6 DEF InvestigationInv, CallsOK
  <2>2. \A c : c = work[u] => CallOK(c)' BY <1>3, <1>6, <2>1, CallKept DEF InvestigationInv
  <2> QED BY <2>1, <2>2
<1>7. CallsOK'
  <2>1. CallOK(work[t])' BY <1>1
  <2> QED BY <1>6, <2>1 DEF CallsOK
<1>8. OneBinding' BY <1>1 DEF InvestigationInv, OneBinding, Binding
<1> QED BY <1>3, <1>4, <1>5, <1>7, <1>8 DEF InvestigationInv

\* A step of another client.
LEMMA ClientKeeps ==
    ASSUME InvestigationInv,
           RunsTyped', OpenIsLatest', ExecutionsTyped', EvidenceTyped', BaselinesTyped',
           RunsKept, TestsKept, UNCHANGED <<records, work>>,
           \A u \in Threads : Binding(work[u]) => work[u].execution \notin DOMAIN executions'
    PROVE  InvestigationInv' /\ Kept
<1>1. UNCHANGED <<defect, correction, links>> BY DEF records
<1>2. Kept BY <1>1 DEF Kept, RecordsKept
<1>3. RowsTyped' BY <1>1 DEF InvestigationInv, RowsTyped
<1>4. Chain' BY <1>2, ChainKept DEF InvestigationInv
<1>5. CallsOK'
  <2>1. ASSUME NEW u \in Threads PROVE CallOK(work[u])'
    <3>1. CallOK(work[u]) BY DEF InvestigationInv, CallsOK
    <3>2. \A c : c = work[u] => CallOK(c)' BY <1>2, <3>1, CallKept DEF InvestigationInv
    <3> QED BY <3>2
  <2> QED BY <2>1 DEF CallsOK
<1>6. OneBinding' BY DEF InvestigationInv, OneBinding
<1> QED BY <1>2, <1>3, <1>4, <1>5, <1>6 DEF InvestigationInv

LEMMA RunsStay ==
    ASSUME RunsTyped, OpenIsLatest, UNCHANGED runs
    PROVE  RunsTyped' /\ OpenIsLatest' /\ RunsKept
BY DEF RunsTyped, OpenIsLatest, RunsKept

\* A step of one request that changes no row.
LEMMA GoKeeps ==
    ASSUME InvestigationInv, NEW t \in Threads, NEW call, Go(t, call),
           RunsTyped', OpenIsLatest', RunsKept, UNCHANGED <<tests, records>>,
           CallOK(call)', ~Binding(call)
    PROVE  InvestigationInv' /\ Kept
<1>1. ExecutionsTyped' /\ EvidenceTyped' /\ BaselinesTyped' /\ TestsKept
  BY TestsStay DEF InvestigationInv
<1>2. UNCHANGED executions BY DEF tests
<1> QED BY <1>1, <1>2, RequestKeeps, Held

LEMMA EndOK == CallOK(Idle)' /\ ~Binding(Idle)
BY DEF CallOK, Opening, Idle, Binding

-----------------------------------------------------------------------------
(* The requests, transaction by transaction.                               *)

LEMMA BeginsOK ==
    ASSUME InvestigationInv, NEW t \in Threads, NEW purpose \in Purposes, NEW f,
           NEW drives \in BOOLEAN, Begins(t, purpose, f, drives)
    PROVE  InvestigationInv' /\ Kept
<1>1. PICK call : /\ call = [step |-> "OPEN", purpose |-> purpose, failure |-> f,
                              drives |-> drives, replaces |-> SomeOpen]
                  /\ Go(t, call)
  BY DEF Begins
<1>2. UNCHANGED <<runs, tests, records>> BY DEF Begins
<1>3. RunsTyped' /\ OpenIsLatest' /\ RunsKept BY <1>2, RunsStay DEF InvestigationInv, RowsTyped
<1>4. Chained(call) BY <1>1 DEF Begins, MayBegin, Purposes, Chained
<1>5. Chained(call)' BY <1>2, <1>4 DEF Chained, IsFailure, VersionOf, tests, records
<1>6. CallOK(call)' /\ ~Binding(call) BY <1>1, <1>5 DEF CallOK, Opening, Binding
<1> QED BY <1>1, <1>2, <1>3, <1>6, GoKeeps

LEMMA OpensOK ==
    ASSUME InvestigationInv, NEW t \in Threads, Opens(t)
    PROVE  InvestigationInv' /\ Kept
<1>1. PICK call : call = work[t] OBVIOUS
<1>2. UNCHANGED <<tests, records>> BY DEF Opens
<1>3. Chained(call)
  BY <1>1 DEF Opens, InvestigationInv, CallsOK, CallOK, Opening, Starting, Testing, Looping
<1>4. CASE UNCHANGED runs /\ End(t)
  <2>1. RunsTyped' /\ OpenIsLatest' /\ RunsKept BY <1>4, RunsStay DEF InvestigationInv, RowsTyped
  <2> QED BY <1>2, <1>4, <2>1, EndOK, GoKeeps DEF End
<1>5. ASSUME NEW replaces, OpeningAdmitted(replaces),
             runs' = Opened(replaces, VersionFor(call.purpose)),
             NEW next,
             next = [step |-> IF call.purpose = "DIRECT_REPEAT" THEN "BASELINE" ELSE "BIND",
                     purpose |-> call.purpose, failure |-> call.failure,
                     drives |-> call.drives, run |-> Len(runs) + 1, execution |-> NoExecution],
             Go(t, next)
      PROVE  InvestigationInv' /\ Kept
  <2>1. VersionFor(call.purpose) \in Versions BY DEF VersionFor, Versions
  <2>2. /\ RunsTyped' /\ RunsKept /\ OpenIsLatest'
        /\ Len(runs) + 1 \in DOMAIN runs' /\ Len(runs) + 1 \notin DOMAIN runs
        /\ runs'[Len(runs) + 1].version = VersionFor(call.purpose)
    <3>1. replaces \in BOOLEAN BY <1>5 DEF OpeningAdmitted, SomeOpen
    <3> QED BY <1>5, <2>1, <3>1, OpenedTyped DEF Opens, InvestigationInv, RowsTyped
  <2>3. next.purpose = call.purpose /\ next.failure = call.failure /\ next.run = Len(runs) + 1
    BY <1>5
  <2>4. Chained(next)'
    <3>1. Kept BY <1>2, <2>2, TestsStay DEF InvestigationInv, Kept, RecordsKept, records
    <3> QED BY <1>3, <2>3, <3>1, OnRunKept, FailureKept, <1>2
            DEF Chained, records, InvestigationInv
  <2>5. OnRun(next, next.run)'
    <3>1. call.purpose = "REGRESSION" =>
              /\ links["DIRECT_REPEAT"].new \in DOMAIN executions
              /\ executions[links["DIRECT_REPEAT"].new].run \in DOMAIN runs
      BY <1>3 DEF Chained, InvestigationInv, Chain, ChainIsEvidence, RowsTyped, ExecutionsTyped
    <3> QED BY <1>2, <2>2, <2>3, <3>1 DEF OnRun, tests, records
  <2>6. Starting(next)' BY <1>5, <2>4, <2>5 DEF Starting
  <2> QED BY <1>2, <1>5, <2>2, <2>6, GoKeeps DEF CallOK, Binding
<1> QED BY <1>1, <1>4, <1>5 DEF Opens

\* What the step of a call says of it.
LEMMA CallsAt ==
    ASSUME InvestigationInv, NEW t \in Threads
    PROVE  LET call == work[t] IN
           /\ call.step \in {"BASELINE", "BIND"} => Starting(call)
           /\ call.step \in {"FAULT", "FINALISE", "LINK"} => Testing(call)
           /\ call.step = "CAPTURE" => IF "left" \in DOMAIN call THEN Looping(call) ELSE Testing(call)
           /\ call.step \in {"READ", "EXECUTE", "LABEL"} => Looping(call)
BY DEF InvestigationInv, CallsOK, CallOK, Opening, Starting, Testing, Looping

\* A request ends without changing a row.
LEMMA EndsOK ==
    ASSUME InvestigationInv, NEW t \in Threads, End(t), UNCHANGED <<runs, tests, records>>
    PROVE  InvestigationInv' /\ Kept
<1>1. RunsTyped' /\ OpenIsLatest' /\ RunsKept BY RunsStay DEF InvestigationInv, RowsTyped
<1> QED BY <1>1, EndOK, GoKeeps DEF End

LEMMA FreezesBaselineOK ==
    ASSUME InvestigationInv, NEW t \in Threads, NEW e \in Executions, FreezesBaseline(t, e)
    PROVE  InvestigationInv' /\ Kept
<1>1. PICK call : call = work[t] OBVIOUS
<1>2. /\ UNCHANGED <<runs, executions, evidence, records>> /\ Fresh(e)
      /\ call.step = "BASELINE"
  BY <1>1 DEF FreezesBaseline
<1>3. Starting(call) /\ call.purpose = "DIRECT_REPEAT" /\ Chained(call)
  BY <1>1, <1>2, CallsAt DEF Starting
<1>4. call.failure = defect /\ defect \in DOMAIN executions BY <1>3 DEF Chained, IsFailure
<1>5. RunsTyped' /\ OpenIsLatest' /\ RunsKept BY <1>2, RunsStay DEF InvestigationInv, RowsTyped
<1>6. ExecutionsTyped' /\ EvidenceTyped' /\ ExecutionsKept /\ EvidenceKept
  BY <1>2 DEF InvestigationInv, RowsTyped, ExecutionsTyped, EvidenceTyped, ExecutionsKept, EvidenceKept
<1>7. CASE UNCHANGED baselines /\ End(t) BY <1>2, <1>7, EndsOK DEF tests
<1>8. ASSUME defect \notin DOMAIN baselines, baselines' = Insert(baselines, defect, e),
             NEW next, next = [call EXCEPT !.step = "BIND", !.execution = e], Go(t, next)
      PROVE  InvestigationInv' /\ Kept
  <2>1. /\ BaselinesTyped' /\ BaselinesKept /\ defect \in DOMAIN baselines'
        /\ baselines'[defect] = e
    BY <1>2, <1>4, <1>6, <1>8, FrozenTyped DEF InvestigationInv
  <2>2. /\ DOMAIN next = DOMAIN call /\ next.step = "BIND" /\ next.execution = e
        /\ next.purpose = call.purpose /\ next.failure = call.failure /\ next.run = call.run
    BY <1>3, <1>8 DEF Starting
  <2>3. Kept BY <1>2, <1>5, <1>6, <2>1 DEF Kept, TestsKept, RecordsKept, records
  <2>4. OnRun(call, call.run)' /\ Chained(call)'
    BY <1>3, <2>3, OnRunKept DEF Starting, InvestigationInv
  <2>5. e \notin DOMAIN executions BY <1>2 DEF Fresh
  <2>6. Starting(next)'
    BY <1>2, <1>3, <1>4, <2>1, <2>2, <2>4, <2>5
       DEF Starting, OnRun, Chained, IsBaselineOf, records
  <2>7. \A u \in Threads \ {t} : ~Binding(work[u])
    BY <1>8, Held DEF IsBaselineOf
  <2> QED BY <1>2, <1>5, <1>6, <1>8, <2>1, <2>6, <2>7, RequestKeeps DEF CallOK, TestsKept
<1> QED BY <1>1, <1>4, <1>7, <1>8 DEF FreezesBaseline

LEMMA BindsOK ==
    ASSUME InvestigationInv, NEW t \in Threads, NEW e \in Executions, Binds(t, e)
    PROVE  InvestigationInv' /\ Kept
<1>1. PICK call : call = work[t] OBVIOUS
<1>2. call.step = "BIND" /\ UNCHANGED <<runs, evidence, baselines, records>>
  BY <1>1 DEF Binds
<1>3. Starting(call) /\ Chained(call) /\ OnRun(call, call.run)
  BY <1>1, <1>2, CallsAt DEF Starting
<1>4. IF call.purpose = "DIRECT_REPEAT"
      THEN e = call.execution /\ e \notin DOMAIN executions /\ IsBaselineOf(e, call.failure)
      ELSE Fresh(e)
  BY <1>1, <1>2, <1>3, InvestigationAssumption DEF Starting, Binds
<1>5. e \notin DOMAIN executions BY <1>4 DEF Fresh
<1>6. PICK test, source, next :
          /\ test = TestFor(call.purpose)
          /\ source = IF call.purpose = "DIRECT_REPEAT" THEN call.failure ELSE NoExecution
          /\ executions' = Insert(executions, e, NewExecution(test, call.run, source))
          /\ Go(t, next)
          /\ next = IF call.purpose = "REGRESSION"
                    THEN [step |-> "CAPTURE", purpose |-> call.purpose, failure |-> call.failure,
                          drives |-> call.drives, execution |-> e, checkpoint |-> "N0"]
                    ELSE [step |-> "FAULT", purpose |-> call.purpose, failure |-> call.failure,
                          drives |-> FALSE, execution |-> e, checkpoint |-> "POST_TRIP"]
  BY <1>1 DEF Binds
<1>7. test \in Tests /\ source \in Executions \cup {NoExecution} /\ call.run \in DOMAIN runs
  BY <1>3, <1>6
     DEF TestFor, Tests, Chained, IsFailure, OnRun, InvestigationInv, RowsTyped, ExecutionsTyped
<1>8. /\ ExecutionsTyped' /\ EvidenceTyped' /\ ExecutionsKept /\ EvidenceKept
      /\ DOMAIN executions' = DOMAIN executions \cup {e}
      /\ executions'[e] = NewExecution(test, call.run, source)
  BY <1>2, <1>5, <1>6, <1>7, NewExecutionTyped DEF InvestigationInv
<1>9. RunsTyped' /\ OpenIsLatest' /\ RunsKept BY <1>2, RunsStay DEF InvestigationInv, RowsTyped
<1>10. BaselinesTyped' /\ BaselinesKept BY <1>2, <1>8, BaselinesStay DEF InvestigationInv
<1>11. Kept BY <1>2, <1>8, <1>9, <1>10 DEF Kept, TestsKept, RecordsKept, records
<1>12. Chained(call)' /\ OnRun(call, call.run)' BY <1>3, <1>11, OnRunKept DEF InvestigationInv
<1>13. /\ next.purpose = call.purpose /\ next.failure = call.failure /\ next.execution = e
       /\ next.step = IF call.purpose = "REGRESSION" THEN "CAPTURE" ELSE "FAULT"
       /\ call.purpose = "REGRESSION" => next.checkpoint = "N0"
       /\ DOMAIN next = {"step", "purpose", "failure", "drives", "execution", "checkpoint"}
  BY <1>6
<1>14. Testing(next)'
  <2>1. /\ e \in DOMAIN executions' /\ executions'[e].test = TestFor(call.purpose)
        /\ executions'[e].run = call.run /\ executions'[e].source = source
    BY <1>6, <1>8 DEF NewExecution
  <2>2. Chained(next)' BY <1>12, <1>13 DEF Chained
  <2>3. OnRun(next, executions[next.execution].run)' BY <1>12, <1>13, <2>1 DEF OnRun
  <2>4. call.purpose = "DIRECT_REPEAT" => source = call.failure /\ IsBaselineOf(e, call.failure)'
    BY <1>2, <1>4, <1>6 DEF IsBaselineOf
  <2> QED BY <1>13, <2>1, <2>2, <2>3, <2>4 DEF Testing
<1>15. \A u \in Threads \ {t} : Binding(work[u]) =>
           work[u].execution \notin DOMAIN executions' /\ ~Binding(next)
  <2>1. ~Binding(next) BY <1>13 DEF Binding
  <2>2. CASE call.purpose = "DIRECT_REPEAT"
    BY <1>1, <1>2, <2>2 DEF InvestigationInv, OneBinding, Binding
  <2>3. CASE call.purpose # "DIRECT_REPEAT"
    BY <1>4, <1>8, <2>1, <2>3, NobodyHolds
  <2> QED BY <2>2, <2>3
<1> QED BY <1>2, <1>6, <1>8, <1>9, <1>10, <1>14, <1>15, RequestKeeps DEF CallOK, TestsKept

\* A request goes on to its next transaction.
Moves(call, next, s) == next = [call EXCEPT !.step = s]

LEMMA TestingMoves ==
    ASSUME NEW call, Testing(call), NEW s, NEW next, Moves(call, next, s)
    PROVE  /\ DOMAIN next = {"step", "purpose", "failure", "drives", "execution", "checkpoint"}
           /\ next.step = s /\ next.purpose = call.purpose /\ next.failure = call.failure
           /\ next.execution = call.execution /\ next.checkpoint = call.checkpoint
           /\ next.drives = call.drives
BY DEF Testing, Moves

LEMMA LoopingMoves ==
    ASSUME NEW call, Looping(call), NEW s, NEW next, Moves(call, next, s)
    PROVE  /\ DOMAIN next = DOMAIN call
           /\ next.step = s /\ next.purpose = call.purpose /\ next.execution = call.execution
BY DEF Looping, Moves

LEMMA TestingKept ==
    ASSUME InvestigationInv, Kept, NEW call, Testing(call)
    PROVE  Testing(call)'
<1>1. CallOK(call) /\ ~Binding(call) BY DEF CallOK, Binding, Testing
<1>2. CallOK(call)' BY <1>1, CallKept DEF InvestigationInv
<1> QED BY <1>2 DEF CallOK, Opening, Starting, Testing, Looping

LEMMA TestingGoesOn ==
    ASSUME NEW call, Testing(call)', NEW s \in {"CAPTURE", "FINALISE", "LINK"},
           NEW next, Moves(call, next, s), Testing(call),
           s \in {"CAPTURE", "FINALISE"} => call.purpose # "REGRESSION",
           s = "LINK" =>
               /\ call.purpose # "FAILURE"
               /\ call.purpose = "DIRECT_REPEAT" =>
                      /\ executions'[call.execution].status = "FINALISED"
                      /\ executions'[call.execution].verdict = "PASS"
               /\ call.purpose = "REGRESSION" => <<call.execution, "N0">> \in DOMAIN evidence'
    PROVE  CallOK(next)' /\ ~Binding(next)
<1>1. /\ DOMAIN next = {"step", "purpose", "failure", "drives", "execution", "checkpoint"}
      /\ next.step = s /\ next.purpose = call.purpose /\ next.failure = call.failure
      /\ next.execution = call.execution /\ next.checkpoint = call.checkpoint
  BY TestingMoves
<1>2. Chained(next)' BY <1>1 DEF Testing, Chained, IsFailure, VersionOf
<1>3. OnRun(next, executions[next.execution].run)' BY <1>1 DEF Testing, OnRun
<1>4. Testing(next)' BY <1>1, <1>2, <1>3 DEF Testing, IsBaselineOf
<1> QED BY <1>1, <1>4 DEF CallOK, Binding

LEMMA FaultsOK ==
    ASSUME InvestigationInv, NEW t \in Threads, Faults(t)
    PROVE  InvestigationInv' /\ Kept
<1>1. PICK call, r, next : /\ call = work[t] /\ r = executions[call.execution].run
                           /\ Moves(call, next, "CAPTURE")
  BY DEF Moves
<1>2. Testing(call) /\ UNCHANGED <<tests, records>> /\ call.purpose # "REGRESSION"
  BY <1>1, CallsAt DEF Faults, Testing
<1>3. CASE UNCHANGED runs /\ End(t) BY <1>2, <1>3, EndsOK
<1>4. CASE Open(r) /\ runs' = Advanced(r) /\ Go(t, next)
  <2>1. RunsTyped' /\ OpenIsLatest' /\ RunsKept
    BY <1>4, AdvancedTyped DEF Open, InvestigationInv, RowsTyped
  <2>2. Kept BY <1>2, <2>1, TestsStay DEF Kept, RecordsKept, records, InvestigationInv
  <2>3. Testing(call)' BY <1>2, <2>2, TestingKept
  <2>4. CallOK(next)' /\ ~Binding(next) BY <1>1, <1>2, <2>3, TestingGoesOn
  <2> QED BY <1>2, <1>4, <2>1, <2>4, GoKeeps
<1> QED BY <1>1, <1>3, <1>4 DEF Faults, At, Moves

LEMMA CapturesOK ==
    ASSUME InvestigationInv, NEW t \in Threads, Captures(t)
    PROVE  InvestigationInv' /\ Kept
<1>1. PICK call, e, c : call = work[t] /\ e = call.execution /\ c = call.checkpoint OBVIOUS
<1>2. UNCHANGED <<runs, executions, baselines, records>> /\ call.step = "CAPTURE"
  BY <1>1 DEF Captures
<1>3. IF "left" \in DOMAIN call THEN Looping(call) ELSE Testing(call)
  BY <1>1, <1>2, CallsAt
<1>4. CASE UNCHANGED evidence /\ End(t) BY <1>2, <1>4, EndsOK DEF tests
<1>5. ASSUME CaptureAdmitted(e, c), evidence' = Captured(e, c), NEW next,
             Moves(call, next, IF call.purpose # "REGRESSION" THEN "FINALISE"
                               ELSE IF "left" \in DOMAIN call THEN "READ" ELSE "LINK"),
             Go(t, next)
      PROVE  InvestigationInv' /\ Kept
  <2>1. /\ ExecutionsTyped' /\ EvidenceTyped' /\ ExecutionsKept /\ EvidenceKept
        /\ <<e, c>> \in DOMAIN evidence'
    BY <1>2, <1>5, CapturedTyped DEF InvestigationInv
  <2>2. RunsTyped' /\ OpenIsLatest' /\ RunsKept BY <1>2, RunsStay DEF InvestigationInv, RowsTyped
  <2>3. BaselinesTyped' /\ BaselinesKept BY <1>2, <2>1, BaselinesStay DEF InvestigationInv
  <2>4. Kept BY <1>2, <2>1, <2>2, <2>3 DEF Kept, TestsKept, RecordsKept, records
  <2>5. CallOK(next)' /\ ~Binding(next)
    <3>1. CASE "left" \in DOMAIN call
      <4>1. Looping(call) /\ call.purpose = "REGRESSION" BY <1>3, <3>1 DEF Looping
      <4>2. Moves(call, next, "READ") BY <1>5, <3>1, <4>1
      <4> QED BY <1>2, <4>1, <4>2, LoopingMoves DEF Looping, CallOK, Binding
    <3>2. CASE "left" \notin DOMAIN call
      <4>1. Testing(call) /\ Testing(call)' BY <1>3, <2>4, <3>2, TestingKept
      <4>2. CASE call.purpose = "REGRESSION"
        <5>1. Moves(call, next, "LINK") BY <1>5, <3>2, <4>2
        <5>2. c = "N0" BY <1>1, <1>2, <4>1, <4>2 DEF Testing
        <5> QED BY <1>1, <2>1, <4>1, <4>2, <5>1, <5>2, TestingGoesOn
      <4>3. CASE call.purpose # "REGRESSION"
        <5>1. Moves(call, next, "FINALISE") BY <1>5, <4>3
        <5> QED BY <4>1, <4>3, <5>1, TestingGoesOn
      <4> QED BY <4>2, <4>3
    <3> QED BY <3>1, <3>2
  <2>6. \A u \in Threads : Binding(work[u]) => work[u].execution \notin DOMAIN executions'
    BY <1>2, Held
  <2> QED BY <1>2, <1>5, <2>1, <2>2, <2>3, <2>5, <2>6, RequestKeeps DEF TestsKept
<1> QED BY <1>1, <1>4, <1>5 DEF Captures, At, Moves

LEMMA FinalisesOK ==
    ASSUME InvestigationInv, NEW t \in Threads, Finalises(t)
    PROVE  InvestigationInv' /\ Kept
<1>1. PICK call, e, next : /\ call = work[t] /\ e = call.execution
                           /\ Moves(call, next, "LINK")
  BY DEF Moves
<1>2. UNCHANGED <<runs, evidence, baselines, records>> /\ Testing(call)
  BY <1>1, CallsAt DEF Finalises
<1>3. CASE UNCHANGED executions /\ End(t) BY <1>2, <1>3, EndsOK DEF tests
<1>4. CASE /\ FinaliseAdmitted(e) /\ executions' = Finalised(e, Verdict(e))
           /\ IF GoesOnToLink(call) THEN Go(t, next) ELSE End(t)
  <2>1. /\ ExecutionsTyped' /\ EvidenceTyped' /\ ExecutionsKept /\ EvidenceKept
        /\ DOMAIN executions' = DOMAIN executions /\ executions'[e].verdict = Verdict(e)
    <3>1. Verdict(e) \in {"PASS", "FAIL"} BY DEF Verdict
    <3> QED BY <1>2, <1>4, <3>1, FinalisedTyped DEF FinaliseAdmitted, InvestigationInv
  <2>2. RunsTyped' /\ OpenIsLatest' /\ RunsKept BY <1>2, RunsStay DEF InvestigationInv, RowsTyped
  <2>3. BaselinesTyped' /\ BaselinesKept BY <1>2, <2>1, BaselinesStay DEF InvestigationInv
  <2>4. Kept BY <1>2, <2>1, <2>2, <2>3 DEF Kept, TestsKept, RecordsKept, records
  <2>5. \A u \in Threads : Binding(work[u]) => work[u].execution \notin DOMAIN executions'
    BY <2>1, Held
  <2>6. CASE GoesOnToLink(call)
    <3>1. Testing(call)' BY <1>2, <2>4, TestingKept
    <3>2. executions'[e].verdict = "PASS" /\ call.purpose = "DIRECT_REPEAT"
      BY <1>1, <2>1, <2>6 DEF GoesOnToLink
    <3>3. executions'[e].status = "FINALISED" BY <1>1, <2>1, <3>1, <3>2 DEF ExecutionsTyped, Testing
    <3>4. CallOK(next)' /\ ~Binding(next) BY <1>1, <1>2, <3>1, <3>2, <3>3, TestingGoesOn
    <3> QED BY <1>2, <1>4, <2>1, <2>2, <2>3, <2>5, <2>6, <3>4, RequestKeeps DEF TestsKept
  <2>7. CASE ~GoesOnToLink(call)
    BY <1>2, <1>4, <2>1, <2>2, <2>3, <2>5, <2>7, EndOK, RequestKeeps DEF TestsKept, End
  <2> QED BY <2>6, <2>7
<1> QED BY <1>1, <1>3, <1>4 DEF Finalises, At, Moves

\* The link names what the request has done.
LEMMA LinksOK ==
    ASSUME InvestigationInv, NEW t \in Threads, Links(t)
    PROVE  InvestigationInv' /\ Kept
<1>1. PICK call, e, original, row :
          /\ call = work[t] /\ e = call.execution
          /\ original = IF call.purpose = "REGRESSION" THEN links["DIRECT_REPEAT"].new
                        ELSE call.failure
          /\ row = [original |-> original, new |-> e]
  OBVIOUS
<1>2. /\ UNCHANGED <<runs, executions, evidence, baselines, defect, correction>>
      /\ call.step = "LINK" /\ Testing(call)
  BY <1>1, CallsAt DEF Links, tests
<1>3. CASE UNCHANGED links /\ End(t) BY <1>2, <1>3, EndsOK DEF tests, records
<1>4. ASSUME LinkAdmitted(call.purpose), links' = Insert(links, call.purpose, row),
             NEW next, next = IF call.drives THEN Driving(e) ELSE Idle, Go(t, next)
      PROVE  InvestigationInv' /\ Kept
  <2>1. call.purpose \in {"DIRECT_REPEAT", "REGRESSION"} /\ call.purpose \notin DOMAIN links
    BY <1>2, <1>4 DEF Testing, Chained, Purposes, LinkAdmitted
  <2>2. /\ DOMAIN links' = DOMAIN links \cup {call.purpose} /\ links'[call.purpose] = row
        /\ \A rel \in DOMAIN links : links'[rel] = links[rel]
    BY <1>4, <2>1 DEF Insert
  <2>3. row.new = e /\ row.original = original BY <1>1
  <2>4. RunsTyped' /\ OpenIsLatest' /\ RunsKept BY <1>2, RunsStay DEF InvestigationInv, RowsTyped
  <2>5. ExecutionsTyped' /\ EvidenceTyped' /\ BaselinesTyped' /\ TestsKept
    BY <1>2, <2>4, TestsStay DEF InvestigationInv, tests
  <2>6. Kept BY <1>2, <2>1, <2>2, <2>4, <2>5 DEF Kept, RecordsKept
  <2>7. Chain'
    <3>1. /\ e \in DOMAIN executions /\ executions[e].test = TestFor(call.purpose)
          /\ OnRun(call, executions[e].run) /\ Chained(call)
      BY <1>1, <1>2 DEF Testing
    <3>2. VersionOf(e) = "1.1" /\ correction
      BY <2>1, <3>1 DEF VersionOf, OnRun, VersionFor, Chained
    <3>3. ASSUME call.purpose = "DIRECT_REPEAT" PROVE (ChainIsEvidence /\ RepeatFrozen)'
      <4>1. /\ executions[e].verdict = "PASS" /\ executions[e].source = defect
            /\ IsBaselineOf(e, defect) /\ original = defect
        BY <1>1, <1>2, <3>1, <3>3 DEF Testing, Chained
      <4>2. "REGRESSION" \notin DOMAIN links' /\ links'["DIRECT_REPEAT"] = row
        BY <2>1, <2>2, <3>3 DEF InvestigationInv, Chain, ChainIsEvidence
      <4> QED BY <1>2, <2>3, <3>1, <3>2, <3>3, <4>1, <4>2
              DEF InvestigationInv, Chain, ChainIsEvidence, RepeatFrozen, IsBaselineOf,
                  IsFailure, VersionOf, TestFor
    <3>4. ASSUME call.purpose = "REGRESSION" PROVE (ChainIsEvidence /\ RepeatFrozen)'
      <4>1. /\ "DIRECT_REPEAT" \in DOMAIN links /\ original = links["DIRECT_REPEAT"].new
            /\ <<e, "N0">> \in DOMAIN evidence
            /\ executions[e].run # executions[original].run
        BY <1>1, <1>2, <3>1, <3>4 DEF Testing, Chained, OnRun
      <4>2. links'["REGRESSION"] = row /\ links'["DIRECT_REPEAT"] = links["DIRECT_REPEAT"]
            /\ "DIRECT_REPEAT" \in DOMAIN links'
        BY <2>2, <3>4, <4>1
      <4> QED BY <1>2, <2>3, <3>1, <3>2, <3>4, <4>1, <4>2
              DEF InvestigationInv, Chain, ChainIsEvidence, RepeatFrozen, IsFailure, VersionOf,
                  TestFor
    <3>5. DOMAIN links' \subseteq {"DIRECT_REPEAT", "REGRESSION"}
      BY <2>1, <2>2 DEF InvestigationInv, Chain
    <3> QED BY <2>1, <3>3, <3>4, <3>5 DEF Chain
  <2>8. CallOK(next)' /\ ~Binding(next)
    <3>1. CASE next = Idle BY <3>1, EndOK
    <3>2. CASE next = Driving(e)
      <4>1. e \in DOMAIN executions' BY <1>1, <1>2 DEF Testing
      <4>2. Looping(next)' BY <3>2, <4>1 DEF Looping, Driving
      <4> QED BY <3>2, <4>2 DEF CallOK, Binding, Driving
    <3> QED BY <1>4, <3>1, <3>2
  <2>9. DOMAIN work' = Threads /\ work'[t] = next
        /\ \A u \in Threads : u # t => work'[u] = work[u]
    BY <1>4 DEF Go, InvestigationInv, RowsTyped
  <2>10. CallsOK'
    <3>1. ASSUME NEW u \in Threads PROVE CallOK(work[u])'
      <4>1. CASE u = t BY <2>8, <2>9, <4>1
      <4>2. CASE u # t
        <5>1. CallOK(work[u]) BY DEF InvestigationInv, CallsOK
        <5>2. Binding(work[u]) => work[u].execution \notin DOMAIN executions' BY <1>2, Held
        <5>3. \A c : c = work[u] => CallOK(c)' BY <2>6, <5>1, <5>2, CallKept DEF InvestigationInv
        <5> QED BY <2>9, <4>2, <5>3
      <4> QED BY <4>1, <4>2
    <3> QED BY <3>1 DEF CallsOK
  <2>11. OneBinding' BY <2>8, <2>9 DEF InvestigationInv, OneBinding, Binding
  <2>12. RowsTyped' BY <1>2, <2>4, <2>5, <2>9 DEF InvestigationInv, RowsTyped
  <2> QED BY <2>4, <2>6, <2>7, <2>10, <2>11, <2>12 DEF InvestigationInv
<1> QED BY <1>1, <1>3, <1>4 DEF Links, End

-----------------------------------------------------------------------------
(* The loop of run_regression.                                             *)

\* The regression that has been started is an execution.
LEMMA ResumesOK ==
    ASSUME InvestigationInv, NEW t \in Threads, NEW f, Resumes(t, f)
    PROVE  InvestigationInv' /\ Kept
<1>1. PICK e, next : e = links["REGRESSION"].new /\ next = Driving(e) OBVIOUS
<1>2. UNCHANGED <<runs, tests, records>> /\ Go(t, next) /\ e \in DOMAIN executions
  BY <1>1 DEF Resumes, InvestigationInv, Chain, ChainIsEvidence
<1>3. RunsTyped' /\ OpenIsLatest' /\ RunsKept BY <1>2, RunsStay DEF InvestigationInv, RowsTyped
<1>4. CallOK(next)' /\ ~Binding(next) BY <1>1, <1>2 DEF Driving, Looping, CallOK, Binding, tests
<1> QED BY <1>2, <1>3, <1>4, GoKeeps

\* The loop goes on: any call it makes is of the same execution.
LEMMA LoopsOK ==
    ASSUME InvestigationInv, NEW t \in Threads, Looping(work[t]), NEW next,
           {"step", "purpose", "execution", "left"} \subseteq DOMAIN next,
           next.step \in {"READ", "EXECUTE", "LABEL", "CAPTURE"},
           next.purpose = "REGRESSION", next.execution = work[t].execution, Go(t, next),
           RunsTyped', OpenIsLatest', RunsKept, UNCHANGED <<tests, records>>
    PROVE  InvestigationInv' /\ Kept
<1>1. Looping(next)' BY DEF Looping, tests
<1>2. CallOK(next)' /\ ~Binding(next) BY <1>1 DEF CallOK, Binding
<1> QED BY <1>2, GoKeeps

LEMMA ReadsOK ==
    ASSUME InvestigationInv, NEW t \in Threads, Reads(t)
    PROVE  InvestigationInv' /\ Kept
<1>1. Looping(work[t]) /\ UNCHANGED <<runs, tests, records>> BY CallsAt DEF Reads
<1>2. RunsTyped' /\ OpenIsLatest' /\ RunsKept BY <1>1, RunsStay DEF InvestigationInv, RowsTyped
<1>3. CASE End(t) BY <1>1, <1>3, EndsOK
<1>4. CASE ~End(t)
  <2>1. PICK next, r :
            /\ r = executions[work[t].execution].run
            /\ next = [step |-> "EXECUTE", purpose |-> "REGRESSION", drives |-> TRUE,
                       execution |-> work[t].execution, left |-> work[t].left - 1,
                       acknowledges |-> runs[r].alarm, seen |-> LabelOf(r)]
            /\ Go(t, next)
    BY <1>4 DEF Reads
  <2>2. /\ next.step = "EXECUTE" /\ next.purpose = "REGRESSION"
        /\ next.execution = work[t].execution
        /\ {"step", "purpose", "execution", "left"} \subseteq DOMAIN next
    BY <2>1
  <2> QED BY <1>1, <1>2, <2>1, <2>2, LoopsOK
<1> QED BY <1>3, <1>4

LEMMA ExecutesOK ==
    ASSUME InvestigationInv, NEW t \in Threads, Executes(t)
    PROVE  InvestigationInv' /\ Kept
<1>1. PICK r, next : /\ r = executions[work[t].execution].run
                     /\ Moves(work[t], next, "LABEL")
  BY DEF Moves
<1>2. Looping(work[t]) /\ UNCHANGED <<tests, records>> BY CallsAt DEF Executes
<1>3. CASE UNCHANGED runs /\ End(t) BY <1>2, <1>3, EndsOK
<1>4. CASE Open(r) /\ Go(t, next) /\ (runs' = Advanced(r) \/ runs' = Acknowledged(r))
  <2>1. RunsTyped' /\ OpenIsLatest' /\ RunsKept
    BY <1>4, AdvancedTyped DEF Open, InvestigationInv, RowsTyped
  <2>2. /\ next.step = "LABEL" /\ next.purpose = "REGRESSION"
        /\ next.execution = work[t].execution
        /\ {"step", "purpose", "execution", "left"} \subseteq DOMAIN next
    BY <1>1, <1>2, LoopingMoves DEF Looping
  <2> QED BY <1>2, <1>4, <2>1, <2>2, LoopsOK
<1> QED BY <1>1, <1>3, <1>4 DEF Executes, At, Moves, HasNext

LEMMA NamesOK ==
    ASSUME InvestigationInv, NEW t \in Threads, Names(t)
    PROVE  InvestigationInv' /\ Kept
<1>1. Looping(work[t]) /\ UNCHANGED <<runs, tests, records>> BY CallsAt DEF Names
<1>2. RunsTyped' /\ OpenIsLatest' /\ RunsKept BY <1>1, RunsStay DEF InvestigationInv, RowsTyped
<1>3. PICK label, read, capture :
          /\ label = LabelOf(executions[work[t].execution].run)
          /\ read = [step |-> "READ", purpose |-> "REGRESSION", drives |-> TRUE,
                     execution |-> work[t].execution, left |-> work[t].left, checkpoint |-> label]
          /\ capture = [step |-> "CAPTURE", purpose |-> "REGRESSION", drives |-> TRUE,
                     execution |-> work[t].execution, left |-> work[t].left, checkpoint |-> label]
  OBVIOUS
<1>4. Go(t, read) \/ Go(t, capture) BY <1>3 DEF Names
<1>5. ASSUME NEW next \in {read, capture}
      PROVE  /\ next.step \in {"READ", "CAPTURE"} /\ next.purpose = "REGRESSION"
             /\ next.execution = work[t].execution
             /\ {"step", "purpose", "execution", "left"} \subseteq DOMAIN next
  BY <1>3
<1> QED BY <1>1, <1>2, <1>4, <1>5, LoopsOK

-----------------------------------------------------------------------------
(* The other clients.                                                      *)

LEMMA ClientOpensOK ==
    ASSUME InvestigationInv, NEW version \in Versions, ClientOpens(version)
    PROVE  InvestigationInv' /\ Kept
<1>1. UNCHANGED <<tests, records, work>> BY DEF ClientOpens
<1>2. RunsTyped' /\ OpenIsLatest' /\ RunsKept
  BY OpenedTyped DEF ClientOpens, InvestigationInv, RowsTyped
<1>3. ExecutionsTyped' /\ EvidenceTyped' /\ BaselinesTyped' /\ TestsKept
  BY <1>1, <1>2, TestsStay DEF InvestigationInv
<1>4. UNCHANGED executions BY <1>1 DEF tests
<1> QED BY <1>1, <1>2, <1>3, <1>4, ClientKeeps, Held

LEMMA ClientCommandsOK ==
    ASSUME InvestigationInv, NEW r \in DOMAIN runs, ClientCommands(r)
    PROVE  InvestigationInv' /\ Kept
<1>1. UNCHANGED <<tests, records, work>> BY DEF ClientCommands
<1>2. RunsTyped' /\ OpenIsLatest' /\ RunsKept
  <2>1. RunsTyped /\ OpenIsLatest BY DEF InvestigationInv, RowsTyped
  <2>2. runs[r].place \in Nat
    <3>1. runs[r] \in RunRows BY <2>1 DEF RunsTyped
    <3> QED BY <3>1 DEF RunRows
  <2> runs[r].open BY DEF ClientCommands, Open
  <2>3. CASE runs' = Acknowledged(r) BY <2>1, <2>3, AdvancedTyped
  <2>4. ASSUME NEW place \in runs[r].place + 1 .. Len(Path[runs[r].version]),
               runs' = Moved(r, place)
        PROVE  RunsTyped' /\ OpenIsLatest' /\ RunsKept
    <3>1. place \in Nat BY <2>2
    <3> QED BY <2>1, <2>4, <3>1, MovedTyped
  <2> QED BY <2>3, <2>4 DEF ClientCommands
<1>3. ExecutionsTyped' /\ EvidenceTyped' /\ BaselinesTyped' /\ TestsKept
  BY <1>1, <1>2, TestsStay DEF InvestigationInv
<1>4. UNCHANGED executions BY <1>1 DEF tests
<1> QED BY <1>1, <1>2, <1>3, <1>4, ClientKeeps, Held

LEMMA ClientStartsOK ==
    ASSUME InvestigationInv, NEW e \in Executions, NEW test \in Tests, NEW r \in DOMAIN runs,
           NEW source \in Executions \cup {NoExecution}, ClientStarts(e, test, r, source)
    PROVE  InvestigationInv' /\ Kept
<1>1. UNCHANGED <<runs, evidence, records, work>> /\ Fresh(e) /\ e \notin DOMAIN executions
  BY DEF ClientStarts, Fresh
<1>2. /\ ExecutionsTyped' /\ EvidenceTyped' /\ ExecutionsKept /\ EvidenceKept
      /\ DOMAIN executions' = DOMAIN executions \cup {e}
  BY <1>1, NewExecutionTyped DEF ClientStarts, InvestigationInv
<1>3. RunsTyped' /\ OpenIsLatest' /\ RunsKept BY <1>1, RunsStay DEF InvestigationInv, RowsTyped
<1>4. BaselinesTyped' /\ BaselinesKept
  <2>1. CASE source = NoExecution
    <3>1. UNCHANGED baselines BY <2>1 DEF ClientStarts
    <3> QED BY <1>2, <3>1, BaselinesStay DEF InvestigationInv
  <2>2. CASE source # NoExecution
    <3>1. /\ source \in DOMAIN executions /\ source \notin DOMAIN baselines
          /\ baselines' = Insert(baselines, source, e)
      BY <2>2 DEF ClientStarts, MayRepeat
    <3> QED BY <1>1, <1>2, <3>1, FrozenTyped DEF InvestigationInv
  <2> QED BY <2>1, <2>2
<1>5. \A u \in Threads : Binding(work[u]) => work[u].execution \notin DOMAIN executions'
  BY <1>1, <1>2, NobodyHolds
<1> QED BY <1>1, <1>2, <1>3, <1>4, <1>5, ClientKeeps DEF TestsKept

LEMMA ClientCapturesOK ==
    ASSUME InvestigationInv, NEW e, NEW c, ClientCaptures(e, c)
    PROVE  InvestigationInv' /\ Kept
<1>1. UNCHANGED <<runs, executions, baselines, records, work>> BY DEF ClientCaptures
<1>2. ExecutionsTyped' /\ EvidenceTyped' /\ ExecutionsKept /\ EvidenceKept
  BY <1>1, CapturedTyped DEF ClientCaptures, InvestigationInv
<1>3. RunsTyped' /\ OpenIsLatest' /\ RunsKept BY <1>1, RunsStay DEF InvestigationInv, RowsTyped
<1>4. BaselinesTyped' /\ BaselinesKept BY <1>1, <1>2, BaselinesStay DEF InvestigationInv
<1> QED BY <1>1, <1>2, <1>3, <1>4, ClientKeeps, Held DEF TestsKept

LEMMA ClientFinalisesOK ==
    ASSUME InvestigationInv, NEW e, ClientFinalises(e) \/ ClientDetermines(e)
    PROVE  InvestigationInv' /\ Kept
<1>1. UNCHANGED <<runs, evidence, baselines, records, work>>
  BY DEF ClientFinalises, ClientDetermines
<1>2. PICK verdict \in {"PASS", "FAIL"} :
          /\ e \in DOMAIN executions /\ executions[e].status = "ACTIVE"
          /\ executions' = Finalised(e, verdict)
  <2>1. Verdict(e) \in {"PASS", "FAIL"} BY DEF Verdict
  <2> QED BY <2>1 DEF ClientFinalises, FinaliseAdmitted, ClientDetermines, DetermineAdmitted
<1>3. /\ ExecutionsTyped' /\ EvidenceTyped' /\ ExecutionsKept /\ EvidenceKept
      /\ DOMAIN executions' = DOMAIN executions
  BY <1>1, <1>2, FinalisedTyped DEF InvestigationInv
<1>4. RunsTyped' /\ OpenIsLatest' /\ RunsKept BY <1>1, RunsStay DEF InvestigationInv, RowsTyped
<1>5. BaselinesTyped' /\ BaselinesKept BY <1>1, <1>3, BaselinesStay DEF InvestigationInv
<1> QED BY <1>1, <1>3, <1>4, <1>5, ClientKeeps, Held DEF TestsKept

LEMMA ClientStepOK ==
    ASSUME InvestigationInv, ClientStep
    PROVE  InvestigationInv' /\ Kept
BY ClientOpensOK, ClientCommandsOK, ClientStartsOK, ClientCapturesOK, ClientFinalisesOK
   DEF ClientStep, Tests

-----------------------------------------------------------------------------
(* Every step.                                                             *)

LEMMA RequestStepOK ==
    ASSUME InvestigationInv, NEW t \in Threads, RequestStep(t)
    PROVE  InvestigationInv' /\ Kept
<1>1. ASSUME Refused(t) PROVE InvestigationInv' /\ Kept BY <1>1, EndsOK DEF Refused
<1> QED BY <1>1, BeginsOK, OpensOK, FreezesBaselineOK, BindsOK, ResumesOK, FaultsOK, CapturesOK,
           FinalisesOK, LinksOK, ReadsOK, ExecutesOK, NamesOK DEF RequestStep

\* The defect and the correction are recorded once, of a failure.
LEMMA RecordsOK ==
    ASSUME InvestigationInv, NEW f, RecordDefect(f) \/ RecordCorrection(f)
    PROVE  InvestigationInv' /\ Kept
<1>1. UNCHANGED <<runs, tests, links, work>> /\ IsFailure(f)
  BY DEF RecordDefect, RecordCorrection
<1>2. RunsTyped' /\ OpenIsLatest' /\ RunsKept BY <1>1, RunsStay DEF InvestigationInv, RowsTyped
<1>3. ExecutionsTyped' /\ EvidenceTyped' /\ BaselinesTyped' /\ TestsKept
  BY <1>1, <1>2, TestsStay DEF InvestigationInv
<1>4. f # NoExecution
  BY <1>1, InvestigationAssumption DEF IsFailure, InvestigationInv, RowsTyped, ExecutionsTyped
<1>5. \/ defect = NoExecution /\ defect' = f /\ UNCHANGED correction
      \/ defect = f /\ correction' = TRUE /\ UNCHANGED defect
  BY DEF RecordDefect, DefectAdmitted, RecordCorrection
<1>6. Kept BY <1>1, <1>2, <1>3, <1>5 DEF Kept, RecordsKept, InvestigationInv, RowsTyped
<1>7. RowsTyped' BY <1>1, <1>2, <1>3, <1>5 DEF InvestigationInv, RowsTyped
<1>8. Chain'
  <2>1. "DIRECT_REPEAT" \in DOMAIN links => correction /\ defect # NoExecution
    BY DEF InvestigationInv, Chain, ChainIsEvidence
  <2>2. correction => defect # NoExecution BY DEF InvestigationInv, Chain, ChainIsEvidence
  <2>3. "REGRESSION" \in DOMAIN links => "DIRECT_REPEAT" \in DOMAIN links
    BY DEF InvestigationInv, Chain, ChainIsEvidence
  <2>4. IsFailure(f)' BY <1>1 DEF IsFailure, VersionOf, tests
  <2>5. CASE "DIRECT_REPEAT" \in DOMAIN links
    <3>1. UNCHANGED defect /\ correction' = TRUE BY <1>5, <2>1, <2>5
    <3>2. ChainIsEvidence' /\ RepeatFrozen'
      BY <1>1, <1>4, <1>5, <2>1, <2>4, <2>5, <3>1
         DEF InvestigationInv, Chain, ChainIsEvidence, RepeatFrozen, IsFailure, VersionOf, tests
    <3> QED BY <1>1, <3>2 DEF InvestigationInv, Chain
  <2>6. CASE "DIRECT_REPEAT" \notin DOMAIN links
    BY <1>1, <1>4, <1>5, <2>2, <2>3, <2>4, <2>6
       DEF InvestigationInv, Chain, ChainIsEvidence, RepeatFrozen
  <2> QED BY <2>5, <2>6
<1>9. CallsOK'
  <2>1. ASSUME NEW u \in Threads PROVE CallOK(work[u])'
    <3>1. CallOK(work[u]) BY DEF InvestigationInv, CallsOK
    <3>2. Binding(work[u]) => work[u].execution \notin DOMAIN executions' BY <1>1, Held DEF tests
    <3>3. \A c : c = work[u] => CallOK(c)' BY <1>6, <3>1, <3>2, CallKept DEF InvestigationInv
    <3> QED BY <1>1, <3>3
  <2> QED BY <2>1 DEF CallsOK
<1>10. OneBinding' BY <1>1 DEF InvestigationInv, OneBinding
<1> QED BY <1>2, <1>6, <1>7, <1>8, <1>9, <1>10 DEF InvestigationInv

LEMMA CrashOK ==
    ASSUME InvestigationInv, UNCHANGED <<runs, tests, records>>,
           Crash \/ UNCHANGED work
    PROVE  InvestigationInv' /\ Kept
<1>1. RunsTyped' /\ OpenIsLatest' /\ RunsKept BY RunsStay DEF InvestigationInv, RowsTyped
<1>2. ExecutionsTyped' /\ EvidenceTyped' /\ BaselinesTyped' /\ TestsKept
  BY <1>1, TestsStay DEF InvestigationInv
<1>3. UNCHANGED <<defect, correction, links>> BY DEF records
<1>4. Kept BY <1>1, <1>2, <1>3 DEF Kept, RecordsKept
<1>5. CASE UNCHANGED work
  <2>1. \A u \in Threads : Binding(work[u]) => work[u].execution \notin DOMAIN executions'
    BY Held DEF tests
  <2> QED BY <1>1, <1>2, <1>5, <2>1, ClientKeeps
<1>6. CASE Crash
  <2>1. work' = [u \in Threads |-> Idle] BY <1>6 DEF Crash
  <2>2. CallsOK' /\ OneBinding' BY <2>1, EndOK DEF CallsOK, OneBinding
  <2>3. RowsTyped' BY <1>1, <1>2, <1>3, <2>1 DEF InvestigationInv, RowsTyped
  <2>4. Chain' BY <1>4, ChainKept DEF InvestigationInv
  <2> QED BY <1>1, <1>4, <2>2, <2>3, <2>4 DEF InvestigationInv
<1> QED BY <1>5, <1>6

LEMMA InvestigationInductive ==
    ASSUME InvestigationInv, [InvestigationNext]_investigationVars
    PROVE  InvestigationInv' /\ Kept
<1>1. CASE UNCHANGED investigationVars BY <1>1, CrashOK DEF investigationVars
<1>2. ASSUME Crash PROVE InvestigationInv' /\ Kept BY <1>2, CrashOK DEF Crash
<1> QED BY <1>1, <1>2, RequestStepOK, RecordsOK, ClientStepOK DEF InvestigationNext

LEMMA InvestigationInvInit == InvestigationInit => InvestigationInv
<1> SUFFICES ASSUME InvestigationInit PROVE InvestigationInv OBVIOUS
<1>1. RunsTyped /\ OpenIsLatest
  BY InvestigationAssumption DEF InvestigationInit, RunsTyped, OpenIsLatest
<1>2. RowsTyped
  <2>1. DOMAIN executions = {} /\ DOMAIN evidence = {} /\ DOMAIN baselines = {}
    BY DEF InvestigationInit
  <2>2. ExecutionsTyped /\ EvidenceTyped /\ BaselinesTyped
    BY <2>1 DEF ExecutionsTyped, EvidenceTyped, BaselinesTyped
  <2>3. correction \in BOOLEAN /\ DOMAIN work = Threads BY DEF InvestigationInit
  <2> QED BY <1>1, <2>2, <2>3 DEF RowsTyped
<1>3. Chain BY DEF InvestigationInit, Chain, ChainIsEvidence, RepeatFrozen
<1>4. CallsOK /\ OneBinding
  BY DEF InvestigationInit, CallsOK, OneBinding, CallOK, Opening, Binding, Idle
<1> QED BY <1>1, <1>2, <1>3, <1>4 DEF InvestigationInv

LEMMA InvestigationInvariant == InvestigationSpec => []InvestigationInv
<1>1. InvestigationInv /\ [InvestigationNext]_investigationVars => InvestigationInv'
  BY InvestigationInductive
<1> QED BY <1>1, InvestigationInvInit, PTL DEF InvestigationSpec

\* Every row names rows that exist, and a request acts on an execution that is
\* bound.
THEOREM InvestigationRowsAreWellFormed == InvestigationSpec => []InvestigationRowsOK
<1>1. InvestigationInv => InvestigationRowsOK
  <2> SUFFICES ASSUME InvestigationInv PROVE InvestigationRowsOK OBVIOUS
  <2>1. /\ Len(runs) <= MaxRuns /\ DOMAIN executions \subseteq Executions
        /\ \A e \in DOMAIN executions :
            /\ executions[e].run \in DOMAIN runs
            /\ executions[e].verdict # "NONE" <=> executions[e].status = "FINALISED"
        /\ DOMAIN baselines \subseteq DOMAIN executions
    BY DEF InvestigationInv, RowsTyped, RunsTyped, ExecutionsTyped, BaselinesTyped
  <2>2. \A t \in Threads : "checkpoint" \in DOMAIN work[t] \/ "left" \in DOMAIN work[t] =>
            work[t].execution \in DOMAIN executions
    <3>1. \A call : Starting(call) => "checkpoint" \notin DOMAIN call /\ "left" \notin DOMAIN call
      BY DEF Starting
    <3> QED BY <3>1 DEF InvestigationInv, CallsOK, CallOK, Opening, Testing, Looping
  <2> QED BY <2>1, <2>2 DEF InvestigationRowsOK, InvestigationInv, RowsTyped, EvidenceTyped
<1> QED BY <1>1, InvestigationInvariant, PTL

\* No request and no client touches a run once another has been opened.
THEOREM OvertakenRunsGoOnStanding == InvestigationSpec => OvertakenRunsStand
<1>1. ASSUME InvestigationInv, [InvestigationNext]_investigationVars
      PROVE  \A r \in DOMAIN runs : r < Len(runs) => r \in DOMAIN runs' /\ runs'[r] = runs[r]
  BY <1>1, InvestigationInductive DEF Kept, RunsKept
<1> QED BY <1>1, InvestigationInvariant, PTL DEF InvestigationSpec, OvertakenRunsStand

\* The links, the correction and the defect name what bears them out, whatever
\* requests, clients and crashes came in between.
THEOREM TheChainIsEvidence == InvestigationSpec => []ChainIsEvidence
<1>1. InvestigationInv => ChainIsEvidence BY DEF InvestigationInv, Chain
<1> QED BY <1>1, InvestigationInvariant, PTL

\* The records never change, nor the verdicts and snapshots of the executions they name.
THEOREM TheChainIsPreserved == InvestigationSpec => ChainIsPreserved
<1>1. ASSUME InvestigationInv, [InvestigationNext]_investigationVars
      PROVE  LET cited == {defect} \cup {links[rel].new : rel \in DOMAIN links} IN
             /\ defect # NoExecution => defect' = defect
             /\ correction => correction'
             /\ \A rel \in DOMAIN links : rel \in DOMAIN links' /\ links'[rel] = links[rel]
             /\ \A e \in cited \cap DOMAIN executions :
                 /\ e \in DOMAIN executions'
                 /\ \A column \in {"test", "run", "source"} :
                        executions'[e][column] = executions[e][column]
                 /\ executions[e].status = "FINALISED" => executions'[e] = executions[e]
                 /\ \A c \in Labels \cup {"POST_TRIP"} : <<e, c>> \in DOMAIN evidence =>
                        /\ <<e, c>> \in DOMAIN evidence'
                        /\ evidence'[<<e, c>>] = evidence[<<e, c>>]
  <2>1. Kept BY <1>1, InvestigationInductive
  <2>2. \A e \in DOMAIN executions :
            /\ e \in DOMAIN executions'
            /\ \A column \in {"test", "run", "source"} :
                   executions'[e][column] = executions[e][column]
            /\ executions[e].status = "FINALISED" => executions'[e] = executions[e]
    BY <2>1 DEF Kept, TestsKept, ExecutionsKept
  <2>3. /\ defect # NoExecution => defect' = defect
        /\ correction => correction'
        /\ \A rel \in DOMAIN links : rel \in DOMAIN links' /\ links'[rel] = links[rel]
        /\ \A key \in DOMAIN evidence : key \in DOMAIN evidence' /\ evidence'[key] = evidence[key]
    BY <2>1 DEF Kept, RecordsKept, TestsKept, EvidenceKept
  <2> QED BY <2>2, <2>3
<1> QED BY <1>1, InvestigationInvariant, PTL DEF InvestigationSpec, ChainIsPreserved

=============================================================================
