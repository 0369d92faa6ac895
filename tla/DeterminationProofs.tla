------------------------- MODULE DeterminationProofs -------------------------
(***************************************************************************)
(* Proofs about Determination, beside the validation service: its rows are *)
(* well-formed and an attempt has one context, for any calls, abandoned or *)
(* crashed, that prepare it; comparison, determination and suspension      *)
(* decide an attempt once between them; a result rests on the findings and *)
(* on the frozen sources for good; it is final; and all calls together     *)
(* implement AtomicDeterminations.                                         *)
(*                                                                         *)
(* Each action is first reduced to what it does to one attempt; the        *)
(* invariants OutcomeInv and FindingsInv are proved from that. The         *)
(* refinement rests on them and on CoherentInv: what is frozen is what one *)
(* preparation was shown.                                                  *)
(***************************************************************************)
EXTENDS Determination, ValidationProofs

-----------------------------------------------------------------------------
(* The calls under way.                                                    *)

Preparing == {"STORE", "BIND", "FREEZE"}

HasSources(a) == \A r \in RoleSet(attempts[a].target) : <<a, r>> \in DOMAIN sources

IsBound(a) ==
    IF attempts[a].target \in Procedures THEN a \in DOMAIN procedures ELSE a \in DOMAIN executions

\* The roles a preparation has stored so far.
HasStored(a, next) ==
    \A i \in DOMAIN RolesOf[attempts[a].target] :
        i < next => <<a, RolesOf[attempts[a].target][i]>> \in DOMAIN sources

\* A call acts on rows that exist, and a preparation has stored what it has passed.
WorkNamesRows(t) ==
    LET call == work[t]
        a == call.attempt
    IN  /\ call.op \in Preparing => a \in DOMAIN attempts
        /\ call.op \in {"STORE", "BIND"} /\ attempts[a].target \notin Procedures =>
               call.execution \in DOMAIN executions
        /\ call.op = "STORE" =>
               /\ call = [op |-> "STORE", attempt |-> a, execution |-> call.execution,
                          shown |-> call.shown, next |-> call.next]
               /\ call.next \in Nat \ {0}
               /\ HasStored(a, call.next)
        /\ call.op \in {"BIND", "FREEZE"} => HasSources(a)
        /\ call.op = "FREEZE" => IsBound(a)
        /\ call.op \in {"EVALUATE", "DETERMINE"} => call.context \in DOMAIN contexts
        /\ call.op = "EVALUATE" =>
               call = [op |-> "EVALUATE", context |-> call.context, next |-> call.next,
                       existing |-> call.existing]

WorkOK ==
    /\ DOMAIN work = Threads
    /\ \A t \in Threads : WorkNamesRows(t)

RowsInv == TypeOK /\ DeterminationRowsOK /\ WorkOK

\* What never shrinks: rows stay, attempts keep their target and contexts their
\* attempt.
Grows ==
    /\ \A a \in DOMAIN attempts : a \in DOMAIN attempts' /\ attempts'[a].target = attempts[a].target
    /\ DOMAIN executions \subseteq DOMAIN executions'
    /\ DOMAIN procedures \subseteq DOMAIN procedures'
    /\ DOMAIN sources \subseteq DOMAIN sources'
    /\ \A k \in DOMAIN contexts : k \in DOMAIN contexts' /\ contexts'[k] = contexts[k]

LEMMA ValidationIsNext ==
    ASSUME ValidationStep
    PROVE  [Next]_vars
BY DEF ValidationStep, Next

\* Executions are only ever added.
LEMMA ExecutionsGrow ==
    ASSUME [Next]_vars
    PROVE  DOMAIN executions \subseteq DOMAIN executions'
<1>1. CASE UNCHANGED executions BY <1>1
<1>2. UNCHANGED tables => UNCHANGED executions BY DEF tables
<1>3. ASSUME NEW b \in Attempts, NEW target \in Targets,
             \/ PrepareAttempt(b, target)
             \/ \E t \in Threads, run \in Runs, source \in Attempts \cup {NoAttempt} :
                    StartSelects(t, b, target, run, source)
      PROVE  UNCHANGED executions
  BY <1>3 DEF PrepareAttempt, StartSelects
<1>4. ASSUME NEW b \in Attempts, NEW run \in Runs, EnterAttempt(b, run)
      PROVE  UNCHANGED executions
  BY <1>4 DEF EnterAttempt
<1>5. ASSUME NEW t \in Threads,
             StartFreezesBaseline(t) \/ CaptureInserts(t) \/ SuspendCommits(t)
      PROVE  UNCHANGED executions
  BY <1>5 DEF StartFreezesBaseline, CaptureInserts, SuspendCommits
<1>6. ASSUME NEW t \in Threads, StartBinds(t)
      PROVE  DOMAIN executions \subseteq DOMAIN executions'
  BY <1>6 DEF StartBinds, Insert
<1>7. ASSUME NEW t \in Threads, FinaliseCommits(t)
      PROVE  DOMAIN executions \subseteq DOMAIN executions'
  BY <1>7 DEF FinaliseCommits
<1> QED BY <1>1, <1>2, <1>3, <1>4, <1>5, <1>6, <1>7, StepCases

\* What BindsExecution does to the attempt of a procedure.
LEMMA BindsRows ==
    ASSUME TypeOK, WorkOK, NEW t \in Threads, BindsExecution(t)
    PROVE  LET a == work[t].attempt
               row == [attempts[a] EXCEPT !.status = "ACTIVE", !.run = NoRun, !.bound = TRUE]
           IN  /\ a \in DOMAIN attempts
               /\ row \in AttemptRows /\ row.target = attempts[a].target
               /\ \/ /\ attempts' = [attempts EXCEPT ![a] = row]
                     /\ procedures' = Insert(procedures, a, "ACTIVE")
                     /\ attempts[a].target \in Procedures
                     /\ Go(t, [op |-> "FREEZE", attempt |-> a])
                  \/ /\ UNCHANGED <<attempts, procedures>>
                     /\ Go(t, [op |-> "FREEZE", attempt |-> a])
                     /\ attempts[a].target \notin Procedures /\ work[t].execution = a
                  \/ UNCHANGED <<attempts, procedures>> /\ End(t)
<1> DEFINE a == work[t].attempt
           row == [attempts[a] EXCEPT !.status = "ACTIVE", !.run = NoRun, !.bound = TRUE]
<1>1. a \in DOMAIN attempts BY DEF BindsExecution, WorkOK, WorkNamesRows, Preparing
<1>2. attempts[a] \in AttemptRows BY <1>1 DEF TypeOK, RowsOK
<1>3. row \in AttemptRows /\ row.target = attempts[a].target
  <2>1. \A r \in AttemptRows :
            LET s == [r EXCEPT !.status = "ACTIVE", !.run = NoRun, !.bound = TRUE]
            IN  s \in AttemptRows /\ s.target = r.target
    BY DEF AttemptRows, OpenStatuses
  <2> HIDE DEF a
  <2> QED BY <1>2, <2>1
<1> QED BY <1>1, <1>3 DEF BindsExecution

\* The rows a result changes: those of one attempt and its execution.
LEMMA DetermineRows ==
    ASSUME RowsInv, NEW t \in Threads, DetermineCommits(t)
    PROVE  LET k == work[t].context
               a == contexts[k]
               row == [attempts[a] EXCEPT !.status = "EXECUTED"]
               execution == [executions[a] EXCEPT !.status = "FINALISED"]
           IN  /\ a \in DOMAIN attempts
               /\ row \in AttemptRows /\ row.target = attempts[a].target
               /\ \/ UNCHANGED <<determined, attempts, procedures, executions, results>>
                  \/ /\ attempts' = [attempts EXCEPT ![a] = row]
                     /\ DOMAIN determined' = DOMAIN determined \cup {a}
                     /\ a \in DOMAIN procedures
                     /\ procedures' = [procedures EXCEPT ![a] = "FINALISED"]
                     /\ UNCHANGED <<executions, results>>
                  \/ /\ attempts' = [attempts EXCEPT ![a] = row]
                     /\ DOMAIN determined' = DOMAIN determined \cup {a}
                     /\ a \in DOMAIN executions /\ execution \in ExecutionRows
                     /\ executions' = [executions EXCEPT ![a] = execution]
                     /\ DOMAIN results' = DOMAIN results \cup {a}
                     /\ UNCHANGED procedures
<1> DEFINE k == work[t].context
           a == contexts[k]
           row == [attempts[a] EXCEPT !.status = "EXECUTED"]
           execution == [executions[a] EXCEPT !.status = "FINALISED"]
<1>1. k \in DOMAIN contexts BY DEF DetermineCommits, RowsInv, WorkOK, WorkNamesRows
<1>2. a \in DOMAIN attempts /\ IsBound(a)
  BY <1>1 DEF RowsInv, DeterminationRowsOK, TargetOf, IsBound
<1>3. attempts[a] \in AttemptRows BY <1>2 DEF RowsInv, TypeOK, RowsOK
<1>4. row \in AttemptRows /\ row.target = attempts[a].target
  <2>1. \A r \in AttemptRows : LET s == [r EXCEPT !.status = "EXECUTED"]
                               IN  s \in AttemptRows /\ s.target = r.target
    BY DEF AttemptRows
  <2> HIDE DEF a
  <2> QED BY <1>3, <2>1
<1>5. a \in DOMAIN executions => execution \in ExecutionRows
  <2>1. \A r \in ExecutionRows : [r EXCEPT !.status = "FINALISED"] \in ExecutionRows
    BY DEF ExecutionRows
  <2> HIDE DEF a
  <2> QED BY <2>1 DEF RowsInv, TypeOK, RowsOK
<1>6. CASE UNCHANGED <<determined, attempts, procedures, executions, results>>
  BY <1>2, <1>4, <1>6
<1>7. ASSUME NEW result,
             determined' = Insert(determined, a, result),
             attempts' = [attempts EXCEPT ![a].status = "EXECUTED"],
             IF attempts[a].target \in Procedures
             THEN /\ procedures' = [procedures EXCEPT ![a] = "FINALISED"]
                  /\ UNCHANGED <<executions, results>>
             ELSE /\ executions' = [executions EXCEPT ![a].status = "FINALISED"]
                  /\ results' = Insert(results, a, result)
                  /\ UNCHANGED procedures
      PROVE  \/ /\ attempts' = [attempts EXCEPT ![a] = row]
                /\ DOMAIN determined' = DOMAIN determined \cup {a}
                /\ a \in DOMAIN procedures
                /\ procedures' = [procedures EXCEPT ![a] = "FINALISED"]
                /\ UNCHANGED <<executions, results>>
             \/ /\ attempts' = [attempts EXCEPT ![a] = row]
                /\ DOMAIN determined' = DOMAIN determined \cup {a}
                /\ a \in DOMAIN executions
                /\ executions' = [executions EXCEPT ![a] = execution]
                /\ DOMAIN results' = DOMAIN results \cup {a}
                /\ UNCHANGED procedures
  <2>1. DOMAIN determined' = DOMAIN determined \cup {a} BY <1>7 DEF Insert
  <2>2. attempts' = [attempts EXCEPT ![a] = row] BY <1>7
  <2>3. CASE attempts[a].target \in Procedures
    BY <1>2, <1>7, <2>1, <2>2, <2>3 DEF IsBound
  <2>4. CASE attempts[a].target \notin Procedures
    <3>1. DOMAIN results' = DOMAIN results \cup {a} BY <1>7, <2>4 DEF Insert
    <3>2. executions' = [executions EXCEPT ![a] = execution] BY <1>7, <2>4
    <3> QED BY <1>2, <1>7, <2>1, <2>2, <2>4, <3>1, <3>2 DEF IsBound
  <2> QED BY <2>3, <2>4
<1> HIDE DEF row, execution
<1> QED BY <1>2, <1>4, <1>5, <1>6, <1>7 DEF DetermineCommits, row, execution

LEMMA StepGrows ==
    ASSUME RowsInv, [DeterminationNext]_determinationVars
    PROVE  Grows
<1>1. UNCHANGED <<vars, records, procedures>> => Grows
  BY DEF vars, tables, records, Grows
<1>2. CASE UNCHANGED determinationVars BY <1>1, <1>2 DEF determinationVars
<1>3. CASE ValidationStep
  <2>1. [Next]_vars BY <1>3, ValidationIsNext
  <2>2. \A a \in DOMAIN attempts : a \in DOMAIN attempts' /\ attempts'[a].target = attempts[a].target
    BY <2>1, TargetsKept DEF RowsInv
  <2>3. DOMAIN executions \subseteq DOMAIN executions'
    BY <2>1, ExecutionsGrow DEF RowsInv
  <2> QED BY <1>3, <2>2, <2>3 DEF ValidationStep, records, Grows
<1>4. ASSUME NEW t \in Threads, BindsExecution(t) PROVE Grows
  <2> DEFINE a == work[t].attempt
             row == [attempts[a] EXCEPT !.status = "ACTIVE", !.run = NoRun, !.bound = TRUE]
  <2>1. UNCHANGED <<executions, records>> BY <1>4 DEF BindsExecution
  <2>2. /\ a \in DOMAIN attempts /\ row.target = attempts[a].target
        /\ attempts' = [attempts EXCEPT ![a] = row] \/ UNCHANGED attempts
        /\ procedures' = Insert(procedures, a, "ACTIVE") \/ UNCHANGED procedures
    BY <1>4, BindsRows DEF RowsInv
  <2> HIDE DEF a, row
  <2>3. DOMAIN procedures \subseteq DOMAIN procedures' BY <2>2 DEF Insert
  <2> QED BY <2>1, <2>2, <2>3 DEF Grows, records
<1>5. ASSUME NEW t \in Threads, DetermineCommits(t) PROVE Grows
  <2> DEFINE a == contexts[work[t].context]
             row == [attempts[a] EXCEPT !.status = "EXECUTED"]
             execution == [executions[a] EXCEPT !.status = "FINALISED"]
  <2>1. UNCHANGED records BY <1>5 DEF DetermineCommits
  <2>2. /\ a \in DOMAIN attempts /\ row.target = attempts[a].target
        /\ attempts' = [attempts EXCEPT ![a] = row] \/ UNCHANGED attempts
        /\ procedures' = [procedures EXCEPT ![a] = "FINALISED"] \/ UNCHANGED procedures
        /\ executions' = [executions EXCEPT ![a] = execution] \/ UNCHANGED executions
    BY <1>5, DetermineRows
  <2> HIDE DEF a, row, execution
  <2> QED BY <2>1, <2>2 DEF Grows, records
<1>6. ASSUME NEW table, NEW key, NEW row
      PROVE  DOMAIN table \subseteq DOMAIN Insert(table, key, row)
  BY DEF Insert
<1>7. ASSUME NEW t \in Threads, PrepareStores(t) PROVE Grows
  <2>1. UNCHANGED <<vars, contexts, procedures>> BY <1>7 DEF PrepareStores
  <2>2. UNCHANGED sources \/ \E key, row : sources' = Insert(sources, key, row)
    BY <1>7, Zenon DEF PrepareStores
  <2> QED BY <1>6, <2>1, <2>2 DEF Grows, vars, tables
<1>8. ASSUME NEW t \in Threads, NEW k \in Contexts, FreezeInserts(t, k) PROVE Grows
  <2>1. UNCHANGED <<vars, sources, procedures>> BY <1>8 DEF FreezeInserts
  <2>2. \A l \in DOMAIN contexts : l \in DOMAIN contexts' /\ contexts'[l] = contexts[l]
    BY <1>8 DEF FreezeInserts, Insert
  <2> QED BY <2>1, <2>2 DEF Grows, vars, tables
<1>9. ASSUME UNCHANGED <<vars, sources, contexts, procedures>> PROVE Grows
  BY <1>9 DEF Grows, vars, tables
<1>10. ASSUME NEW t \in Threads, NEW k \in Contexts,
              EvaluateReads(t, k) \/ DetermineReads(t, k)
       PROVE  UNCHANGED <<vars, sources, contexts, procedures>>
  BY <1>10 DEF EvaluateReads, DetermineReads, records
<1>11. ASSUME NEW t \in Threads, NEW a, NEW e, NEW shown, PrepareProduces(t, a, e, shown)
       PROVE  UNCHANGED <<vars, sources, contexts, procedures>>
  BY <1>11 DEF PrepareProduces, records
<1>12. ASSUME NEW k, NEW c, NEW actor, NEW judgement,
              ProposeReview(k, c, actor, judgement) \/ FinaliseReview(k, c, actor, judgement)
       PROVE  UNCHANGED <<vars, sources, contexts, procedures>>
  BY <1>12 DEF ProposeReview, FinaliseReview
<1>13. CASE DeterminationCrash
  <2>1. UNCHANGED <<tables, records, procedures>> BY <1>13 DEF DeterminationCrash
  <2> QED BY <2>1 DEF tables, records, Grows
<1>14. ASSUME NEW t \in Threads, EvaluateInserts(t)
       PROVE  UNCHANGED <<vars, sources, contexts, procedures>>
  BY <1>14 DEF EvaluateInserts
<1>15. ASSUME NEW t \in Threads, DeterminationStep(t) PROVE Grows
  BY <1>4, <1>5, <1>7, <1>8, <1>9, <1>10, <1>11, <1>14, <1>15 DEF DeterminationStep
<1> QED BY <1>2, <1>3, <1>9, <1>12, <1>13, <1>15 DEF DeterminationNext

-----------------------------------------------------------------------------
(* Type correctness.                                                       *)

\* A call that goes on as it was still names rows.
LEMMA WorkKept ==
    ASSUME TypeOK, Grows, NEW t \in Threads, WorkNamesRows(t), work'[t] = work[t]
    PROVE  WorkNamesRows(t)'
<1> DEFINE a == work[t].attempt
<1>1. a \in DOMAIN attempts => a \in DOMAIN attempts' /\ attempts'[a].target = attempts[a].target
  BY DEF Grows
<1>2. a \in DOMAIN attempts /\ HasSources(a) => HasSources(a)'
  BY <1>1 DEF Grows, HasSources
<1>3. a \in DOMAIN attempts /\ HasStored(a, work[t].next) => HasStored(a, work[t].next)'
  BY <1>1 DEF Grows, HasStored
<1>4. a \in DOMAIN attempts /\ IsBound(a) => IsBound(a)'
  BY <1>1 DEF Grows, IsBound
<1> QED BY <1>1, <1>2, <1>3, <1>4 DEF Grows, WorkNamesRows, Preparing

\* One thread's call changes, and names rows.
LEMMA WorkOKKept ==
    ASSUME RowsInv, Grows, NEW t \in Threads, NEW call, Go(t, call),
           work'[t] = call => WorkNamesRows(t)'
    PROVE  WorkOK'
<1>1. DOMAIN work' = Threads /\ work'[t] = call
      /\ \A u \in Threads : u # t => work'[u] = work[u]
  BY DEF Go, RowsInv, WorkOK
<1>2. ASSUME NEW u \in Threads, u # t PROVE WorkNamesRows(u)'
  BY <1>1, <1>2, WorkKept DEF RowsInv, WorkOK
<1> QED BY <1>1, <1>2 DEF WorkOK

LEMMA EndOKKept ==
    ASSUME RowsInv, Grows, NEW t \in Threads, End(t)
    PROVE  WorkOK'
<1>1. Idle.op = "IDLE" BY DEF Idle
<1>2. work'[t] = Idle => WorkNamesRows(t)' BY <1>1 DEF WorkNamesRows, Preparing
<1> QED BY <1>2, WorkOKKept DEF End

\* The rows of determinations stay well-formed when none is added to them.
LEMMA RowsKept ==
    ASSUME RowsInv, Grows, UNCHANGED contexts,
           DOMAIN procedures' \subseteq DOMAIN procedures \cup DOMAIN attempts,
           DOMAIN findings' \subseteq DOMAIN findings \cup ((DOMAIN contexts) \X STRING),
           DOMAIN determined' \subseteq DOMAIN determined \cup DOMAIN attempts
    PROVE  DeterminationRowsOK'
<1>1. ASSUME NEW k \in DOMAIN contexts
      PROVE  LET a == contexts[k] IN
             /\ a \in DOMAIN attempts'
             /\ \A r \in RoleSet(attempts'[a].target) : <<a, r>> \in DOMAIN sources'
             /\ IF attempts'[a].target \in Procedures
                THEN a \in DOMAIN procedures' ELSE a \in DOMAIN executions'
  <2>1. contexts[k] \in DOMAIN attempts /\ TargetOf(k) = attempts[contexts[k]].target
    BY DEF RowsInv, DeterminationRowsOK, TargetOf
  <2>2. contexts[k] \in DOMAIN attempts'
        /\ attempts'[contexts[k]].target = attempts[contexts[k]].target
    BY <2>1 DEF Grows
  <2> QED BY <2>1, <2>2 DEF Grows, RowsInv, DeterminationRowsOK
<1>2. DOMAIN attempts \subseteq DOMAIN attempts' BY DEF Grows
<1> QED BY <1>1, <1>2 DEF RowsInv, DeterminationRowsOK, TargetOf

LEMMA TypeKept ==
    ASSUME TypeOK, UNCHANGED vars
    PROVE  TypeOK'
BY NextTyped

LEMMA PrepareProducesOK ==
    ASSUME RowsInv, Grows, NEW t \in Threads, NEW a \in DOMAIN attempts, NEW e, NEW shown,
           PrepareProduces(t, a, e, shown)
    PROVE  RowsInv'
<1> DEFINE call == [op |-> "STORE", attempt |-> a, execution |-> e, shown |-> shown, next |-> 1]
<1>1. UNCHANGED <<vars, records, procedures, determined>> /\ Go(t, call)
  BY DEF PrepareProduces
<1>2. TypeOK' BY <1>1, TypeKept DEF RowsInv
<1>3. DeterminationRowsOK' BY <1>1, RowsKept DEF records
<1>4. work'[t] = call => WorkNamesRows(t)'
  <2> SUFFICES ASSUME work'[t] = call PROVE WorkNamesRows(t)' OBVIOUS
  <2>1. work'[t].op = "STORE" /\ work'[t].attempt = a /\ work'[t].execution = e
        /\ work'[t].next = 1
    OBVIOUS
  <2>2. UNCHANGED <<attempts, executions>> BY <1>1 DEF vars, tables
  <2>3. attempts[a].target \notin Procedures => e \in DOMAIN executions BY DEF PrepareProduces
  <2>4. RolesOf[attempts[a].target] \in Seq(STRING)
    <3>1. attempts[a].target \in Targets BY DEF RowsInv, TypeOK, RowsOK, AttemptRows
    <3> QED BY <3>1, DeterminationAssumption
  <2>5. HasStored(a, 1)' BY <2>2, <2>4 DEF HasStored
  <2> QED BY <2>1, <2>2, <2>3, <2>5 DEF WorkNamesRows, Preparing
<1> HIDE DEF call
<1>5. WorkOK' BY <1>1, <1>4, WorkOKKept
<1> QED BY <1>2, <1>3, <1>5 DEF RowsInv

\* The roles of an attempt that a preparation acts on.
LEMMA PreparedRoles ==
    ASSUME RowsInv, NEW t \in Threads, work[t].op \in Preparing
    PROVE  LET a == work[t].attempt IN
           /\ a \in DOMAIN attempts
           /\ RolesOf[attempts[a].target] \in Seq(STRING)
           /\ RolesOf[attempts[a].target] # << >>
<1>1. work[t].attempt \in DOMAIN attempts BY DEF RowsInv, WorkOK, WorkNamesRows
<1>2. attempts[work[t].attempt].target \in Targets
  BY <1>1 DEF RowsInv, TypeOK, RowsOK, AttemptRows
<1> QED BY <1>1, <1>2, DeterminationAssumption

LEMMA PrepareStoresOK ==
    ASSUME RowsInv, Grows, NEW t \in Threads, PrepareStores(t)
    PROVE  RowsInv'
<1> DEFINE call == work[t]
           a == call.attempt
           target == attempts[a].target
           role == RolesOf[target][call.next]
           next == [call EXCEPT !.next = @ + 1]
           bind == [op |-> "BIND", attempt |-> a, execution |-> call.execution]
<1>1. call.op = "STORE" /\ UNCHANGED <<vars, contexts, findings, procedures, determined>>
  BY DEF PrepareStores
<1>2. TypeOK' BY <1>1, TypeKept DEF RowsInv
<1>3. DeterminationRowsOK' BY <1>1, RowsKept
<1>4. /\ a \in DOMAIN attempts /\ RolesOf[target] \in Seq(STRING)
      /\ target \notin Procedures => call.execution \in DOMAIN executions
      /\ call.next \in Nat \ {0} /\ HasStored(a, call.next)
      /\ call = [op |-> "STORE", attempt |-> a, execution |-> call.execution,
                 shown |-> call.shown, next |-> call.next]
  BY <1>1, PreparedRoles DEF RowsInv, WorkOK, WorkNamesRows, Preparing
<1>5. UNCHANGED <<attempts, executions>> BY <1>1 DEF vars, tables
<1>6. ASSUME Go(t, next), RoleIsLeft(target, call.next),
             sources' = Insert(sources, <<a, role>>, call.shown[role])
      PROVE  WorkOK'
  <2>1. work'[t] = next => WorkNamesRows(t)'
    <3> SUFFICES ASSUME work'[t] = next PROVE WorkNamesRows(t)' OBVIOUS
    <3>1. /\ work'[t] = [op |-> "STORE", attempt |-> a, execution |-> call.execution,
                         shown |-> call.shown, next |-> call.next + 1]
          /\ work'[t].op = "STORE" /\ work'[t].attempt = a
          /\ work'[t].execution = call.execution /\ work'[t].shown = call.shown
          /\ work'[t].next = call.next + 1
      BY <1>4
    <3>2. DOMAIN sources' = DOMAIN sources \cup {<<a, role>>} BY <1>6 DEF Insert
    <3>3. \A i \in DOMAIN RolesOf[target] :
              i < call.next + 1 => <<a, RolesOf[target][i]>> \in DOMAIN sources'
      <4> SUFFICES ASSUME NEW i \in DOMAIN RolesOf[target], i < call.next + 1
                   PROVE  <<a, RolesOf[target][i]>> \in DOMAIN sources'
        OBVIOUS
      <4>1. i \in Nat BY <1>4
      <4>2. i < call.next \/ i = call.next BY <1>4, <4>1
      <4>3. CASE i < call.next BY <1>4, <3>2, <4>3 DEF HasStored
      <4>4. CASE i = call.next BY <3>2, <4>4
      <4> QED BY <4>2, <4>3, <4>4
    <3> HIDE DEF a
    <3>4. HasStored(work[t].attempt, work[t].next)' BY <1>5, <3>1, <3>3 DEF HasStored
    <3> QED BY <1>4, <1>5, <3>1, <3>4 DEF WorkNamesRows, Preparing, a
  <2> HIDE DEF next
  <2> QED BY <1>6, <2>1, WorkOKKept
<1>7. ASSUME Go(t, bind), ~RoleIsLeft(target, call.next), UNCHANGED sources
      PROVE  WorkOK'
  <2>1. work'[t] = bind => WorkNamesRows(t)'
    <3> SUFFICES ASSUME work'[t] = bind PROVE WorkNamesRows(t)' OBVIOUS
    <3>1. work'[t].op = "BIND" /\ work'[t].attempt = a /\ work'[t].execution = call.execution
      OBVIOUS
    <3>2. \A i \in DOMAIN RolesOf[target] : i < call.next
      BY <1>4, <1>7 DEF RoleIsLeft
    <3>3. \A r \in RoleSet(target) : <<a, r>> \in DOMAIN sources
      BY <1>4, <3>2 DEF HasStored, RoleSet, Elements
    <3>4. HasSources(work[t].attempt)' BY <1>5, <1>7, <3>1, <3>3 DEF HasSources
    <3> QED BY <1>4, <1>5, <3>1, <3>4 DEF WorkNamesRows, Preparing
  <2> HIDE DEF bind
  <2> QED BY <1>7, <2>1, WorkOKKept
<1>8. ASSUME End(t) PROVE WorkOK' BY <1>8, EndOKKept
<1>9. WorkOK'
  <2> HIDE DEF next, bind, role
  <2> QED BY <1>6, <1>7, <1>8 DEF PrepareStores, next, bind, role
<1> QED BY <1>2, <1>3, <1>9 DEF RowsInv

LEMMA BindsExecutionOK ==
    ASSUME RowsInv, Grows, NEW t \in Threads, BindsExecution(t)
    PROVE  RowsInv'
<1> DEFINE a == work[t].attempt
           row == [attempts[a] EXCEPT !.status = "ACTIVE", !.run = NoRun, !.bound = TRUE]
           freeze == [op |-> "FREEZE", attempt |-> a]
<1>1. work[t].op = "BIND"
      /\ UNCHANGED <<executions, evidence, results, suspensions, baselines, calls,
                     records, determined>>
  BY DEF BindsExecution
<1>2. /\ a \in DOMAIN attempts
      /\ row \in AttemptRows /\ row.target = attempts[a].target
      /\ \/ /\ attempts' = [attempts EXCEPT ![a] = row]
            /\ procedures' = Insert(procedures, a, "ACTIVE")
            /\ attempts[a].target \in Procedures
            /\ Go(t, freeze)
         \/ /\ UNCHANGED <<attempts, procedures>>
            /\ Go(t, freeze)
            /\ attempts[a].target \notin Procedures /\ work[t].execution = a
         \/ UNCHANGED <<attempts, procedures>> /\ End(t)
  BY BindsRows DEF RowsInv
<1>3. WorkNamesRows(t) BY DEF RowsInv, WorkOK
<1>4. HasSources(a) /\ (attempts[a].target \notin Procedures => work[t].execution \in DOMAIN executions)
  BY <1>1, <1>3 DEF WorkNamesRows
<1>5. DOMAIN procedures' \subseteq DOMAIN procedures \cup DOMAIN attempts
  <2> HIDE DEF a, row, freeze
  <2> QED BY <1>2 DEF Insert
<1>6. DeterminationRowsOK' BY <1>1, <1>5, RowsKept DEF records
<1>7. TypeOK'
  <2>1. UNCHANGED attempts \/ attempts' = [attempts EXCEPT ![a] = row] BY <1>2
  <2> HIDE DEF a, row, freeze
  <2>2. RowsOK'
    <3>1. CASE UNCHANGED attempts BY <1>1, <3>1 DEF RowsInv, TypeOK, RowsOK
    <3>2. CASE attempts' = [attempts EXCEPT ![a] = row]
      BY <1>1, <1>2, <3>2, RewriteTyped DEF RowsInv, TypeOK
    <3> QED BY <2>1, <3>1, <3>2
  <2>3. DOMAIN attempts' = DOMAIN attempts BY <1>2, <2>1
  <2>4. CallsOK' BY <1>1, <2>3 DEF RowsInv, TypeOK, CallsOK, CallNamesRows
  <2> QED BY <2>2, <2>4 DEF TypeOK
<1>8. WorkOK'
  <2>1. CASE End(t) BY <2>1, EndOKKept
  <2>2. ASSUME Go(t, freeze),
               IF attempts[a].target \in Procedures
               THEN a \in DOMAIN procedures' ELSE a \in DOMAIN executions'
        PROVE  WorkOK'
    <3>1. work'[t] = freeze => WorkNamesRows(t)'
      <4> SUFFICES ASSUME work'[t] = freeze PROVE WorkNamesRows(t)' OBVIOUS
      <4>1. work'[t].op = "FREEZE" /\ work'[t].attempt = a OBVIOUS
      <4>2. a \in DOMAIN attempts' /\ attempts'[a].target = attempts[a].target
        BY <1>2 DEF Grows
      <4> HIDE DEF a, freeze
      <4>3. HasSources(work[t].attempt)'
        BY <1>1, <1>4, <4>1, <4>2 DEF HasSources, records
      <4>4. IsBound(work[t].attempt)' BY <2>2, <4>1, <4>2 DEF IsBound
      <4> QED BY <4>1, <4>2, <4>3, <4>4 DEF WorkNamesRows, Preparing
    <3> HIDE DEF freeze
    <3> QED BY <2>2, <3>1, WorkOKKept
  <2>3. attempts[a].target \in Procedures /\ procedures' = Insert(procedures, a, "ACTIVE")
        => a \in DOMAIN procedures'
    BY DEF Insert
  <2> HIDE DEF a, row, freeze
  <2> QED BY <1>1, <1>2, <1>4, <2>1, <2>2, <2>3
<1> QED BY <1>6, <1>7, <1>8 DEF RowsInv

LEMMA FreezeInsertsOK ==
    ASSUME RowsInv, Grows, NEW t \in Threads, NEW k \in Contexts, FreezeInserts(t, k)
    PROVE  RowsInv'
<1> DEFINE a == work[t].attempt
<1>1. work[t].op = "FREEZE" /\ k \notin DOMAIN contexts /\ End(t)
      /\ contexts' = Insert(contexts, k, a)
      /\ UNCHANGED <<vars, sources, findings, proposals, finalisations, procedures, determined>>
  BY DEF FreezeInserts
<1>2. TypeOK' BY <1>1, TypeKept DEF RowsInv
<1>3. WorkOK' BY <1>1, EndOKKept
<1>4. a \in DOMAIN attempts /\ HasSources(a) /\ IsBound(a)
  BY <1>1 DEF RowsInv, WorkOK, WorkNamesRows, Preparing
<1>5. DOMAIN contexts' = DOMAIN contexts \cup {k} /\ contexts'[k] = a
      /\ \A l \in DOMAIN contexts : contexts'[l] = contexts[l]
  BY <1>1 DEF Insert
<1>6. UNCHANGED <<attempts, executions>> BY <1>1 DEF vars, tables
<1> HIDE DEF a
<1>7. DeterminationRowsOK'
  <2>1. ASSUME NEW l \in DOMAIN contexts'
        PROVE  LET b == contexts'[l] IN
               /\ b \in DOMAIN attempts
               /\ \A r \in RoleSet(attempts[b].target) : <<b, r>> \in DOMAIN sources
               /\ IF attempts[b].target \in Procedures
                  THEN b \in DOMAIN procedures ELSE b \in DOMAIN executions
    <3>1. CASE l = k BY <1>4, <1>5, <3>1 DEF HasSources, IsBound
    <3>2. CASE l \in DOMAIN contexts
      BY <1>5, <3>2 DEF RowsInv, DeterminationRowsOK, TargetOf
    <3> QED BY <1>5, <3>1, <3>2
  <2> QED BY <1>1, <1>5, <1>6, <2>1 DEF RowsInv, DeterminationRowsOK, TargetOf
<1> QED BY <1>2, <1>3, <1>7 DEF RowsInv

\* The calls that read a context name it.
LEMMA ReadsOK ==
    ASSUME RowsInv, Grows, NEW t \in Threads, NEW k \in Contexts,
           EvaluateReads(t, k) \/ DetermineReads(t, k)
    PROVE  RowsInv'
<1>1. UNCHANGED <<vars, records, procedures, determined>> /\ k \in DOMAIN contexts
  BY DEF EvaluateReads, DetermineReads
<1>2. TypeOK' BY <1>1, TypeKept DEF RowsInv
<1>3. DeterminationRowsOK' BY <1>1, RowsKept DEF records
<1>4. PICK call :
          /\ Go(t, call) /\ call.op \in {"EVALUATE", "DETERMINE"} /\ call.context = k
          /\ call.op = "EVALUATE" =>
                 call = [op |-> "EVALUATE", context |-> k, next |-> call.next,
                         existing |-> call.existing]
  <2>1. CASE EvaluateReads(t, k)
    <3> DEFINE found == [op |-> "EVALUATE", context |-> k, next |-> 1,
                         existing |-> {c \in MachineSet(TargetOf(k)) : <<k, c>> \in DOMAIN findings}]
    <3>1. Go(t, found) BY <2>1 DEF EvaluateReads
    <3>2. found.op = "EVALUATE" /\ found.context = k
          /\ found = [op |-> "EVALUATE", context |-> k, next |-> found.next,
                      existing |-> found.existing]
      OBVIOUS
    <3> HIDE DEF found
    <3> QED BY <3>1, <3>2
  <2>2. CASE DetermineReads(t, k)
    BY <2>2 DEF DetermineReads
  <2> QED BY <2>1, <2>2
<1>5. work'[t] = call => WorkNamesRows(t)'
  BY <1>1, <1>4 DEF WorkNamesRows, Preparing, records
<1>6. WorkOK' BY <1>4, <1>5, WorkOKKept
<1> QED BY <1>2, <1>3, <1>6 DEF RowsInv

\* The target of a context, and with it its criteria.
LEMMA ContextTarget ==
    ASSUME RowsInv, NEW k \in DOMAIN contexts
    PROVE  /\ TargetOf(k) \in Targets
           /\ MachineCriteria[TargetOf(k)] \in Seq(STRING)
           /\ ReviewCriteria[TargetOf(k)] \subseteq STRING
<1>1. contexts[k] \in DOMAIN attempts BY DEF RowsInv, DeterminationRowsOK
<1>2. TargetOf(k) \in Targets
  BY <1>1 DEF RowsInv, TypeOK, RowsOK, AttemptRows, TargetOf
<1> QED BY <1>2, DeterminationAssumption

LEMMA EvaluateInsertsOK ==
    ASSUME RowsInv, Grows, NEW t \in Threads, EvaluateInserts(t)
    PROVE  RowsInv'
<1> DEFINE call == work[t]
           k == call.context
           c == MachineCriteria[TargetOf(k)][call.next]
           next == [call EXCEPT !.next = @ + 1]
<1>1. call.op = "EVALUATE"
      /\ UNCHANGED <<vars, sources, contexts, proposals, finalisations, procedures, determined>>
  BY DEF EvaluateInserts
<1>2. TypeOK' BY <1>1, TypeKept DEF RowsInv
<1>3. k \in DOMAIN contexts
      /\ call = [op |-> "EVALUATE", context |-> k, next |-> call.next, existing |-> call.existing]
  BY <1>1 DEF RowsInv, WorkOK, WorkNamesRows
<1>4. call.next \in DOMAIN MachineCriteria[TargetOf(k)] => c \in STRING
  BY <1>3, ContextTarget
<1>5. \/ UNCHANGED findings
      \/ /\ call.next \in DOMAIN MachineCriteria[TargetOf(k)]
         /\ \E finding : findings' = Insert(findings, <<k, c>>, finding)
  <2>1. CASE call.next \notin DOMAIN MachineCriteria[TargetOf(k)] \/ c \in call.existing
    BY <2>1 DEF EvaluateInserts
  <2>2. CASE call.next \in DOMAIN MachineCriteria[TargetOf(k)] /\ c \notin call.existing
    <3>1. UNCHANGED findings \/ findings' = Insert(findings, <<k, c>>, Judge(k, c))
      BY <2>2 DEF EvaluateInserts
    <3> QED BY <2>2, <3>1
  <2> QED BY <2>1, <2>2
<1>6. DOMAIN findings' \subseteq DOMAIN findings \cup ((DOMAIN contexts) \X STRING)
  <2> HIDE DEF k, c, call
  <2> QED BY <1>3, <1>4, <1>5 DEF Insert
<1>7. DeterminationRowsOK' BY <1>1, <1>6, RowsKept
<1>8. Go(t, next) \/ End(t) BY DEF EvaluateInserts
<1>9. CASE Go(t, next)
  <2>1. next = [op |-> "EVALUATE", context |-> k, next |-> call.next + 1,
                existing |-> call.existing]
    BY <1>3
  <2>2. work'[t] = next => WorkNamesRows(t)'
    BY <1>1, <1>3, <2>1 DEF WorkNamesRows, Preparing
  <2> HIDE DEF next
  <2>3. WorkOK' BY <1>9, <2>2, WorkOKKept
  <2> QED BY <1>2, <1>7, <2>3 DEF RowsInv
<1>10. CASE End(t) BY <1>2, <1>7, <1>10, EndOKKept DEF RowsInv
<1> QED BY <1>8, <1>9, <1>10

LEMMA ReviewOK ==
    ASSUME RowsInv, Grows, NEW k \in DOMAIN contexts, NEW c \in ReviewCriteria[TargetOf(k)],
           NEW actor, NEW judgement,
           ProposeReview(k, c, actor, judgement) \/ FinaliseReview(k, c, actor, judgement)
    PROVE  RowsInv'
<1>1. UNCHANGED <<vars, sources, contexts, procedures, determined, work>>
  BY DEF ProposeReview, FinaliseReview
<1>2. TypeOK' BY <1>1, TypeKept DEF RowsInv
<1>3. c \in STRING BY ContextTarget
<1>4. UNCHANGED findings \/ findings' = Insert(findings, <<k, c>>, judgement)
  BY DEF ProposeReview, FinaliseReview
<1>5. DOMAIN findings' \subseteq DOMAIN findings \cup ((DOMAIN contexts) \X STRING)
  BY <1>3, <1>4 DEF Insert
<1>6. DeterminationRowsOK' BY <1>1, <1>5, RowsKept
<1>7. WorkOK' BY <1>1, WorkKept DEF RowsInv, WorkOK
<1> QED BY <1>2, <1>6, <1>7 DEF RowsInv

LEMMA DetermineCommitsOK ==
    ASSUME RowsInv, Grows, NEW t \in Threads, DetermineCommits(t)
    PROVE  RowsInv'
<1> DEFINE a == contexts[work[t].context]
           row == [attempts[a] EXCEPT !.status = "EXECUTED"]
           execution == [executions[a] EXCEPT !.status = "FINALISED"]
<1>1. End(t) /\ UNCHANGED <<evidence, suspensions, baselines, calls, records>>
  BY DEF DetermineCommits
<1>2. /\ a \in DOMAIN attempts
      /\ row \in AttemptRows /\ row.target = attempts[a].target
      /\ \/ UNCHANGED <<determined, attempts, procedures, executions, results>>
         \/ /\ attempts' = [attempts EXCEPT ![a] = row]
            /\ DOMAIN determined' = DOMAIN determined \cup {a}
            /\ a \in DOMAIN procedures
            /\ procedures' = [procedures EXCEPT ![a] = "FINALISED"]
            /\ UNCHANGED <<executions, results>>
         \/ /\ attempts' = [attempts EXCEPT ![a] = row]
            /\ DOMAIN determined' = DOMAIN determined \cup {a}
            /\ a \in DOMAIN executions /\ execution \in ExecutionRows
            /\ executions' = [executions EXCEPT ![a] = execution]
            /\ DOMAIN results' = DOMAIN results \cup {a}
            /\ UNCHANGED procedures
  BY DetermineRows
<1>3. WorkOK' BY <1>1, EndOKKept
<1> HIDE DEF a, row, execution
<1>4. DeterminationRowsOK'
  <2>1. DOMAIN procedures' = DOMAIN procedures /\ UNCHANGED <<findings, contexts>>
    BY <1>1, <1>2 DEF records
  <2>2. DOMAIN determined' \subseteq DOMAIN determined \cup DOMAIN attempts BY <1>2
  <2> QED BY <2>1, <2>2, RowsKept
<1>5. RowsOK'
  <2>1. CASE UNCHANGED <<attempts, executions, results>>
    BY <1>1, <2>1 DEF RowsInv, TypeOK, RowsOK
  <2>2. CASE attempts' = [attempts EXCEPT ![a] = row] /\ UNCHANGED <<executions, results>>
    BY <1>1, <1>2, <2>2, RewriteTyped DEF RowsInv, TypeOK
  <2>3. CASE /\ attempts' = [attempts EXCEPT ![a] = row]
             /\ a \in DOMAIN executions /\ execution \in ExecutionRows
             /\ executions' = [executions EXCEPT ![a] = execution]
             /\ DOMAIN results' = DOMAIN results \cup {a}
    <3>1. DOMAIN attempts' = DOMAIN attempts
          /\ \A b \in DOMAIN attempts' : attempts'[b] \in AttemptRows
      BY <1>2, <2>3 DEF RowsInv, TypeOK, RowsOK
    <3>2. DOMAIN executions' = DOMAIN executions
          /\ \A b \in DOMAIN executions' : executions'[b] \in ExecutionRows
      BY <2>3 DEF RowsInv, TypeOK, RowsOK
    <3> QED BY <1>1, <2>3, <3>1, <3>2 DEF RowsInv, TypeOK, RowsOK
  <2> QED BY <1>2, <2>1, <2>2, <2>3
<1>6. DOMAIN attempts' = DOMAIN attempts /\ DOMAIN executions' = DOMAIN executions
  BY <1>2
<1>7. CallsOK' BY <1>1, <1>6 DEF RowsInv, TypeOK, CallsOK, CallNamesRows
<1> QED BY <1>3, <1>4, <1>5, <1>7 DEF RowsInv, TypeOK

LEMMA DeterminationCrashOK ==
    ASSUME RowsInv, Grows, DeterminationCrash
    PROVE  RowsInv'
<1>1. /\ calls' = [t \in Threads |-> Idle] /\ work' = [t \in Threads |-> Idle]
      /\ UNCHANGED <<tables, records, procedures, determined>>
  BY DEF DeterminationCrash
<1>2. RowsOK' BY <1>1 DEF RowsInv, TypeOK, RowsOK, tables
<1>3. Idle \in Calls /\ Idle.op = "IDLE" BY DEF Calls, Idle
<1>4. CallsOK' BY <1>1, <1>3 DEF CallsOK, CallNamesRows
<1>5. WorkOK' BY <1>1, <1>3 DEF WorkOK, WorkNamesRows, Preparing
<1>6. DeterminationRowsOK' BY <1>1, RowsKept DEF records
<1> QED BY <1>2, <1>4, <1>5, <1>6 DEF RowsInv, TypeOK

LEMMA ValidationStepOK ==
    ASSUME RowsInv, Grows, ValidationStep
    PROVE  RowsInv'
<1>1. TypeOK' BY ValidationIsNext, NextTyped DEF RowsInv
<1>2. UNCHANGED <<records, procedures, determined, work>> BY DEF ValidationStep
<1>3. DeterminationRowsOK' BY <1>2, RowsKept DEF records
<1>4. WorkOK' BY <1>2, WorkKept DEF RowsInv, WorkOK
<1> QED BY <1>1, <1>3, <1>4 DEF RowsInv

LEMMA RowsInvKept ==
    ASSUME RowsInv, [DeterminationNext]_determinationVars
    PROVE  RowsInv'
<1>1. Grows BY StepGrows
<1>2. CASE UNCHANGED determinationVars
  <2>1. UNCHANGED <<vars, records, procedures, determined, work>>
    BY <1>2 DEF determinationVars
  <2>2. TypeOK' BY <2>1, TypeKept DEF RowsInv
  <2>3. DeterminationRowsOK' BY <1>1, <2>1, RowsKept DEF records
  <2>4. WorkOK' BY <1>1, <2>1, WorkKept DEF RowsInv, WorkOK
  <2> QED BY <2>2, <2>3, <2>4 DEF RowsInv
<1>3. ASSUME NEW t \in Threads, DeterminationStep(t) PROVE RowsInv'
  BY <1>1, <1>3, PrepareProducesOK, PrepareStoresOK, BindsExecutionOK, FreezeInsertsOK, ReadsOK,
     EvaluateInsertsOK, DetermineCommitsOK DEF DeterminationStep
<1> QED BY <1>1, <1>2, <1>3, ValidationStepOK, ReviewOK, DeterminationCrashOK
        DEF DeterminationNext

LEMMA RowsInvInit == DeterminationInit => RowsInv
<1> SUFFICES ASSUME DeterminationInit PROVE RowsInv OBVIOUS
<1>1. DOMAIN << >> = {} /\ Idle.op = "IDLE" BY DEF Idle
<1>2. TypeOK BY InitTyped DEF DeterminationInit
<1>3. DeterminationRowsOK BY <1>1 DEF DeterminationInit, DeterminationRowsOK
<1>4. WorkOK BY <1>1 DEF DeterminationInit, WorkOK, WorkNamesRows, Preparing
<1> QED BY <1>2, <1>3, <1>4 DEF RowsInv

\* The rows of determinations name rows that exist, and a frozen context has the
\* sources of all its roles and an execution.
THEOREM DeterminationRowsAreWellFormed == DeterminationSpec => []DeterminationRowsOK
<1>1. RowsInv => DeterminationRowsOK BY DEF RowsInv
<1> QED BY <1>1, RowsInvInit, RowsInvKept, PTL DEF DeterminationSpec

-----------------------------------------------------------------------------
(* One context per attempt.                                                *)

\* A preparation that has stored the first role of the attempt.
Holds(t, a) ==
    /\ work[t].op \in Preparing
    /\ work[t].attempt = a
    /\ work[t].op = "STORE" => work[t].next # 1

\* The first role is the lock: at most one preparation holds it at a time, none
\* once there is a context.
HolderInv ==
    /\ \A a \in Attempts : \A t, u \in Threads : Holds(t, a) /\ Holds(u, a) => t = u
    /\ \A k \in DOMAIN contexts : \A t \in Threads : ~Holds(t, contexts[k])
    /\ OneContextPerAttempt

FirstRole(a) == RolesOf[attempts[a].target][1]

\* Who holds the attempt, and what has a context, has its first role stored.
LEMMA FirstRoleIsStored ==
    ASSUME RowsInv, NEW a \in DOMAIN attempts
    PROVE  /\ 1 \in DOMAIN RolesOf[attempts[a].target]
           /\ \A t \in Threads : Holds(t, a) => <<a, FirstRole(a)>> \in DOMAIN sources
           /\ \A k \in DOMAIN contexts : contexts[k] = a => <<a, FirstRole(a)>> \in DOMAIN sources
<1>1. RolesOf[attempts[a].target] \in Seq(STRING) \ {<< >>}
  <2>1. attempts[a].target \in Targets BY DEF RowsInv, TypeOK, RowsOK, AttemptRows
  <2> QED BY <2>1, DeterminationAssumption
<1>2. 1 \in DOMAIN RolesOf[attempts[a].target] BY <1>1
<1>3. HasSources(a) => <<a, FirstRole(a)>> \in DOMAIN sources
  BY <1>2 DEF HasSources, FirstRole, RoleSet, Elements
<1>4. ASSUME NEW t \in Threads, Holds(t, a) PROVE <<a, FirstRole(a)>> \in DOMAIN sources
  <2>1. WorkNamesRows(t) BY DEF RowsInv, WorkOK
  <2>2. CASE work[t].op = "STORE"
    <3>1. work[t].next \in Nat \ {0} /\ work[t].next # 1 /\ HasStored(a, work[t].next)
      BY <1>4, <2>1, <2>2 DEF WorkNamesRows, Holds
    <3> QED BY <1>2, <3>1 DEF HasStored, FirstRole
  <2>3. CASE work[t].op \in {"BIND", "FREEZE"}
    BY <1>3, <1>4, <2>1, <2>3 DEF WorkNamesRows, Holds
  <2> QED BY <1>4, <2>2, <2>3 DEF Holds, Preparing
<1>5. ASSUME NEW k \in DOMAIN contexts, contexts[k] = a PROVE HasSources(a)
  BY <1>5 DEF RowsInv, DeterminationRowsOK, TargetOf, HasSources
<1> QED BY <1>2, <1>3, <1>4, <1>5

\* Whoever holds the attempt held it before, or has just stored its first role.
Takes(t, a) ==
    \/ Holds(t, a)
    \/ a \in DOMAIN attempts /\ <<a, FirstRole(a)>> \notin DOMAIN sources

LEMMA HolderKept ==
    ASSUME RowsInv, HolderInv, UNCHANGED contexts, NEW t \in Threads,
           \A u \in Threads : u # t => work'[u] = work[u],
           \A a \in Attempts : Holds(t, a)' => Takes(t, a)
    PROVE  HolderInv'
<1>1. OneContextPerAttempt' BY DEF HolderInv, OneContextPerAttempt
<1>2. ASSUME NEW u \in Threads, NEW a \in Attempts, Holds(u, a)'
      PROVE  /\ Holds(u, a) \/ u = t
             /\ a \in DOMAIN attempts
             /\ Holds(u, a) \/ <<a, FirstRole(a)>> \notin DOMAIN sources
  <2>1. Takes(u, a) /\ (Holds(u, a) \/ u = t)
    <3>1. CASE u = t BY <1>2, <3>1
    <3>2. CASE u # t
      <4>1. work'[u] = work[u] BY <3>2
      <4> QED BY <1>2, <4>1 DEF Holds, Takes
    <3> QED BY <3>1, <3>2
  <2>2. Holds(u, a) => a \in DOMAIN attempts BY DEF Holds, RowsInv, WorkOK, WorkNamesRows
  <2> QED BY <2>1, <2>2 DEF Takes
<1>3. ASSUME NEW a \in Attempts, NEW u \in Threads, NEW v \in Threads, Holds(u, a)', Holds(v, a)'
      PROVE  u = v
  <2>1. CASE Holds(u, a) /\ Holds(v, a) BY <2>1 DEF HolderInv
  <2>2. CASE ~Holds(u, a) \/ ~Holds(v, a)
    BY <1>2, <1>3, <2>2, FirstRoleIsStored
  <2> QED BY <2>1, <2>2
<1>4. ASSUME NEW k \in DOMAIN contexts, NEW u \in Threads PROVE ~Holds(u, contexts[k])'
  <2>1. contexts[k] \in Attempts
    BY DEF RowsInv, DeterminationRowsOK, TypeOK, RowsOK
  <2>2. PICK a \in Attempts : a = contexts[k] /\ contexts'[k] = a BY <2>1
  <2>3. ~Holds(u, a) BY <2>2 DEF HolderInv
  <2>4. ~Holds(u, a)' BY <1>2, <2>2, <2>3, FirstRoleIsStored
  <2> QED BY <2>2, <2>4
<1> QED BY <1>1, <1>3, <1>4 DEF HolderInv

\* A step after which the thread holds nothing.
LEMMA LetsGo ==
    ASSUME RowsInv, HolderInv, UNCHANGED contexts, NEW t \in Threads, NEW call, Go(t, call),
           call.op \in Preparing => call.op = "STORE" /\ call.next = 1
    PROVE  HolderInv'
<1>1. work'[t] = call /\ \A u \in Threads : u # t => work'[u] = work[u]
  BY DEF Go, RowsInv, WorkOK
<1>2. \A a \in Attempts : ~Holds(t, a)' BY <1>1 DEF Holds
<1> QED BY <1>1, <1>2, HolderKept

\* A step of the thread that keeps or takes the attempt it prepares.
LEMMA GoesOn ==
    ASSUME RowsInv, HolderInv, UNCHANGED contexts, NEW t \in Threads, NEW call, Go(t, call),
           call.attempt = work[t].attempt, Takes(t, work[t].attempt)
    PROVE  HolderInv'
<1>1. work'[t] = call /\ \A u \in Threads : u # t => work'[u] = work[u]
  BY DEF Go, RowsInv, WorkOK
<1>2. \A a \in Attempts : Holds(t, a)' => a = work[t].attempt BY <1>1 DEF Holds
<1> QED BY <1>1, <1>2, HolderKept

LEMMA FreezeKeepsHolders ==
    ASSUME RowsInv, HolderInv, NEW t \in Threads, NEW k \in Contexts, FreezeInserts(t, k)
    PROVE  HolderInv'
<1> DEFINE a == work[t].attempt
<1>1. work[t].op = "FREEZE" /\ k \notin DOMAIN contexts /\ End(t)
      /\ contexts' = Insert(contexts, k, a)
  BY DEF FreezeInserts
<1>2. Holds(t, a) BY <1>1 DEF Holds, Preparing
<1>3. a \in Attempts
  BY <1>1 DEF RowsInv, WorkOK, WorkNamesRows, Preparing, TypeOK, RowsOK
<1>4. \A l \in DOMAIN contexts : contexts[l] # a BY <1>2, <1>3 DEF HolderInv
<1>5. DOMAIN contexts' = DOMAIN contexts \cup {k} /\ contexts'[k] = a
      /\ \A l \in DOMAIN contexts : contexts'[l] = contexts[l]
  BY <1>1 DEF Insert
<1>6. work'[t] = Idle /\ \A u \in Threads : u # t => work'[u] = work[u]
  BY <1>1 DEF End, Go, RowsInv, WorkOK
<1>7. Idle.op = "IDLE" BY DEF Idle
<1>8. ASSUME NEW u \in Threads, NEW b \in Attempts, Holds(u, b)' PROVE u # t /\ Holds(u, b)
  BY <1>6, <1>7, <1>8 DEF Holds, Preparing
<1>9. \A u \in Threads : u # t => ~Holds(u, a) BY <1>2, <1>3 DEF HolderInv
<1>10. OneContextPerAttempt' BY <1>1, <1>4, <1>5 DEF OneContextPerAttempt, HolderInv
<1>11. ASSUME NEW l \in DOMAIN contexts', NEW u \in Threads PROVE ~Holds(u, contexts[l])'
  <2>1. PICK b : b = contexts'[l] OBVIOUS
  <2>2. b \in Attempts
    BY <1>3, <1>5, <2>1 DEF RowsInv, DeterminationRowsOK, TypeOK, RowsOK
  <2>3. u # t => ~Holds(u, b)
    BY <1>5, <1>9, <2>1 DEF HolderInv
  <2>4. ~Holds(u, b)' BY <1>8, <2>2, <2>3
  <2> QED BY <2>1, <2>4
<1>12. \A b \in Attempts : \A u, v \in Threads : Holds(u, b)' /\ Holds(v, b)' => u = v
  BY <1>8 DEF HolderInv
<1> QED BY <1>10, <1>11, <1>12 DEF HolderInv

LEMMA StoreKeepsHolders ==
    ASSUME RowsInv, HolderInv, NEW t \in Threads, PrepareStores(t)
    PROVE  HolderInv'
<1> DEFINE call == work[t]
           a == call.attempt
           target == attempts[a].target
           role == RolesOf[target][call.next]
           next == [call EXCEPT !.next = @ + 1]
           bind == [op |-> "BIND", attempt |-> a, execution |-> call.execution]
<1>1. call.op = "STORE" /\ UNCHANGED contexts BY DEF PrepareStores
<1>2. a \in DOMAIN attempts /\ 1 \in DOMAIN RolesOf[target]
  BY <1>1, FirstRoleIsStored DEF RowsInv, WorkOK, WorkNamesRows, Preparing
<1>3. call.next # 1 => Takes(t, a) BY <1>1 DEF Takes, Holds, Preparing
<1>4. CASE Go(t, next) /\ SourceIsNew(a, role)
  <2>1. call.next = 1 => Takes(t, a) BY <1>2, <1>4 DEF Takes, FirstRole, SourceIsNew
  <2>2. next.attempt = a
    <3>1. call = [op |-> "STORE", attempt |-> a, execution |-> call.execution,
                  shown |-> call.shown, next |-> call.next]
      BY <1>1 DEF RowsInv, WorkOK, WorkNamesRows
    <3> QED BY <3>1
  <2> HIDE DEF next
  <2> QED BY <1>1, <1>3, <1>4, <2>1, <2>2, GoesOn
<1>5. CASE Go(t, bind) /\ ~RoleIsLeft(target, call.next)
  <2>1. call.next # 1 BY <1>2, <1>5 DEF RoleIsLeft
  <2>2. bind.attempt = a OBVIOUS
  <2> HIDE DEF bind
  <2> QED BY <1>1, <1>3, <1>5, <2>1, <2>2, GoesOn
<1>6. CASE End(t)
  <2>1. Idle.op = "IDLE" BY DEF Idle
  <2> QED BY <1>1, <1>6, <2>1, LetsGo DEF End, Preparing
<1> HIDE DEF next, bind, role
<1> QED BY <1>4, <1>5, <1>6 DEF PrepareStores, next, bind, role

LEMMA HolderInvKept ==
    ASSUME RowsInv, HolderInv, [DeterminationNext]_determinationVars
    PROVE  HolderInv'
<1>1. ASSUME UNCHANGED <<contexts, work>> PROVE HolderInv'
  BY <1>1 DEF HolderInv, OneContextPerAttempt, Holds
<1>2. Idle.op = "IDLE" BY DEF Idle
<1>3. CASE UNCHANGED determinationVars BY <1>1, <1>3 DEF determinationVars, records
<1>4. CASE ValidationStep BY <1>1, <1>4 DEF ValidationStep, records
<1>5. ASSUME NEW k, NEW c, NEW actor, NEW judgement,
             ProposeReview(k, c, actor, judgement) \/ FinaliseReview(k, c, actor, judgement)
      PROVE  HolderInv'
  BY <1>1, <1>5 DEF ProposeReview, FinaliseReview
<1>6. CASE DeterminationCrash
  <2>1. UNCHANGED contexts /\ work' = [t \in Threads |-> Idle]
    BY <1>6 DEF DeterminationCrash, records
  <2>2. ASSUME NEW a, NEW t \in Threads PROVE ~Holds(t, a)'
    BY <1>2, <2>1 DEF Holds, Preparing
  <2> QED BY <2>1, <2>2 DEF HolderInv, OneContextPerAttempt
<1>7. ASSUME NEW t \in Threads, NEW a, NEW e, NEW shown, PrepareProduces(t, a, e, shown)
      PROVE  HolderInv'
  <2> DEFINE call == [op |-> "STORE", attempt |-> a, execution |-> e, shown |-> shown, next |-> 1]
  <2>1. Go(t, call) /\ UNCHANGED contexts BY <1>7 DEF PrepareProduces, records
  <2>2. call.op = "STORE" /\ call.next = 1 OBVIOUS
  <2> HIDE DEF call
  <2> QED BY <2>1, <2>2, LetsGo
<1>8. ASSUME NEW t \in Threads, BindsExecution(t) PROVE HolderInv'
  <2> DEFINE freeze == [op |-> "FREEZE", attempt |-> work[t].attempt]
  <2>1. UNCHANGED contexts /\ work[t].op = "BIND" BY <1>8 DEF BindsExecution, records
  <2>2. Takes(t, work[t].attempt) BY <2>1 DEF Takes, Holds, Preparing
  <2>3. freeze.attempt = work[t].attempt OBVIOUS
  <2>4. Go(t, freeze) \/ End(t) BY <1>8 DEF BindsExecution
  <2> HIDE DEF freeze
  <2>5. CASE Go(t, freeze) BY <2>1, <2>2, <2>3, <2>5, GoesOn
  <2>6. CASE End(t) BY <1>2, <2>1, <2>6, LetsGo DEF End, Preparing
  <2> QED BY <2>4, <2>5, <2>6
<1>9. ASSUME NEW t \in Threads, NEW k \in Contexts, EvaluateReads(t, k) \/ DetermineReads(t, k)
      PROVE  HolderInv'
  <2>1. UNCHANGED contexts BY <1>9 DEF EvaluateReads, DetermineReads, records
  <2>2. PICK call : Go(t, call) /\ call.op \in {"EVALUATE", "DETERMINE"}
    BY <1>9 DEF EvaluateReads, DetermineReads
  <2> QED BY <2>1, <2>2, LetsGo DEF Preparing
<1>10. ASSUME NEW t \in Threads, EvaluateInserts(t) PROVE HolderInv'
  <2> DEFINE next == [work[t] EXCEPT !.next = @ + 1]
  <2>1. UNCHANGED contexts /\ work[t].op = "EVALUATE" BY <1>10 DEF EvaluateInserts
  <2>2. next.op = "EVALUATE"
    <3>1. work[t] = [op |-> "EVALUATE", context |-> work[t].context, next |-> work[t].next,
                     existing |-> work[t].existing]
      BY <2>1 DEF RowsInv, WorkOK, WorkNamesRows
    <3> QED BY <3>1
  <2>3. Go(t, next) \/ End(t) BY <1>10 DEF EvaluateInserts
  <2> HIDE DEF next
  <2> QED BY <1>2, <2>1, <2>2, <2>3, LetsGo DEF End, Preparing
<1>11. ASSUME NEW t \in Threads, DetermineCommits(t) PROVE HolderInv'
  <2>1. End(t) /\ UNCHANGED contexts BY <1>11 DEF DetermineCommits, records
  <2> QED BY <1>2, <2>1, LetsGo DEF End, Preparing
<1>12. ASSUME NEW t \in Threads, DeterminationStep(t) PROVE HolderInv'
  BY <1>7, <1>8, <1>9, <1>10, <1>11, <1>12, StoreKeepsHolders, FreezeKeepsHolders
     DEF DeterminationStep
<1> QED BY <1>3, <1>4, <1>5, <1>6, <1>12 DEF DeterminationNext

LEMMA HolderInvInit == DeterminationInit => HolderInv
<1>1. DOMAIN << >> = {} /\ Idle.op = "IDLE" BY DEF Idle
<1> QED BY <1>1 DEF DeterminationInit, HolderInv, OneContextPerAttempt, Holds, Preparing

\* However many callers prepare an attempt at once, and wherever they stop, at most
\* one context is ever frozen for it: the key of the first role's source decides.
THEOREM AttemptsHaveOneContext == DeterminationSpec => []OneContextPerAttempt
<1>1. HolderInv => OneContextPerAttempt BY DEF HolderInv
<1> QED BY <1>1, HolderInvInit, RowsInvInit, RowsInvKept, HolderInvKept, PTL DEF DeterminationSpec

-----------------------------------------------------------------------------
(* What a step does to one attempt and to the rows that say how it ended.  *)

SameExecution(a) ==
    /\ a \in DOMAIN executions <=> a \in DOMAIN executions'
    /\ a \in DOMAIN executions => executions'[a].status = executions[a].status

SameResult(a) == a \in DOMAIN results <=> a \in DOMAIN results'
SameSuspension(a) == a \in DOMAIN suspensions <=> a \in DOMAIN suspensions'

Stays(a) ==
    /\ attempts'[a] = attempts[a]
    /\ SameExecution(a) /\ SameResult(a) /\ SameSuspension(a)

\* The attempt is entered, or an execution is bound to it.
Enters(a) ==
    /\ attempts[a].status = "NOT_STARTED"
    /\ attempts'[a].status \in OpenStatuses \ {"NOT_STARTED"}
    /\ SameResult(a) /\ SameSuspension(a)
    /\ \/ SameExecution(a)
       \/ a \in DOMAIN executions' /\ executions'[a].status = "ACTIVE"

Executes(a) ==
    /\ attempts[a].status = "ACTIVE" /\ attempts'[a].status = "EXECUTED"
    /\ a \in DOMAIN executions /\ a \in DOMAIN executions'
    /\ executions'[a].status = "FINALISED"
    /\ a \in DOMAIN results'
    /\ SameSuspension(a)

GetsSuspended(a) ==
    /\ attempts[a].status \in OpenStatuses /\ attempts'[a].status = "SUSPENDED"
    /\ SameExecution(a) /\ SameResult(a)
    /\ a \in DOMAIN suspensions'

Evolves(a) == Stays(a) \/ Enters(a) \/ Executes(a) \/ GetsSuspended(a)

LEMMA TablesStay ==
    ASSUME UNCHANGED <<attempts, executions, results, suspensions>>, NEW a
    PROVE  Evolves(a)
BY DEF Evolves, Stays, SameExecution, SameResult, SameSuspension

LEMMA NewRowsEvolve ==
    ASSUME NEW b, b \notin DOMAIN attempts, NEW row, attempts' = Insert(attempts, b, row),
           UNCHANGED <<executions, results, suspensions>>, NEW a \in DOMAIN attempts
    PROVE  Evolves(a)
<1>1. attempts'[a] = attempts[a] BY DEF Insert
<1> QED BY <1>1 DEF Evolves, Stays, SameExecution, SameResult, SameSuspension

LEMMA BindsEvolve ==
    ASSUME TypeOK, NEW t \in Threads, StartBinds(t), NEW a \in DOMAIN attempts
    PROVE  Evolves(a)
<1>0. calls[t] \in Calls /\ CallNamesRows(t) BY DEF TypeOK, CallsOK
<1> DEFINE b == calls[t].attempt
<1>1. b \in DOMAIN attempts /\ attempts[b].status = "NOT_STARTED"
  BY <1>0 DEF StartBinds, CallNamesRows, Idle
<1>2. DOMAIN attempts' = DOMAIN attempts /\ attempts'[b].status = "ACTIVE"
      /\ \A c \in DOMAIN attempts : c # b => attempts'[c] = attempts[c]
  <2>1. attempts[b] \in AttemptRows BY <1>1 DEF TypeOK, RowsOK
  <2>2. attempts' = [attempts EXCEPT ![b] = [attempts[b] EXCEPT
            !.status = "ACTIVE", !.run = calls[t].run, !.bound = TRUE, !.known = TRUE]]
    BY DEF StartBinds
  <2>3. [attempts[b] EXCEPT !.status = "ACTIVE", !.run = calls[t].run, !.bound = TRUE,
                            !.known = TRUE].status = "ACTIVE"
    BY <2>1 DEF AttemptRows
  <2> QED BY <1>1, <2>2, <2>3
<1>3. DOMAIN executions' = DOMAIN executions \cup {b} /\ executions'[b].status = "ACTIVE"
      /\ \A c \in DOMAIN executions : c # b => executions'[c] = executions[c]
  BY DEF StartBinds, Insert
<1>4. UNCHANGED <<results, suspensions>> BY DEF StartBinds
<1>5. SameResult(a) /\ SameSuspension(a) BY <1>4 DEF SameResult, SameSuspension
<1> HIDE DEF b
<1>6. CASE a = b
  BY <1>1, <1>2, <1>3, <1>5, <1>6 DEF Evolves, Enters, OpenStatuses
<1>7. CASE a # b
  BY <1>2, <1>3, <1>5, <1>7 DEF Evolves, Stays, SameExecution
<1> QED BY <1>6, <1>7

LEMMA FinalisesEvolve ==
    ASSUME TypeOK, NEW t \in Threads, FinaliseCommits(t), NEW a \in DOMAIN attempts
    PROVE  Evolves(a)
<1>0. calls[t] \in Calls /\ CallNamesRows(t) BY DEF TypeOK, CallsOK
<1> DEFINE b == calls[t].attempt
<1>1. UNCHANGED suspensions BY DEF FinaliseCommits
<1>2. CASE UNCHANGED <<attempts, executions, results>>
  BY <1>1, <1>2, TablesStay
<1>3. ASSUME NEW row, ResultAdmitted(b),
             executions' = [executions EXCEPT ![b].status = "FINALISED"],
             attempts' = [attempts EXCEPT ![b].status = "EXECUTED"],
             results' = Insert(results, b, row)
      PROVE  Evolves(a)
  <2>1. b \in DOMAIN executions /\ b \in DOMAIN attempts
    BY <1>0 DEF FinaliseCommits, CallNamesRows, TypeOK, RowsOK
  <2>2. attempts[b].status = "ACTIVE" /\ b \notin DOMAIN results
    BY <1>3 DEF ResultAdmitted
  <2>3. DOMAIN results' = DOMAIN results \cup {b} BY <1>3 DEF Insert
  <2>4. attempts'[b].status = "EXECUTED"
        /\ \A c \in DOMAIN attempts : c # b => attempts'[c] = attempts[c]
    BY <1>3, <2>1 DEF TypeOK, RowsOK, AttemptRows
  <2>5. DOMAIN executions' = DOMAIN executions /\ executions'[b].status = "FINALISED"
        /\ \A c \in DOMAIN executions : c # b => executions'[c] = executions[c]
    BY <1>3, <2>1 DEF TypeOK, RowsOK, ExecutionRows
  <2>6. SameSuspension(a) BY <1>1 DEF SameSuspension
  <2> HIDE DEF b
  <2>7. CASE a = b
    BY <2>1, <2>2, <2>3, <2>4, <2>5, <2>6, <2>7 DEF Evolves, Executes
  <2>8. CASE a # b
    BY <2>3, <2>4, <2>5, <2>6, <2>8 DEF Evolves, Stays, SameExecution, SameResult
  <2> QED BY <2>7, <2>8
<1> QED BY <1>2, <1>3 DEF FinaliseCommits

LEMMA SuspendsEvolve ==
    ASSUME TypeOK, NEW t \in Threads, SuspendCommits(t), NEW a \in DOMAIN attempts
    PROVE  Evolves(a)
<1>0. calls[t] \in Calls /\ CallNamesRows(t) BY DEF TypeOK, CallsOK
<1> DEFINE b == calls[t].attempt
           row == [attempts[b] EXCEPT !.status = "SUSPENDED", !.run = calls[t].run,
                                      !.bound = calls[t].bound]
<1>1. UNCHANGED <<executions, results>> BY DEF SuspendCommits
<1>2. CASE UNCHANGED <<attempts, suspensions>>
  BY <1>1, <1>2, TablesStay
<1>3. ASSUME NEW record, SuspensionAdmitted(b), suspensions' = Insert(suspensions, b, record),
             attempts' = [attempts EXCEPT ![b] = row]
      PROVE  Evolves(a)
  <2>1. b \in DOMAIN attempts
    BY <1>0 DEF SuspendCommits, CallNamesRows, Idle
  <2>2. attempts[b].status \in OpenStatuses BY <1>3 DEF SuspensionAdmitted
  <2>3. DOMAIN suspensions' = DOMAIN suspensions \cup {b} BY <1>3 DEF Insert
  <2>4. row.status = "SUSPENDED" BY <2>1 DEF TypeOK, RowsOK, AttemptRows
  <2>5. attempts'[b].status = "SUSPENDED"
        /\ \A c \in DOMAIN attempts : c # b => attempts'[c] = attempts[c]
    <3> HIDE DEF row
    <3> QED BY <1>3, <2>1, <2>4
  <2>6. SameExecution(a) /\ SameResult(a) BY <1>1 DEF SameExecution, SameResult
  <2> HIDE DEF b, row
  <2>7. CASE a = b
    BY <2>2, <2>3, <2>5, <2>6, <2>7 DEF Evolves, GetsSuspended
  <2>8. CASE a # b
    BY <2>3, <2>5, <2>6, <2>8 DEF Evolves, Stays, SameSuspension
  <2> QED BY <2>7, <2>8
<1> QED BY <1>2, <1>3 DEF SuspendCommits

\* Whatever a call of the validation service does, an attempt stays as it is, is
\* entered, is executed or is suspended.
LEMMA AttemptsEvolve ==
    ASSUME TypeOK, [Next]_vars, NEW a \in DOMAIN attempts
    PROVE  Evolves(a)
<1>1. CASE UNCHANGED tables BY <1>1, TablesStay DEF tables
<1>2. ASSUME NEW b \in Attempts, NEW target \in Targets,
             \/ PrepareAttempt(b, target)
             \/ \E t \in Threads, run \in Runs, source \in Attempts \cup {NoAttempt} :
                    StartSelects(t, b, target, run, source)
      PROVE  Evolves(a)
  BY <1>2, NewRowsEvolve DEF PrepareAttempt, StartSelects
<1>3. ASSUME NEW b \in Attempts, NEW run \in Runs, EnterAttempt(b, run)
      PROVE  Evolves(a)
  <2>1. b \in DOMAIN attempts /\ attempts[b].status = "NOT_STARTED"
        /\ UNCHANGED <<executions, results, suspensions>>
    BY <1>3 DEF EnterAttempt
  <2>2. attempts'[b].status = "INCOMPLETE"
        /\ \A c \in DOMAIN attempts : c # b => attempts'[c] = attempts[c]
    BY <1>3, <2>1 DEF EnterAttempt, TypeOK, RowsOK, AttemptRows
  <2>3. SameExecution(a) /\ SameResult(a) /\ SameSuspension(a)
    BY <2>1 DEF SameExecution, SameResult, SameSuspension
  <2> QED BY <2>1, <2>2, <2>3 DEF Evolves, Stays, Enters, OpenStatuses
<1>4. ASSUME NEW t \in Threads, StartFreezesBaseline(t) \/ CaptureInserts(t)
      PROVE  Evolves(a)
  BY <1>4, TablesStay DEF StartFreezesBaseline, CaptureInserts
<1> QED BY <1>1, <1>2, <1>3, <1>4, BindsEvolve, FinalisesEvolve, SuspendsEvolve, StepCases

\* A new attempt is NOT_STARTED, and the rows of no other table name it.
Appears(a) ==
    /\ attempts'[a].status = "NOT_STARTED"
    /\ a \notin DOMAIN executions' /\ a \notin DOMAIN results' /\ a \notin DOMAIN suspensions'

LEMMA NewRowsAppear ==
    ASSUME TypeOK, NEW b, NEW target, NEW known,
           attempts' = Insert(attempts, b, NewAttempt(target, known)),
           UNCHANGED <<executions, results, suspensions>>,
           NEW a \in DOMAIN attempts', a \notin DOMAIN attempts
    PROVE  Appears(a)
<1>1. a = b /\ attempts'[a] = NewAttempt(target, known) BY DEF Insert
<1>2. a \notin DOMAIN executions /\ a \notin DOMAIN results /\ a \notin DOMAIN suspensions
  BY DEF TypeOK, RowsOK
<1> QED BY <1>1, <1>2 DEF Appears, NewAttempt

LEMMA AttemptsAppear ==
    ASSUME TypeOK, [Next]_vars, NEW a \in DOMAIN attempts', a \notin DOMAIN attempts
    PROVE  Appears(a)
<1>1. UNCHANGED tables => UNCHANGED attempts BY DEF tables
<1>2. ASSUME NEW b \in Attempts, NEW target \in Targets,
             \/ PrepareAttempt(b, target)
             \/ \E t \in Threads, run \in Runs, source \in Attempts \cup {NoAttempt} :
                    StartSelects(t, b, target, run, source)
      PROVE  Appears(a)
  <2>1. PICK known : attempts' = Insert(attempts, b, NewAttempt(target, known))
                     /\ UNCHANGED <<executions, results, suspensions>>
    BY <1>2 DEF PrepareAttempt, StartSelects
  <2> QED BY <2>1, NewRowsAppear
<1>3. ASSUME NEW b \in Attempts, NEW run \in Runs, EnterAttempt(b, run)
      PROVE  DOMAIN attempts' = DOMAIN attempts
  BY <1>3 DEF EnterAttempt
<1>4. ASSUME NEW t \in Threads,
             \/ StartFreezesBaseline(t) \/ StartBinds(t) \/ CaptureInserts(t)
             \/ FinaliseCommits(t) \/ SuspendCommits(t)
      PROVE  DOMAIN attempts' = DOMAIN attempts
  BY <1>4 DEF StartFreezesBaseline, StartBinds, CaptureInserts, FinaliseCommits, SuspendCommits
<1> QED BY <1>1, <1>2, <1>3, <1>4, StepCases

-----------------------------------------------------------------------------
(* One outcome of all.                                                     *)

\* What OneOutcomeOfAll asks of one attempt.
Outcome(a) ==
    LET decided == a \in DOMAIN results \cup DOMAIN determined IN
    /\ attempts[a].status = "EXECUTED" <=> decided
    /\ attempts[a].status = "SUSPENDED" <=> a \in DOMAIN suspensions
    /\ a \in DOMAIN executions => (executions[a].status = "FINALISED" <=> a \in DOMAIN results)
    /\ a \in DOMAIN procedures => (procedures[a] = "FINALISED" <=> decided)
    /\ a \in DOMAIN determined /\ attempts[a].target \notin Procedures => a \in DOMAIN results

\* It is not inductive: an execution of one kind must bar the other, which it
\* does because an attempt with an execution of either is past NOT_STARTED.
Begun(a) ==
    /\ a \in DOMAIN executions \cup DOMAIN procedures => attempts[a].status # "NOT_STARTED"
    /\ ~ (a \in DOMAIN executions /\ a \in DOMAIN procedures)

OutcomeInv == \A a \in DOMAIN attempts : Outcome(a) /\ Begun(a)

LEMMA OutcomeIsOne ==
    ASSUME OutcomeInv PROVE OneOutcomeOfAll
BY DEF OutcomeInv, Outcome, OneOutcomeOfAll

\* The tables of determinations say the same of attempt a.
SameDecision(a) ==
    /\ a \in DOMAIN procedures <=> a \in DOMAIN procedures'
    /\ a \in DOMAIN procedures => procedures'[a] = procedures[a]
    /\ a \in DOMAIN determined <=> a \in DOMAIN determined'

LEMMA StaysDecided ==
    ASSUME NEW a, Outcome(a), Begun(a), Stays(a), SameDecision(a)
    PROVE  Outcome(a)' /\ Begun(a)'
BY DEF Outcome, Begun, Stays, SameDecision, SameExecution, SameResult, SameSuspension

LEMMA EntersUndecided ==
    ASSUME NEW a, Outcome(a), Begun(a), Enters(a), SameDecision(a)
    PROVE  Outcome(a)' /\ Begun(a)'
<1>1. a \notin DOMAIN executions /\ a \notin DOMAIN procedures'
  BY DEF Enters, Begun, SameDecision
<1>2. a \notin DOMAIN results' /\ a \notin DOMAIN determined' /\ a \notin DOMAIN suspensions'
  BY DEF Enters, Outcome, SameDecision, SameResult, SameSuspension
<1>3. attempts'[a].status \in {"ACTIVE", "INCOMPLETE"}
  BY DEF Enters, OpenStatuses
<1>4. a \in DOMAIN executions' => executions'[a].status = "ACTIVE"
  BY <1>1 DEF Enters, SameExecution
<1> QED BY <1>1, <1>2, <1>3, <1>4 DEF Outcome, Begun

LEMMA ExecutesDecides ==
    ASSUME NEW a, Outcome(a), Begun(a), Executes(a), SameDecision(a)
    PROVE  Outcome(a)' /\ Begun(a)'
<1>1. a \notin DOMAIN procedures' BY DEF Executes, Begun, SameDecision
<1>2. a \notin DOMAIN suspensions' BY DEF Executes, Outcome, SameSuspension
<1> QED BY <1>1, <1>2 DEF Outcome, Begun, Executes

LEMMA SuspendsDecides ==
    ASSUME NEW a, Outcome(a), Begun(a), GetsSuspended(a), SameDecision(a)
    PROVE  Outcome(a)' /\ Begun(a)'
<1>1. attempts[a].status # "EXECUTED" BY DEF GetsSuspended, OpenStatuses
<1>2. a \notin DOMAIN results' /\ a \notin DOMAIN determined'
  BY <1>1 DEF GetsSuspended, Outcome, SameResult, SameDecision
<1>3. a \in DOMAIN procedures' => procedures'[a] # "FINALISED"
  BY <1>1 DEF Outcome, SameDecision
<1>4. a \in DOMAIN executions' => executions'[a].status # "FINALISED"
  BY <1>2 DEF Outcome, GetsSuspended, SameExecution, SameResult
<1>5. ~ (a \in DOMAIN executions' /\ a \in DOMAIN procedures')
  BY DEF Begun, GetsSuspended, SameExecution, SameDecision
<1> QED BY <1>2, <1>3, <1>4, <1>5 DEF Outcome, Begun, GetsSuspended

LEMMA ValidationDecides ==
    ASSUME RowsInv, OutcomeInv, [Next]_vars, UNCHANGED <<procedures, determined>>
    PROVE  OutcomeInv'
<1> SUFFICES ASSUME NEW a \in DOMAIN attempts' PROVE Outcome(a)' /\ Begun(a)'
  BY DEF OutcomeInv
<1>0. SameDecision(a) BY DEF SameDecision
<1>1. CASE a \in DOMAIN attempts
  <2>1. Evolves(a) BY <1>1, AttemptsEvolve DEF RowsInv
  <2>2. Outcome(a) /\ Begun(a) BY <1>1 DEF OutcomeInv
  <2> QED BY <1>0, <2>1, <2>2, StaysDecided, EntersUndecided, ExecutesDecides,
             SuspendsDecides DEF Evolves
<1>2. CASE a \notin DOMAIN attempts
  <2>1. Appears(a) BY <1>2, AttemptsAppear DEF RowsInv
  <2>2. a \notin DOMAIN procedures' /\ a \notin DOMAIN determined'
    BY <1>2 DEF RowsInv, DeterminationRowsOK
  <2> QED BY <2>1, <2>2 DEF Appears, Outcome, Begun
<1> QED BY <1>1, <1>2

LEMMA BindingDecides ==
    ASSUME RowsInv, OutcomeInv, NEW t \in Threads, BindsExecution(t)
    PROVE  OutcomeInv'
<1>0. work[t].attempt \in DOMAIN attempts
  BY DEF BindsExecution, RowsInv, WorkOK, WorkNamesRows, Preparing
<1>1. PICK b \in DOMAIN attempts : b = work[t].attempt BY <1>0
<1> DEFINE row == [attempts[b] EXCEPT !.status = "ACTIVE", !.run = NoRun, !.bound = TRUE]
<1>2. UNCHANGED <<executions, results, suspensions, determined>>
  BY DEF BindsExecution, records
<1>3. CASE UNCHANGED <<attempts, procedures>>
  BY <1>2, <1>3 DEF OutcomeInv, Outcome, Begun
<1>4. ASSUME attempts[b].status = "NOT_STARTED",
             attempts' = [attempts EXCEPT ![b] = row], procedures' = Insert(procedures, b, "ACTIVE")
      PROVE  OutcomeInv'
  <2>1. attempts[b] \in AttemptRows BY <1>1 DEF RowsInv, TypeOK, RowsOK
  <2>2. row.status = "ACTIVE" BY <2>1 DEF AttemptRows
  <2>3. DOMAIN attempts' = DOMAIN attempts /\ attempts'[b].status = "ACTIVE"
        /\ \A c \in DOMAIN attempts : c # b => attempts'[c] = attempts[c]
    <3> HIDE DEF row
    <3> QED BY <1>1, <1>4, <2>2
  <2>4. DOMAIN procedures' = DOMAIN procedures \cup {b} /\ procedures'[b] = "ACTIVE"
        /\ \A c \in DOMAIN procedures : c # b => procedures'[c] = procedures[c]
    BY <1>4 DEF Insert
  <2>5. Outcome(b) /\ Begun(b) BY <1>1 DEF OutcomeInv
  <2>6. b \notin DOMAIN executions /\ b \notin DOMAIN results /\ b \notin DOMAIN determined
        /\ b \notin DOMAIN suspensions
    BY <1>4, <2>5 DEF Outcome, Begun
  <2> HIDE DEF row
  <2>7. Outcome(b)' /\ Begun(b)'
    BY <1>2, <2>3, <2>4, <2>6 DEF Outcome, Begun
  <2>8. ASSUME NEW a \in DOMAIN attempts, a # b PROVE Outcome(a)' /\ Begun(a)'
    <3>1. Stays(a) /\ SameDecision(a)
      BY <1>2, <2>3, <2>4, <2>8
      DEF Stays, SameDecision, SameExecution, SameResult, SameSuspension
    <3> QED BY <2>8, <3>1, StaysDecided DEF OutcomeInv
  <2> QED BY <2>3, <2>7, <2>8 DEF OutcomeInv
<1> QED BY <1>1, <1>3, <1>4 DEF BindsExecution

\* What the transaction of a result does, if it is admitted.
Determines(t, a) ==
    LET k == work[t].context
        row == [context |-> k, verdict |-> work[t].verdict, evidence |-> work[t].evidence]
    IN  /\ a = contexts[k] /\ a \in DOMAIN attempts
        /\ DeterminationAdmitted(k)
        /\ determined' = Insert(determined, a, row)
        /\ DOMAIN attempts' = DOMAIN attempts /\ attempts'[a].status = "EXECUTED"
        /\ attempts'[a].target = attempts[a].target
        /\ \A b \in DOMAIN attempts : b # a => attempts'[b] = attempts[b]
        /\ \/ /\ attempts[a].target \in Procedures
              /\ procedures' = [procedures EXCEPT ![a] = "FINALISED"]
              /\ UNCHANGED <<executions, results>>
           \/ /\ attempts[a].target \notin Procedures
              /\ executions' = [executions EXCEPT ![a].status = "FINALISED"]
              /\ results' = Insert(results, a, row)
              /\ UNCHANGED procedures

LEMMA DetermineCases ==
    ASSUME RowsInv, NEW t \in Threads, DetermineCommits(t)
    PROVE  /\ work[t].op = "DETERMINE" /\ work[t].context \in DOMAIN contexts
           /\ UNCHANGED <<evidence, suspensions, baselines, calls, records>>
           /\ End(t)
           /\ \/ UNCHANGED <<determined, attempts, procedures, executions, results>>
              \/ \E a \in DOMAIN attempts : Determines(t, a)
<1> DEFINE k == work[t].context
           a == contexts[k]
<1>1. work[t].op = "DETERMINE" /\ k \in DOMAIN contexts
  BY DEF DetermineCommits, RowsInv, WorkOK, WorkNamesRows
<1>2. a \in DOMAIN attempts
  BY <1>1 DEF RowsInv, DeterminationRowsOK
<1>3. attempts[a] \in AttemptRows BY <1>2 DEF RowsInv, TypeOK, RowsOK
<1>4. [attempts[a] EXCEPT !.status = "EXECUTED"].status = "EXECUTED"
      /\ [attempts[a] EXCEPT !.status = "EXECUTED"].target = attempts[a].target
  BY <1>3 DEF AttemptRows
<1>5. ASSUME attempts' = [attempts EXCEPT ![a].status = "EXECUTED"]
      PROVE  /\ DOMAIN attempts' = DOMAIN attempts /\ attempts'[a].status = "EXECUTED"
             /\ attempts'[a].target = attempts[a].target
             /\ \A b \in DOMAIN attempts : b # a => attempts'[b] = attempts[b]
  <2>1. attempts' = [attempts EXCEPT ![a] = [attempts[a] EXCEPT !.status = "EXECUTED"]]
    BY <1>5
  <2> HIDE DEF a
  <2> QED BY <1>2, <1>4, <2>1
<1>6. /\ UNCHANGED <<evidence, suspensions, baselines, calls, records>>
      /\ End(t)
  BY DEF DetermineCommits
<1>7. \/ UNCHANGED <<determined, attempts, procedures, executions, results>>
      \/ Determines(t, a)
  BY <1>2, <1>5 DEF DetermineCommits, Determines
<1> QED BY <1>1, <1>2, <1>6, <1>7

LEMMA DeterminingDecides ==
    ASSUME RowsInv, OutcomeInv, NEW t \in Threads, DetermineCommits(t)
    PROVE  OutcomeInv'
<1>1. UNCHANGED suspensions BY DEF DetermineCommits
<1>2. CASE UNCHANGED <<determined, attempts, procedures, executions, results>>
  BY <1>1, <1>2 DEF OutcomeInv, Outcome, Begun
<1>3. ASSUME NEW a \in DOMAIN attempts, Determines(t, a)
      PROVE  OutcomeInv'
  <2>1. /\ a \notin DOMAIN determined /\ ExecutionIsActive(a) /\ a \notin DOMAIN results
        /\ attempts[a].status \in OpenStatuses
        /\ work[t].context \in DOMAIN contexts /\ a = contexts[work[t].context]
    BY <1>3, DetermineCases DEF Determines, DeterminationAdmitted
  <2>2. DOMAIN determined' = DOMAIN determined \cup {a}
    BY <1>3 DEF Determines, Insert
  <2>3. DOMAIN attempts' = DOMAIN attempts /\ attempts'[a].status = "EXECUTED"
        /\ attempts'[a].target = attempts[a].target
        /\ \A b \in DOMAIN attempts : b # a => attempts'[b] = attempts[b]
    BY <1>3 DEF Determines
  <2>4. Outcome(a) /\ Begun(a) BY DEF OutcomeInv
  <2>5. a \notin DOMAIN suspensions' BY <1>1, <2>1, <2>4 DEF Outcome, OpenStatuses
  <2>6. CASE attempts[a].target \in Procedures
    <3>1. UNCHANGED <<executions, results>> /\ a \in DOMAIN procedures
          /\ procedures' = [procedures EXCEPT ![a] = "FINALISED"]
      BY <1>3, <2>1, <2>6 DEF Determines, ExecutionIsActive
    <3>2. Outcome(a)' /\ Begun(a)'
      BY <2>1, <2>2, <2>3, <2>4, <2>5, <2>6, <3>1 DEF Outcome, Begun
    <3>3. ASSUME NEW b \in DOMAIN attempts, b # a PROVE Stays(b) /\ SameDecision(b)
      BY <1>1, <2>2, <2>3, <3>1, <3>3
      DEF Stays, SameDecision, SameExecution, SameResult, SameSuspension
    <3> QED BY <2>3, <3>2, <3>3, StaysDecided DEF OutcomeInv
  <2>7. CASE attempts[a].target \notin Procedures
    <3>1. UNCHANGED procedures /\ executions' = [executions EXCEPT ![a].status = "FINALISED"]
          /\ DOMAIN results' = DOMAIN results \cup {a}
      BY <1>3, <2>7 DEF Determines, Insert
    <3>2. a \in DOMAIN executions
      BY <2>1, <2>7 DEF RowsInv, DeterminationRowsOK, TargetOf
    <3>3. executions[a] \in ExecutionRows BY <3>2 DEF RowsInv, TypeOK, RowsOK
    <3>4. DOMAIN executions' = DOMAIN executions /\ executions'[a].status = "FINALISED"
          /\ \A b \in DOMAIN executions : b # a => executions'[b] = executions[b]
      BY <3>1, <3>2, <3>3 DEF ExecutionRows
    <3>5. Outcome(a)' /\ Begun(a)'
      BY <2>1, <2>2, <2>3, <2>4, <2>5, <2>7, <3>1, <3>2, <3>4 DEF Outcome, Begun
    <3>6. ASSUME NEW b \in DOMAIN attempts, b # a PROVE Stays(b) /\ SameDecision(b)
      BY <1>1, <2>2, <2>3, <3>1, <3>4, <3>6
      DEF Stays, SameDecision, SameExecution, SameResult, SameSuspension
    <3> QED BY <2>3, <3>5, <3>6, StaysDecided DEF OutcomeInv
  <2> QED BY <2>6, <2>7
<1> QED BY <1>2, <1>3, DetermineCases

\* Every other call leaves the tables of outcomes alone.
LEMMA OthersDecideNothing ==
    ASSUME TypeOK, DeterminationNext
    PROVE  \/ [Next]_vars /\ UNCHANGED <<records, procedures, determined>>
           \/ UNCHANGED <<vars, procedures, determined>>
           \/ \E t \in Threads : BindsExecution(t) \/ DetermineCommits(t)
<1>1. CASE ValidationStep BY <1>1, ValidationIsNext DEF ValidationStep
<1>2. CASE DeterminationCrash
  <2>1. DOMAIN calls = Threads BY DEF TypeOK, CallsOK
  <2>2. UNCHANGED tables /\ calls' = [s \in Threads |-> Idle] BY <1>2 DEF DeterminationCrash
  <2>3. CASE \A s \in Threads : calls[s] = Idle
    <3>1. calls' = calls BY <2>1, <2>2, <2>3 DEF TypeOK, CallsOK
    <3> QED BY <1>2, <2>2, <3>1 DEF DeterminationCrash, vars
  <2>4. CASE ~ \A s \in Threads : calls[s] = Idle
    <3>1. Crash BY <2>2, <2>4 DEF Crash
    <3> QED BY <1>2, <3>1 DEF DeterminationCrash, Next
  <2> QED BY <2>3, <2>4
<1>3. ASSUME NEW t \in Threads, DeterminationStep(t)
      PROVE  \/ UNCHANGED <<vars, procedures, determined>>
             \/ BindsExecution(t) \/ DetermineCommits(t)
  <2>1. ASSUME NEW a, NEW e, NEW shown, PrepareProduces(t, a, e, shown)
        PROVE  UNCHANGED <<vars, procedures, determined>>
    BY <2>1 DEF PrepareProduces
  <2>2. ASSUME NEW k, FreezeInserts(t, k) \/ EvaluateReads(t, k) \/ DetermineReads(t, k)
        PROVE  UNCHANGED <<vars, procedures, determined>>
    BY <2>2 DEF FreezeInserts, EvaluateReads, DetermineReads
  <2>3. CASE PrepareStores(t) BY <2>3 DEF PrepareStores
  <2>4. CASE EvaluateInserts(t) BY <2>4 DEF EvaluateInserts
  <2> QED BY <1>3, <2>1, <2>2, <2>3, <2>4, Zenon DEF DeterminationStep
<1>4. ASSUME NEW k, NEW c, NEW actor, NEW judgement,
             ProposeReview(k, c, actor, judgement) \/ FinaliseReview(k, c, actor, judgement)
      PROVE  UNCHANGED <<vars, procedures, determined>>
  BY <1>4 DEF ProposeReview, FinaliseReview
<1> QED BY <1>1, <1>2, <1>3, <1>4, Zenon DEF DeterminationNext

LEMMA OutcomeInvKept ==
    ASSUME RowsInv, OutcomeInv, [DeterminationNext]_determinationVars
    PROVE  OutcomeInv'
<1>1. CASE [Next]_vars /\ UNCHANGED <<procedures, determined>>
  BY <1>1, ValidationDecides
<1>2. CASE UNCHANGED <<vars, procedures, determined>>
  BY <1>2 DEF OutcomeInv, Outcome, Begun, vars, tables
<1> QED BY <1>1, <1>2, OthersDecideNothing, BindingDecides, DeterminingDecides
        DEF determinationVars, RowsInv

LEMMA OutcomeInvInit == DeterminationInit => OutcomeInv
<1>1. DOMAIN << >> = {} OBVIOUS
<1> QED BY <1>1 DEF DeterminationInit, Init, OutcomeInv

\* Comparison, determination and suspension decide an attempt between them once:
\* whichever commits first, the conditions of the other two transactions fail.
THEOREM AttemptsHaveOneOutcomeOfAll == DeterminationSpec => []OneOutcomeOfAll
<1>1. DeterminationInit => OutcomeInv BY OutcomeInvInit
<1>2. DeterminationInit => RowsInv BY RowsInvInit
<1>3. RowsInv /\ [DeterminationNext]_determinationVars => RowsInv' BY RowsInvKept
<1>4. RowsInv /\ OutcomeInv /\ [DeterminationNext]_determinationVars => OutcomeInv'
  BY OutcomeInvKept
<1>5. OutcomeInv => OneOutcomeOfAll BY OutcomeIsOne
<1> QED BY <1>1, <1>2, <1>3, <1>4, <1>5, PTL DEF DeterminationSpec

-----------------------------------------------------------------------------
(* The records of a determination are only added to.                       *)

Extended(table, later) ==
    \A key \in DOMAIN table : key \in DOMAIN later /\ later[key] = table[key]

LEMMA InsertExtends ==
    ASSUME NEW table, NEW key, key \notin DOMAIN table, NEW row
    PROVE  Extended(table, Insert(table, key, row))
BY DEF Extended, Insert

LEMMA SameExtends ==
    ASSUME NEW table, NEW later, later = table
    PROVE  Extended(table, later)
BY DEF Extended

\* A source is stored for a call that holds it.
StoresSource(t, r) ==
    /\ work[t].op = "STORE" /\ r \in RoleSet(attempts[work[t].attempt].target)
    /\ SourceIsNew(work[t].attempt, r)
    /\ sources' = Insert(sources, <<work[t].attempt, r>>, work[t].shown[r])

\* A finding of the machine, and one of a review.
MachineFinds(k, c) ==
    /\ k \in DOMAIN contexts /\ c \in MachineSet(TargetOf(k))
    /\ ~ JudgementFails(k, c) /\ FindingAdmitted(k, c)
    /\ findings' = Insert(findings, <<k, c>>, Judge(k, c))

ReviewFinds(k, c) ==
    /\ k \in DOMAIN contexts /\ c \in ReviewCriteria[TargetOf(k)]
    /\ \E actor \in DOMAIN ActorRole, judgement \in Judgements :
           FinaliseReview(k, c, actor, judgement)

\* How the records change.
RecordsChange ==
    /\ \/ UNCHANGED sources
       \/ \E t \in Threads, r \in STRING : StoresSource(t, r)
    /\ \/ UNCHANGED contexts
       \/ \E k, a : k \notin DOMAIN contexts /\ contexts' = Insert(contexts, k, a)
    /\ \/ UNCHANGED <<findings, finalisations>>
       \/ UNCHANGED finalisations /\ \E k, c : MachineFinds(k, c)
       \/ \E k, c : ReviewFinds(k, c)
    /\ \/ UNCHANGED proposals
       \/ \E key, row : key \notin DOMAIN proposals /\ proposals' = Insert(proposals, key, row)

LEMMA StoresChange ==
    ASSUME RowsInv, NEW t \in Threads, PrepareStores(t)
    PROVE  RecordsChange
<1> DEFINE a == work[t].attempt
           target == attempts[a].target
           r == RolesOf[target][work[t].next]
<1>1. UNCHANGED <<contexts, findings, proposals, finalisations>> BY DEF PrepareStores
<1>2. work[t].op = "STORE" BY DEF PrepareStores
<1>3. a \in DOMAIN attempts BY <1>2 DEF RowsInv, WorkOK, WorkNamesRows, Preparing
<1>4. target \in Targets BY <1>3 DEF RowsInv, TypeOK, RowsOK, AttemptRows
<1>5. RolesOf[target] \in Seq(STRING) BY <1>4, DeterminationAssumption
<1>6. CASE UNCHANGED sources BY <1>1, <1>6 DEF RecordsChange
<1>7. CASE /\ RoleIsLeft(target, work[t].next) /\ SourceIsNew(a, r)
           /\ sources' = Insert(sources, <<a, r>>, work[t].shown[r])
  <2>0. work[t].next \in DOMAIN RolesOf[target] BY <1>7 DEF RoleIsLeft
  <2>1. r \in STRING /\ r \in RoleSet(target)
    <3> HIDE DEF target
    <3>1. r \in STRING BY <1>5, <2>0
    <3>2. r \in RoleSet(target) BY <2>0 DEF RoleSet, Elements
    <3> QED BY <3>1, <3>2
  <2>2. StoresSource(t, r) BY <1>2, <1>7, <2>1 DEF StoresSource
  <2> QED BY <1>1, <2>1, <2>2 DEF RecordsChange
<1> QED BY <1>6, <1>7 DEF PrepareStores

LEMMA EvaluationFinds ==
    ASSUME RowsInv, NEW t \in Threads, EvaluateInserts(t)
    PROVE  UNCHANGED findings \/ \E k, c : MachineFinds(k, c)
<1> DEFINE k == work[t].context
           criteria == MachineCriteria[TargetOf(k)]
           c == criteria[work[t].next]
<1>1. k \in DOMAIN contexts BY DEF EvaluateInserts, RowsInv, WorkOK, WorkNamesRows
<1>2. CASE /\ work[t].next \in DOMAIN criteria
           /\ ~ JudgementFails(k, c) /\ FindingAdmitted(k, c)
           /\ findings' = Insert(findings, <<k, c>>, Judge(k, c))
  <2>1. c \in MachineSet(TargetOf(k)) BY <1>2 DEF MachineSet, Elements
  <2> QED BY <1>1, <1>2, <2>1 DEF MachineFinds
<1> QED BY <1>2 DEF EvaluateInserts

LEMMA EvaluationChanges ==
    ASSUME RowsInv, NEW t \in Threads, EvaluateInserts(t)
    PROVE  RecordsChange
<1>1. UNCHANGED <<sources, contexts, proposals, finalisations>> BY DEF EvaluateInserts
<1> QED BY <1>1, EvaluationFinds DEF RecordsChange

LEMMA RecordsDoChange ==
    ASSUME RowsInv, [DeterminationNext]_determinationVars
    PROVE  RecordsChange
<1>1. UNCHANGED records => RecordsChange BY DEF records, RecordsChange
<1>2. CASE UNCHANGED determinationVars BY <1>1, <1>2 DEF determinationVars
<1>3. CASE ValidationStep BY <1>1, <1>3 DEF ValidationStep
<1>4. CASE DeterminationCrash BY <1>1, <1>4 DEF DeterminationCrash
<1>5. ASSUME NEW t \in Threads, DeterminationStep(t) PROVE RecordsChange
  <2>1. ASSUME NEW a, NEW e, NEW shown, PrepareProduces(t, a, e, shown) PROVE UNCHANGED records
    BY <2>1 DEF PrepareProduces
  <2>2. ASSUME NEW k, EvaluateReads(t, k) \/ DetermineReads(t, k) PROVE UNCHANGED records
    BY <2>2 DEF EvaluateReads, DetermineReads
  <2>3. CASE BindsExecution(t) \/ DetermineCommits(t)
    BY <1>1, <2>3 DEF BindsExecution, DetermineCommits
  <2>4. ASSUME NEW k, FreezeInserts(t, k) PROVE RecordsChange
    BY <2>4 DEF FreezeInserts, RecordsChange
  <2> QED BY <1>1, <1>5, <2>1, <2>2, <2>3, <2>4, StoresChange, EvaluationChanges
          DEF DeterminationStep
<1>6. ASSUME NEW k \in DOMAIN contexts, NEW c \in ReviewCriteria[TargetOf(k)],
             NEW actor \in DOMAIN ActorRole, NEW judgement \in Judgements,
             ProposeReview(k, c, actor, judgement)
      PROVE  RecordsChange
  BY <1>6 DEF ProposeReview, RecordsChange
<1>7. ASSUME NEW k \in DOMAIN contexts, NEW c \in ReviewCriteria[TargetOf(k)],
             NEW actor \in DOMAIN ActorRole, NEW judgement \in Judgements,
             FinaliseReview(k, c, actor, judgement)
      PROVE  RecordsChange
  <2>1. UNCHANGED <<sources, contexts, proposals>> BY <1>7 DEF FinaliseReview
  <2>2. ReviewFinds(k, c) BY <1>7 DEF ReviewFinds
  <2> QED BY <2>1, <2>2 DEF RecordsChange
<1> QED BY <1>2, <1>3, <1>4, <1>5, <1>6, <1>7 DEF DeterminationNext

RecordsExtended ==
    /\ Extended(sources, sources') /\ Extended(contexts, contexts')
    /\ Extended(findings, findings') /\ Extended(proposals, proposals')
    /\ Extended(finalisations, finalisations')

LEMMA RecordsExtend ==
    ASSUME RecordsChange PROVE RecordsExtended
<1>1. Extended(sources, sources')
  <2>1. ASSUME NEW t \in Threads, NEW r \in STRING, StoresSource(t, r)
        PROVE  Extended(sources, sources')
    BY <2>1, InsertExtends DEF StoresSource, SourceIsNew
  <2> QED BY <2>1, SameExtends DEF RecordsChange
<1>2. Extended(contexts, contexts') /\ Extended(proposals, proposals')
  BY InsertExtends, SameExtends DEF RecordsChange
<1>3. ASSUME NEW k, NEW c, MachineFinds(k, c) PROVE Extended(findings, findings')
  BY <1>3, InsertExtends DEF MachineFinds, FindingAdmitted
<1>4. ASSUME NEW k, NEW c, ReviewFinds(k, c)
      PROVE  Extended(findings, findings') /\ Extended(finalisations, finalisations')
  BY <1>4, InsertExtends DEF ReviewFinds, FinaliseReview, FindingAdmitted
<1>5. Extended(findings, findings') /\ Extended(finalisations, finalisations')
  BY <1>3, <1>4, SameExtends DEF RecordsChange
<1> QED BY <1>1, <1>2, <1>5 DEF RecordsExtended

LEMMA TargetKept ==
    ASSUME RowsInv, Grows, NEW k \in DOMAIN contexts
    PROVE  /\ k \in DOMAIN contexts' /\ contexts'[k] = contexts[k]
           /\ TargetOf(k)' = TargetOf(k)
<1>1. contexts[k] \in DOMAIN attempts BY DEF RowsInv, DeterminationRowsOK
<1> QED BY <1>1 DEF Grows, TargetOf

\* What the frozen sources show of a criterion stays, and so does its judgement.
LEMMA JudgementKept ==
    ASSUME RowsInv, Grows, RecordsExtended, NEW k \in DOMAIN contexts, NEW c
    PROVE  Judge(k, c)' = Judge(k, c) /\ JudgementFails(k, c)' = JudgementFails(k, c)
<1>1. contexts'[k] = contexts[k] /\ TargetOf(k)' = TargetOf(k) BY TargetKept
<1>2. \A r \in RoleSet(TargetOf(k)) : <<contexts[k], r>> \in DOMAIN sources
  BY DEF RowsInv, DeterminationRowsOK
<1>3. \A r \in RoleSet(TargetOf(k)) : sources'[<<contexts[k], r>>] = sources[<<contexts[k], r>>]
  BY <1>2 DEF RecordsExtended, Extended
<1>4. Candidates(k, c)' = Candidates(k, c) BY <1>1, <1>3 DEF Candidates
<1>5. \A r \in Candidates(k, c) : r \in RoleSet(TargetOf(k)) BY DEF Candidates
<1>6. \A r \in Candidates(k, c) :
          sources'[<<contexts'[k], r>>][c] = sources[<<contexts[k], r>>][c]
  BY <1>1, <1>3, <1>5
<1>7. Judge(k, c)' = Judge(k, c) BY <1>4, <1>6 DEF Judge
<1>8. JudgementFails(k, c)' = JudgementFails(k, c) BY <1>4, <1>6 DEF JudgementFails
<1> QED BY <1>7, <1>8

-----------------------------------------------------------------------------
(* What findings and sources are.                                          *)

\* A source belongs to an attempt and shows something of each criterion.
SourcesShow ==
    \A key \in DOMAIN sources :
        \E a \in DOMAIN attempts, r \in STRING :
            /\ key = <<a, r>>
            /\ \A c \in MachineSet(attempts[a].target) : sources[key][c] \in Shown

\* So does what a preparation is about to store.
PreparationsShow ==
    \A t \in Threads : work[t].op = "STORE" =>
        LET target == attempts[work[t].attempt].target IN
        \A r \in RoleSet(target), c \in MachineSet(target) : work[t].shown[r][c] \in Shown

FoundByMachine(k, c) ==
    /\ c \in MachineSet(TargetOf(k))
    /\ findings[<<k, c>>] = Judge(k, c) /\ ~ JudgementFails(k, c)

FoundByReview(k, c) ==
    /\ c \in ReviewCriteria[TargetOf(k)]
    /\ findings[<<k, c>>] \in Judgements
    /\ <<k, c>> \in DOMAIN finalisations /\ <<k, c>> \in DOMAIN proposals
    /\ finalisations[<<k, c>>].finding = findings[<<k, c>>]
    /\ finalisations[<<k, c>>].actor # proposals[<<k, c>>].actor

FindingsRest ==
    \A k \in DOMAIN contexts, c \in STRING :
        <<k, c>> \in DOMAIN findings => FoundByMachine(k, c) \/ FoundByReview(k, c)

LEMMA SourcesShowKept ==
    ASSUME RowsInv, Grows, RecordsChange, SourcesShow, PreparationsShow
    PROVE  SourcesShow'
<1>1. ASSUME NEW key \in DOMAIN sources, sources'[key] = sources[key]
      PROVE  \E a \in DOMAIN attempts', r \in STRING :
                 /\ key = <<a, r>>
                 /\ \A c \in MachineSet(attempts'[a].target) : sources'[key][c] \in Shown
  <2>1. PICK a \in DOMAIN attempts, r \in STRING :
            /\ key = <<a, r>>
            /\ \A c \in MachineSet(attempts[a].target) : sources[key][c] \in Shown
    BY DEF SourcesShow
  <2>2. a \in DOMAIN attempts' /\ attempts'[a].target = attempts[a].target
    BY DEF Grows
  <2> QED BY <1>1, <2>1, <2>2
<1>2. CASE UNCHANGED sources BY <1>1, <1>2 DEF SourcesShow
<1>3. ASSUME NEW t \in Threads, NEW r \in STRING, StoresSource(t, r)
      PROVE  SourcesShow'
  <2>1. work[t].op = "STORE" BY <1>3 DEF StoresSource
  <2>2. work[t].attempt \in DOMAIN attempts
    BY <2>1 DEF RowsInv, WorkOK, WorkNamesRows, Preparing
  <2>3. PICK a \in DOMAIN attempts : a = work[t].attempt BY <2>2
  <2>4. PICK shown : shown = work[t].shown[r] OBVIOUS
  <2>5. r \in RoleSet(attempts[a].target) /\ <<a, r>> \notin DOMAIN sources
        /\ sources' = Insert(sources, <<a, r>>, shown)
    BY <1>3, <2>3, <2>4 DEF StoresSource, SourceIsNew
  <2>6. \A c \in MachineSet(attempts[a].target) : shown[c] \in Shown
    BY <2>1, <2>3, <2>4, <2>5 DEF PreparationsShow
  <2>7. a \in DOMAIN attempts' /\ attempts'[a].target = attempts[a].target
    BY DEF Grows
  <2>8. DOMAIN sources' = DOMAIN sources \cup {<<a, r>>} /\ sources'[<<a, r>>] = shown
        /\ \A key \in DOMAIN sources : sources'[key] = sources[key]
    BY <2>5 DEF Insert
  <2>9. ASSUME NEW key \in DOMAIN sources'
        PROVE  \E b \in DOMAIN attempts', s \in STRING :
                   /\ key = <<b, s>>
                   /\ \A c \in MachineSet(attempts'[b].target) : sources'[key][c] \in Shown
    <3>1. CASE key \in DOMAIN sources BY <1>1, <2>8, <3>1
    <3>2. CASE key = <<a, r>> BY <2>6, <2>7, <2>8, <3>2
    <3> QED BY <2>8, <3>1, <3>2
  <2> QED BY <2>9 DEF SourcesShow
<1> QED BY <1>2, <1>3 DEF RecordsChange

LEMMA FindingKept ==
    ASSUME RowsInv, Grows, RecordsExtended, NEW k \in DOMAIN contexts, NEW c,
           <<k, c>> \in DOMAIN findings, FoundByMachine(k, c) \/ FoundByReview(k, c)
    PROVE  (FoundByMachine(k, c) \/ FoundByReview(k, c))'
<1>1. TargetOf(k)' = TargetOf(k) BY TargetKept
<1>2. Judge(k, c)' = Judge(k, c) /\ JudgementFails(k, c)' = JudgementFails(k, c)
  BY JudgementKept
<1>3. findings'[<<k, c>>] = findings[<<k, c>>] BY DEF RecordsExtended, Extended
<1>4. CASE FoundByMachine(k, c) BY <1>1, <1>2, <1>3, <1>4 DEF FoundByMachine
<1>5. CASE FoundByReview(k, c)
  <2>1. <<k, c>> \in DOMAIN finalisations' /\ finalisations'[<<k, c>>] = finalisations[<<k, c>>]
    BY <1>5 DEF FoundByReview, RecordsExtended, Extended
  <2>2. <<k, c>> \in DOMAIN proposals' /\ proposals'[<<k, c>>] = proposals[<<k, c>>]
    BY <1>5 DEF FoundByReview, RecordsExtended, Extended
  <2> QED BY <1>1, <1>3, <1>5, <2>1, <2>2 DEF FoundByReview
<1> QED BY <1>4, <1>5

\* The findings there are after a step: those there were, and the one it adds.
NewFinding(k, c) ==
    /\ k \in DOMAIN contexts
    /\ FindingAdmitted(k, c) /\ c \in CriteriaOf(TargetOf(k))
    /\ DOMAIN findings' = DOMAIN findings \cup {<<k, c>>}
    /\ (FoundByMachine(k, c) \/ FoundByReview(k, c))'

LEMMA FindingsChange ==
    ASSUME RowsInv, Grows, RecordsChange
    PROVE  UNCHANGED findings \/ \E k, c : NewFinding(k, c)
<1>0. RecordsExtended BY RecordsExtend
<1>1. ASSUME NEW k, NEW c, MachineFinds(k, c) PROVE NewFinding(k, c)
  <2>1. k \in DOMAIN contexts /\ c \in MachineSet(TargetOf(k)) /\ FindingAdmitted(k, c)
        /\ ~ JudgementFails(k, c)
    BY <1>1 DEF MachineFinds
  <2>2. DOMAIN findings' = DOMAIN findings \cup {<<k, c>>} /\ findings'[<<k, c>>] = Judge(k, c)
    BY <1>1 DEF MachineFinds, Insert
  <2>3. Judge(k, c)' = Judge(k, c) /\ JudgementFails(k, c)' = JudgementFails(k, c)
    BY <1>0, <2>1, JudgementKept
  <2>4. TargetOf(k)' = TargetOf(k) BY <2>1, TargetKept
  <2>5. FoundByMachine(k, c)' BY <2>1, <2>2, <2>3, <2>4 DEF FoundByMachine
  <2> QED BY <2>1, <2>2, <2>5 DEF NewFinding, CriteriaOf
<1>2. ASSUME NEW k, NEW c, ReviewFinds(k, c) PROVE NewFinding(k, c)
  <2>1. PICK actor \in DOMAIN ActorRole, judgement \in Judgements :
            FinaliseReview(k, c, actor, judgement)
    BY <1>2 DEF ReviewFinds
  <2>2. k \in DOMAIN contexts /\ c \in ReviewCriteria[TargetOf(k)] /\ FindingAdmitted(k, c)
    BY <1>2, <2>1 DEF ReviewFinds, FinaliseReview
  <2>3. <<k, c>> \in DOMAIN proposals /\ actor # proposals[<<k, c>>].actor
        /\ UNCHANGED proposals
    BY <2>1 DEF FinaliseReview, MayFinaliseReview
  <2>4. DOMAIN findings' = DOMAIN findings \cup {<<k, c>>} /\ findings'[<<k, c>>] = judgement
    BY <2>1 DEF FinaliseReview, Insert
  <2>5. <<k, c>> \in DOMAIN finalisations' /\ finalisations'[<<k, c>>].finding = judgement
        /\ finalisations'[<<k, c>>].actor = actor
    BY <2>1 DEF FinaliseReview, Insert
  <2>6. TargetOf(k)' = TargetOf(k) BY <2>2, TargetKept
  <2>7. FoundByReview(k, c)' BY <2>2, <2>3, <2>4, <2>5, <2>6 DEF FoundByReview
  <2> QED BY <2>2, <2>4, <2>7 DEF NewFinding, CriteriaOf
<1> QED BY <1>1, <1>2 DEF RecordsChange

LEMMA FindingsRestKept ==
    ASSUME RowsInv, Grows, RecordsChange, FindingsRest
    PROVE  FindingsRest'
<1>0. RecordsExtended BY RecordsExtend
<1> SUFFICES ASSUME NEW k \in DOMAIN contexts', NEW c \in STRING, <<k, c>> \in DOMAIN findings'
             PROVE  (FoundByMachine(k, c) \/ FoundByReview(k, c))'
  BY DEF FindingsRest
<1>1. CASE <<k, c>> \in DOMAIN findings
  <2>1. k \in DOMAIN contexts BY <1>1 DEF RowsInv, DeterminationRowsOK
  <2> QED BY <1>0, <1>1, <2>1, FindingKept DEF FindingsRest
<1>2. CASE <<k, c>> \notin DOMAIN findings
  <2>1. PICK l, d : NewFinding(l, d) BY <1>2, FindingsChange
  <2>2. <<k, c>> = <<l, d>> BY <1>2, <2>1 DEF NewFinding
  <2>3. k = l /\ c = d BY <2>2
  <2>4. NewFinding(k, c) BY <2>1, <2>3
  <2> QED BY <2>4 DEF NewFinding
<1> QED BY <1>1, <1>2

-----------------------------------------------------------------------------
(* Verdicts.                                                               *)

\* A verdict on context k that its findings bear out.
Supported(k, verdict) == IsDeterminate(k) /\ verdict = VerdictOf(k)

\* What a determination has read.
ReadingsSupported ==
    \A t \in Threads : work[t].op = "DETERMINE" => Supported(work[t].context, work[t].verdict)

ResultsSupported ==
    \A a \in DOMAIN determined :
        /\ determined[a].context \in DOMAIN contexts
        /\ contexts[determined[a].context] = a
        /\ Supported(determined[a].context, determined[a].verdict)

\* Once there is a finding on every criterion there is none to come.
LEMMA DeterminateIsComplete ==
    ASSUME RowsInv, Grows, RecordsChange, NEW k \in DOMAIN contexts, IsDeterminate(k)
    PROVE  \A key : key[1] = k =>
               /\ key \in DOMAIN findings' <=> key \in DOMAIN findings
               /\ key \in DOMAIN findings => findings'[key] = findings[key]
<1>0. RecordsExtended BY RecordsExtend
<1>1. CASE UNCHANGED findings BY <1>1
<1>2. ASSUME NEW l, NEW c, NewFinding(l, c) PROVE l # k
  BY <1>2 DEF NewFinding, FindingAdmitted, IsDeterminate
<1>3. ASSUME NEW l, NEW c, NewFinding(l, c), NEW key, key[1] = k
      PROVE  key \in DOMAIN findings' <=> key \in DOMAIN findings
  BY <1>2, <1>3 DEF NewFinding, RecordsExtended, Extended
<1> QED BY <1>0, <1>1, <1>3, FindingsChange DEF RecordsExtended, Extended

LEMMA SupportKept ==
    ASSUME RowsInv, Grows, RecordsChange, NEW k \in DOMAIN contexts, NEW verdict,
           Supported(k, verdict)
    PROVE  Supported(k, verdict)'
<1>1. IsDeterminate(k) /\ verdict = VerdictOf(k) BY DEF Supported
<1>2. \A key : key[1] = k =>
          /\ key \in DOMAIN findings' <=> key \in DOMAIN findings
          /\ key \in DOMAIN findings => findings'[key] = findings[key]
  BY <1>1, DeterminateIsComplete
<1>3. TargetOf(k)' = TargetOf(k) BY TargetKept
<1>4. \A c : <<k, c>>[1] = k OBVIOUS
<1>5. \A c : /\ <<k, c>> \in DOMAIN findings' <=> <<k, c>> \in DOMAIN findings
             /\ <<k, c>> \in DOMAIN findings => findings'[<<k, c>>] = findings[<<k, c>>]
  BY <1>2, <1>4
<1>6. IsDeterminate(k)' BY <1>1, <1>3, <1>5 DEF IsDeterminate
<1>7. (\E f \in DOMAIN findings' : f[1] = k /\ findings'[f] = "NOT_SATISFIED")
      <=> (\E f \in DOMAIN findings : f[1] = k /\ findings[f] = "NOT_SATISFIED")
  BY <1>2
<1>8. VerdictOf(k)' = VerdictOf(k) BY <1>7 DEF VerdictOf
<1> QED BY <1>1, <1>6, <1>8 DEF Supported

-----------------------------------------------------------------------------
(* What the calls under way have read.                                     *)

\* How the call of one thread goes on.
WorkChanges(t) ==
    \/ work'[t] = work[t]
    \/ work'[t].op \notin {"STORE", "DETERMINE"}
    \/ \E a \in DOMAIN attempts :
          \E shown \in [RoleSet(attempts[a].target) -> [MachineSet(attempts[a].target) -> Shown]] :
           work'[t].op = "STORE" /\ work'[t].attempt = a /\ work'[t].shown = shown
    \/ /\ work[t].op = "STORE" /\ work'[t].op = "STORE"
       /\ work'[t].attempt = work[t].attempt /\ work'[t].shown = work[t].shown
    \/ \E k \in DOMAIN contexts :
           /\ IsDeterminate(k)
           /\ work'[t].op = "DETERMINE" /\ work'[t].context = k /\ work'[t].verdict = VerdictOf(k)
           /\ UNCHANGED <<vars, records>>

LEMMA OthersWork ==
    ASSUME RowsInv, NEW t \in Threads, NEW call, Go(t, call)
    PROVE  work'[t] = call /\ \A u \in Threads : u # t => work'[u] = work[u]
BY DEF RowsInv, WorkOK, Go

LEMMA EndedWork ==
    ASSUME RowsInv, NEW t \in Threads, End(t), NEW u \in Threads
    PROVE  WorkChanges(u)
<1>1. Go(t, Idle) /\ Idle.op = "IDLE" BY DEF End, Idle
<1>2. work'[t] = Idle /\ \A v \in Threads : v # t => work'[v] = work[v]
  BY <1>1, OthersWork
<1> QED BY <1>1, <1>2 DEF WorkChanges

LEMMA GoneWork ==
    ASSUME RowsInv, NEW t \in Threads, NEW call, Go(t, call), NEW u \in Threads,
           work'[t] = call => WorkChanges(t)
    PROVE  WorkChanges(u)
<1>1. work'[t] = call /\ \A v \in Threads : v # t => work'[v] = work[v]
  BY OthersWork
<1> QED BY <1>1 DEF WorkChanges

LEMMA StoringWork ==
    ASSUME RowsInv, NEW t \in Threads, PrepareStores(t), NEW u \in Threads
    PROVE  WorkChanges(u)
<1> DEFINE call == work[t]
           a == call.attempt
           target == attempts[a].target
           next == [call EXCEPT !.next = @ + 1]
           bind == [op |-> "BIND", attempt |-> a, execution |-> call.execution]
<1>1. call.op = "STORE" BY DEF PrepareStores
<1>2. call = [op |-> "STORE", attempt |-> a, execution |-> call.execution,
              shown |-> call.shown, next |-> call.next]
  BY <1>1 DEF RowsInv, WorkOK, WorkNamesRows
<1>3. CASE Go(t, next)
  <2>1. next.op = "STORE" /\ next.attempt = a /\ next.shown = call.shown BY <1>2
  <2>2. work'[t] = next => WorkChanges(t) BY <1>1, <2>1 DEF WorkChanges
  <2> HIDE DEF next
  <2> QED BY <1>3, <2>2, GoneWork
<1>4. CASE Go(t, bind)
  <2>1. bind.op = "BIND" OBVIOUS
  <2>2. work'[t] = bind => WorkChanges(t) BY <2>1 DEF WorkChanges
  <2> HIDE DEF bind
  <2> QED BY <1>4, <2>2, GoneWork
<1>5. CASE End(t) BY <1>5, EndedWork
<1>6. Go(t, next) \/ Go(t, bind) \/ End(t) BY DEF PrepareStores
<1> QED BY <1>3, <1>4, <1>5, <1>6

LEMMA EvaluatingWork ==
    ASSUME RowsInv, NEW t \in Threads, EvaluateInserts(t), NEW u \in Threads
    PROVE  WorkChanges(u)
<1> DEFINE call == work[t]
           next == [call EXCEPT !.next = @ + 1]
<1>1. call.op = "EVALUATE" BY DEF EvaluateInserts
<1>2. call = [op |-> "EVALUATE", context |-> call.context, next |-> call.next,
              existing |-> call.existing]
  BY <1>1 DEF RowsInv, WorkOK, WorkNamesRows
<1>3. CASE Go(t, next)
  <2>1. next.op = "EVALUATE" BY <1>2
  <2>2. work'[t] = next => WorkChanges(t) BY <2>1 DEF WorkChanges
  <2> HIDE DEF next
  <2> QED BY <1>3, <2>2, GoneWork
<1>4. CASE End(t) BY <1>4, EndedWork
<1>5. Go(t, next) \/ End(t) BY DEF EvaluateInserts
<1> QED BY <1>3, <1>4, <1>5

LEMMA BindingWork ==
    ASSUME RowsInv, NEW t \in Threads, BindsExecution(t), NEW u \in Threads
    PROVE  WorkChanges(u)
<1> DEFINE freeze == [op |-> "FREEZE", attempt |-> work[t].attempt]
<1>1. Go(t, freeze) \/ End(t) BY DEF BindsExecution
<1>2. CASE Go(t, freeze)
  <2>1. freeze.op = "FREEZE" OBVIOUS
  <2>2. work'[t] = freeze => WorkChanges(t) BY <2>1 DEF WorkChanges
  <2> HIDE DEF freeze
  <2> QED BY <1>2, <2>2, GoneWork
<1> QED BY <1>1, <1>2, EndedWork

LEMMA ReadingWork ==
    ASSUME RowsInv, NEW t \in Threads, NEW k, EvaluateReads(t, k) \/ DetermineReads(t, k),
           NEW u \in Threads
    PROVE  WorkChanges(u)
<1>1. CASE EvaluateReads(t, k)
  <2>1. PICK existing : Go(t, [op |-> "EVALUATE", context |-> k, next |-> 1,
                               existing |-> existing])
    BY <1>1 DEF EvaluateReads
  <2> DEFINE call == [op |-> "EVALUATE", context |-> k, next |-> 1, existing |-> existing]
  <2>2. Go(t, call) /\ call.op = "EVALUATE" BY <2>1
  <2>3. work'[t] = call => WorkChanges(t) BY <2>2 DEF WorkChanges
  <2> HIDE DEF call
  <2> QED BY <2>2, <2>3, GoneWork
<1>2. CASE DetermineReads(t, k)
  <2>1. k \in DOMAIN contexts /\ IsDeterminate(k) /\ UNCHANGED <<vars, records>>
    BY <1>2 DEF DetermineReads
  <2>2. PICK cited : Go(t, [op |-> "DETERMINE", context |-> k, verdict |-> VerdictOf(k),
                            evidence |-> cited])
    BY <1>2 DEF DetermineReads
  <2> DEFINE call == [op |-> "DETERMINE", context |-> k, verdict |-> VerdictOf(k),
                      evidence |-> cited]
  <2>3. Go(t, call) /\ call.op = "DETERMINE" /\ call.context = k /\ call.verdict = VerdictOf(k)
    BY <2>2
  <2> HIDE DEF call
  <2>4. work'[t] = call => WorkChanges(t) BY <2>1, <2>3 DEF WorkChanges
  <2> QED BY <2>3, <2>4, GoneWork
<1> QED BY <1>1, <1>2

LEMMA ProducingWork ==
    ASSUME RowsInv, NEW t \in Threads, NEW a \in DOMAIN attempts, NEW e,
           NEW shown \in [RoleSet(attempts[a].target) -> [MachineSet(attempts[a].target) -> Shown]],
           PrepareProduces(t, a, e, shown), NEW u \in Threads
    PROVE  WorkChanges(u)
<1> DEFINE call == [op |-> "STORE", attempt |-> a, execution |-> e, shown |-> shown, next |-> 1]
<1>1. Go(t, call) BY DEF PrepareProduces
<1>2. call.op = "STORE" /\ call.attempt = a /\ call.shown = shown OBVIOUS
<1> HIDE DEF call
<1>3. work'[t] = call => WorkChanges(t) BY <1>2 DEF WorkChanges
<1> QED BY <1>1, <1>3, GoneWork

LEMMA WorkDoesChange ==
    ASSUME RowsInv, [DeterminationNext]_determinationVars, NEW u \in Threads
    PROVE  WorkChanges(u)
<1>1. CASE UNCHANGED work BY <1>1 DEF WorkChanges
<1>2. ASSUME NEW t \in Threads, NEW k, FreezeInserts(t, k) PROVE WorkChanges(u)
  BY <1>2, EndedWork DEF FreezeInserts
<1>3. ASSUME NEW t \in Threads, DetermineCommits(t) PROVE WorkChanges(u)
  BY <1>3, EndedWork DEF DetermineCommits
<1>4. ASSUME NEW t \in Threads, DeterminationStep(t) PROVE WorkChanges(u)
  BY <1>2, <1>3, <1>4, ProducingWork, StoringWork, BindingWork, EvaluatingWork, ReadingWork
     DEF DeterminationStep
<1>5. CASE DeterminationCrash
  <2>1. work'[u] = Idle /\ Idle.op = "IDLE" BY <1>5 DEF DeterminationCrash, Idle
  <2> QED BY <2>1 DEF WorkChanges
<1>6. CASE ValidationStep BY <1>1, <1>6 DEF ValidationStep
<1>7. ASSUME NEW k, NEW c, NEW actor, NEW judgement,
             ProposeReview(k, c, actor, judgement) \/ FinaliseReview(k, c, actor, judgement)
      PROVE  UNCHANGED work
  BY <1>7 DEF ProposeReview, FinaliseReview
<1>8. UNCHANGED determinationVars => UNCHANGED work BY DEF determinationVars
<1> QED BY <1>1, <1>4, <1>5, <1>6, <1>7, <1>8 DEF DeterminationNext

LEMMA PreparationsShowKept ==
    ASSUME RowsInv, Grows, PreparationsShow, \A u \in Threads : WorkChanges(u)
    PROVE  PreparationsShow'
<1> SUFFICES ASSUME NEW t \in Threads, work'[t].op = "STORE"
             PROVE  \A r \in RoleSet(attempts'[work'[t].attempt].target),
                       c \in MachineSet(attempts'[work'[t].attempt].target) :
                        work'[t].shown[r][c] \in Shown
  BY DEF PreparationsShow
<1>0. WorkChanges(t) OBVIOUS
<1>1. CASE work[t].op = "STORE" /\ work'[t].attempt = work[t].attempt
           /\ work'[t].shown = work[t].shown
  <2>1. work[t].attempt \in DOMAIN attempts
    BY <1>1 DEF RowsInv, WorkOK, WorkNamesRows, Preparing
  <2>2. attempts'[work[t].attempt].target = attempts[work[t].attempt].target
    BY <2>1 DEF Grows
  <2> QED BY <1>1, <2>2 DEF PreparationsShow
<1>2. ASSUME NEW a \in DOMAIN attempts,
             NEW shown \in [RoleSet(attempts[a].target) -> [MachineSet(attempts[a].target) -> Shown]],
             work'[t].attempt = a, work'[t].shown = shown
      PROVE  \A r \in RoleSet(attempts'[work'[t].attempt].target),
                c \in MachineSet(attempts'[work'[t].attempt].target) :
                 work'[t].shown[r][c] \in Shown
  <2>1. attempts'[a].target = attempts[a].target BY DEF Grows
  <2> QED BY <1>2, <2>1
<1> QED BY <1>0, <1>1, <1>2 DEF WorkChanges

LEMMA ReadingsSupportedKept ==
    ASSUME RowsInv, Grows, RecordsChange, ReadingsSupported, \A u \in Threads : WorkChanges(u)
    PROVE  ReadingsSupported'
<1> SUFFICES ASSUME NEW t \in Threads, work'[t].op = "DETERMINE"
             PROVE  Supported(work[t].context, work[t].verdict)'
  BY DEF ReadingsSupported
<1>1. PICK k, verdict : k = work'[t].context /\ verdict = work'[t].verdict OBVIOUS
<1>2. CASE work'[t] = work[t]
  <2>1. k \in DOMAIN contexts BY <1>1, <1>2 DEF RowsInv, WorkOK, WorkNamesRows
  <2>2. Supported(k, verdict) BY <1>1, <1>2 DEF ReadingsSupported
  <2>3. Supported(k, verdict)' BY <2>1, <2>2, SupportKept
  <2> QED BY <1>1, <2>3
<1>3. CASE k \in DOMAIN contexts /\ IsDeterminate(k) /\ verdict = VerdictOf(k)
  <2>1. Supported(k, verdict)' BY <1>3, SupportKept DEF Supported
  <2> QED BY <1>1, <2>1
<1> QED BY <1>1, <1>2, <1>3 DEF WorkChanges

-----------------------------------------------------------------------------
(* Results rest on findings.                                               *)

FindingsInv ==
    /\ SourcesShow /\ PreparationsShow /\ FindingsRest
    /\ ReadingsSupported /\ ResultsSupported

LEMMA DeterminedChange ==
    ASSUME RowsInv, [DeterminationNext]_determinationVars
    PROVE  \/ UNCHANGED determined
           \/ \E t \in Threads, a \in DOMAIN attempts :
                  DetermineCommits(t) /\ Determines(t, a)
<1>1. UNCHANGED determinationVars => UNCHANGED determined BY DEF determinationVars
<1>2. ASSUME NEW t \in Threads, BindsExecution(t) PROVE UNCHANGED determined
  BY <1>2 DEF BindsExecution
<1>3. ASSUME NEW t \in Threads, DetermineCommits(t)
      PROVE  UNCHANGED determined \/ \E a \in DOMAIN attempts : Determines(t, a)
  BY <1>3, DetermineCases
<1> QED BY <1>1, <1>2, <1>3, OthersDecideNothing DEF RowsInv

LEMMA ResultsSupportedKept ==
    ASSUME RowsInv, Grows, RecordsChange, ReadingsSupported, ResultsSupported,
           [DeterminationNext]_determinationVars
    PROVE  ResultsSupported'
<1>1. ASSUME NEW a \in DOMAIN determined, determined'[a] = determined[a]
      PROVE  /\ determined'[a].context \in DOMAIN contexts'
             /\ contexts'[determined'[a].context] = a
             /\ Supported(determined[a].context, determined[a].verdict)'
  <2>1. PICK k, verdict : k = determined[a].context /\ verdict = determined[a].verdict OBVIOUS
  <2>2. k \in DOMAIN contexts /\ contexts[k] = a /\ Supported(k, verdict)
    BY <2>1 DEF ResultsSupported
  <2>3. k \in DOMAIN contexts' /\ contexts'[k] = a BY <2>2, TargetKept
  <2>4. Supported(k, verdict)' BY <2>2, SupportKept
  <2> QED BY <1>1, <2>1, <2>3, <2>4
<1>2. CASE UNCHANGED determined BY <1>1, <1>2 DEF ResultsSupported
<1>3. ASSUME NEW t \in Threads, NEW a \in DOMAIN attempts, DetermineCommits(t), Determines(t, a)
      PROVE  ResultsSupported'
  <2>1. PICK k, verdict : k = work[t].context /\ verdict = work[t].verdict OBVIOUS
  <2>2. k \in DOMAIN contexts /\ contexts[k] = a /\ work[t].op = "DETERMINE"
    BY <1>3, <2>1, DetermineCases DEF Determines
  <2>3. Supported(k, verdict) BY <2>1, <2>2 DEF ReadingsSupported
  <2>4. Supported(k, verdict)' BY <2>2, <2>3, SupportKept
  <2>5. k \in DOMAIN contexts' /\ contexts'[k] = a BY <2>2, TargetKept
  <2>6. a \notin DOMAIN determined
    BY <1>3, <2>1, <2>2 DEF Determines, DeterminationAdmitted
  <2>7. DOMAIN determined' = DOMAIN determined \cup {a}
        /\ determined'[a].context = k /\ determined'[a].verdict = verdict
        /\ \A b \in DOMAIN determined : determined'[b] = determined[b]
    BY <1>3, <2>1, <2>6 DEF Determines, Insert
  <2>8. Supported(determined[a].context, determined[a].verdict)' BY <2>4, <2>7
  <2> QED BY <1>1, <2>5, <2>7, <2>8 DEF ResultsSupported
<1> QED BY <1>2, <1>3, DeterminedChange

LEMMA FindingsInvKept ==
    ASSUME RowsInv, FindingsInv, [DeterminationNext]_determinationVars
    PROVE  FindingsInv'
<1>1. Grows BY StepGrows
<1>2. RecordsChange BY RecordsDoChange
<1>3. \A u \in Threads : WorkChanges(u) BY WorkDoesChange
<1>4. SourcesShow' BY <1>1, <1>2, SourcesShowKept DEF FindingsInv
<1>5. PreparationsShow' BY <1>1, <1>3, PreparationsShowKept DEF FindingsInv
<1>6. FindingsRest' BY <1>1, <1>2, FindingsRestKept DEF FindingsInv
<1>7. ReadingsSupported' BY <1>1, <1>2, <1>3, ReadingsSupportedKept DEF FindingsInv
<1>8. ResultsSupported' BY <1>1, <1>2, ResultsSupportedKept DEF FindingsInv
<1> QED BY <1>4, <1>5, <1>6, <1>7, <1>8 DEF FindingsInv

LEMMA FindingsInvInit == DeterminationInit => FindingsInv
<1> SUFFICES ASSUME DeterminationInit PROVE FindingsInv OBVIOUS
<1>1. DOMAIN << >> = {} /\ Idle.op = "IDLE" BY DEF Idle
<1>2. \A t \in Threads : work[t].op = "IDLE" BY <1>1 DEF DeterminationInit
<1>3. SourcesShow /\ ResultsSupported
  BY <1>1 DEF DeterminationInit, SourcesShow, ResultsSupported
<1>4. FindingsRest BY <1>1 DEF DeterminationInit, FindingsRest
<1>5. PreparationsShow /\ ReadingsSupported BY <1>2 DEF PreparationsShow, ReadingsSupported
<1> QED BY <1>3, <1>4, <1>5 DEF FindingsInv

\* An evaluated finding of the machine is what the one source shows that shows
\* its criterion.
LEMMA JudgementShows ==
    ASSUME RowsInv, SourcesShow, NEW k \in DOMAIN contexts, NEW c \in MachineSet(TargetOf(k)),
           Judge(k, c) # "NOT_EVALUATED", ~ JudgementFails(k, c)
    PROVE  /\ Judge(k, c) \in Judgements
           /\ \E r \in RoleSet(TargetOf(k)) :
                  /\ sources[<<contexts[k], r>>][c] =
                         IF Judge(k, c) = "SATISFIED" THEN "AGREES" ELSE "DIFFERS"
                  /\ \A s \in RoleSet(TargetOf(k)) \ {r} :
                         sources[<<contexts[k], s>>][c] = "ABSENT"
<1> DEFINE a == contexts[k]
           shown(r) == sources[<<a, r>>][c]
<1>1. PICK r \in Candidates(k, c) : Candidates(k, c) = {r} BY DEF Judge
<1>2. r \in RoleSet(TargetOf(k)) /\ shown(r) # "ABSENT" BY <1>1 DEF Candidates
<1>3. \A s \in RoleSet(TargetOf(k)) \ {r} : shown(s) = "ABSENT" BY <1>1 DEF Candidates
<1>4. shown(r) # "UNREADABLE" BY <1>1 DEF JudgementFails
<1>5. shown(r) \in Shown
  <2>1. <<a, r>> \in DOMAIN sources BY <1>2 DEF RowsInv, DeterminationRowsOK
  <2>2. PICK b \in DOMAIN attempts, s \in STRING :
            /\ <<a, r>> = <<b, s>>
            /\ \A d \in MachineSet(attempts[b].target) : sources[<<a, r>>][d] \in Shown
    BY <2>1 DEF SourcesShow
  <2>3. a = b BY <2>2
  <2>4. attempts[a].target = TargetOf(k) BY DEF TargetOf
  <2> QED BY <2>2, <2>3, <2>4
<1>6. shown(r) \in {"AGREES", "DIFFERS"} BY <1>2, <1>4, <1>5 DEF Shown
<1>7. Judge(k, c) = IF shown(r) = "AGREES" THEN "SATISFIED" ELSE "NOT_SATISFIED"
  BY <1>1 DEF Judge
<1>8. CASE shown(r) = "AGREES" BY <1>2, <1>3, <1>7, <1>8 DEF Judgements
<1>9. CASE shown(r) = "DIFFERS" BY <1>2, <1>3, <1>7, <1>9 DEF Judgements
<1> QED BY <1>6, <1>8, <1>9

LEMMA FindingsBear ==
    ASSUME RowsInv, FindingsInv
    PROVE  DeterminationRestsOnFindings
<1> SUFFICES ASSUME NEW a \in DOMAIN determined
             PROVE  LET k == determined[a].context
                        status(c) == findings[<<k, c>>]
                    IN  /\ contexts[k] = a
                        /\ \A c \in CriteriaOf(TargetOf(k)) :
                               <<k, c>> \in DOMAIN findings /\ status(c) \in Judgements
                        /\ determined[a].verdict = "FAIL" <=>
                               \E c \in CriteriaOf(TargetOf(k)) : status(c) = "NOT_SATISFIED"
                        /\ \A c \in MachineSet(TargetOf(k)) : \E r \in RoleSet(TargetOf(k)) :
                               /\ sources[<<a, r>>][c] =
                                    IF status(c) = "SATISFIED" THEN "AGREES" ELSE "DIFFERS"
                               /\ \A s \in RoleSet(TargetOf(k)) \ {r} :
                                    sources[<<a, s>>][c] = "ABSENT"
                        /\ \A c \in ReviewCriteria[TargetOf(k)] :
                               /\ finalisations[<<k, c>>].finding = status(c)
                               /\ finalisations[<<k, c>>].actor # proposals[<<k, c>>].actor
  BY DEF DeterminationRestsOnFindings
<1>1. PICK k : k = determined[a].context OBVIOUS
<1>2. k \in DOMAIN contexts /\ contexts[k] = a /\ IsDeterminate(k)
      /\ determined[a].verdict = VerdictOf(k)
  BY <1>1 DEF FindingsInv, ResultsSupported, Supported
<1>3. CriteriaOf(TargetOf(k)) \subseteq STRING /\ TargetOf(k) \in Targets
  BY <1>2, ContextTarget DEF CriteriaOf, MachineSet, Elements
<1>4. ASSUME NEW c \in CriteriaOf(TargetOf(k))
      PROVE  /\ <<k, c>> \in DOMAIN findings /\ findings[<<k, c>>] # "NOT_EVALUATED"
             /\ FoundByMachine(k, c) \/ FoundByReview(k, c)
  BY <1>2, <1>3 DEF IsDeterminate, FindingsInv, FindingsRest
<1>5. ASSUME NEW c \in MachineSet(TargetOf(k)) PROVE FoundByMachine(k, c)
  BY <1>3, <1>4, KindAssumption DEF CriteriaOf, FoundByReview
<1>6. ASSUME NEW c \in ReviewCriteria[TargetOf(k)] PROVE FoundByReview(k, c)
  BY <1>3, <1>4, KindAssumption DEF CriteriaOf, FoundByMachine
<1>7. ASSUME NEW c \in MachineSet(TargetOf(k))
      PROVE  /\ findings[<<k, c>>] \in Judgements
             /\ \E r \in RoleSet(TargetOf(k)) :
                    /\ sources[<<a, r>>][c] =
                         IF findings[<<k, c>>] = "SATISFIED" THEN "AGREES" ELSE "DIFFERS"
                    /\ \A s \in RoleSet(TargetOf(k)) \ {r} : sources[<<a, s>>][c] = "ABSENT"
  <2>1. findings[<<k, c>>] = Judge(k, c) /\ ~ JudgementFails(k, c) BY <1>5 DEF FoundByMachine
  <2>2. Judge(k, c) # "NOT_EVALUATED" BY <1>4, <2>1 DEF CriteriaOf
  <2>3. SourcesShow BY DEF FindingsInv
  <2>4. /\ Judge(k, c) \in Judgements
        /\ \E r \in RoleSet(TargetOf(k)) :
               /\ sources[<<contexts[k], r>>][c] =
                      IF Judge(k, c) = "SATISFIED" THEN "AGREES" ELSE "DIFFERS"
               /\ \A s \in RoleSet(TargetOf(k)) \ {r} : sources[<<contexts[k], s>>][c] = "ABSENT"
    BY <1>2, <2>1, <2>2, <2>3, JudgementShows
  <2> QED BY <1>2, <2>1, <2>4
<1>8. \A c \in CriteriaOf(TargetOf(k)) :
          <<k, c>> \in DOMAIN findings /\ findings[<<k, c>>] \in Judgements
  BY <1>4, <1>6, <1>7 DEF CriteriaOf, FoundByReview
<1>9. (\E f \in DOMAIN findings : f[1] = k /\ findings[f] = "NOT_SATISFIED")
      <=> \E c \in CriteriaOf(TargetOf(k)) : findings[<<k, c>>] = "NOT_SATISFIED"
  <2>1. ASSUME NEW f \in DOMAIN findings, f[1] = k
        PROVE  f = <<k, f[2]>> /\ f[2] \in CriteriaOf(TargetOf(k))
    <3>1. f \in (DOMAIN contexts) \X STRING BY DEF RowsInv, DeterminationRowsOK
    <3>2. f = <<k, f[2]>> /\ f[2] \in STRING BY <2>1, <3>1
    <3>3. FoundByMachine(k, f[2]) \/ FoundByReview(k, f[2])
      BY <1>2, <3>2 DEF FindingsInv, FindingsRest
    <3> QED BY <3>2, <3>3 DEF FoundByMachine, FoundByReview, CriteriaOf
  <2>2. \A c : <<k, c>>[1] = k OBVIOUS
  <2> QED BY <1>8, <2>1, <2>2
<1>10. determined[a].verdict = "FAIL" <=>
           \E c \in CriteriaOf(TargetOf(k)) : findings[<<k, c>>] = "NOT_SATISFIED"
  BY <1>2, <1>9 DEF VerdictOf
<1>11. \A c \in ReviewCriteria[TargetOf(k)] :
           /\ finalisations[<<k, c>>].finding = findings[<<k, c>>]
           /\ finalisations[<<k, c>>].actor # proposals[<<k, c>>].actor
  BY <1>6 DEF FoundByReview
<1>12. \A c \in MachineSet(TargetOf(k)) : \E r \in RoleSet(TargetOf(k)) :
           /\ sources[<<a, r>>][c] =
                IF findings[<<k, c>>] = "SATISFIED" THEN "AGREES" ELSE "DIFFERS"
           /\ \A s \in RoleSet(TargetOf(k)) \ {r} : sources[<<a, s>>][c] = "ABSENT"
  BY <1>7
<1> QED BY <1>1, <1>2, <1>8, <1>10, <1>11, <1>12

\* A result is computed from findings that were read before its transaction, and
\* yet is the one the stored findings bear out: a complete set of findings cannot
\* grow, each is what the frozen sources show or what two people concluded, and the
\* sources stay.
THEOREM DeterminationsRestOnFindings == DeterminationSpec => []DeterminationRestsOnFindings
<1>1. RowsInv /\ FindingsInv /\ [DeterminationNext]_determinationVars => FindingsInv'
  BY FindingsInvKept
<1>2. RowsInv /\ FindingsInv => DeterminationRestsOnFindings BY FindingsBear
<1> QED BY <1>1, <1>2, RowsInvInit, RowsInvKept, FindingsInvInit, PTL DEF DeterminationSpec

-----------------------------------------------------------------------------
(* Results are final.                                                      *)

\* A determined attempt is EXECUTED, and nothing writes the row of one that is.
LEMMA DeterminedStays ==
    ASSUME RowsInv, OutcomeInv, [DeterminationNext]_determinationVars, NEW a \in DOMAIN determined
    PROVE  a \in DOMAIN determined' /\ determined'[a] = determined[a] /\ attempts'[a] = attempts[a]
<1>1. a \in DOMAIN attempts /\ attempts[a].status = "EXECUTED"
  <2>1. a \in DOMAIN attempts BY DEF RowsInv, DeterminationRowsOK
  <2> QED BY <2>1 DEF OutcomeInv, Outcome
<1>2. CASE [Next]_vars /\ UNCHANGED determined
  <2>1. Evolves(a) BY <1>1, <1>2, AttemptsEvolve DEF RowsInv
  <2>2. Stays(a) BY <1>1, <2>1 DEF Evolves, Enters, Executes, GetsSuspended, OpenStatuses
  <2> QED BY <1>2, <2>2 DEF Stays
<1>3. CASE UNCHANGED <<vars, determined>> BY <1>3 DEF vars, tables
<1>4. ASSUME NEW t \in Threads, BindsExecution(t)
      PROVE  UNCHANGED determined /\ attempts'[a] = attempts[a]
  <2>1. work[t].attempt \in DOMAIN attempts
    BY <1>4 DEF BindsExecution, RowsInv, WorkOK, WorkNamesRows, Preparing
  <2>2. PICK b \in DOMAIN attempts : b = work[t].attempt BY <2>1
  <2>3. PICK row : \/ UNCHANGED attempts
                   \/ attempts[b].status = "NOT_STARTED" /\ attempts' = [attempts EXCEPT ![b] = row]
    BY <1>4, <2>2 DEF BindsExecution
  <2>4. attempts'[a] = attempts[a] BY <1>1, <2>3
  <2> QED BY <1>4, <2>4 DEF BindsExecution
<1>5. ASSUME NEW t \in Threads, NEW b \in DOMAIN attempts, DetermineCommits(t), Determines(t, b)
      PROVE  a \in DOMAIN determined' /\ determined'[a] = determined[a] /\ attempts'[a] = attempts[a]
  <2>1. b \notin DOMAIN determined BY <1>5 DEF Determines, DeterminationAdmitted
  <2>2. PICK row : determined' = Insert(determined, b, row) BY <1>5 DEF Determines
  <2>3. a \in DOMAIN determined' /\ determined'[a] = determined[a] BY <2>1, <2>2 DEF Insert
  <2>4. attempts'[a] = attempts[a] BY <1>1, <1>5, <2>1 DEF Determines
  <2> QED BY <2>3, <2>4
<1>6. ASSUME NEW t \in Threads, DetermineCommits(t)
      PROVE  \/ UNCHANGED <<determined, attempts>>
             \/ \E b \in DOMAIN attempts : Determines(t, b)
  BY <1>6, DetermineCases
<1>7. UNCHANGED determinationVars => UNCHANGED <<vars, determined>> BY DEF determinationVars
<1> QED BY <1>2, <1>3, <1>4, <1>5, <1>6, <1>7, OthersDecideNothing DEF RowsInv

\* A finding on the context of a result is turned away.
LEMMA DeterminedFindingsStay ==
    ASSUME RowsInv, Grows, RecordsChange, NEW a \in DOMAIN determined,
           NEW k, k = determined[a].context
    PROVE  \A key : key[1] = k =>
               /\ key \in DOMAIN findings' <=> key \in DOMAIN findings
               /\ key \in DOMAIN findings => findings'[key] = findings[key]
<1>0. RecordsExtended BY RecordsExtend
<1>1. CASE UNCHANGED findings BY <1>1
<1>2. ASSUME NEW l, NEW c, NewFinding(l, c) PROVE l # k
  BY <1>2 DEF NewFinding, FindingAdmitted
<1>3. ASSUME NEW l, NEW c, NewFinding(l, c), NEW key, key[1] = k
      PROVE  key \in DOMAIN findings' <=> key \in DOMAIN findings
  BY <1>2, <1>3 DEF NewFinding, RecordsExtended, Extended
<1> QED BY <1>0, <1>1, <1>3, FindingsChange DEF RecordsExtended, Extended

LEMMA ResultIsFinal ==
    ASSUME RowsInv, OutcomeInv, ResultsSupported, [DeterminationNext]_determinationVars,
           NEW a \in DOMAIN determined
    PROVE  LET k == determined[a].context
               ofContext == {key \in DOMAIN findings : key[1] = k}
           IN  /\ a \in DOMAIN determined' /\ determined'[a] = determined[a]
               /\ contexts'[k] = a /\ attempts'[a] = attempts[a]
               /\ {key \in DOMAIN findings' : key[1] = k} = ofContext
               /\ \A key \in ofContext : findings'[key] = findings[key]
               /\ \A r \in RoleSet(TargetOf(k)) : sources'[<<a, r>>] = sources[<<a, r>>]
<1>0. Grows BY StepGrows
<1>1. RecordsChange BY RecordsDoChange
<1>2. RecordsExtended BY <1>1, RecordsExtend
<1>3. PICK k : k = determined[a].context OBVIOUS
<1>4. k \in DOMAIN contexts /\ contexts[k] = a BY <1>3 DEF ResultsSupported
<1>5. contexts'[k] = a BY <1>0, <1>4 DEF Grows
<1>6. a \in DOMAIN determined' /\ determined'[a] = determined[a] /\ attempts'[a] = attempts[a]
  BY DeterminedStays
<1>7. \A key : key[1] = k =>
          /\ key \in DOMAIN findings' <=> key \in DOMAIN findings
          /\ key \in DOMAIN findings => findings'[key] = findings[key]
  BY <1>0, <1>1, <1>3, DeterminedFindingsStay
<1>8. {key \in DOMAIN findings' : key[1] = k} = {key \in DOMAIN findings : key[1] = k}
  BY <1>7
<1>9. \A key \in {key \in DOMAIN findings : key[1] = k} : findings'[key] = findings[key]
  BY <1>7
<1>10. ASSUME NEW r \in RoleSet(TargetOf(k)) PROVE sources'[<<a, r>>] = sources[<<a, r>>]
  <2>1. <<a, r>> \in DOMAIN sources BY <1>4 DEF RowsInv, DeterminationRowsOK
  <2> QED BY <1>2, <2>1 DEF RecordsExtended, Extended
<1> QED BY <1>3, <1>5, <1>6, <1>8, <1>9, <1>10

\* Whatever calls that read an earlier state still do, the result of a determined
\* attempt, the findings of its context and the sources they rest on stay.
THEOREM DeterminationsStay == DeterminationSpec => DeterminationsAreFinal
<1>1. RowsInv /\ OutcomeInv /\ ResultsSupported /\ [DeterminationNext]_determinationVars
      => [\A a \in DOMAIN determined :
             LET k == determined[a].context
                 ofContext == {key \in DOMAIN findings : key[1] = k}
             IN  /\ a \in DOMAIN determined' /\ determined'[a] = determined[a]
                 /\ contexts'[k] = a /\ attempts'[a] = attempts[a]
                 /\ {key \in DOMAIN findings' : key[1] = k} = ofContext
                 /\ \A key \in ofContext : findings'[key] = findings[key]
                 /\ \A r \in RoleSet(TargetOf(k)) : sources'[<<a, r>>] = sources[<<a, r>>]
         ]_determinationVars
  BY ResultIsFinal
<1>2. DeterminationInit => OutcomeInv BY OutcomeInvInit
<1>3. RowsInv /\ OutcomeInv /\ [DeterminationNext]_determinationVars => OutcomeInv'
  BY OutcomeInvKept
<1>4. RowsInv /\ FindingsInv /\ [DeterminationNext]_determinationVars => FindingsInv'
  BY FindingsInvKept
<1>5. FindingsInv => ResultsSupported BY DEF FindingsInv
<1> QED BY <1>1, <1>2, <1>3, <1>4, <1>5, RowsInvInit, RowsInvKept, FindingsInvInit, PTL
        DEF DeterminationSpec, DeterminationsAreFinal

-----------------------------------------------------------------------------
(* A context is of one preparation.                                        *)

\* What a producer shows: of every role something of every criterion, and no
\* criterion twice.
Coherent(target, shown) ==
    /\ shown \in [RoleSet(target) -> [MachineSet(target) -> Shown]]
    /\ SelectorsClosed(target, shown)

\* What a preparation has stored is what its producer showed.
StoresShown(a, next, shown) ==
    \A i \in DOMAIN RolesOf[attempts[a].target] :
        LET r == RolesOf[attempts[a].target][i] IN i < next => sources[<<a, r>>] = shown[r]

PreparesOne(t) ==
    LET call == work[t]
        a == call.attempt
    IN  /\ call.op = "STORE" =>
               /\ Coherent(attempts[a].target, call.shown)
               /\ StoresShown(a, call.next, call.shown)
        /\ call.op \in {"BIND", "FREEZE"} => Coherent(attempts[a].target, ShownBy(a))

CoherentInv ==
    /\ \A t \in Threads : PreparesOne(t)
    /\ \A k \in DOMAIN contexts : Coherent(TargetOf(k), ShownBy(contexts[k]))

\* Sources that are all stored show the same from then on.
LEMMA ShownByKept ==
    ASSUME Grows, RecordsExtended, NEW a \in DOMAIN attempts, HasSources(a)
    PROVE  ShownBy(a)' = ShownBy(a)
<1>1. attempts'[a].target = attempts[a].target BY DEF Grows
<1>2. \A r \in RoleSet(attempts[a].target) : sources'[<<a, r>>] = sources[<<a, r>>]
  BY DEF HasSources, RecordsExtended, Extended
<1> QED BY <1>1, <1>2 DEF ShownBy

LEMMA ContextSources ==
    ASSUME RowsInv, NEW k \in DOMAIN contexts
    PROVE  contexts[k] \in DOMAIN attempts /\ HasSources(contexts[k])
BY DEF RowsInv, DeterminationRowsOK, TargetOf, HasSources

LEMMA SameWorkPreparesOne ==
    ASSUME RowsInv, Grows, RecordsExtended, NEW t \in Threads, PreparesOne(t),
           work'[t] = work[t]
    PROVE  PreparesOne(t)'
<1>1. CASE work[t].op \notin Preparing BY <1>1 DEF PreparesOne, Preparing
<1>2. CASE work[t].op \in Preparing
  <2>1. work[t].attempt \in DOMAIN attempts /\ WorkNamesRows(t)
    BY <1>2 DEF RowsInv, WorkOK, WorkNamesRows
  <2>2. PICK a \in DOMAIN attempts : a = work[t].attempt BY <2>1
  <2>3. attempts'[a].target = attempts[a].target BY DEF Grows
  <2>4. CASE work[t].op = "STORE"
    <3>1. Coherent(attempts[a].target, work[t].shown)
          /\ StoresShown(a, work[t].next, work[t].shown)
      BY <2>2, <2>4 DEF PreparesOne
    <3>2. HasStored(a, work[t].next) BY <2>1, <2>2, <2>4 DEF WorkNamesRows
    <3>3. \A i \in DOMAIN RolesOf[attempts[a].target] :
              LET r == RolesOf[attempts[a].target][i] IN
              i < work[t].next => sources'[<<a, r>>] = work[t].shown[r]
      BY <3>1, <3>2 DEF StoresShown, HasStored, RecordsExtended, Extended
    <3>4. StoresShown(work[t].attempt, work[t].next, work[t].shown)'
      BY <2>2, <2>3, <3>3 DEF StoresShown
    <3> QED BY <2>2, <2>3, <2>4, <3>1, <3>4 DEF PreparesOne
  <2>5. CASE work[t].op \in {"BIND", "FREEZE"}
    <3>1. HasSources(a) BY <2>1, <2>2, <2>5 DEF WorkNamesRows
    <3>2. ShownBy(a)' = ShownBy(a) BY <3>1, ShownByKept
    <3>3. Coherent(attempts[a].target, ShownBy(a)) BY <2>2, <2>5 DEF PreparesOne
    <3>4. Coherent(attempts'[a].target, ShownBy(a)') BY <2>3, <3>2, <3>3
    <3> QED BY <2>2, <2>5, <3>4 DEF PreparesOne
  <2> QED BY <1>2, <2>4, <2>5 DEF Preparing
<1> QED BY <1>1, <1>2

\* A step that freezes nothing keeps the invariant if one call goes on as it should.
LEMMA CoherentKept ==
    ASSUME RowsInv, CoherentInv, Grows, RecordsExtended, UNCHANGED contexts, NEW t \in Threads,
           \A u \in Threads : u # t => work'[u] = work[u],
           PreparesOne(t)'
    PROVE  CoherentInv'
<1>1. \A u \in Threads : PreparesOne(u)'
  BY SameWorkPreparesOne DEF CoherentInv
<1>2. ASSUME NEW k \in DOMAIN contexts PROVE Coherent(TargetOf(k), ShownBy(contexts[k]))'
  <2>1. contexts[k] \in DOMAIN attempts /\ HasSources(contexts[k]) BY ContextSources
  <2>2. PICK a \in DOMAIN attempts : a = contexts[k] BY <2>1
  <2>3. ShownBy(a)' = ShownBy(a) BY <2>1, <2>2, ShownByKept
  <2>4. TargetOf(k)' = TargetOf(k) BY TargetKept
  <2>5. Coherent(TargetOf(k), ShownBy(a)) BY <2>2 DEF CoherentInv
  <2>6. Coherent(TargetOf(k)', ShownBy(a)') BY <2>3, <2>4, <2>5
  <2> QED BY <2>2, <2>6
<1> QED BY <1>1, <1>2 DEF CoherentInv

LEMMA OtherWorkCoherent ==
    ASSUME RowsInv, CoherentInv, Grows, RecordsExtended, UNCHANGED contexts, NEW t \in Threads,
           NEW call, Go(t, call), call.op \notin Preparing
    PROVE  CoherentInv'
<1>1. work'[t] = call /\ \A u \in Threads : u # t => work'[u] = work[u] BY OthersWork
<1>2. PreparesOne(t)' BY <1>1 DEF PreparesOne, Preparing
<1> QED BY <1>1, <1>2, CoherentKept

LEMMA ProducesCoherent ==
    ASSUME RowsInv, CoherentInv, Grows, RecordsExtended, NEW t \in Threads,
           NEW a \in DOMAIN attempts, NEW e,
           NEW shown \in [RoleSet(attempts[a].target) -> [MachineSet(attempts[a].target) -> Shown]],
           PrepareProduces(t, a, e, shown)
    PROVE  CoherentInv'
<1> DEFINE call == [op |-> "STORE", attempt |-> a, execution |-> e, shown |-> shown, next |-> 1]
<1>1. Go(t, call) /\ UNCHANGED contexts BY DEF PrepareProduces, records
<1>2. call.op = "STORE" /\ call.attempt = a /\ call.shown = shown /\ call.next = 1 OBVIOUS
<1> HIDE DEF call
<1>3. work'[t] = call /\ \A u \in Threads : u # t => work'[u] = work[u]
  BY <1>1, OthersWork
<1>4. Coherent(attempts[a].target, shown) BY DEF PrepareProduces, Coherent
<1>5. attempts'[a].target = attempts[a].target BY DEF Grows
<1>6. RolesOf[attempts[a].target] \in Seq(STRING)
  <2>1. attempts[a].target \in Targets BY DEF RowsInv, TypeOK, RowsOK, AttemptRows
  <2> QED BY <2>1, DeterminationAssumption
<1>7. StoresShown(a, 1, shown)' BY <1>5, <1>6 DEF StoresShown
<1>8. PreparesOne(t)' BY <1>2, <1>3, <1>4, <1>5, <1>7 DEF PreparesOne
<1> QED BY <1>1, <1>3, <1>8, CoherentKept

LEMMA StoresCoherent ==
    ASSUME RowsInv, CoherentInv, Grows, RecordsExtended, NEW t \in Threads, PrepareStores(t)
    PROVE  CoherentInv'
<1> DEFINE next == [work[t] EXCEPT !.next = @ + 1]
           bind == [op |-> "BIND", attempt |-> work[t].attempt, execution |-> work[t].execution]
<1>1. work[t].op = "STORE" /\ UNCHANGED contexts BY DEF PrepareStores
<1>2. PICK a, shown, i : a = work[t].attempt /\ shown = work[t].shown /\ i = work[t].next
  OBVIOUS
<1>3. PICK target : target = attempts[a].target OBVIOUS
<1>4. /\ a \in DOMAIN attempts /\ RolesOf[target] \in Seq(STRING)
      /\ i \in Nat \ {0} /\ HasStored(a, i)
      /\ work[t] = [op |-> "STORE", attempt |-> a, execution |-> work[t].execution,
                    shown |-> shown, next |-> i]
  BY <1>1, <1>2, <1>3, PreparedRoles DEF RowsInv, WorkOK, WorkNamesRows, Preparing
<1>5. attempts'[a].target = target BY <1>3, <1>4 DEF Grows
<1>6. Coherent(target, shown) /\ StoresShown(a, i, shown)
  BY <1>1, <1>2, <1>3 DEF CoherentInv, PreparesOne
<1>7. \A j \in DOMAIN RolesOf[target] :
          j < i => sources'[<<a, RolesOf[target][j]>>] = shown[RolesOf[target][j]]
  BY <1>3, <1>4, <1>6 DEF StoresShown, HasStored, RecordsExtended, Extended
<1>8. ASSUME Go(t, next), RoleIsLeft(target, i),
             sources' = Insert(sources, <<a, RolesOf[target][i]>>, shown[RolesOf[target][i]])
      PROVE  CoherentInv'
  <2>1. next = [op |-> "STORE", attempt |-> a, execution |-> work[t].execution,
                shown |-> shown, next |-> i + 1]
    BY <1>4
  <2>2. next.op = "STORE" /\ next.attempt = a /\ next.shown = shown /\ next.next = i + 1
    BY <2>1
  <2> HIDE DEF next
  <2>3. work'[t] = next /\ \A u \in Threads : u # t => work'[u] = work[u]
    BY <1>8, OthersWork
  <2>4. sources'[<<a, RolesOf[target][i]>>] = shown[RolesOf[target][i]] BY <1>8 DEF Insert
  <2>5. \A j \in DOMAIN RolesOf[target] : j < i + 1 => j < i \/ j = i BY <1>4
  <2>6. \A j \in DOMAIN RolesOf[target] :
            j < i + 1 => sources'[<<a, RolesOf[target][j]>>] = shown[RolesOf[target][j]]
    BY <1>7, <2>4, <2>5
  <2>7. StoresShown(a, i + 1, shown)' BY <1>5, <2>6 DEF StoresShown
  <2>8. PreparesOne(t)' BY <1>5, <1>6, <2>2, <2>3, <2>7 DEF PreparesOne
  <2> QED BY <1>1, <2>3, <2>8, CoherentKept
<1>9. ASSUME Go(t, bind), ~RoleIsLeft(target, i), UNCHANGED sources
      PROVE  CoherentInv'
  <2>1. bind.op = "BIND" /\ bind.attempt = a BY <1>2
  <2> HIDE DEF bind
  <2>2. work'[t] = bind /\ \A u \in Threads : u # t => work'[u] = work[u]
    BY <1>9, OthersWork
  <2>3. \A j \in DOMAIN RolesOf[target] : j < i BY <1>4, <1>9 DEF RoleIsLeft
  <2>4. \A r \in RoleSet(target) : sources'[<<a, r>>] = shown[r]
    BY <1>7, <2>3 DEF RoleSet, Elements
  <2>5. ShownBy(a)' = [r \in RoleSet(target) |-> shown[r]] BY <1>5, <2>4 DEF ShownBy
  <2>6. ShownBy(a)' = shown BY <1>6, <2>5 DEF Coherent
  <2>7. Coherent(attempts'[a].target, ShownBy(a)') BY <1>5, <1>6, <2>6
  <2>8. PreparesOne(t)' BY <2>1, <2>2, <2>7 DEF PreparesOne
  <2> QED BY <1>1, <2>2, <2>8, CoherentKept
<1>10. ASSUME End(t) PROVE CoherentInv'
  <2>1. Go(t, Idle) /\ Idle.op \notin Preparing BY <1>10 DEF End, Idle, Preparing
  <2> QED BY <1>1, <2>1, OtherWorkCoherent
<1> HIDE DEF next, bind
<1> QED BY <1>2, <1>3, <1>8, <1>9, <1>10 DEF PrepareStores, next, bind

LEMMA BindsCoherent ==
    ASSUME RowsInv, CoherentInv, Grows, RecordsExtended, NEW t \in Threads, BindsExecution(t)
    PROVE  CoherentInv'
<1> DEFINE freeze == [op |-> "FREEZE", attempt |-> work[t].attempt]
<1>1. UNCHANGED contexts /\ work[t].op = "BIND" /\ (Go(t, freeze) \/ End(t))
  BY DEF BindsExecution, records
<1>2. PICK a : a = work[t].attempt OBVIOUS
<1>3. a \in DOMAIN attempts /\ HasSources(a)
  BY <1>1, <1>2 DEF RowsInv, WorkOK, WorkNamesRows, Preparing
<1>4. CASE Go(t, freeze)
  <2>1. freeze.op = "FREEZE" /\ freeze.attempt = a BY <1>2
  <2> HIDE DEF freeze
  <2>2. work'[t] = freeze /\ \A u \in Threads : u # t => work'[u] = work[u]
    BY <1>4, OthersWork
  <2>3. Coherent(attempts[a].target, ShownBy(a)) BY <1>1, <1>2 DEF CoherentInv, PreparesOne
  <2>4. ShownBy(a)' = ShownBy(a) BY <1>3, ShownByKept
  <2>5. attempts'[a].target = attempts[a].target BY <1>3 DEF Grows
  <2>6. Coherent(attempts'[a].target, ShownBy(a)') BY <2>3, <2>4, <2>5
  <2>7. PreparesOne(t)' BY <2>1, <2>2, <2>6 DEF PreparesOne
  <2> QED BY <1>1, <2>2, <2>7, CoherentKept
<1>5. CASE End(t)
  <2>1. Go(t, Idle) /\ Idle.op \notin Preparing BY <1>5 DEF End, Idle, Preparing
  <2> QED BY <1>1, <2>1, OtherWorkCoherent
<1> QED BY <1>1, <1>4, <1>5

LEMMA FreezesCoherent ==
    ASSUME RowsInv, CoherentInv, Grows, RecordsExtended, NEW t \in Threads, NEW k,
           FreezeInserts(t, k)
    PROVE  CoherentInv'
<1>1. work[t].op = "FREEZE" /\ k \notin DOMAIN contexts /\ Go(t, Idle)
      /\ contexts' = Insert(contexts, k, work[t].attempt)
  BY DEF FreezeInserts, End
<1>2. PICK a : a = work[t].attempt OBVIOUS
<1>3. a \in DOMAIN attempts /\ HasSources(a)
  BY <1>1, <1>2 DEF RowsInv, WorkOK, WorkNamesRows, Preparing
<1>4. work'[t] = Idle /\ Idle.op = "IDLE" /\ \A u \in Threads : u # t => work'[u] = work[u]
  BY <1>1, OthersWork DEF Idle
<1>5. \A u \in Threads : PreparesOne(u)'
  <2>1. PreparesOne(t)' BY <1>4 DEF PreparesOne
  <2> QED BY <1>4, <2>1, SameWorkPreparesOne DEF CoherentInv
<1>6. ASSUME NEW l, NEW b \in DOMAIN attempts, l \in DOMAIN contexts', contexts'[l] = b,
             HasSources(b), Coherent(attempts[b].target, ShownBy(b))
      PROVE  Coherent(TargetOf(l), ShownBy(contexts[l]))'
  <2>1. ShownBy(b)' = ShownBy(b) BY <1>6, ShownByKept
  <2>2. attempts'[b].target = attempts[b].target BY DEF Grows
  <2>3. Coherent(attempts'[b].target, ShownBy(b)') BY <1>6, <2>1, <2>2
  <2> QED BY <1>6, <2>3 DEF TargetOf
<1>7. DOMAIN contexts' = DOMAIN contexts \cup {k} /\ contexts'[k] = a
      /\ \A l \in DOMAIN contexts : contexts'[l] = contexts[l]
  BY <1>1, <1>2 DEF Insert
<1>8. ASSUME NEW l \in DOMAIN contexts PROVE Coherent(TargetOf(l), ShownBy(contexts[l]))'
  <2>1. contexts[l] \in DOMAIN attempts /\ HasSources(contexts[l]) BY ContextSources
  <2>2. Coherent(attempts[contexts[l]].target, ShownBy(contexts[l]))
    BY DEF CoherentInv, TargetOf
  <2> QED BY <1>6, <1>7, <2>1, <2>2
<1>9. Coherent(TargetOf(k), ShownBy(contexts[k]))'
  <2>1. Coherent(attempts[a].target, ShownBy(a)) BY <1>1, <1>2 DEF CoherentInv, PreparesOne
  <2> QED BY <1>3, <1>6, <1>7, <2>1
<1> QED BY <1>5, <1>7, <1>8, <1>9 DEF CoherentInv

LEMMA EvaluatesCoherent ==
    ASSUME RowsInv, CoherentInv, Grows, RecordsExtended, NEW t \in Threads, EvaluateInserts(t)
    PROVE  CoherentInv'
<1> DEFINE next == [work[t] EXCEPT !.next = @ + 1]
<1>1. UNCHANGED contexts /\ work[t].op = "EVALUATE" /\ (Go(t, next) \/ Go(t, Idle))
  BY DEF EvaluateInserts, End
<1>2. next.op = "EVALUATE"
  <2>1. work[t] = [op |-> "EVALUATE", context |-> work[t].context, next |-> work[t].next,
                   existing |-> work[t].existing]
    BY <1>1 DEF RowsInv, WorkOK, WorkNamesRows
  <2> QED BY <2>1
<1>3. Idle.op = "IDLE" BY DEF Idle
<1> HIDE DEF next
<1> QED BY <1>1, <1>2, <1>3, OtherWorkCoherent DEF Preparing

LEMMA CoherentInvKept ==
    ASSUME RowsInv, CoherentInv, [DeterminationNext]_determinationVars
    PROVE  CoherentInv'
<1>1. Grows BY StepGrows
<1>2. RecordsExtended BY RecordsDoChange, RecordsExtend
<1>3. ASSUME UNCHANGED <<contexts, work>> PROVE CoherentInv'
  <2>1. \A u \in Threads : PreparesOne(u)'
    BY <1>1, <1>2, <1>3, SameWorkPreparesOne DEF CoherentInv
  <2>2. CASE Threads = {}
    <3>1. ASSUME NEW k \in DOMAIN contexts PROVE Coherent(TargetOf(k), ShownBy(contexts[k]))'
      <4>1. contexts[k] \in DOMAIN attempts /\ HasSources(contexts[k]) BY ContextSources
      <4>2. PICK a \in DOMAIN attempts : a = contexts[k] BY <4>1
      <4>3. ShownBy(a)' = ShownBy(a) BY <1>1, <1>2, <4>1, <4>2, ShownByKept
      <4>4. TargetOf(k)' = TargetOf(k) BY <1>1, TargetKept
      <4>5. Coherent(TargetOf(k), ShownBy(a)) BY <4>2 DEF CoherentInv
      <4>6. Coherent(TargetOf(k)', ShownBy(a)') BY <4>3, <4>4, <4>5
      <4> QED BY <1>3, <4>2, <4>6
    <3> QED BY <1>3, <2>1, <3>1 DEF CoherentInv
  <2>3. CASE Threads # {}
    <3>1. PICK t \in Threads : TRUE BY <2>3
    <3> QED BY <1>1, <1>2, <1>3, <2>1, <3>1, CoherentKept
  <2> QED BY <2>2, <2>3
<1>4. CASE UNCHANGED determinationVars BY <1>3, <1>4 DEF determinationVars, records
<1>5. CASE ValidationStep BY <1>3, <1>5 DEF ValidationStep, records
<1>6. ASSUME NEW k, NEW c, NEW actor, NEW judgement,
             ProposeReview(k, c, actor, judgement) \/ FinaliseReview(k, c, actor, judgement)
      PROVE  CoherentInv'
  BY <1>3, <1>6 DEF ProposeReview, FinaliseReview
<1>7. CASE DeterminationCrash
  <2>1. UNCHANGED <<tables, records>> /\ work' = [t \in Threads |-> Idle]
    BY <1>7 DEF DeterminationCrash
  <2>2. ASSUME NEW t \in Threads PROVE PreparesOne(t)'
    <3>1. work'[t] = Idle /\ Idle.op = "IDLE" BY <2>1 DEF Idle
    <3> QED BY <3>1 DEF PreparesOne
  <2>3. UNCHANGED <<contexts, attempts, sources>> BY <2>1 DEF tables, records
  <2>4. \A k \in DOMAIN contexts : Coherent(TargetOf(k), ShownBy(contexts[k]))'
    BY <2>3 DEF CoherentInv, TargetOf, ShownBy
  <2> QED BY <2>2, <2>3, <2>4 DEF CoherentInv
<1>8. ASSUME NEW t \in Threads, NEW k, EvaluateReads(t, k) \/ DetermineReads(t, k)
      PROVE  CoherentInv'
  <2>1. UNCHANGED contexts BY <1>8 DEF EvaluateReads, DetermineReads, records
  <2>2. PICK call : Go(t, call) /\ call.op \in {"EVALUATE", "DETERMINE"}
    BY <1>8 DEF EvaluateReads, DetermineReads
  <2> QED BY <1>1, <1>2, <2>1, <2>2, OtherWorkCoherent DEF Preparing
<1>9. ASSUME NEW t \in Threads, DetermineCommits(t) PROVE CoherentInv'
  <2>1. Go(t, Idle) /\ UNCHANGED contexts /\ Idle.op = "IDLE"
    BY <1>9 DEF DetermineCommits, records, End, Idle
  <2> QED BY <1>1, <1>2, <2>1, OtherWorkCoherent DEF Preparing
<1>10. ASSUME NEW t \in Threads, DeterminationStep(t) PROVE CoherentInv'
  BY <1>1, <1>2, <1>8, <1>9, <1>10, ProducesCoherent, StoresCoherent, BindsCoherent,
     FreezesCoherent, EvaluatesCoherent
     DEF DeterminationStep
<1> QED BY <1>4, <1>5, <1>6, <1>7, <1>10 DEF DeterminationNext

LEMMA CoherentInvInit == DeterminationInit => CoherentInv
<1>1. DOMAIN << >> = {} /\ Idle.op = "IDLE" BY DEF Idle
<1> QED BY <1>1 DEF DeterminationInit, CoherentInv, PreparesOne

-----------------------------------------------------------------------------
(* The cases that the tables show.                                         *)

\* The mapped variable.
Cases == [a \in DOMAIN attempts |-> CaseOf(a)]

CaseRow(outcome, target, shown, found) ==
    [outcome |-> outcome, target |-> target, shown |-> shown, findings |-> found]

ShownIn(a) == IF ContextsOf(a) = {} THEN << >> ELSE ShownBy(a)

LEMMA CaseRowFields ==
    ASSUME NEW o, NEW g, NEW s, NEW f
    PROVE  /\ CaseRow(o, g, s, f).outcome = o /\ CaseRow(o, g, s, f).target = g
           /\ CaseRow(o, g, s, f).shown = s /\ CaseRow(o, g, s, f).findings = f
BY DEF CaseRow

LEMMA CaseWithOutcome ==
    ASSUME NEW o, NEW g, NEW s, NEW f, NEW new
    PROVE  [CaseRow(o, g, s, f) EXCEPT !.outcome = new] = CaseRow(new, g, s, f)
BY DEF CaseRow

LEMMA CaseWithShown ==
    ASSUME NEW o, NEW g, NEW s, NEW f, NEW new
    PROVE  [CaseRow(o, g, s, f) EXCEPT !.shown = new] = CaseRow(o, g, new, f)
BY DEF CaseRow

LEMMA CaseWithFindings ==
    ASSUME NEW o, NEW g, NEW s, NEW f, NEW new
    PROVE  [CaseRow(o, g, s, f) EXCEPT !.findings = new] = CaseRow(o, g, s, new)
BY DEF CaseRow

LEMMA CaseOfRow ==
    ASSUME NEW a
    PROVE  /\ CaseOf(a) = CaseRow(DecidedAs(a), attempts[a].target, ShownIn(a), FindingsOf(a))
           /\ CaseOf(a)' = CaseRow(DecidedAs(a)', attempts'[a].target, ShownIn(a)', FindingsOf(a)')
BY DEF CaseOf, CaseRow, ShownIn

LEMMA CasesRows ==
    /\ DOMAIN Cases = DOMAIN attempts
    /\ DOMAIN Cases' = DOMAIN attempts'
    /\ \A a \in DOMAIN attempts : Cases[a] = CaseOf(a)
    /\ \A a \in DOMAIN attempts' : Cases'[a] = CaseOf(a)'
<1>1. /\ DOMAIN Cases = DOMAIN attempts
      /\ \A a \in DOMAIN attempts : Cases[a] = CaseOf(a)
  BY DEF Cases
<1>2. /\ DOMAIN Cases' = DOMAIN attempts'
      /\ \A a \in DOMAIN attempts' : Cases'[a] = CaseOf(a)'
  BY DEF Cases
<1> QED BY <1>1, <1>2

LEMMA CaseFields ==
    ASSUME NEW a \in DOMAIN attempts
    PROVE  /\ Cases[a] = CaseRow(DecidedAs(a), attempts[a].target, ShownIn(a), FindingsOf(a))
           /\ Cases[a].outcome = DecidedAs(a) /\ Cases[a].target = attempts[a].target
           /\ Cases[a].shown = ShownIn(a) /\ Cases[a].findings = FindingsOf(a)
BY CasesRows, CaseOfRow, CaseRowFields

\* The cases with one of them rewritten.
LEMMA CaseRewritten ==
    ASSUME NEW a \in DOMAIN attempts, DOMAIN attempts' = DOMAIN attempts,
           \A b \in DOMAIN attempts : b # a => CaseOf(b)' = CaseOf(b),
           NEW row, CaseOf(a)' = row
    PROVE  Cases' = [Cases EXCEPT ![a] = row]
<1>1. \A b \in DOMAIN attempts : Cases'[b] = IF b = a THEN row ELSE Cases[b]
  BY CasesRows
<1>2. \A b \in DOMAIN attempts : Cases'[b] = [Cases EXCEPT ![a] = row][b]
  BY <1>1, CasesRows
<1>3. Cases' = [b \in DOMAIN Cases' |-> Cases'[b]] /\ Cases = [b \in DOMAIN Cases |-> Cases[b]]
  BY CasesRows DEF Cases
<1> QED BY <1>1, <1>3, CasesRows

\* The sources of a context show what they showed.
LEMMA ShownInKept ==
    ASSUME RowsInv, Grows, RecordsExtended, NEW a \in DOMAIN attempts,
           ContextsOf(a)' = ContextsOf(a)
    PROVE  ShownIn(a)' = ShownIn(a)
<1>1. CASE ContextsOf(a) = {} BY <1>1 DEF ShownIn
<1>2. CASE ContextsOf(a) # {}
  <2>1. PICK k \in DOMAIN contexts : contexts[k] = a BY <1>2 DEF ContextsOf
  <2>2. HasSources(a) BY <2>1, ContextSources
  <2>3. ShownBy(a)' = ShownBy(a) BY <2>2, ShownByKept
  <2> QED BY <2>3 DEF ShownIn
<1> QED BY <1>1, <1>2

\* A finding is of a context there is.
LEMMA FindingsNameContexts ==
    ASSUME RowsInv, NEW key \in DOMAIN findings
    PROVE  key = <<key[1], key[2]>> /\ key[1] \in DOMAIN contexts /\ key[2] \in STRING
<1>1. key \in (DOMAIN contexts) \X STRING BY DEF RowsInv, DeterminationRowsOK
<1> QED BY <1>1

LEMMA FindingsOfKept ==
    ASSUME RowsInv, RecordsExtended, UNCHANGED findings, NEW a
    PROVE  FindingsOf(a)' = FindingsOf(a)
<1>1. \A key \in DOMAIN findings : contexts'[key[1]] = contexts[key[1]]
  BY FindingsNameContexts DEF RecordsExtended, Extended
<1>2. {key \in DOMAIN findings : contexts'[key[1]] = a}
      = {key \in DOMAIN findings : contexts[key[1]] = a}
  BY <1>1
<1> QED BY <1>2 DEF FindingsOf

\* What decides an attempt is as it was.
SameDecided(a) ==
    /\ a \in DOMAIN determined <=> a \in DOMAIN determined'
    /\ a \in DOMAIN determined => determined'[a].verdict = determined[a].verdict
    /\ SameResult(a) /\ SameSuspension(a)

LEMMA DecidedAsKept ==
    ASSUME NEW a, SameDecided(a)
    PROVE  DecidedAs(a)' = DecidedAs(a)
BY DEF SameDecided, SameResult, SameSuspension, DecidedAs

\* A step that neither decides an attempt nor freezes or finds anything for it.
LEMMA CaseKept ==
    ASSUME RowsInv, Grows, RecordsExtended, NEW a \in DOMAIN attempts, SameDecided(a),
           ContextsOf(a)' = ContextsOf(a), FindingsOf(a)' = FindingsOf(a)
    PROVE  CaseOf(a)' = CaseOf(a)
<1>1. attempts'[a].target = attempts[a].target BY DEF Grows
<1>2. DecidedAs(a)' = DecidedAs(a) BY DecidedAsKept
<1>3. ShownIn(a)' = ShownIn(a) BY ShownInKept
<1> QED BY <1>1, <1>2, <1>3, CaseOfRow

LEMMA CasesStay ==
    ASSUME RowsInv, Grows, RecordsExtended, DOMAIN attempts' = DOMAIN attempts,
           UNCHANGED <<results, suspensions, determined, contexts, findings>>
    PROVE  Cases' = Cases
<1>1. ASSUME NEW a \in DOMAIN attempts PROVE CaseOf(a)' = CaseOf(a)
  <2>1. SameDecided(a) BY DEF SameDecided, SameResult, SameSuspension
  <2>2. ContextsOf(a)' = ContextsOf(a) BY DEF ContextsOf
  <2>3. FindingsOf(a)' = FindingsOf(a) BY FindingsOfKept
  <2> QED BY <2>1, <2>2, <2>3, CaseKept
<1> QED BY <1>1 DEF Cases

\* A step that decides one attempt.
LEMMA CaseDecided ==
    ASSUME RowsInv, Grows, RecordsExtended, DOMAIN attempts' = DOMAIN attempts,
           UNCHANGED <<contexts, findings>>, NEW a \in DOMAIN attempts, NEW outcome,
           DecidedAs(a)' = outcome, \A b \in DOMAIN attempts : b # a => SameDecided(b)
    PROVE  Cases' = [Cases EXCEPT ![a] = [Cases[a] EXCEPT !.outcome = outcome]]
<1>1. ASSUME NEW b \in DOMAIN attempts
      PROVE  ContextsOf(b)' = ContextsOf(b) /\ FindingsOf(b)' = FindingsOf(b)
  BY FindingsOfKept DEF ContextsOf
<1>2. \A b \in DOMAIN attempts : b # a => CaseOf(b)' = CaseOf(b) BY <1>1, CaseKept
<1>3. attempts'[a].target = attempts[a].target BY DEF Grows
<1>4. ShownIn(a)' = ShownIn(a) BY <1>1, ShownInKept
<1>5. CaseOf(a)' = CaseRow(outcome, attempts[a].target, ShownIn(a), FindingsOf(a))
  BY <1>1, <1>3, <1>4, CaseOfRow
<1>6. [Cases[a] EXCEPT !.outcome = outcome]
      = CaseRow(outcome, attempts[a].target, ShownIn(a), FindingsOf(a))
  BY CaseFields, CaseWithOutcome
<1> QED BY <1>2, <1>5, <1>6, CaseRewritten

-----------------------------------------------------------------------------
(* What a step does to the cases.                                          *)

LEMMA CasesForgo ==
    ASSUME NEW a \in DOMAIN attempts, NEW outcome, DecidedAs(a) = "NONE",
           Cases' = [Cases EXCEPT ![a] = [Cases[a] EXCEPT !.outcome = outcome]]
    PROVE  AtOnce!Forgo(a, outcome)
<1>1. Cases[a].outcome = "NONE" BY CaseFields
<1> QED BY <1>1 DEF Cases, AtOnce!Forgo, AtOnce!Change

LEMMA CasesSelect ==
    ASSUME NEW a, NEW target, a \notin DOMAIN attempts,
           DOMAIN attempts' = DOMAIN attempts \cup {a},
           \A b \in DOMAIN attempts : CaseOf(b)' = CaseOf(b),
           CaseOf(a)' = CaseRow("NONE", target, << >>, {})
    PROVE  AtOnce!Select(a, target)
<1> DEFINE new == CaseRow("NONE", target, << >>, {})
<1>1. Cases' = [b \in DOMAIN attempts' |-> CaseOf(b)'] BY DEF Cases
<1>2. \A b \in DOMAIN attempts' : CaseOf(b)' = IF b # a THEN Cases[b] ELSE new
  BY CasesRows
<1>3. Cases' = [b \in DOMAIN Cases \cup {a} |-> IF b # a THEN Cases[b] ELSE new]
  <2> HIDE DEF new
  <2> QED BY <1>1, <1>2, CasesRows
<1> QED BY <1>3, CasesRows DEF Cases, CaseRow, AtOnce!Select

LEMMA SelectionMaps ==
    ASSUME RowsInv, Grows, RecordsExtended, NEW a \in Attempts, NEW target, NEW known,
           a \notin DOMAIN attempts, attempts' = Insert(attempts, a, NewAttempt(target, known)),
           UNCHANGED <<results, suspensions, determined, contexts, findings>>
    PROVE  AtOnce!Select(a, target)
<1> DEFINE row == NewAttempt(target, known)
<1>1. row.target = target BY DEF NewAttempt
<1> HIDE DEF row
<1>2. DOMAIN attempts' = DOMAIN attempts \cup {a} /\ attempts'[a] = row
  BY DEF Insert, row
<1>3. ASSUME NEW b \in DOMAIN attempts PROVE CaseOf(b)' = CaseOf(b)
  <2>1. SameDecided(b) BY DEF SameDecided, SameResult, SameSuspension
  <2>2. ContextsOf(b)' = ContextsOf(b) BY DEF ContextsOf
  <2>3. FindingsOf(b)' = FindingsOf(b) BY FindingsOfKept
  <2> QED BY <2>1, <2>2, <2>3, CaseKept
<1>4. a \notin DOMAIN results /\ a \notin DOMAIN suspensions /\ a \notin DOMAIN determined
  BY DEF RowsInv, TypeOK, RowsOK, DeterminationRowsOK
<1>5. DecidedAs(a)' = "NONE" BY <1>4 DEF DecidedAs
<1>6. \A k \in DOMAIN contexts : contexts[k] # a BY DEF RowsInv, DeterminationRowsOK
<1>7. ContextsOf(a)' = {} BY <1>6 DEF ContextsOf
<1>8. ShownIn(a)' = << >> BY <1>7 DEF ShownIn
<1>9. FindingsOf(a)' = {}
  <2>1. \A key \in DOMAIN findings : contexts[key[1]] # a BY <1>6, FindingsNameContexts
  <2>2. FindingsOf(a) = {} BY <2>1 DEF FindingsOf
  <2> QED BY <2>2, FindingsOfKept
<1>10. CaseOf(a)' = CaseRow("NONE", target, << >>, {})
  BY <1>1, <1>2, <1>5, <1>8, <1>9, CaseOfRow
<1> QED BY <1>2, <1>3, <1>10, CasesSelect

\* An attempt decided by a call of the validation service.
LEMMA ForgoMaps ==
    ASSUME RowsInv, OutcomeInv, Grows, RecordsExtended, DOMAIN attempts' = DOMAIN attempts,
           UNCHANGED <<determined, contexts, findings>>, NEW a \in DOMAIN attempts,
           attempts[a].status \in OpenStatuses,
           \A b \in DOMAIN attempts : b # a => SameResult(b) /\ SameSuspension(b)
    PROVE  /\ a \in DOMAIN results' => AtOnce!Forgo(a, "COMPARED")
           /\ a \notin DOMAIN results' /\ a \in DOMAIN suspensions' => AtOnce!Forgo(a, "SUSPENDED")
<1>1. a \notin DOMAIN results /\ a \notin DOMAIN determined /\ a \notin DOMAIN suspensions
  BY DEF OutcomeInv, Outcome, OpenStatuses
<1>2. DecidedAs(a) = "NONE" BY <1>1 DEF DecidedAs
<1>3. \A b \in DOMAIN attempts : b # a => SameDecided(b) BY DEF SameDecided
<1>4. a \in DOMAIN results' => DecidedAs(a)' = "COMPARED" BY <1>1 DEF DecidedAs
<1>5. a \notin DOMAIN results' /\ a \in DOMAIN suspensions' => DecidedAs(a)' = "SUSPENDED"
  BY <1>1 DEF DecidedAs
<1> QED BY <1>2, <1>3, <1>4, <1>5, CaseDecided, CasesForgo

LEMMA FinalisationMaps ==
    ASSUME RowsInv, OutcomeInv, Grows, RecordsExtended, UNCHANGED <<determined, contexts, findings>>,
           NEW t \in Threads, FinaliseCommits(t)
    PROVE  Cases' = Cases \/ \E a \in DOMAIN attempts : AtOnce!Forgo(a, "COMPARED")
<1>1. calls[t].op = "FINALISE" /\ UNCHANGED suspensions /\ DOMAIN attempts' = DOMAIN attempts
  BY DEF FinaliseCommits
<1>2. calls[t].attempt \in DOMAIN attempts
  BY <1>1 DEF RowsInv, TypeOK, CallsOK, CallNamesRows, Idle
<1>3. PICK a \in DOMAIN attempts : a = calls[t].attempt BY <1>2
<1>4. CASE UNCHANGED <<attempts, results>> BY <1>1, <1>4, CasesStay
<1>5. ASSUME ResultAdmitted(a), NEW row, results' = Insert(results, a, row)
      PROVE  AtOnce!Forgo(a, "COMPARED")
  <2>1. attempts[a].status \in OpenStatuses BY <1>5 DEF ResultAdmitted, OpenStatuses
  <2>2. DOMAIN results' = DOMAIN results \cup {a} BY <1>5 DEF Insert
  <2>3. \A b \in DOMAIN attempts : b # a => SameResult(b) /\ SameSuspension(b)
    BY <1>1, <2>2 DEF SameResult, SameSuspension
  <2> QED BY <1>1, <2>1, <2>2, <2>3, ForgoMaps
<1> QED BY <1>3, <1>4, <1>5 DEF FinaliseCommits

LEMMA SuspensionMaps ==
    ASSUME RowsInv, OutcomeInv, Grows, RecordsExtended, UNCHANGED <<determined, contexts, findings>>,
           NEW t \in Threads, SuspendCommits(t)
    PROVE  Cases' = Cases \/ \E a \in DOMAIN attempts : AtOnce!Forgo(a, "SUSPENDED")
<1>1. calls[t].op = "SUSPEND" /\ UNCHANGED results /\ DOMAIN attempts' = DOMAIN attempts
  BY DEF SuspendCommits
<1>2. calls[t].attempt \in DOMAIN attempts
  BY <1>1 DEF RowsInv, TypeOK, CallsOK, CallNamesRows, Idle
<1>3. PICK a \in DOMAIN attempts : a = calls[t].attempt BY <1>2
<1>4. CASE UNCHANGED <<attempts, suspensions>> BY <1>1, <1>4, CasesStay
<1>5. ASSUME SuspensionAdmitted(a), NEW record, suspensions' = Insert(suspensions, a, record)
      PROVE  AtOnce!Forgo(a, "SUSPENDED")
  <2>1. attempts[a].status \in OpenStatuses BY <1>5 DEF SuspensionAdmitted
  <2>2. DOMAIN suspensions' = DOMAIN suspensions \cup {a} BY <1>5 DEF Insert
  <2>3. \A b \in DOMAIN attempts : b # a => SameResult(b) /\ SameSuspension(b)
    BY <1>1, <2>2 DEF SameResult, SameSuspension
  <2>4. a \notin DOMAIN results' BY <1>1, <2>1 DEF OutcomeInv, Outcome, OpenStatuses
  <2> QED BY <1>1, <2>1, <2>2, <2>3, <2>4, ForgoMaps
<1> QED BY <1>3, <1>4, <1>5 DEF SuspendCommits

\* A call of the validation service is a selection, a decision or nothing.
LEMMA ValidationMaps ==
    ASSUME RowsInv, OutcomeInv, Grows, RecordsExtended, [Next]_vars,
           UNCHANGED <<determined, contexts, findings>>
    PROVE  \/ Cases' = Cases
           \/ \E a \in Attempts, target \in Targets : AtOnce!Select(a, target)
           \/ \E a \in DOMAIN attempts, outcome \in {"COMPARED", "SUSPENDED"} :
                  AtOnce!Forgo(a, outcome)
<1>1. CASE UNCHANGED tables BY <1>1, CasesStay DEF tables
<1>2. ASSUME NEW a \in Attempts, NEW target \in Targets,
             \/ PrepareAttempt(a, target)
             \/ \E t \in Threads, run \in Runs, source \in Attempts \cup {NoAttempt} :
                    StartSelects(t, a, target, run, source)
      PROVE  AtOnce!Select(a, target)
  <2>1. /\ a \notin DOMAIN attempts /\ UNCHANGED <<results, suspensions>>
        /\ \E known : attempts' = Insert(attempts, a, NewAttempt(target, known))
    BY <1>2 DEF PrepareAttempt, StartSelects
  <2> QED BY <2>1, SelectionMaps
<1>3. ASSUME NEW a \in Attempts, NEW run \in Runs, EnterAttempt(a, run)
      PROVE  DOMAIN attempts' = DOMAIN attempts /\ UNCHANGED <<results, suspensions>>
  BY <1>3 DEF EnterAttempt
<1>4. ASSUME NEW t \in Threads, StartFreezesBaseline(t) \/ StartBinds(t) \/ CaptureInserts(t)
      PROVE  DOMAIN attempts' = DOMAIN attempts /\ UNCHANGED <<results, suspensions>>
  BY <1>4 DEF StartFreezesBaseline, StartBinds, CaptureInserts
<1>5. ASSUME NEW t \in Threads, FinaliseCommits(t) \/ SuspendCommits(t)
      PROVE  Cases' = Cases \/ \E a \in DOMAIN attempts, outcome \in {"COMPARED", "SUSPENDED"} :
                                   AtOnce!Forgo(a, outcome)
  BY <1>5, FinalisationMaps, SuspensionMaps
<1>6. DOMAIN attempts' = DOMAIN attempts /\ UNCHANGED <<results, suspensions>> => Cases' = Cases
  BY CasesStay
<1> QED BY <1>1, <1>2, <1>3, <1>4, <1>5, <1>6, StepCases

\* The finding that is added is the attempt's only one on its criterion.
LEMMA FindingsOfGrow ==
    ASSUME RowsInv, UNCHANGED contexts, NEW k \in DOMAIN contexts, NEW c, NEW status,
           <<k, c>> \notin DOMAIN findings, findings' = Insert(findings, <<k, c>>, status),
           NEW a, a = contexts[k]
    PROVE  /\ FindingsOf(a)' = FindingsOf(a) \cup {<<c, status>>}
           /\ \A b : b # a => FindingsOf(b)' = FindingsOf(b)
<1>1. DOMAIN findings' = DOMAIN findings \cup {<<k, c>>} /\ findings'[<<k, c>>] = status
      /\ \A key \in DOMAIN findings : findings'[key] = findings[key]
  BY DEF Insert
<1>2. <<k, c>>[1] = k /\ <<k, c>>[2] = c OBVIOUS
<1>3. ASSUME NEW b
      PROVE  FindingsOf(b)' = FindingsOf(b) \cup (IF b = a THEN {<<c, status>>} ELSE {})
  <2>1. FindingsOf(b) =
            {<<key[2], findings[key]>> : key \in {key \in DOMAIN findings : contexts[key[1]] = b}}
    BY DEF FindingsOf
  <2>2. FindingsOf(b)' =
            {<<key[2], findings'[key]>> : key \in {key \in DOMAIN findings' : contexts[key[1]] = b}}
    BY DEF FindingsOf
  <2>3. {key \in DOMAIN findings' : contexts[key[1]] = b}
        = {key \in DOMAIN findings : contexts[key[1]] = b}
          \cup (IF b = a THEN {<<k, c>>} ELSE {})
    BY <1>1, <1>2
  <2>4. \A key \in {key \in DOMAIN findings : contexts[key[1]] = b} :
            <<key[2], findings'[key]>> = <<key[2], findings[key]>>
    BY <1>1
  <2>5. <<<<k, c>>[2], findings'[<<k, c>>]>> = <<c, status>> BY <1>1, <1>2
  <2> QED BY <2>1, <2>2, <2>3, <2>4, <2>5
<1> QED BY <1>3

LEMMA FindingIsFirst ==
    ASSUME RowsInv, OneContextPerAttempt, NEW k \in DOMAIN contexts, NEW c, FindingAdmitted(k, c),
           NEW a, a = contexts[k]
    PROVE  \A f \in FindingsOf(a) : f[1] # c
<1> SUFFICES ASSUME NEW f \in FindingsOf(a), f[1] = c PROVE FALSE OBVIOUS
<1>1. PICK key \in DOMAIN findings : contexts[key[1]] = a /\ f = <<key[2], findings[key]>>
  BY DEF FindingsOf
<1>2. key = <<key[1], key[2]>> /\ key[1] \in DOMAIN contexts BY FindingsNameContexts
<1>3. key[1] = k BY <1>1, <1>2 DEF OneContextPerAttempt
<1>4. key[2] = c BY <1>1
<1> QED BY <1>2, <1>3, <1>4 DEF FindingAdmitted

\* The result would be of the one context there is.
LEMMA FindingIsInTime ==
    ASSUME OneContextPerAttempt, ResultsSupported, NEW k \in DOMAIN contexts, NEW c,
           FindingAdmitted(k, c)
    PROVE  DecidedAs(contexts[k]) \notin {"PASS", "FAIL"}
<1>1. contexts[k] \notin DOMAIN determined
  BY DEF FindingAdmitted, ResultsSupported, OneContextPerAttempt
<1> QED BY <1>1 DEF DecidedAs

LEMMA CasesFinds ==
    ASSUME NEW a \in DOMAIN attempts, NEW c, NEW finding, \A f \in FindingsOf(a) : f[1] # c,
           DecidedAs(a) \notin {"PASS", "FAIL"},
           Cases' = [Cases EXCEPT ![a] = [Cases[a] EXCEPT !.findings = @ \cup {<<c, finding>>}]]
    PROVE  AtOnce!Finds(a, c, finding)
<1>1. (\A f \in Cases[a].findings : f[1] # c) /\ Cases[a].outcome \notin {"PASS", "FAIL"}
  BY CaseFields
<1> QED BY <1>1 DEF Cases, AtOnce!Finds, AtOnce!Change

LEMMA FindingMaps ==
    ASSUME RowsInv, OneContextPerAttempt, ResultsSupported, Grows, RecordsExtended,
           UNCHANGED <<vars, contexts, determined>>,
           NEW k \in DOMAIN contexts, NEW c, NEW finding, FindingAdmitted(k, c),
           findings' = Insert(findings, <<k, c>>, finding),
           NEW a, a = contexts[k]
    PROVE  AtOnce!Finds(a, c, finding)
<1>1. a \in DOMAIN attempts BY ContextSources
<1>2. UNCHANGED <<attempts, results, suspensions>> BY DEF vars, tables
<1>3. FindingsOf(a)' = FindingsOf(a) \cup {<<c, finding>>}
      /\ \A b : b # a => FindingsOf(b)' = FindingsOf(b)
  BY FindingsOfGrow DEF FindingAdmitted
<1>4. ASSUME NEW b \in DOMAIN attempts PROVE SameDecided(b) /\ ContextsOf(b)' = ContextsOf(b)
  BY <1>2 DEF SameDecided, SameResult, SameSuspension, ContextsOf
<1>5. \A b \in DOMAIN attempts : b # a => CaseOf(b)' = CaseOf(b) BY <1>3, <1>4, CaseKept
<1>6. DecidedAs(a)' = DecidedAs(a) /\ ShownIn(a)' = ShownIn(a)
  BY <1>1, <1>4, DecidedAsKept, ShownInKept
<1>7. PICK found : found = FindingsOf(a) \cup {<<c, finding>>} OBVIOUS
<1>8. CaseOf(a)' = CaseRow(DecidedAs(a), attempts[a].target, ShownIn(a), found)
  BY <1>2, <1>3, <1>6, <1>7, CaseOfRow
<1>9. [Cases[a] EXCEPT !.findings = found]
      = CaseRow(DecidedAs(a), attempts[a].target, ShownIn(a), found)
  BY <1>1, CaseFields, CaseWithFindings
<1>10. Cases' = [Cases EXCEPT ![a] = [Cases[a] EXCEPT !.findings = found]]
  BY <1>1, <1>2, <1>5, <1>8, <1>9, CaseRewritten
<1>11. Cases' = [Cases EXCEPT ![a] = [Cases[a] EXCEPT !.findings = @ \cup {<<c, finding>>}]]
  BY <1>1, <1>7, <1>10, CaseFields
<1>12. \A f \in FindingsOf(a) : f[1] # c BY FindingIsFirst
<1>13. DecidedAs(a) \notin {"PASS", "FAIL"} BY FindingIsInTime
<1> QED BY <1>1, <1>11, <1>12, <1>13, CasesFinds

\* An attempt with a context shows what is stored.
LEMMA FrozenShows ==
    ASSUME RowsInv, NEW k \in DOMAIN contexts, NEW a, a = contexts[k]
    PROVE  /\ a \in DOMAIN attempts /\ attempts[a].target \in Targets
           /\ Cases[a].shown = ShownBy(a) /\ AtOnce!Frozen(a)
<1>1. a \in DOMAIN attempts BY ContextSources
<1>2. attempts[a].target \in Targets BY <1>1 DEF RowsInv, TypeOK, RowsOK, AttemptRows
<1>3. k \in ContextsOf(a) BY DEF ContextsOf
<1>4. Cases[a].shown = ShownBy(a)
  <2>1. ShownIn(a) = ShownBy(a) BY <1>3 DEF ShownIn
  <2> QED BY <1>1, <2>1, CaseFields
<1>5. RoleSet(attempts[a].target) # {}
  <2>1. RolesOf[attempts[a].target] \in Seq(STRING) \ {<< >>} BY <1>2, DeterminationAssumption
  <2>2. 1 \in DOMAIN RolesOf[attempts[a].target] BY <2>1
  <2> QED BY <2>2 DEF RoleSet, Elements
<1>6. ShownBy(a) # << >>
  <2>1. DOMAIN ShownBy(a) = RoleSet(attempts[a].target) BY DEF ShownBy
  <2>2. DOMAIN << >> = {} OBVIOUS
  <2> QED BY <1>5, <2>1, <2>2
<1>7. AtOnce!Frozen(a) BY <1>4, <1>6 DEF Cases, AtOnce!Frozen
<1> QED BY <1>1, <1>2, <1>4, <1>7

\* What is shown of a criterion, and by how many sources.
ShowingOf(a, c) == {ShownBy(a)[r][c] : r \in RoleSet(attempts[a].target)} \ {"ABSENT"}

LEMMA CasesCompare ==
    ASSUME NEW a \in DOMAIN attempts, attempts[a].target \in Targets,
           NEW c \in MachineSet(attempts[a].target), Cases[a].shown = ShownBy(a),
           AtOnce!Frozen(a), "UNREADABLE" \notin ShowingOf(a, c),
           AtOnce!Finds(a, c, IF ShowingOf(a, c) = {} THEN "NOT_EVALUATED"
                              ELSE IF ShowingOf(a, c) = {"AGREES"} THEN "SATISFIED"
                              ELSE "NOT_SATISFIED")
    PROVE  AtOnce!Compare(a, c)
<1>1. Cases[a].target = attempts[a].target BY CaseFields
<1>2. AtOnce!Showing(a, c) = ShowingOf(a, c)
  BY <1>1 DEF Cases, ShowingOf, AtOnce!Showing
<1>3. c \in [target \in Targets |-> MachineSet(target)][Cases[a].target] BY <1>1
<1> QED BY <1>2, <1>3 DEF Cases, AtOnce!Compare

LEMMA JudgesWhatIsShown ==
    ASSUME RowsInv, CoherentInv, NEW k \in DOMAIN contexts, NEW c \in MachineSet(TargetOf(k)),
           ~ JudgementFails(k, c), NEW a, a = contexts[k]
    PROVE  /\ "UNREADABLE" \notin ShowingOf(a, c)
           /\ Judge(k, c) = IF ShowingOf(a, c) = {} THEN "NOT_EVALUATED"
                            ELSE IF ShowingOf(a, c) = {"AGREES"} THEN "SATISFIED"
                            ELSE "NOT_SATISFIED"
<1>1. TargetOf(k) = attempts[a].target BY DEF TargetOf
<1>2. PICK target : target = attempts[a].target OBVIOUS
<1>3. \A r \in RoleSet(target) : sources[<<a, r>>] = ShownBy(a)[r] BY <1>2 DEF ShownBy
<1>4. Candidates(k, c) = {r \in RoleSet(target) : ShownBy(a)[r][c] # "ABSENT"}
  BY <1>1, <1>2, <1>3 DEF Candidates
<1>5. ShowingOf(a, c) = {ShownBy(a)[r][c] : r \in Candidates(k, c)}
  BY <1>2, <1>4 DEF ShowingOf
<1>6. \A r \in Candidates(k, c) : sources[<<contexts[k], r>>][c] = ShownBy(a)[r][c]
  BY <1>3, <1>4
<1>7. \A r, s \in Candidates(k, c) : r = s
  <2>1. Coherent(target, ShownBy(a)) BY <1>1, <1>2 DEF CoherentInv
  <2> QED BY <1>1, <1>2, <1>4, <2>1 DEF Coherent, SelectorsClosed
<1>8. CASE Candidates(k, c) = {} BY <1>5, <1>8 DEF Judge
<1>9. ASSUME NEW r \in Candidates(k, c)
      PROVE  /\ "UNREADABLE" \notin ShowingOf(a, c)
             /\ Judge(k, c) = IF ShowingOf(a, c) = {} THEN "NOT_EVALUATED"
                              ELSE IF ShowingOf(a, c) = {"AGREES"} THEN "SATISFIED"
                              ELSE "NOT_SATISFIED"
  <2>1. Candidates(k, c) = {r} BY <1>7
  <2>2. PICK x : x = ShownBy(a)[r][c] OBVIOUS
  <2>3. ShowingOf(a, c) = {x} BY <1>5, <2>1, <2>2
  <2>4. x # "UNREADABLE" BY <1>6, <2>1, <2>2 DEF JudgementFails
  <2>5. Judge(k, c) = IF x = "AGREES" THEN "SATISFIED" ELSE "NOT_SATISFIED"
    BY <1>6, <2>1, <2>2 DEF Judge
  <2> QED BY <2>3, <2>4, <2>5
<1> QED BY <1>8, <1>9

LEMMA MachineFindingMaps ==
    ASSUME RowsInv, OneContextPerAttempt, ResultsSupported, CoherentInv, Grows, RecordsExtended,
           UNCHANGED <<vars, contexts, determined>>, NEW k, NEW c, MachineFinds(k, c)
    PROVE  \E a \in DOMAIN attempts : \E d \in MachineSet(attempts[a].target) :
               AtOnce!Compare(a, d)
<1>1. k \in DOMAIN contexts /\ c \in MachineSet(TargetOf(k)) /\ ~ JudgementFails(k, c)
      /\ FindingAdmitted(k, c) /\ findings' = Insert(findings, <<k, c>>, Judge(k, c))
  BY DEF MachineFinds
<1>2. PICK a, finding : a = contexts[k] /\ finding = Judge(k, c) OBVIOUS
<1>3. a \in DOMAIN attempts /\ attempts[a].target \in Targets
      /\ Cases[a].shown = ShownBy(a) /\ AtOnce!Frozen(a)
  BY <1>1, <1>2, FrozenShows
<1>4. c \in MachineSet(attempts[a].target) BY <1>1, <1>2 DEF TargetOf
<1>5. AtOnce!Finds(a, c, finding) BY <1>1, <1>2, FindingMaps
<1>6. /\ "UNREADABLE" \notin ShowingOf(a, c)
      /\ finding = IF ShowingOf(a, c) = {} THEN "NOT_EVALUATED"
                   ELSE IF ShowingOf(a, c) = {"AGREES"} THEN "SATISFIED"
                   ELSE "NOT_SATISFIED"
  BY <1>1, <1>2, JudgesWhatIsShown
<1>7. AtOnce!Compare(a, c) BY <1>3, <1>4, <1>5, <1>6, CasesCompare
<1> QED BY <1>3, <1>4, <1>7

LEMMA CasesConclude ==
    ASSUME NEW a \in DOMAIN attempts, NEW c \in ReviewCriteria[attempts[a].target], NEW judgement,
           AtOnce!Frozen(a), AtOnce!Finds(a, c, judgement)
    PROVE  AtOnce!Conclude(a, c, judgement)
<1>1. Cases[a].target = attempts[a].target BY CaseFields
<1> QED BY <1>1 DEF Cases, AtOnce!Conclude

LEMMA ReviewFindingMaps ==
    ASSUME RowsInv, OneContextPerAttempt, ResultsSupported, Grows, RecordsExtended,
           NEW k, NEW c, ReviewFinds(k, c)
    PROVE  \E a \in DOMAIN attempts : \E d \in ReviewCriteria[attempts[a].target],
               judgement \in Judgements : AtOnce!Conclude(a, d, judgement)
<1>1. k \in DOMAIN contexts /\ c \in ReviewCriteria[TargetOf(k)] BY DEF ReviewFinds
<1>2. PICK judgement \in Judgements :
          /\ FindingAdmitted(k, c) /\ findings' = Insert(findings, <<k, c>>, judgement)
          /\ UNCHANGED <<vars, contexts, determined>>
  BY DEF ReviewFinds, FinaliseReview
<1>3. PICK a : a = contexts[k] OBVIOUS
<1>4. a \in DOMAIN attempts /\ AtOnce!Frozen(a) BY <1>1, <1>3, FrozenShows
<1>5. c \in ReviewCriteria[attempts[a].target] BY <1>1, <1>3 DEF TargetOf
<1>6. AtOnce!Finds(a, c, judgement) BY <1>1, <1>2, <1>3, FindingMaps
<1>7. AtOnce!Conclude(a, c, judgement) BY <1>4, <1>5, <1>6, CasesConclude
<1> QED BY <1>4, <1>5, <1>7

LEMMA CasesFreeze ==
    ASSUME NEW a \in DOMAIN attempts, attempts[a].target \in Targets, NEW shown, ShownIn(a) = << >>,
           SelectorsClosed(attempts[a].target, shown),
           Cases' = [Cases EXCEPT ![a] = [Cases[a] EXCEPT !.shown = shown]]
    PROVE  AtOnce!Freeze(a, shown)
<1>1. Cases[a].shown = << >> /\ Cases[a].target = attempts[a].target BY CaseFields
<1>2. [target \in Targets |-> MachineSet(target)][Cases[a].target] = MachineSet(attempts[a].target)
      /\ [target \in Targets |-> RoleSet(target)][Cases[a].target] = RoleSet(attempts[a].target)
  BY <1>1
<1>3. ~ AtOnce!Frozen(a) BY <1>1 DEF Cases, AtOnce!Frozen
<1> QED BY <1>2, <1>3 DEF Cases, SelectorsClosed, AtOnce!Freeze, AtOnce!Change

\* Nobody else holds the attempt, so it has no context yet; and the sources stored
\* for it are those of one producer.
LEMMA FreezingMaps ==
    ASSUME RowsInv, HolderInv, CoherentInv, Grows, RecordsExtended,
           NEW t \in Threads, NEW k \in Contexts, FreezeInserts(t, k)
    PROVE  \E a \in DOMAIN attempts :
               \E shown \in [RoleSet(attempts[a].target) -> [MachineSet(attempts[a].target) -> Shown]] :
                   AtOnce!Freeze(a, shown)
<1>1. work[t].op = "FREEZE" /\ k \notin DOMAIN contexts
      /\ contexts' = Insert(contexts, k, work[t].attempt)
      /\ UNCHANGED <<attempts, results, suspensions, sources, findings, determined>>
  BY DEF FreezeInserts, vars, tables
<1>2. work[t].attempt \in DOMAIN attempts
  BY <1>1 DEF RowsInv, WorkOK, WorkNamesRows, Preparing
<1>3. PICK a \in DOMAIN attempts : a = work[t].attempt BY <1>2
<1>4. PICK shown : shown = ShownBy(a) OBVIOUS
<1>5. Coherent(attempts[a].target, shown)
  BY <1>1, <1>3, <1>4 DEF CoherentInv, PreparesOne
<1>6. a \in Attempts /\ attempts[a].target \in Targets
  BY DEF RowsInv, TypeOK, RowsOK, AttemptRows
<1>7. ContextsOf(a) = {}
  <2>1. Holds(t, a) BY <1>1, <1>3 DEF Holds, Preparing
  <2>2. \A l \in DOMAIN contexts : contexts[l] # a BY <2>1 DEF HolderInv
  <2> QED BY <2>2 DEF ContextsOf
<1>8. DOMAIN contexts' = DOMAIN contexts \cup {k} /\ contexts'[k] = a
      /\ \A l \in DOMAIN contexts : contexts'[l] = contexts[l]
  BY <1>1, <1>3 DEF Insert
<1>9. ASSUME NEW b \in DOMAIN attempts PROVE SameDecided(b) /\ FindingsOf(b)' = FindingsOf(b)
  <2>1. SameDecided(b) BY <1>1 DEF SameDecided, SameResult, SameSuspension
  <2> QED BY <1>1, <2>1, FindingsOfKept
<1>10. ASSUME NEW b \in DOMAIN attempts, b # a PROVE CaseOf(b)' = CaseOf(b)
  <2>1. ContextsOf(b)' = ContextsOf(b) BY <1>1, <1>8, <1>10 DEF ContextsOf
  <2> QED BY <1>9, <2>1, CaseKept
<1>11. ShownIn(a) = << >> BY <1>7 DEF ShownIn
<1>12. ShownIn(a)' = shown
  <2>1. k \in ContextsOf(a)' BY <1>8 DEF ContextsOf
  <2>2. ShownBy(a)' = shown BY <1>1, <1>4 DEF ShownBy
  <2> QED BY <2>1, <2>2 DEF ShownIn
<1>13. DecidedAs(a)' = DecidedAs(a) BY <1>9, DecidedAsKept
<1>14. CaseOf(a)' = CaseRow(DecidedAs(a), attempts[a].target, shown, FindingsOf(a))
  BY <1>1, <1>9, <1>12, <1>13, CaseOfRow
<1>15. [Cases[a] EXCEPT !.shown = shown]
       = CaseRow(DecidedAs(a), attempts[a].target, shown, FindingsOf(a))
  BY CaseFields, CaseWithShown
<1>16. Cases' = [Cases EXCEPT ![a] = [Cases[a] EXCEPT !.shown = shown]]
  BY <1>1, <1>10, <1>14, <1>15, CaseRewritten
<1>17. AtOnce!Freeze(a, shown)
  BY <1>5, <1>6, <1>11, <1>16, CasesFreeze DEF Coherent
<1> QED BY <1>5, <1>17 DEF Coherent

LEMMA CasesDetermine ==
    ASSUME NEW a \in DOMAIN attempts, attempts[a].target \in Targets, AtOnce!Frozen(a),
           DecidedAs(a) = "NONE",
           \A c \in CriteriaOf(attempts[a].target) :
               \E f \in FindingsOf(a) : f[1] = c /\ f[2] # "NOT_EVALUATED",
           NEW verdict,
           verdict = IF \E f \in FindingsOf(a) : f[2] = "NOT_SATISFIED" THEN "FAIL" ELSE "PASS",
           Cases' = [Cases EXCEPT ![a] = [Cases[a] EXCEPT !.outcome = verdict]]
    PROVE  AtOnce!Determine(a)
<1>1. Cases[a].outcome = "NONE" /\ Cases[a].target = attempts[a].target
      /\ Cases[a].findings = FindingsOf(a)
  BY CaseFields
<1>2. [target \in Targets |-> MachineSet(target)][Cases[a].target] \cup ReviewCriteria[Cases[a].target]
      = CriteriaOf(attempts[a].target)
  BY <1>1 DEF CriteriaOf
<1>3. \A c \in [target \in Targets |-> MachineSet(target)][Cases[a].target]
               \cup ReviewCriteria[Cases[a].target] :
          \E f \in Cases[a].findings : f[1] = c /\ f[2] # "NOT_EVALUATED"
  BY <1>1, <1>2
<1>4. Cases' = [Cases EXCEPT ![a] = [Cases[a] EXCEPT !.outcome =
                   IF \E f \in Cases[a].findings : f[2] = "NOT_SATISFIED" THEN "FAIL" ELSE "PASS"]]
  BY <1>1
<1> QED BY <1>1, <1>3, <1>4 DEF Cases, AtOnce!Determine, AtOnce!Change

\* The findings of a context are those of its attempt.
LEMMA VerdictOnFindings ==
    ASSUME RowsInv, OneContextPerAttempt, NEW k \in DOMAIN contexts, NEW a, a = contexts[k],
           IsDeterminate(k)
    PROVE  /\ \A c \in CriteriaOf(TargetOf(k)) :
                  \E f \in FindingsOf(a) : f[1] = c /\ f[2] # "NOT_EVALUATED"
           /\ VerdictOf(k) =
                  IF \E f \in FindingsOf(a) : f[2] = "NOT_SATISFIED" THEN "FAIL" ELSE "PASS"
<1>1. \A key \in DOMAIN findings : key[1] = k => <<key[2], findings[key]>> \in FindingsOf(a)
  BY DEF FindingsOf
<1>2. ASSUME NEW f \in FindingsOf(a)
      PROVE  \E key \in DOMAIN findings : key[1] = k /\ f = <<key[2], findings[key]>>
  <2>1. PICK key \in DOMAIN findings : contexts[key[1]] = a /\ f = <<key[2], findings[key]>>
    BY DEF FindingsOf
  <2>2. key[1] = k BY <2>1, FindingsNameContexts DEF OneContextPerAttempt
  <2> QED BY <2>1, <2>2
<1>3. \A c \in CriteriaOf(TargetOf(k)) :
          \E f \in FindingsOf(a) : f[1] = c /\ f[2] # "NOT_EVALUATED"
  <2> SUFFICES ASSUME NEW c \in CriteriaOf(TargetOf(k))
               PROVE  \E f \in FindingsOf(a) : f[1] = c /\ f[2] # "NOT_EVALUATED"
    OBVIOUS
  <2>1. <<k, c>> \in DOMAIN findings /\ findings[<<k, c>>] # "NOT_EVALUATED"
    BY DEF IsDeterminate
  <2>2. <<k, c>>[1] = k /\ <<k, c>>[2] = c OBVIOUS
  <2>3. <<c, findings[<<k, c>>]>> \in FindingsOf(a) BY <1>1, <2>1, <2>2
  <2> QED BY <2>1, <2>3
<1>4. (\E f \in FindingsOf(a) : f[2] = "NOT_SATISFIED")
      <=> \E key \in DOMAIN findings : key[1] = k /\ findings[key] = "NOT_SATISFIED"
  <2>1. ASSUME NEW f \in FindingsOf(a)
        PROVE  \E key \in DOMAIN findings : key[1] = k /\ findings[key] = f[2]
    <3>1. PICK key \in DOMAIN findings : key[1] = k /\ f = <<key[2], findings[key]>> BY <1>2
    <3>2. f[2] = findings[key] BY <3>1
    <3> QED BY <3>1, <3>2
  <2>2. ASSUME NEW key \in DOMAIN findings, key[1] = k
        PROVE  \E f \in FindingsOf(a) : f[2] = findings[key]
    <3>1. <<key[2], findings[key]>>[2] = findings[key] OBVIOUS
    <3> QED BY <1>1, <2>2, <3>1
  <2> QED BY <2>1, <2>2
<1> QED BY <1>3, <1>4 DEF VerdictOf

LEMMA DeterminingMaps ==
    ASSUME RowsInv, OneContextPerAttempt, OutcomeInv, ReadingsSupported, Grows, RecordsExtended,
           NEW t \in Threads, DetermineCommits(t)
    PROVE  Cases' = Cases \/ \E a \in DOMAIN attempts : AtOnce!Determine(a)
<1>1. work[t].op = "DETERMINE" /\ work[t].context \in DOMAIN contexts
      /\ UNCHANGED <<suspensions, contexts, findings>>
  BY DetermineCases DEF records
<1>2. CASE UNCHANGED <<determined, attempts, procedures, executions, results>>
  BY <1>1, <1>2, CasesStay
<1>3. ASSUME NEW a \in DOMAIN attempts, Determines(t, a) PROVE AtOnce!Determine(a)
  <2>1. PICK k \in DOMAIN contexts : k = work[t].context BY <1>1
  <2>2. PICK verdict : verdict = work[t].verdict OBVIOUS
  <2>3. a = contexts[k] /\ a \notin DOMAIN determined /\ a \notin DOMAIN results
        /\ attempts[a].status \in OpenStatuses /\ DOMAIN attempts' = DOMAIN attempts
    BY <1>3, <2>1 DEF Determines, DeterminationAdmitted
  <2>4. a \in DOMAIN determined' /\ determined'[a].verdict = verdict
        /\ \A b : b # a => /\ b \in DOMAIN determined <=> b \in DOMAIN determined'
                           /\ b \in DOMAIN determined => determined'[b] = determined[b]
    BY <1>3, <2>2 DEF Determines, Insert
  <2>5. \A b : b # a => SameResult(b)
    BY <1>3 DEF Determines, Insert, SameResult
  <2>6. DecidedAs(a) = "NONE"
    <3>1. a \notin DOMAIN suspensions BY <2>3 DEF OutcomeInv, Outcome, OpenStatuses
    <3> QED BY <2>3, <3>1 DEF DecidedAs
  <2>7. DecidedAs(a)' = verdict BY <2>4 DEF DecidedAs
  <2>8. \A b \in DOMAIN attempts : b # a => SameDecided(b)
    BY <1>1, <2>4, <2>5 DEF SameDecided, SameSuspension
  <2>9. Cases' = [Cases EXCEPT ![a] = [Cases[a] EXCEPT !.outcome = verdict]]
    BY <1>1, <2>3, <2>7, <2>8, CaseDecided
  <2>10. IsDeterminate(k) /\ verdict = VerdictOf(k)
    BY <1>1, <2>1, <2>2 DEF ReadingsSupported, Supported
  <2>11. TargetOf(k) = attempts[a].target BY <2>3 DEF TargetOf
  <2>12. attempts[a].target \in Targets /\ AtOnce!Frozen(a) BY <2>3, FrozenShows
  <2>13. /\ \A c \in CriteriaOf(attempts[a].target) :
                \E f \in FindingsOf(a) : f[1] = c /\ f[2] # "NOT_EVALUATED"
         /\ verdict = IF \E f \in FindingsOf(a) : f[2] = "NOT_SATISFIED" THEN "FAIL" ELSE "PASS"
    BY <2>3, <2>10, <2>11, VerdictOnFindings
  <2> QED BY <2>6, <2>9, <2>12, <2>13, CasesDetermine
<1> QED BY <1>2, <1>3, DetermineCases

\* What an action of the atomic service may do to the case of one attempt.
LEMMA CasesNext ==
    ASSUME RowsInv, NEW a \in DOMAIN attempts,
           \/ \E shown \in [RoleSet(attempts[a].target) -> [MachineSet(attempts[a].target) -> Shown]] :
                  AtOnce!Freeze(a, shown)
           \/ \E c \in MachineSet(attempts[a].target) : AtOnce!Compare(a, c)
           \/ \E c \in ReviewCriteria[attempts[a].target], judgement \in Judgements :
                  AtOnce!Conclude(a, c, judgement)
           \/ AtOnce!Determine(a)
           \/ \E outcome \in {"COMPARED", "SUSPENDED"} : AtOnce!Forgo(a, outcome)
    PROVE  AtOnce!Next
<1>1. attempts[a].target \in Targets BY DEF RowsInv, TypeOK, RowsOK, AttemptRows
<1>2. a \in DOMAIN Cases /\ Cases[a].target = attempts[a].target BY CasesRows, CaseFields
<1>3. [target \in Targets |-> MachineSet(target)][Cases[a].target] = MachineSet(attempts[a].target)
      /\ [target \in Targets |-> RoleSet(target)][Cases[a].target] = RoleSet(attempts[a].target)
      /\ ReviewCriteria[Cases[a].target] = ReviewCriteria[attempts[a].target]
  BY <1>1, <1>2
<1>4. AtOnce!Shown = Shown /\ AtOnce!Judgements = Judgements
  BY DEF AtOnce!Shown, Shown, AtOnce!Judgements, Judgements
<1>5. CASE \E shown \in [RoleSet(attempts[a].target) ->
                            [MachineSet(attempts[a].target) -> Shown]] : AtOnce!Freeze(a, shown)
  BY <1>2, <1>3, <1>4, <1>5 DEF Cases, AtOnce!Next
<1>6. CASE \E c \in MachineSet(attempts[a].target) : AtOnce!Compare(a, c)
  BY <1>2, <1>3, <1>6 DEF Cases, AtOnce!Next
<1>7. CASE \E c \in ReviewCriteria[attempts[a].target], judgement \in Judgements :
               AtOnce!Conclude(a, c, judgement)
  BY <1>2, <1>3, <1>4, <1>7 DEF Cases, AtOnce!Next
<1>8. CASE AtOnce!Determine(a) \/ \E outcome \in {"COMPARED", "SUSPENDED"} : AtOnce!Forgo(a, outcome)
  BY <1>2, <1>8 DEF Cases, AtOnce!Next
<1> QED BY <1>5, <1>6, <1>7, <1>8

LEMMA StepIsAtomic ==
    ASSUME RowsInv, HolderInv, OutcomeInv, FindingsInv, CoherentInv,
           [DeterminationNext]_determinationVars
    PROVE  Cases' = Cases \/ AtOnce!Next
<1>1. Grows BY StepGrows
<1>2. RecordsExtended BY RecordsDoChange, RecordsExtend
<1>3. OneContextPerAttempt /\ ReadingsSupported /\ ResultsSupported
  BY DEF HolderInv, FindingsInv
<1>4. ASSUME DOMAIN attempts' = DOMAIN attempts,
             UNCHANGED <<results, suspensions, determined, contexts, findings>>
      PROVE  Cases' = Cases
  BY <1>1, <1>2, <1>4, CasesStay
<1>5. ASSUME UNCHANGED <<vars, determined, contexts, findings>> PROVE Cases' = Cases
  BY <1>4, <1>5 DEF vars, tables
<1>6. CASE UNCHANGED determinationVars BY <1>5, <1>6 DEF determinationVars, records
<1>7. CASE ValidationStep
  <2>1. [Next]_vars /\ UNCHANGED <<determined, contexts, findings>>
    BY <1>7, ValidationIsNext DEF ValidationStep, records
  <2>2. ASSUME NEW a \in Attempts, NEW target \in Targets, AtOnce!Select(a, target)
        PROVE  AtOnce!Next
    BY <2>2 DEF AtOnce!Next
  <2> QED BY <1>1, <1>2, <2>1, <2>2, ValidationMaps, CasesNext
<1>8. CASE DeterminationCrash
  BY <1>4, <1>8 DEF DeterminationCrash, tables, records
<1>9. ASSUME NEW k \in DOMAIN contexts, NEW c \in ReviewCriteria[TargetOf(k)],
             NEW actor \in DOMAIN ActorRole, NEW judgement \in Judgements,
             ProposeReview(k, c, actor, judgement) \/ FinaliseReview(k, c, actor, judgement)
      PROVE  Cases' = Cases \/ AtOnce!Next
  <2>1. CASE ProposeReview(k, c, actor, judgement) BY <1>5, <2>1 DEF ProposeReview
  <2>2. CASE FinaliseReview(k, c, actor, judgement)
    <3>1. ReviewFinds(k, c) BY <2>2 DEF ReviewFinds
    <3> QED BY <1>1, <1>2, <1>3, <3>1, ReviewFindingMaps, CasesNext
  <2> QED BY <1>9, <2>1, <2>2
<1>10. ASSUME NEW t \in Threads, PrepareStores(t) \/ BindsExecution(t) PROVE Cases' = Cases
  <2>1. CASE PrepareStores(t) BY <1>5, <2>1 DEF PrepareStores
  <2>2. CASE BindsExecution(t)
    <3>1. DOMAIN attempts' = DOMAIN attempts BY <2>2 DEF BindsExecution
    <3> QED BY <1>4, <2>2, <3>1 DEF BindsExecution, records
  <2> QED BY <1>10, <2>1, <2>2
<1>11. ASSUME NEW t \in Threads, EvaluateInserts(t) PROVE Cases' = Cases \/ AtOnce!Next
  <2>1. UNCHANGED <<vars, determined, contexts>> BY <1>11 DEF EvaluateInserts
  <2>2. UNCHANGED findings \/ \E k, c : MachineFinds(k, c) BY <1>11, EvaluationFinds
  <2> QED BY <1>1, <1>2, <1>3, <1>5, <2>1, <2>2, MachineFindingMaps, CasesNext
<1>12. ASSUME NEW t \in Threads, DetermineCommits(t) PROVE Cases' = Cases \/ AtOnce!Next
  BY <1>1, <1>2, <1>3, <1>12, DeterminingMaps, CasesNext
<1>13. ASSUME NEW t \in Threads, NEW k \in Contexts, FreezeInserts(t, k) PROVE AtOnce!Next
  BY <1>1, <1>2, <1>13, FreezingMaps, CasesNext
<1>14. ASSUME NEW t \in Threads, NEW k \in Contexts, EvaluateReads(t, k) \/ DetermineReads(t, k)
       PROVE  Cases' = Cases
  BY <1>5, <1>14 DEF EvaluateReads, DetermineReads, records
<1>15. ASSUME NEW t \in Threads, NEW a, NEW e, NEW shown, PrepareProduces(t, a, e, shown)
       PROVE  Cases' = Cases
  BY <1>5, <1>15 DEF PrepareProduces, records
<1>16. ASSUME NEW t \in Threads, DeterminationStep(t) PROVE Cases' = Cases \/ AtOnce!Next
  BY <1>10, <1>11, <1>12, <1>13, <1>14, <1>15, <1>16, Zenon DEF DeterminationStep
<1> QED BY <1>6, <1>7, <1>8, <1>9, <1>16 DEF DeterminationNext

\* Roles stored one by one by competing callers, findings inserted one by one beside
\* reviews, and a verdict computed outside its transaction come, in the tables, to a
\* freezing, findings and a verdict that each take place at once.
THEOREM DeterminationsAreAtomic == DeterminationSpec => ImplementsAtomicDeterminations
<1>1. DeterminationInit => AtOnce!Init
  <2> SUFFICES ASSUME DeterminationInit PROVE AtOnce!Init OBVIOUS
  <2>1. DOMAIN attempts = {} BY DEF DeterminationInit, Init
  <2>2. Cases = [a \in {} |-> CaseOf(a)] BY <2>1 DEF Cases
  <2>3. Cases = << >> BY <2>2
  <2> QED BY <2>3 DEF Cases, AtOnce!Init
<1>2. ASSUME RowsInv, HolderInv, OutcomeInv, FindingsInv, CoherentInv,
             [DeterminationNext]_determinationVars
      PROVE  [AtOnce!Next]_([a \in DOMAIN attempts |-> CaseOf(a)])
  <2>1. Cases' = Cases \/ AtOnce!Next BY <1>2, StepIsAtomic
  <2> QED BY <2>1 DEF Cases
<1>3. /\ RowsInv /\ HolderInv /\ OutcomeInv /\ FindingsInv /\ CoherentInv
      /\ [DeterminationNext]_determinationVars
      => (RowsInv /\ HolderInv /\ OutcomeInv /\ FindingsInv /\ CoherentInv)'
  BY RowsInvKept, HolderInvKept, OutcomeInvKept, FindingsInvKept, CoherentInvKept
<1> QED BY <1>1, <1>2, <1>3, RowsInvInit, HolderInvInit, OutcomeInvInit, FindingsInvInit,
           CoherentInvInit, PTL
        DEF DeterminationSpec, ImplementsAtomicDeterminations, AtOnce!Spec
=============================================================================
