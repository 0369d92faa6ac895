----------------------------- MODULE ScenarioRun -----------------------------
(***************************************************************************)
(* The scenario coordinator: application/scenario_coordinator.py over      *)
(* infrastructure/scenario_repository.py.                                  *)
(*                                                                         *)
(* Every handler runs in one BEGIN IMMEDIATE transaction that commits or   *)
(* rolls back as a whole, so one action below is one committed handler.  A *)
(* crash or an injected failure before the commit leaves no trace and is a *)
(* stuttering step, and so is a command that is rejected without effect;   *)
(* CommandLedger adds the record both leave for the client.                *)
(*                                                                         *)
(* A request carries its own scenario time: there is no clock, and         *)
(* telemetry ages only because later requests carry later times.           *)
(*                                                                         *)
(* Definitions named ...Mutant are faulty forms of the definition that     *)
(* follows them, as in GridTopology.                                       *)
(***************************************************************************)
EXTENDS GridTopology

CONSTANTS
  RunIds,             \* identities uuid4 may give to runs
  CommandIds,         \* identities a client may give to commands
  Times,              \* instants a request may carry
  FormalFault,        \* the fault section of the formal scenario definition
  IsolationSequence,  \* its ordered isolation devices
  CorrectedConfig,    \* the configuration exploration is fixed to (v1.1)
  NoRun               \* not a run

ASSUME ScenarioAssumption ==
  /\ Times \subseteq Nat
  /\ FormalFault \in Sections
  /\ IsolationSequence \in Seq(Switches)
  /\ CorrectedConfig \in Configs

VARIABLE runs         \* the scenario database: the stored run of each identity

vars == <<runs>>

-----------------------------------------------------------------------------
(* Types.                                                                  *)

Modes == {"FORMAL", "EXPLORATION"}
Statuses == {"INITIALISED", "ACTIVE", "RUN_COMPLETE", "CLOSED"}
Labels == {"N0", "N1", "N2", "N3", "N4", "N5"}
Stages == {"NORMAL", "POST_FAULT", "ISOLATING", "FAULT_ISOLATED",
           "UPSTREAM_RESTORED", "RESTORATION_ASSESSED", "RESTORATION_EXECUTED"}
AlarmStates == {"NONE", "UNACKNOWLEDGED", "ACKNOWLEDGED"}
EventTypes ==
  {"SCENARIO_INITIALISED", "CONFIGURATION_SELECTED", "FAULT_INITIATED",
   "TELEMETRY_UPDATED", "DEVICE_STATE_CHANGE", "ALARM_GENERATED",
   "ALARM_ACKNOWLEDGED", "SWITCHING_ACTION", "TOPOLOGY_RECALCULATED",
   "OUTAGE_UPDATED", "RESTORATION_CANDIDATE_IDENTIFIED",
   "RESTORATION_NO_CANDIDATE", "RESTORATION_ASSESSED",
   "RESTORATION_ASSESSMENT_INVALIDATED", "SCENARIO_RESET"}
InvalidationReasons == {"SCENARIO_RESET", "BOUND_EVIDENCE_NO_LONGER_CURRENT"}
NoEntity == "NONE"
NoValue == "NONE"
EventValues ==
  SwitchState \cup Outcomes \cup Configs
    \cup {NoValue, "FAULTED", "ACKNOWLEDGED", "INVALIDATED"}

Point == [value : SwitchState, quality : Quality, at : Times, revision : Nat]
Outage == [dead : SUBSET Sections, restored : SUBSET Sections]
CandidateRecord ==
  [tie : Switches \cup {NoEntity}, feeder : Feeders \cup {NoEntity},
   sections : SUBSET Sections]
AssessmentRecord ==
  [outcome : Outcomes, candidate : CandidateRecord, revision : Nat,
   evidence : [Monitored -> Point], at : Times]
InvalidationRecord ==
  [assessment : Nat, event : Nat, reason : InvalidationReasons,
   revision : Nat, at : Times]
Event ==
  [type : EventTypes, entity : Switches \cup Sections \cup {NoEntity},
   value : EventValues, assessment : Nat, at : Times, revision : Nat,
   command : CommandIds]
Run ==
  [mode : Modes, config : Configs, fault : Sections, initial : Times,
   time : Times, revision : Nat, stage : Stages, label : Labels,
   status : Statuses, faultActive : BOOLEAN, alarm : AlarmStates,
   telemetry : [Switches -> Point], outages : Seq(Outage),
   assessments : Seq(AssessmentRecord), invalidations : Seq(InvalidationRecord),
   events : Seq(Event)]

ASSUME NoRunAssumption == NoRun \notin Run

-----------------------------------------------------------------------------
(* What the services derive from a stored run.                             *)

Live(r) == runs[r] # NoRun
Mutable(r) == Live(r) /\ runs[r].status # "CLOSED"

ClosedNow(run) == {d \in Switches : run.telemetry[d].value = "CLOSED"}

\* Telemetry as the topology engine observes it at scenario time t.
Observe(telemetry, t) ==
  [d \in Switches |-> [value |-> telemetry[d].value,
                       quality |-> telemetry[d].quality,
                       freshness |-> Freshness(t, telemetry[d].at)]]

\* _derive has an isolation proof only while the fault is active.
FaultIsolated(run, t) ==
  run.faultActive /\ Isolated(run.config, Observe(run.telemetry, t), run.fault)

Boundary(run, d) == d \in Incident(run.config, run.fault)
\* The breaker of another feeder.
AffectedBreakerMutant(run) ==
  BreakerOf[CHOOSE f \in Feeders : f # FeederOf[run.fault]]
AffectedBreaker(run) == BreakerOf[FeederOf[run.fault]]

\* OutageService.calculate with the outage of the previous revision.
OutageAfter(run, closed, previousDead) ==
  LET dead == Sections \ Energised(run.config, closed)
  IN  [dead |-> dead, restored |-> previousDead \ dead]

-----------------------------------------------------------------------------
(* The event log.                                                          *)

Spec3(type, entity, value) ==
  [type |-> type, entity |-> entity, value |-> value, assessment |-> 0]
About(spec, a) == [spec EXCEPT !.assessment = a]

\* _events_from_specs: event_sequence is the position in the log.
Logged(run, c, specs) ==
  run.events \o
    [i \in DOMAIN specs |->
       [type |-> specs[i].type, entity |-> specs[i].entity,
        value |-> specs[i].value, assessment |-> specs[i].assessment,
        at |-> run.time, revision |-> run.revision, command |-> c]]

DerivedSpecs == <<Spec3("TOPOLOGY_RECALCULATED", NoEntity, NoValue),
                  Spec3("OUTAGE_UPDATED", NoEntity, NoValue)>>

SwitchSpecs(d, v) == <<Spec3("TELEMETRY_UPDATED", d, v),
                       Spec3("DEVICE_STATE_CHANGE", d, v)>>

AllAbout(specs, a) == [i \in DOMAIN specs |-> About(specs[i], a)]

-----------------------------------------------------------------------------
(* Creating a run.                                                         *)

NormalPoint(d, t) ==
  [value |-> IF d \in NormalClosed THEN "CLOSED" ELSE "OPEN",
   quality |-> "GOOD", at |-> t, revision |-> 0]

\* _new_run, _normal_telemetry, the derived snapshots of revision 0 and
\* _initial_events.
NewRun(mode, g, fault, t, c) ==
  LET run == [mode |-> mode, config |-> g, fault |-> fault,
              initial |-> t, time |-> t, revision |-> 0,
              stage |-> "NORMAL", label |-> "N0", status |-> "INITIALISED",
              faultActive |-> FALSE, alarm |-> "NONE",
              telemetry |-> [d \in Switches |-> NormalPoint(d, t)],
              outages |-> << >>, assessments |-> << >>,
              invalidations |-> << >>, events |-> << >>]
  IN  [run EXCEPT
         !.outages = <<OutageAfter(run, NormalClosed, {})>>,
         !.events = Logged(run, c,
           <<Spec3("SCENARIO_INITIALISED", NoEntity, NoValue),
             Spec3("CONFIGURATION_SELECTED", NoEntity, g)>> \o DerivedSpecs)]

\* _validate_initialisation
ValidInitialisation(mode, g, fault) ==
  \/ mode = "FORMAL" /\ fault = FormalFault
  \/ mode = "EXPLORATION" /\ g = CorrectedConfig

\* What the handlers take for granted of the network and never check: tripping
\* the feeder breaker of a fault section de-energises it, and that breaker does
\* not bound the formal fault section, which is reclosed without a second look.
ASSUME ProtectionAssumption ==
  /\ \A mode \in Modes, g \in Configs, fault \in Sections :
       ValidInitialisation(mode, g, fault) =>
         fault \notin Energised(g, NormalClosed \ {BreakerOf[FeederOf[fault]]})
  /\ \A g \in Configs : BreakerOf[FeederOf[FormalFault]] \notin Incident(g, FormalFault)

\* And of the controlled packages: a feeder carries what it normally supplies, and
\* a fault costs only its own feeder, so that with the breaker and the boundaries
\* open every section of the other feeders is still supplied.
ASSUME SupplyAssumption ==
  /\ \A g \in Configs, f \in Feeders :
       LoadOf(SuppliedBy(g, NormalClosed, f)) <= Capacity[f]
  /\ \A mode \in Modes, g \in Configs, fault \in Sections :
       ValidInitialisation(mode, g, fault) =>
         LET dead == Sections \ Energised(g, NormalClosed \
                       (Incident(g, fault) \cup {BreakerOf[FeederOf[fault]]}))
         IN  \A s \in dead : FeederOf[s] = FeederOf[fault]

Initialise(n, mode, g, fault, t, c) ==
  /\ \A r \in RunIds : ~ Mutable(r)
  /\ ~ Live(n)
  /\ ValidInitialisation(mode, g, fault)
  /\ runs' = [runs EXCEPT ![n] = NewRun(mode, g, fault, t, c)]

-----------------------------------------------------------------------------
(* Closing a run and preserving its history.                               *)

InvalidatedIn(run) ==
  {run.invalidations[i].assessment : i \in DOMAIN run.invalidations}
LastAssessment(run) == Len(run.assessments)
Outstanding(run) ==
  LastAssessment(run) # 0 /\ LastAssessment(run) \notin InvalidatedIn(run)

Invalidation(run, t, event, reason) ==
  [assessment |-> LastAssessment(run), event |-> event, reason |-> reason,
   revision |-> run.revision, at |-> t]

CandidateTie(run, a) == run.assessments[a].candidate.tie

InvalidatedSpec(run) ==
  About(Spec3("RESTORATION_ASSESSMENT_INVALIDATED",
              CandidateTie(run, LastAssessment(run)), "INVALIDATED"),
        LastAssessment(run))

\* A run with an outstanding assessment keeps its status.
ClosedMutant(run, t, c) ==
  LET moved == [run EXCEPT !.time = t]
      reset == <<Spec3("SCENARIO_RESET", NoEntity, NoValue)>>
  IN  IF Outstanding(run)
      THEN [moved EXCEPT
              !.events = Logged(moved, c, <<InvalidatedSpec(run)>> \o reset),
              !.invalidations = Append(@, Invalidation(run, t,
                                  Len(run.events) + 1, "SCENARIO_RESET"))]
      ELSE [moved EXCEPT !.status = "CLOSED", !.events = Logged(moved, c, reset)]

\* The reset is logged first, and the record still names the first event.
ClosedOrderMutant(run, t, c) ==
  LET closed == [run EXCEPT !.time = t, !.status = "CLOSED"]
      reset  == <<Spec3("SCENARIO_RESET", NoEntity, NoValue)>>
  IN  IF Outstanding(run)
      THEN [closed EXCEPT
              !.events = Logged(closed, c, reset \o <<InvalidatedSpec(run)>>),
              !.invalidations = Append(@, Invalidation(run, t,
                                  Len(run.events) + 1, "SCENARIO_RESET"))]
      ELSE [closed EXCEPT !.events = Logged(closed, c, reset)]

\* _close_run_and_preserve_history: the invalidation record names the first
\* of the events just inserted.
Closed(run, t, c) ==
  LET closed == [run EXCEPT !.time = t, !.status = "CLOSED"]
      reset  == <<Spec3("SCENARIO_RESET", NoEntity, NoValue)>>
  IN  IF Outstanding(run)
      THEN [closed EXCEPT
              !.events = Logged(closed, c, <<InvalidatedSpec(run)>> \o reset),
              !.invalidations = Append(@, Invalidation(run, t,
                                  Len(run.events) + 1, "SCENARIO_RESET"))]
      ELSE [closed EXCEPT !.events = Logged(closed, c, reset)]

\* A closed run still accepts commands.
CurrentMutant(r, t) == Live(r) /\ t >= runs[r].time

\* execute: the run exists, is not closed, and time does not move backwards.
Current(r, t) == Mutable(r) /\ t >= runs[r].time

\* The old run is closed and no new one is created.
ResetRunMutant(r, n, t, c) ==
  /\ Current(r, t)
  /\ ~ Live(n)
  /\ runs' = [runs EXCEPT ![r] = Closed(runs[r], t, c)]

ResetRun(r, n, t, c) ==
  /\ Current(r, t)
  /\ ~ Live(n)
  /\ runs' = [runs EXCEPT
       ![r] = Closed(runs[r], t, c),
       ![n] = NewRun(runs[r].mode, runs[r].config, runs[r].fault,
                     runs[r].initial, c)]

\* initialise_replacement_run: the old run closes at its own time.
ReplaceRun(r, n, mode, g, fault, t, c) ==
  /\ Mutable(r)
  /\ ~ Live(n)
  /\ ValidInitialisation(mode, g, fault)
  /\ runs' = [runs EXCEPT
       ![r] = Closed(runs[r], runs[r].time, c),
       ![n] = NewRun(mode, g, fault, t, c)]

-----------------------------------------------------------------------------
(* Switching operations.                                                   *)

\* The outage of the network before the operation is stored.
OperatedOutageMutant(run, d, v, t) ==
  LET next == run.revision + 1
      point == [value |-> v, quality |-> "GOOD", at |-> t, revision |-> next]
  IN  [run EXCEPT
         !.telemetry[d] = point, !.time = t, !.revision = next,
         !.outages = Append(@, OutageAfter(run, ClosedNow(run),
                                           run.outages[next].dead))]

\* The operated device's observation keeps its old time.
OperatedTimeMutant(run, d, v, t) ==
  LET next == run.revision + 1
      point == [value |-> v, quality |-> "GOOD",
                at |-> run.telemetry[d].at, revision |-> next]
      telemetry == [run.telemetry EXCEPT ![d] = point]
      closed == {e \in Switches : telemetry[e].value = "CLOSED"}
  IN  [run EXCEPT
         !.telemetry = telemetry, !.time = t, !.revision = next,
         !.outages = Append(@, OutageAfter(run, closed,
                                           run.outages[next].dead))]

\* The stored run after device d is operated to v: telemetry is refreshed,
\* the revision advances and the derived snapshots are stored under it.
Operated(run, d, v, t) ==
  LET next == run.revision + 1
      point == [value |-> v, quality |-> "GOOD", at |-> t, revision |-> next]
      telemetry == [run.telemetry EXCEPT ![d] = point]
      closed == {e \in Switches : telemetry[e].value = "CLOSED"}
  IN  [run EXCEPT
         !.telemetry = telemetry, !.time = t, !.revision = next,
         !.outages = Append(@, OutageAfter(run, closed,
                                           run.outages[next].dead))]

CanInitiateFault(run) ==
  /\ run.label = "N0"
  /\ ~ run.faultActive
  /\ run.telemetry[AffectedBreaker(run)].value = "CLOSED"

FaultInitiated(run, t, c) ==
  LET d == AffectedBreaker(run)
      after == [Operated(run, d, "OPEN", t) EXCEPT
                  !.stage = "POST_FAULT", !.label = "N1", !.status = "ACTIVE",
                  !.faultActive = TRUE, !.alarm = "UNACKNOWLEDGED"]
  IN  [after EXCEPT !.events = Logged(after, c,
         <<Spec3("FAULT_INITIATED", run.fault, "FAULTED")>>
           \o SwitchSpecs(d, "OPEN")
           \o <<Spec3("ALARM_GENERATED", d, NoValue)>> \o DerivedSpecs)]

InitiateFault(r, t, c) ==
  /\ Current(r, t)
  /\ CanInitiateFault(runs[r])
  /\ runs' = [runs EXCEPT ![r] = FaultInitiated(@, t, c)]

CanAcknowledgeAlarm(run) == run.alarm = "UNACKNOWLEDGED"

\* Acknowledging clears the alarm, a state it does not have.
AlarmAcknowledgedMutant(run, t, c) ==
  LET after == [run EXCEPT !.alarm = "CLEARED", !.time = t]
  IN  [after EXCEPT !.events = Logged(after, c,
         <<Spec3("ALARM_ACKNOWLEDGED", AffectedBreaker(run), "ACKNOWLEDGED")>>)]

AlarmAcknowledged(run, t, c) ==
  LET after == [run EXCEPT !.alarm = "ACKNOWLEDGED", !.time = t]
  IN  [after EXCEPT !.events = Logged(after, c,
         <<Spec3("ALARM_ACKNOWLEDGED", AffectedBreaker(run), "ACKNOWLEDGED")>>)]

AcknowledgeAlarm(r, t, c) ==
  /\ Current(r, t)
  /\ CanAcknowledgeAlarm(runs[r])
  /\ runs' = [runs EXCEPT ![r] = AlarmAcknowledged(@, t, c)]

\* _ordered_isolation_boundaries: procedure position, then identifier.
ProcedureRank(d) ==
  LET listed == {i \in DOMAIN IsolationSequence : IsolationSequence[i] = d}
  IN  IF listed # {} THEN Min(listed) ELSE Len(IsolationSequence) + 1 + IdRank[d]

\* _next_isolation_target for FORMAL, _exploration_isolation_action_gate for
\* EXPLORATION, both asked of a topology derived at the request's time.
CanOperateIsolationDevice(run, d, t) ==
  LET obs == Observe(run.telemetry, t)
  IN  /\ run.label = "N1"
      /\ run.faultActive
      /\ Boundary(run, d)
      /\ ProvenClosed(obs[d])
      /\ run.mode = "FORMAL" =>
           \A e \in Incident(run.config, run.fault) :
             ProcedureRank(e) < ProcedureRank(d) => ProvenOpen(obs[e])

DeviceIsolated(run, d, t, c) ==
  LET moved == Operated(run, d, "OPEN", t)
      isolated == FaultIsolated(moved, t)
      after == [moved EXCEPT
                  !.stage = IF isolated THEN "FAULT_ISOLATED" ELSE "ISOLATING",
                  !.label = IF isolated THEN "N2" ELSE "N1",
                  !.status = "ACTIVE"]
  IN  [after EXCEPT !.events = Logged(after, c,
         <<Spec3("SWITCHING_ACTION", d, "OPEN")>>
           \o SwitchSpecs(d, "OPEN") \o DerivedSpecs)]

OperateIsolationDevice(r, d, t, c) ==
  /\ Current(r, t)
  /\ CanOperateIsolationDevice(runs[r], d, t)
  /\ runs' = [runs EXCEPT ![r] = DeviceIsolated(@, d, t, c)]

\* _normal_source_reclose_available: the closed breaker would leave the fault
\* isolated and energise a healthy section that is dead now.
RecloseAvailable(run, t) ==
  LET d == AffectedBreaker(run)
      point == [value |-> "CLOSED", quality |-> "GOOD", at |-> t,
                revision |-> run.revision + 1]
      proposed == [run EXCEPT !.telemetry[d] = point]
  IN  /\ run.telemetry[d].value = "OPEN"
      /\ FaultIsolated(proposed, t)
      /\ (Energised(run.config, ClosedNow(proposed)) \ {run.fault})
           \ Energised(run.config, ClosedNow(run)) # {}

CanRestoreNormalSource(run, t) ==
  /\ run.label = "N2"
  /\ FaultIsolated(run, t)
  /\ run.mode = "FORMAL" \/ RecloseAvailable(run, t)
  /\ run.telemetry[AffectedBreaker(run)].value = "OPEN"

SourceRestored(run, t, c) ==
  LET d == AffectedBreaker(run)
      after == [Operated(run, d, "CLOSED", t) EXCEPT
                  !.stage = "UPSTREAM_RESTORED", !.label = "N3",
                  !.status = "ACTIVE"]
  IN  [after EXCEPT !.events = Logged(after, c,
         <<Spec3("SWITCHING_ACTION", d, "CLOSED")>>
           \o SwitchSpecs(d, "CLOSED") \o DerivedSpecs)]

RestoreNormalSource(r, t, c) ==
  /\ Current(r, t)
  /\ CanRestoreNormalSource(runs[r], t)
  /\ runs' = [runs EXCEPT ![r] = SourceRestored(@, t, c)]

-----------------------------------------------------------------------------
(* Restoration assessment and execution.                                   *)

\* What an assessment binds.  The telemetry hash is the telemetry itself;
\* source availability never changes within a run and is not repeated.
Assessment(run, t) ==
  LET obs == Observe(run.telemetry, t)
  IN  [outcome |-> AssessmentOutcome(run.config, obs, run.fault),
       candidate |-> Candidate(run.config, ClosedIn(obs), run.fault),
       revision |-> run.revision,
       evidence |-> [d \in Monitored |-> run.telemetry[d]],
       at |-> t]

CanAssessRestoration(run, t) ==
  \/ run.label = "N3"
  \/ /\ run.mode = "EXPLORATION"
     /\ run.label = "N2"
     /\ FaultIsolated(run, t)
     /\ ~ RecloseAvailable(run, t)
  \/ /\ run.label = "N4"
     /\ LastAssessment(run) \in InvalidatedIn(run)

RunAssessed(run, t, c, a) ==
  LET n == LastAssessment(run) + 1
      found == IF a.candidate = NoCandidate THEN "RESTORATION_NO_CANDIDATE"
               ELSE "RESTORATION_CANDIDATE_IDENTIFIED"
      after == [run EXCEPT !.time = t, !.stage = "RESTORATION_ASSESSED",
                           !.label = "N4", !.assessments = Append(@, a)]
  IN  [after EXCEPT !.events = Logged(after, c,
         <<About(Spec3(found, a.candidate.tie, NoValue), n),
           About(Spec3("RESTORATION_ASSESSED", a.candidate.tie, a.outcome), n)>>)]

RestorationAssessed(run, t, c) == RunAssessed(run, t, c, Assessment(run, t))

AssessRestoration(r, t, c) ==
  /\ Current(r, t)
  /\ CanAssessRestoration(runs[r], t)
  /\ runs' = [runs EXCEPT ![r] = RestorationAssessed(@, t, c)]

\* The current, uninvalidated PERMITTED assessment at N4.
ExecutionRequested(run, a) ==
  /\ a = LastAssessment(run)
  /\ Outstanding(run)
  /\ run.assessments[a].outcome = "PERMITTED"
  /\ run.label = "N4"

\* _assessment_binding_matches: a projection made now repeats what the
\* assessment bound, and its outcome.
Binds(bound, projection) ==
  /\ bound.revision = projection.revision
  /\ bound.evidence = projection.evidence
  /\ bound.candidate = projection.candidate
  /\ projection.outcome = "PERMITTED"

\* The projection is made at the time of the last command.
BindingMatchesClockMutant(run, a, t) ==
  Binds(run.assessments[a], Assessment(run, run.time))

\* The binding includes the instant of the assessment.
BindingMatchesInstantMutant(run, a, t) ==
  /\ Binds(run.assessments[a], Assessment(run, t))
  /\ run.assessments[a].at = t

BindingMatches(run, a, t) == Binds(run.assessments[a], Assessment(run, t))

CanExecuteRestoration(run, a, t) ==
  /\ ExecutionRequested(run, a)
  /\ BindingMatches(run, a, t)
  /\ run.telemetry[CandidateTie(run, a)].value = "OPEN"

RestorationExecuted(run, a, t, c) ==
  LET d == CandidateTie(run, a)
      after == [Operated(run, d, "CLOSED", t) EXCEPT
                  !.stage = "RESTORATION_EXECUTED", !.label = "N5",
                  !.status = "RUN_COMPLETE"]
  IN  [after EXCEPT !.events = Logged(after, c,
         AllAbout(<<Spec3("SWITCHING_ACTION", d, "CLOSED")>>
                    \o SwitchSpecs(d, "CLOSED") \o DerivedSpecs, a))]

ExecuteRestoration(r, a, t, c) ==
  /\ Current(r, t)
  /\ CanExecuteRestoration(runs[r], a, t)
  /\ runs' = [runs EXCEPT ![r] = RestorationExecuted(@, a, t, c)]

\* The invalidation names the event before the one that records it.
AssessmentLapsedMutant(run, t, c) ==
  LET moved == [run EXCEPT !.time = t]
  IN  [moved EXCEPT
         !.events = Logged(moved, c, <<InvalidatedSpec(run)>>),
         !.invalidations = Append(@, Invalidation(run, t,
            Len(run.events), "BOUND_EVIDENCE_NO_LONGER_CURRENT"))]

\* The other outcome of the same handler: the binding no longer holds, so the
\* command is rejected, and the rejection itself invalidates the assessment.
AssessmentLapsed(run, t, c) ==
  LET moved == [run EXCEPT !.time = t]
  IN  [moved EXCEPT
         !.events = Logged(moved, c, <<InvalidatedSpec(run)>>),
         !.invalidations = Append(@, Invalidation(run, t,
            Len(run.events) + 1, "BOUND_EVIDENCE_NO_LONGER_CURRENT"))]

InvalidateAssessment(r, a, t, c) ==
  /\ Current(r, t)
  /\ ExecutionRequested(runs[r], a)
  /\ ~ BindingMatches(runs[r], a, t)
  /\ runs' = [runs EXCEPT ![r] = AssessmentLapsed(@, t, c)]

-----------------------------------------------------------------------------
(* The commands a client may send, to a run and to the coordinator.        *)

RunCommand(r, t, c) ==
  \/ InitiateFault(r, t, c)
  \/ AcknowledgeAlarm(r, t, c)
  \/ \E d \in Switches : OperateIsolationDevice(r, d, t, c)
  \/ RestoreNormalSource(r, t, c)
  \/ AssessRestoration(r, t, c)
  \/ \E a \in DOMAIN runs[r].assessments :
        ExecuteRestoration(r, a, t, c) \/ InvalidateAssessment(r, a, t, c)

Init == runs = [r \in RunIds |-> NoRun]

Next ==
  \E t \in Times, c \in CommandIds :
    \/ \E n \in RunIds, mode \in Modes, g \in Configs, fault \in Sections :
         \/ Initialise(n, mode, g, fault, t, c)
         \/ \E r \in RunIds : ReplaceRun(r, n, mode, g, fault, t, c)
    \/ \E r \in RunIds : \/ Live(r) /\ RunCommand(r, t, c)
                         \/ \E n \in RunIds : ResetRun(r, n, t, c)

Spec == Init /\ [][Next]_vars

-----------------------------------------------------------------------------
(* What the snapshot tells a client it may do: _allowed_actions, computed  *)
(* at the run's own time.                                                  *)

Action3(type, target, a) == [type |-> type, target |-> target, assessment |-> a]

Offered(type, available) ==
  IF available THEN {Action3(type, NoEntity, 0)} ELSE {}

\* The outcome is believed without a new projection.
CurrentExecutableMutant(run) ==
  /\ Outstanding(run)
  /\ run.assessments[LastAssessment(run)].outcome = "PERMITTED"

\* current_assessment_executable of _assemble_snapshot.
CurrentExecutable(run) ==
  /\ Outstanding(run)
  /\ run.assessments[LastAssessment(run)].outcome = "PERMITTED"
  /\ BindingMatches(run, LastAssessment(run), run.time)

AllowedActions(run) ==
  IF run.status = "CLOSED" THEN {}
  ELSE UNION {
    Offered("INITIATE_FAULT", run.label = "N0" /\ ~ run.faultActive),
    Offered("ACKNOWLEDGE_ALARM", run.alarm = "UNACKNOWLEDGED"),
    {Action3("OPERATE_ISOLATION_DEVICE", d, 0) :
       d \in {e \in Switches : CanOperateIsolationDevice(run, e, run.time)}},
    Offered("RESTORE_NORMAL_SOURCE",
      /\ run.label = "N2"
      /\ FaultIsolated(run, run.time)
      /\ run.mode = "FORMAL" \/ RecloseAvailable(run, run.time)),
    Offered("ASSESS_RESTORATION", CanAssessRestoration(run, run.time)),
    {Action3("EXECUTE_RESTORATION", NoEntity, a) :
       a \in {b \in {LastAssessment(run)} :
                run.label = "N4" /\ CurrentExecutable(run)}},
    Offered("RESET_RUN", TRUE)}

=============================================================================
