---------------------------- MODULE ScenarioSafety ----------------------------
(***************************************************************************)
(* What must hold of every scenario run, whatever commands its clients     *)
(* send, in whatever order, at whatever non-decreasing scenario times.     *)
(***************************************************************************)
EXTENDS ScenarioRun

LiveRuns == {r \in RunIds : Live(r)}

\* The scenario database holds well-formed rows: what RunContext,
\* TelemetryPoint, OutageResult, RestorationAssessment and OperationalEvent
\* admit.
TypeOK == runs \in [RunIds -> Run \cup {NoRun}]

-----------------------------------------------------------------------------
(* The network.                                                            *)

\* While a fault is active no path of closed devices joins the faulted
\* section to a source: neither isolation nor reclosing nor the tie ever
\* energises it, whatever was stale when the decision was taken.
FaultedSectionDead ==
  \A r \in LiveRuns :
    runs[r].faultActive =>
      runs[r].fault \notin Energised(runs[r].config, ClosedNow(runs[r]))

\* An executed restoration leaves a radial network in which no feeder carries
\* more than its capacity, and has supplied what its candidate proposed.  The
\* permissives are judged on the network before the tie closes; this is the
\* network after it.
RestoredNetworkSound ==
  \A r \in LiveRuns :
    runs[r].label = "N5" =>
      LET run == runs[r]
          supply(f) == SuppliedBy(run.config, ClosedNow(run), f)
          bound == run.assessments[LastAssessment(run)].candidate
      IN  /\ Radial(run.config, ClosedNow(run))
          /\ \A f \in Feeders : LoadOf(supply(f)) <= Capacity[f]
          /\ bound.sections \subseteq supply(bound.feeder)

\* Telemetry is refreshed only by operating the device, so the evidence of
\* every device left alone dates from initialisation: a boundary can be opened
\* and the tie can be closed only within the freshness limit of that instant.
\* A gate that judged an old observation by an old clock would break this.
ProcedureWindow ==
  \A r \in LiveRuns :
    LET run == runs[r]
        deadline == run.initial + FreshLimit
    IN  /\ run.label \in {"N2", "N3", "N4", "N5"} =>
             \A d \in Incident(run.config, run.fault) : run.telemetry[d].at <= deadline
        /\ run.label = "N5" =>
             run.telemetry[CandidateTie(run, LastAssessment(run))].at <= deadline

-----------------------------------------------------------------------------
(* Assessments.                                                            *)

\* Invalidation is complete and evidenced: every assessment except the last
\* has been invalidated, a closed run has none outstanding, no assessment is
\* invalidated twice, and each invalidation names the event that records it.
InvalidationEvidenced ==
  \A r \in LiveRuns :
    LET run == runs[r]
    IN  /\ \A a \in 1 .. LastAssessment(run) - 1 : a \in InvalidatedIn(run)
        /\ run.status = "CLOSED" => ~ Outstanding(run)
        /\ \A i, j \in DOMAIN run.invalidations :
             run.invalidations[i].assessment = run.invalidations[j].assessment => i = j
        /\ \A i \in DOMAIN run.invalidations :
             LET record == run.invalidations[i]
             IN  /\ record.event \in DOMAIN run.events
                 /\ LET event == run.events[record.event]
                    IN  /\ event.type = "RESTORATION_ASSESSMENT_INVALIDATED"
                        /\ event.assessment = record.assessment
                        /\ event.at = record.at
                        /\ event.revision = record.revision

\* Reassessment after an invalidation never permits: within a run only ageing
\* can break a binding, and nothing the coordinator offers refreshes what has
\* aged.  A run whose permitted assessment lapsed can only be reset.
ReassessmentNeverPermits ==
  \A r \in LiveRuns :
    \A a \in DOMAIN runs[r].assessments :
      a > 1 => runs[r].assessments[a].outcome # "PERMITTED"

\* Every action the snapshot offers is accepted when it is sent back at once:
\* the offers and the handlers decide separately, the offers without the
\* handlers' checks on the breaker and the tie.
OffersAreAccepted ==
  \A r \in LiveRuns :
    LET run == runs[r]
    IN  \A x \in AllowedActions(run) :
          \/ x.type = "INITIATE_FAULT" /\ CanInitiateFault(run)
          \/ x.type = "ACKNOWLEDGE_ALARM" /\ CanAcknowledgeAlarm(run)
          \/ /\ x.type = "OPERATE_ISOLATION_DEVICE"
             /\ CanOperateIsolationDevice(run, x.target, run.time)
          \/ x.type = "RESTORE_NORMAL_SOURCE" /\ CanRestoreNormalSource(run, run.time)
          \/ x.type = "ASSESS_RESTORATION" /\ CanAssessRestoration(run, run.time)
          \/ /\ x.type = "EXECUTE_RESTORATION"
             /\ CanExecuteRestoration(run, x.assessment, run.time)
          \/ x.type = "RESET_RUN" /\ Mutable(r)

-----------------------------------------------------------------------------
(* The audit trail.                                                        *)

\* The positions in the log of the state changes of device d, and of the topology
\* recalculations.
ChangesOf(run, d) ==
  {i \in DOMAIN run.events :
     run.events[i].type = "DEVICE_STATE_CHANGE" /\ run.events[i].entity = d}
Recalculations(run) ==
  {i \in DOMAIN run.events : run.events[i].type = "TOPOLOGY_RECALCULATED"}

\* Nothing is left of device d but its normal state and the events that change it.
TelemetryExplained(run, d) ==
  IF ChangesOf(run, d) = {} THEN run.telemetry[d] = NormalPoint(d, run.initial)
  ELSE \E i \in ChangesOf(run, d) :
         /\ \A j \in ChangesOf(run, d) : j <= i
         /\ run.telemetry[d] =
              [value |-> run.events[i].value, quality |-> "GOOD",
               at |-> run.events[i].at, revision |-> run.events[i].revision]

\* The event log alone explains the stored telemetry: a device is in the state
\* its last DEVICE_STATE_CHANGE says, since the time and the revision that
\* event says, or in its normal state if there is none; each revision has one
\* recalculation, and neither time nor revision ever runs backwards.
EventsExplainTelemetry ==
  \A r \in LiveRuns :
    LET run == runs[r]
        log == run.events
    IN  /\ \A d \in Switches : TelemetryExplained(run, d)
        /\ \A k \in 0 .. run.revision : \E i \in Recalculations(run) : log[i].revision = k
        /\ \A i, j \in Recalculations(run) : log[i].revision = log[j].revision => i = j
        /\ \A i \in DOMAIN log : log[i].at <= run.time /\ log[i].revision <= run.revision
        /\ \A i, j \in DOMAIN log :
             i < j => log[i].at <= log[j].at /\ log[i].revision <= log[j].revision

\* The outage the snapshot shows, which is the one stored under the run's
\* revision, is the outage of the telemetry the snapshot shows, although
\* acknowledging and assessing move the run without storing a new one.
OutageIsCurrent ==
  \A r \in LiveRuns :
    LET run == runs[r]
    IN  /\ run.revision + 1 = Len(run.outages)
        /\ run.outages[run.revision + 1].dead
             = Sections \ Energised(run.config, ClosedNow(run))

-----------------------------------------------------------------------------
(* Several runs.                                                           *)

\* At most one run is not closed, through resets and linked replacements.
OneMutableRun ==
  \A r, s \in RunIds : Mutable(r) /\ Mutable(s) => r = s

\* Evidence is immutable: a closed run never changes, and an open one only
\* appends to its logs, never moves its clock or its revision back, and never
\* forgets its mode, configuration, fault or start.
IsExtendedBy(s, t) == Len(s) <= Len(t) /\ \A i \in DOMAIN s : s[i] = t[i]

Preserved(old, new) ==
  /\ old.status = "CLOSED" => new = old
  /\ IsExtendedBy(old.events, new.events)
  /\ IsExtendedBy(old.outages, new.outages)
  /\ IsExtendedBy(old.assessments, new.assessments)
  /\ IsExtendedBy(old.invalidations, new.invalidations)
  /\ old.time <= new.time
  /\ old.revision <= new.revision
  /\ old.mode = new.mode /\ old.config = new.config
  /\ old.fault = new.fault /\ old.initial = new.initial

HistoryPreserved ==
  [][\A r \in RunIds : Live(r) => runs[r]' # NoRun /\ Preserved(runs[r], runs[r]')]_vars

\* The coordinator implements SupplyRestoration: the workflow label gives the
\* phase, and the topology of the stored telemetry gives the supply.
PhaseOf(r) ==
  IF ~ Live(r) THEN "ABSENT"
  ELSE CASE runs[r].status = "CLOSED" -> "CLOSED"
         [] runs[r].status # "CLOSED" /\ runs[r].label = "N0" -> "NORMAL"
         [] runs[r].status # "CLOSED" /\ runs[r].label = "N1" -> "FAULTED"
         [] runs[r].status # "CLOSED" /\ runs[r].label \in {"N2", "N3", "N4"} -> "ISOLATED"
         [] runs[r].status # "CLOSED" /\ runs[r].label = "N5" -> "RESTORED"

Supply == INSTANCE SupplyRestoration WITH
  phase <- [r \in RunIds |-> PhaseOf(r)],
  faulted <- [r \in RunIds |-> IF Live(r) THEN runs[r].fault ELSE FormalFault],
  supplied <- [r \in RunIds |->
                 IF Live(r) THEN Energised(runs[r].config, ClosedNow(runs[r])) ELSE {}]

ImplementsSupplyRestoration == Supply!Spec
=============================================================================
