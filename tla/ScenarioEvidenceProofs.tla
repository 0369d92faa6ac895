----------------------- MODULE ScenarioEvidenceProofs -----------------------
(***************************************************************************)
(* What the rows of the scenario database say about themselves: that the   *)
(* stored outage, the log, the assessments and the clock agree with one    *)
(* another after every command, that the offers agree with the handlers,   *)
(* and that the coordinator implements SupplyRestoration, for every        *)
(* network, every number of runs and every clock.                          *)
(*                                                                         *)
(* First each handler is reduced to what it does to a row, then each step  *)
(* of the coordinator to what it does to one row or two.  The invariant    *)
(* Sound is proved part by part from that, and the properties from it.     *)
(***************************************************************************)
EXTENDS ScenarioSafetyProofs

-----------------------------------------------------------------------------
(* What each handler does to the fields of a row.                          *)

\* The row keeps what its run was started with.
SameStart(run, new) ==
  /\ new.mode = run.mode /\ new.config = run.config
  /\ new.fault = run.fault /\ new.initial = run.initial

\* Device d is operated to v at time t, and the outage of the network that results
\* is stored.
Operates(run, d, v, t, new) ==
  /\ SameStart(run, new)
  /\ new.time = t /\ new.revision = run.revision + 1
  /\ new.telemetry = [run.telemetry EXCEPT ![d] =
       [value |-> v, quality |-> "GOOD", at |-> t, revision |-> run.revision + 1]]
  /\ new.outages = Append(run.outages,
       OutageAfter(run, ClosedNow(new), run.outages[run.revision + 1].dead))
  /\ new.assessments = run.assessments /\ new.invalidations = run.invalidations

\* Nothing is operated.
Stays(run, t, new) ==
  /\ SameStart(run, new)
  /\ new.time = t /\ new.revision = run.revision
  /\ new.telemetry = run.telemetry /\ new.outages = run.outages
  /\ new.faultActive = run.faultActive

\* The events that specs describe are appended to the log.
Recorded(spec, t, revision, c) ==
  [type |-> spec.type, entity |-> spec.entity, value |-> spec.value,
   assessment |-> spec.assessment, at |-> t, revision |-> revision, command |-> c]

Inserted(t, revision, c, specs) ==
  [i \in DOMAIN specs |-> Recorded(specs[i], t, revision, c)]

Writes(run, t, c, specs, new) ==
  new.events = run.events \o Inserted(t, new.revision, c, specs)

LEMMA OperatedEffect ==
  ASSUME NEW run \in WellFormed, NEW d \in Switches, NEW v \in SwitchState, NEW t \in Times
  PROVE  LET after == Operated(run, d, v, t)
         IN  /\ Operates(run, d, v, t, after)
             /\ after.label = run.label /\ after.faultActive = run.faultActive
             /\ after.alarm = run.alarm /\ after.status = run.status
             /\ after.events = run.events
<1> DEFINE next == run.revision + 1
           point == [value |-> v, quality |-> "GOOD", at |-> t, revision |-> next]
           telemetry == [run.telemetry EXCEPT ![d] = point]
           closed == {e \in Switches : telemetry[e].value = "CLOSED"}
           o == OutageAfter(run, closed, run.outages[next].dead)
           after == [run EXCEPT !.telemetry = telemetry, !.time = t,
                                !.revision = next, !.outages = Append(@, o)]
<1>1. Operated(run, d, v, t) = after
  BY DEF Operated
<1> HIDE DEF telemetry, closed, o, next
<1>2. /\ after.telemetry = telemetry /\ after.outages = Append(run.outages, o)
      /\ after.revision = next /\ after.time = t
      /\ SameStart(run, after)
      /\ after.label = run.label /\ after.faultActive = run.faultActive
      /\ after.alarm = run.alarm /\ after.status = run.status
      /\ after.events = run.events
      /\ after.assessments = run.assessments /\ after.invalidations = run.invalidations
  BY Fields DEF Run, SameStart
<1>3. ClosedNow(after) = closed
  BY <1>2 DEF ClosedNow, closed
<1> HIDE DEF after
<1> QED
  BY <1>1, <1>2, <1>3 DEF Operates, telemetry, o, next

TripSpecs(run) ==
  <<Spec3("FAULT_INITIATED", run.fault, "FAULTED")>>
    \o SwitchSpecs(AffectedBreaker(run), "OPEN")
    \o <<Spec3("ALARM_GENERATED", AffectedBreaker(run), NoValue)>> \o DerivedSpecs

LEMMA FaultInitiatedEffect ==
  ASSUME NEW run \in WellFormed, NEW t \in Times, NEW c \in CommandIds
  PROVE  LET new == FaultInitiated(run, t, c)
         IN  /\ Operates(run, AffectedBreaker(run), "OPEN", t, new)
             /\ new.label = "N1" /\ new.faultActive = TRUE
             /\ new.alarm = "UNACKNOWLEDGED" /\ new.status = "ACTIVE"
             /\ Writes(run, t, c, TripSpecs(run), new)
<1> DEFINE d == AffectedBreaker(run)
           operated == Operated(run, d, "OPEN", t)
           after == [operated EXCEPT
                       !.stage = "POST_FAULT", !.label = "N1", !.status = "ACTIVE",
                       !.faultActive = TRUE, !.alarm = "UNACKNOWLEDGED"]
           log == Logged(after, c, TripSpecs(run))
           new == [after EXCEPT !.events = log]
<1>1. FaultInitiated(run, t, c) = new
  BY DEF FaultInitiated, TripSpecs
<1>2. /\ operated \in WellFormed /\ Operates(run, d, "OPEN", t, operated)
      /\ operated.events = run.events
  BY AffectedBreakerType, OperatedType, OperatedEffect DEF SwitchState
<1> HIDE DEF operated
<1>l. log = run.events \o Inserted(t, operated.revision, c, TripSpecs(run))
  <2>1. /\ after.events = run.events /\ after.time = t
        /\ after.revision = operated.revision
    BY <1>2, Fields DEF Run, Operates
  <2> HIDE DEF after
  <2> QED
    BY <2>1 DEF Logged, Inserted, Recorded
<1> HIDE DEF log
<1>3. /\ new.label = "N1" /\ new.faultActive = TRUE
      /\ new.alarm = "UNACKNOWLEDGED" /\ new.status = "ACTIVE"
      /\ new.telemetry = operated.telemetry /\ new.outages = operated.outages
      /\ new.revision = operated.revision /\ new.time = operated.time
      /\ SameStart(operated, new)
      /\ new.assessments = operated.assessments
      /\ new.invalidations = operated.invalidations
      /\ new.events = log
  BY <1>2, Fields DEF Run, SameStart
<1> HIDE DEF new
<1>4. ClosedNow(new) = ClosedNow(operated)
  BY <1>3 DEF ClosedNow
<1> QED
  BY <1>1, <1>2, <1>3, <1>4, <1>l DEF Operates, SameStart, Writes

LEMMA AlarmAcknowledgedEffect ==
  ASSUME NEW run \in WellFormed, NEW t \in Times, NEW c \in CommandIds
  PROVE  LET new == AlarmAcknowledged(run, t, c)
         IN  /\ Stays(run, t, new)
             /\ new.label = run.label /\ new.alarm = "ACKNOWLEDGED"
             /\ new.status = run.status /\ new.assessments = run.assessments
             /\ new.invalidations = run.invalidations
             /\ Writes(run, t, c,
                  <<Spec3("ALARM_ACKNOWLEDGED", AffectedBreaker(run), "ACKNOWLEDGED")>>, new)
<1> DEFINE specs == <<Spec3("ALARM_ACKNOWLEDGED", AffectedBreaker(run), "ACKNOWLEDGED")>>
           after == [run EXCEPT !.alarm = "ACKNOWLEDGED", !.time = t]
           log == Logged(after, c, specs)
           new == [after EXCEPT !.events = log]
<1>1. AlarmAcknowledged(run, t, c) = new
  BY DEF AlarmAcknowledged
<1> HIDE DEF specs
<1>2. log = run.events \o Inserted(t, run.revision, c, specs)
  <2>1. /\ after.events = run.events /\ after.time = t
        /\ after.revision = run.revision
    BY Fields DEF Run
  <2> HIDE DEF after
  <2> QED
    BY <2>1 DEF Logged, Inserted, Recorded
<1> HIDE DEF log
<1>3. /\ SameStart(run, new) /\ new.time = t /\ new.revision = run.revision
      /\ new.telemetry = run.telemetry /\ new.outages = run.outages
      /\ new.faultActive = run.faultActive
      /\ new.label = run.label /\ new.alarm = "ACKNOWLEDGED"
      /\ new.status = run.status /\ new.assessments = run.assessments
      /\ new.invalidations = run.invalidations /\ new.events = log
  BY Fields DEF Run, SameStart
<1> HIDE DEF new
<1> QED
  BY <1>1, <1>2, <1>3 DEF Stays, Writes, specs

\* The events of a switching operation.
SwitchingSpecs(d, v) ==
  <<Spec3("SWITCHING_ACTION", d, v)>> \o SwitchSpecs(d, v) \o DerivedSpecs

LEMMA DeviceIsolatedEffect ==
  ASSUME NEW run \in WellFormed, NEW d \in Switches, NEW t \in Times, NEW c \in CommandIds
  PROVE  LET new == DeviceIsolated(run, d, t, c)
         IN  /\ Operates(run, d, "OPEN", t, new)
             /\ new.label \in {"N1", "N2"} /\ new.faultActive = run.faultActive
             /\ (new.label = "N2") = FaultIsolated(new, t)
             /\ new.alarm = run.alarm /\ new.status = "ACTIVE"
             /\ Writes(run, t, c, SwitchingSpecs(d, "OPEN"), new)
<1> DEFINE moved == Operated(run, d, "OPEN", t)
           isolated == FaultIsolated(moved, t)
           after == [moved EXCEPT
                       !.stage = IF isolated THEN "FAULT_ISOLATED" ELSE "ISOLATING",
                       !.label = IF isolated THEN "N2" ELSE "N1",
                       !.status = "ACTIVE"]
           log == Logged(after, c, SwitchingSpecs(d, "OPEN"))
           new == [after EXCEPT !.events = log]
<1>1. DeviceIsolated(run, d, t, c) = new
  BY DEF DeviceIsolated, SwitchingSpecs
<1>2. /\ moved \in WellFormed /\ Operates(run, d, "OPEN", t, moved)
      /\ moved.events = run.events /\ moved.faultActive = run.faultActive
      /\ moved.alarm = run.alarm
  BY OperatedType, OperatedEffect DEF SwitchState
<1>3. isolated \in BOOLEAN
  BY DEF FaultIsolated
<1> HIDE DEF moved
<1>4. log = run.events \o Inserted(t, moved.revision, c, SwitchingSpecs(d, "OPEN"))
  <2>1. /\ after.events = run.events /\ after.time = t
        /\ after.revision = moved.revision
    BY <1>2, Fields DEF Run, Operates
  <2> HIDE DEF after
  <2> QED
    BY <2>1 DEF Logged, Inserted, Recorded
<1> HIDE DEF log, isolated
<1>5. /\ new.label = (IF isolated THEN "N2" ELSE "N1") /\ new.status = "ACTIVE"
      /\ new.faultActive = moved.faultActive /\ new.alarm = moved.alarm
      /\ new.telemetry = moved.telemetry /\ new.outages = moved.outages
      /\ new.revision = moved.revision /\ new.time = moved.time
      /\ SameStart(moved, new)
      /\ new.assessments = moved.assessments
      /\ new.invalidations = moved.invalidations
      /\ new.events = log
  BY <1>2, Fields DEF Run, SameStart
<1> HIDE DEF new
<1>6. ClosedNow(new) = ClosedNow(moved)
  BY <1>5 DEF ClosedNow
<1>7. FaultIsolated(new, t) = isolated
  BY <1>5 DEF FaultIsolated, isolated, SameStart
<1>8. Operates(run, d, "OPEN", t, new)
  BY <1>2, <1>5, <1>6 DEF Operates, SameStart
<1>9. Writes(run, t, c, SwitchingSpecs(d, "OPEN"), new)
  BY <1>4, <1>5 DEF Writes
<1>10. (new.label = "N2") = isolated
  BY <1>3, <1>5
<1> QED
  BY <1>1, <1>2, <1>5, <1>7, <1>8, <1>9, <1>10

LEMMA SourceRestoredEffect ==
  ASSUME NEW run \in WellFormed, NEW t \in Times, NEW c \in CommandIds
  PROVE  LET new == SourceRestored(run, t, c)
         IN  /\ Operates(run, AffectedBreaker(run), "CLOSED", t, new)
             /\ new.label = "N3" /\ new.faultActive = run.faultActive
             /\ new.alarm = run.alarm /\ new.status = "ACTIVE"
             /\ Writes(run, t, c, SwitchingSpecs(AffectedBreaker(run), "CLOSED"), new)
<1> DEFINE d == AffectedBreaker(run)
           operated == Operated(run, d, "CLOSED", t)
           after == [operated EXCEPT
                       !.stage = "UPSTREAM_RESTORED", !.label = "N3", !.status = "ACTIVE"]
           log == Logged(after, c, SwitchingSpecs(d, "CLOSED"))
           new == [after EXCEPT !.events = log]
<1>1. SourceRestored(run, t, c) = new
  BY DEF SourceRestored, SwitchingSpecs
<1>2. /\ operated \in WellFormed /\ Operates(run, d, "CLOSED", t, operated)
      /\ operated.events = run.events /\ operated.faultActive = run.faultActive
      /\ operated.alarm = run.alarm
  BY AffectedBreakerType, OperatedType, OperatedEffect DEF SwitchState
<1> HIDE DEF operated
<1>3. log = run.events \o Inserted(t, operated.revision, c, SwitchingSpecs(d, "CLOSED"))
  <2>1. /\ after.events = run.events /\ after.time = t
        /\ after.revision = operated.revision
    BY <1>2, Fields DEF Run, Operates
  <2> HIDE DEF after
  <2> QED
    BY <2>1 DEF Logged, Inserted, Recorded
<1> HIDE DEF log
<1>4. /\ new.label = "N3" /\ new.status = "ACTIVE"
      /\ new.faultActive = operated.faultActive /\ new.alarm = operated.alarm
      /\ new.telemetry = operated.telemetry /\ new.outages = operated.outages
      /\ new.revision = operated.revision /\ new.time = operated.time
      /\ SameStart(operated, new)
      /\ new.assessments = operated.assessments
      /\ new.invalidations = operated.invalidations
      /\ new.events = log
  BY <1>2, Fields DEF Run, SameStart
<1> HIDE DEF new
<1>5. ClosedNow(new) = ClosedNow(operated)
  BY <1>4 DEF ClosedNow
<1> QED
  BY <1>1, <1>2, <1>3, <1>4, <1>5 DEF Operates, SameStart, Writes

\* The events of an assessment.
AssessmentSpecs(run, a) ==
  LET n == LastAssessment(run) + 1
      found == IF a.candidate = NoCandidate THEN "RESTORATION_NO_CANDIDATE"
               ELSE "RESTORATION_CANDIDATE_IDENTIFIED"
  IN  <<About(Spec3(found, a.candidate.tie, NoValue), n),
        About(Spec3("RESTORATION_ASSESSED", a.candidate.tie, a.outcome), n)>>

LEMMA RestorationAssessedEffect ==
  ASSUME NEW run \in WellFormed, NEW t \in Times, NEW c \in CommandIds
  PROVE  LET new == RestorationAssessed(run, t, c)
         IN  /\ Stays(run, t, new)
             /\ new.label = "N4" /\ new.alarm = run.alarm
             /\ new.status = run.status
             /\ new.assessments = Append(run.assessments, Assessment(run, t))
             /\ new.invalidations = run.invalidations
             /\ Writes(run, t, c, AssessmentSpecs(run, Assessment(run, t)), new)
<1> DEFINE a == Assessment(run, t)
           specs == AssessmentSpecs(run, a)
           after == [run EXCEPT !.time = t, !.stage = "RESTORATION_ASSESSED",
                                !.label = "N4", !.assessments = Append(@, a)]
           log == Logged(after, c, specs)
           new == [after EXCEPT !.events = log]
<1>1. RestorationAssessed(run, t, c) = new
  BY DEF RestorationAssessed, RunAssessed, AssessmentSpecs
<1> HIDE DEF specs, a
<1>2. log = run.events \o Inserted(t, run.revision, c, specs)
  <2>1. /\ after.events = run.events /\ after.time = t
        /\ after.revision = run.revision
    BY Fields DEF Run
  <2> HIDE DEF after
  <2> QED
    BY <2>1 DEF Logged, Inserted, Recorded
<1> HIDE DEF log
<1>3. /\ SameStart(run, new) /\ new.time = t /\ new.revision = run.revision
      /\ new.telemetry = run.telemetry /\ new.outages = run.outages
      /\ new.faultActive = run.faultActive
      /\ new.label = "N4" /\ new.alarm = run.alarm
      /\ new.status = run.status /\ new.assessments = Append(run.assessments, a)
      /\ new.invalidations = run.invalidations /\ new.events = log
  BY Fields DEF Run, SameStart
<1> HIDE DEF new
<1> QED
  BY <1>1, <1>2, <1>3 DEF Stays, Writes, specs, a

LEMMA RestorationExecutedEffect ==
  ASSUME NEW run \in WellFormed, NEW t \in Times, NEW c \in CommandIds, NEW a,
         CandidateTie(run, a) \in Switches
  PROVE  LET new == RestorationExecuted(run, a, t, c)
         IN  /\ Operates(run, CandidateTie(run, a), "CLOSED", t, new)
             /\ new.label = "N5" /\ new.faultActive = run.faultActive
             /\ new.alarm = run.alarm /\ new.status = "RUN_COMPLETE"
             /\ Writes(run, t, c,
                  AllAbout(SwitchingSpecs(CandidateTie(run, a), "CLOSED"), a), new)
<1> DEFINE d == CandidateTie(run, a)
           operated == Operated(run, d, "CLOSED", t)
           after == [operated EXCEPT
                       !.stage = "RESTORATION_EXECUTED", !.label = "N5",
                       !.status = "RUN_COMPLETE"]
           specs == AllAbout(SwitchingSpecs(d, "CLOSED"), a)
           log == Logged(after, c, specs)
           new == [after EXCEPT !.events = log]
<1>1. RestorationExecuted(run, a, t, c) = new
  BY DEF RestorationExecuted, SwitchingSpecs
<1>2. /\ operated \in WellFormed /\ Operates(run, d, "CLOSED", t, operated)
      /\ operated.events = run.events /\ operated.faultActive = run.faultActive
      /\ operated.alarm = run.alarm
  BY OperatedType, OperatedEffect DEF SwitchState
<1> HIDE DEF operated, specs
<1>3. log = run.events \o Inserted(t, operated.revision, c, specs)
  <2>1. /\ after.events = run.events /\ after.time = t
        /\ after.revision = operated.revision
    BY <1>2, Fields DEF Run, Operates
  <2> HIDE DEF after
  <2> QED
    BY <2>1 DEF Logged, Inserted, Recorded
<1> HIDE DEF log
<1>4. /\ new.label = "N5" /\ new.status = "RUN_COMPLETE"
      /\ new.faultActive = operated.faultActive /\ new.alarm = operated.alarm
      /\ new.telemetry = operated.telemetry /\ new.outages = operated.outages
      /\ new.revision = operated.revision /\ new.time = operated.time
      /\ SameStart(operated, new)
      /\ new.assessments = operated.assessments
      /\ new.invalidations = operated.invalidations
      /\ new.events = log
  BY <1>2, Fields DEF Run, SameStart
<1> HIDE DEF new
<1>5. ClosedNow(new) = ClosedNow(operated)
  BY <1>4 DEF ClosedNow
<1> QED
  BY <1>1, <1>2, <1>3, <1>4, <1>5 DEF Operates, SameStart, Writes, specs

\* The outstanding assessment is invalidated by the first of the events of specs.
Invalidates(run, t, reason, new) ==
  new.invalidations =
    Append(run.invalidations, Invalidation(run, t, Len(run.events) + 1, reason))

LEMMA AssessmentLapsedEffect ==
  ASSUME NEW run \in WellFormed, NEW t \in Times, NEW c \in CommandIds
  PROVE  LET new == AssessmentLapsed(run, t, c)
         IN  /\ Stays(run, t, new)
             /\ new.label = run.label /\ new.alarm = run.alarm
             /\ new.status = run.status /\ new.assessments = run.assessments
             /\ Invalidates(run, t, "BOUND_EVIDENCE_NO_LONGER_CURRENT", new)
             /\ Writes(run, t, c, <<InvalidatedSpec(run)>>, new)
<1> DEFINE specs == <<InvalidatedSpec(run)>>
           record == Invalidation(run, t, Len(run.events) + 1,
                                  "BOUND_EVIDENCE_NO_LONGER_CURRENT")
           moved == [run EXCEPT !.time = t]
           log == Logged(moved, c, specs)
           new == [moved EXCEPT !.events = log, !.invalidations = Append(@, record)]
<1>1. AssessmentLapsed(run, t, c) = new
  BY DEF AssessmentLapsed
<1> HIDE DEF specs, record
<1>2. log = run.events \o Inserted(t, run.revision, c, specs)
  <2>1. /\ moved.events = run.events /\ moved.time = t
        /\ moved.revision = run.revision
    BY Fields DEF Run
  <2> HIDE DEF moved
  <2> QED
    BY <2>1 DEF Logged, Inserted, Recorded
<1> HIDE DEF log
<1>3. /\ SameStart(run, new) /\ new.time = t /\ new.revision = run.revision
      /\ new.telemetry = run.telemetry /\ new.outages = run.outages
      /\ new.faultActive = run.faultActive
      /\ new.label = run.label /\ new.alarm = run.alarm
      /\ new.status = run.status /\ new.assessments = run.assessments
      /\ new.invalidations = Append(run.invalidations, record)
      /\ new.events = log
  BY Fields DEF Run, SameStart
<1> HIDE DEF new
<1> QED
  BY <1>1, <1>2, <1>3 DEF Stays, Writes, Invalidates, specs, record

\* The events that closing a run leaves.
ResetSpecs == <<Spec3("SCENARIO_RESET", NoEntity, NoValue)>>
ClosingSpecs(run) ==
  IF Outstanding(run) THEN <<InvalidatedSpec(run)>> \o ResetSpecs ELSE ResetSpecs

LEMMA ClosedEffect ==
  ASSUME NEW run \in WellFormed, NEW t \in Times, NEW c \in CommandIds
  PROVE  LET new == Closed(run, t, c)
         IN  /\ Stays(run, t, new)
             /\ new.label = run.label /\ new.alarm = run.alarm
             /\ new.status = "CLOSED" /\ new.assessments = run.assessments
             /\ Outstanding(run) => Invalidates(run, t, "SCENARIO_RESET", new)
             /\ ~ Outstanding(run) => new.invalidations = run.invalidations
             /\ Writes(run, t, c, ClosingSpecs(run), new)
<1> DEFINE specs == ClosingSpecs(run)
           record == Invalidation(run, t, Len(run.events) + 1, "SCENARIO_RESET")
           closed == [run EXCEPT !.time = t, !.status = "CLOSED"]
           log == Logged(closed, c, specs)
           new == Closed(run, t, c)
<1>1. /\ Outstanding(run) =>
           new = [closed EXCEPT !.events = log, !.invalidations = Append(@, record)]
      /\ ~ Outstanding(run) => new = [closed EXCEPT !.events = log]
  BY DEF Closed, ClosingSpecs, ResetSpecs
<1> HIDE DEF specs, record, new
<1>2. log = run.events \o Inserted(t, run.revision, c, specs)
  <2>1. /\ closed.events = run.events /\ closed.time = t
        /\ closed.revision = run.revision
    BY Fields DEF Run
  <2> HIDE DEF closed
  <2> QED
    BY <2>1 DEF Logged, Inserted, Recorded
<1> HIDE DEF log
<1>3. /\ SameStart(run, new) /\ new.time = t /\ new.revision = run.revision
      /\ new.telemetry = run.telemetry /\ new.outages = run.outages
      /\ new.faultActive = run.faultActive
      /\ new.label = run.label /\ new.alarm = run.alarm
      /\ new.status = "CLOSED" /\ new.assessments = run.assessments
      /\ Outstanding(run) => new.invalidations = Append(run.invalidations, record)
      /\ ~ Outstanding(run) => new.invalidations = run.invalidations
      /\ new.events = log
  <2>1. CASE Outstanding(run)
    BY <1>1, <2>1, Fields DEF Run, SameStart
  <2>2. CASE ~ Outstanding(run)
    BY <1>1, <2>2, Fields DEF Run, SameStart
  <2> QED
    BY <2>1, <2>2
<1> QED
  BY <1>2, <1>3 DEF Stays, Writes, Invalidates, specs, record, new

\* The events of a new run.
StartSpecs(g) ==
  <<Spec3("SCENARIO_INITIALISED", NoEntity, NoValue),
    Spec3("CONFIGURATION_SELECTED", NoEntity, g)>> \o DerivedSpecs

\* A run as it starts.
Starts(mode, g, fault, t, c, new) ==
  /\ new.mode = mode /\ new.config = g /\ new.fault = fault
  /\ new.initial = t /\ new.time = t /\ new.revision = 0
  /\ new.label = "N0" /\ new.status = "INITIALISED" /\ ~ new.faultActive
  /\ new.alarm = "NONE"
  /\ new.telemetry = [d \in Switches |-> NormalPoint(d, t)]
  /\ new.outages = <<OutageAfter(new, NormalClosed, {})>>
  /\ new.assessments = << >> /\ new.invalidations = << >>
  /\ new.events = << >> \o Inserted(t, 0, c, StartSpecs(g))

LEMMA NewRunEffect ==
  ASSUME NEW mode \in Modes, NEW g \in Configs, NEW fault \in Sections,
         NEW t \in Times, NEW c \in CommandIds
  PROVE  Starts(mode, g, fault, t, c, NewRun(mode, g, fault, t, c))
<1> DEFINE telemetry == [d \in Switches |-> NormalPoint(d, t)]
           run == [mode |-> mode, config |-> g, fault |-> fault,
                   initial |-> t, time |-> t, revision |-> 0,
                   stage |-> "NORMAL", label |-> "N0", status |-> "INITIALISED",
                   faultActive |-> FALSE, alarm |-> "NONE",
                   telemetry |-> telemetry,
                   outages |-> << >>, assessments |-> << >>,
                   invalidations |-> << >>, events |-> << >>]
           o == OutageAfter(run, NormalClosed, {})
           log == Logged(run, c, StartSpecs(g))
           new == NewRun(mode, g, fault, t, c)
<1>1. new = [run EXCEPT !.outages = <<o>>, !.events = log]
  BY DEF NewRun, StartSpecs
<1> HIDE DEF telemetry
<1>2. log = << >> \o Inserted(t, 0, c, StartSpecs(g))
  BY DEF Logged, Inserted, Recorded
<1> HIDE DEF o, log, new
<1>3. /\ new.mode = mode /\ new.config = g /\ new.fault = fault
      /\ new.initial = t /\ new.time = t /\ new.revision = 0
      /\ new.label = "N0" /\ new.status = "INITIALISED" /\ ~ new.faultActive
      /\ new.alarm = "NONE" /\ new.telemetry = telemetry
      /\ new.outages = <<o>> /\ new.events = log
      /\ new.assessments = << >> /\ new.invalidations = << >>
  BY <1>1
<1>4. o = OutageAfter(new, NormalClosed, {})
  BY <1>3 DEF OutageAfter, o
<1> QED
  BY <1>2, <1>3, <1>4 DEF Starts, telemetry, new

-----------------------------------------------------------------------------
(* One command, one closing, one start.                                    *)

Trips(run, t, c, new) ==
  /\ CanInitiateFault(run)
  /\ Operates(run, AffectedBreaker(run), "OPEN", t, new)
  /\ new.label = "N1" /\ new.status = "ACTIVE" /\ new.faultActive
  /\ Writes(run, t, c, TripSpecs(run), new)

Acknowledges(run, t, c, new) ==
  /\ Stays(run, t, new)
  /\ new.label = run.label /\ new.status = run.status
  /\ new.assessments = run.assessments /\ new.invalidations = run.invalidations
  /\ Writes(run, t, c,
       <<Spec3("ALARM_ACKNOWLEDGED", AffectedBreaker(run), "ACKNOWLEDGED")>>, new)

Isolates(run, d, t, c, new) ==
  /\ CanOperateIsolationDevice(run, d, t)
  /\ Operates(run, d, "OPEN", t, new)
  /\ new.label \in {"N1", "N2"} /\ new.status = "ACTIVE"
  /\ new.faultActive = run.faultActive
  /\ (new.label = "N2") = FaultIsolated(new, t)
  /\ Writes(run, t, c, SwitchingSpecs(d, "OPEN"), new)

Recloses(run, t, c, new) ==
  /\ CanRestoreNormalSource(run, t)
  /\ Operates(run, AffectedBreaker(run), "CLOSED", t, new)
  /\ new.label = "N3" /\ new.status = "ACTIVE"
  /\ new.faultActive = run.faultActive
  /\ Writes(run, t, c, SwitchingSpecs(AffectedBreaker(run), "CLOSED"), new)

Assesses(run, t, c, new) ==
  /\ CanAssessRestoration(run, t)
  /\ Stays(run, t, new)
  /\ new.label = "N4" /\ new.status = run.status
  /\ new.assessments = Append(run.assessments, Assessment(run, t))
  /\ new.invalidations = run.invalidations
  /\ Writes(run, t, c, AssessmentSpecs(run, Assessment(run, t)), new)

Executes(run, a, t, c, new) ==
  /\ CanExecuteRestoration(run, a, t)
  /\ Operates(run, CandidateTie(run, a), "CLOSED", t, new)
  /\ new.label = "N5" /\ new.status = "RUN_COMPLETE"
  /\ new.faultActive = run.faultActive
  /\ Writes(run, t, c, AllAbout(SwitchingSpecs(CandidateTie(run, a), "CLOSED"), a), new)

Lapses(run, a, t, c, new) ==
  /\ ExecutionRequested(run, a) /\ ~ BindingMatches(run, a, t)
  /\ Stays(run, t, new)
  /\ new.label = run.label /\ new.status = run.status
  /\ new.assessments = run.assessments
  /\ Invalidates(run, t, "BOUND_EVIDENCE_NO_LONGER_CURRENT", new)
  /\ Writes(run, t, c, <<InvalidatedSpec(run)>>, new)

\* What a command that is accepted at time t makes of a row.
Handled(run, t, c, new) ==
  \/ Trips(run, t, c, new)
  \/ Acknowledges(run, t, c, new)
  \/ \E d \in Switches : Isolates(run, d, t, c, new)
  \/ Recloses(run, t, c, new)
  \/ Assesses(run, t, c, new)
  \/ \E a \in DOMAIN run.assessments : Executes(run, a, t, c, new) \/ Lapses(run, a, t, c, new)

\* What closing the run makes of it.
Closes(run, t, c, new) ==
  /\ Stays(run, t, new)
  /\ new.label = run.label /\ new.status = "CLOSED"
  /\ new.assessments = run.assessments
  /\ Outstanding(run) => Invalidates(run, t, "SCENARIO_RESET", new)
  /\ ~ Outstanding(run) => new.invalidations = run.invalidations
  /\ Writes(run, t, c, ClosingSpecs(run), new)

LEMMA CommandHandles ==
  ASSUME TypeInv, NEW r \in RunIds, Live(r), NEW t \in Times, NEW c \in CommandIds,
         RunCommand(r, t, c)
  PROVE  /\ Current(r, t)
         /\ \E new \in WellFormed :
              /\ runs' = [runs EXCEPT ![r] = new]
              /\ Continues(runs[r], t, new)
              /\ Handled(runs[r], t, c, new)
              /\ Contained(runs[r]) => Contained(new)
<1> DEFINE run == runs[r]
           Effect == \E new \in WellFormed :
                       /\ runs' = [runs EXCEPT ![r] = new]
                       /\ Continues(run, t, new)
                       /\ Handled(run, t, c, new)
                       /\ Contained(run) => Contained(new)
<1>0. run \in WellFormed
  BY LiveType
<1> HIDE DEF run
<1>1. ASSUME InitiateFault(r, t, c) PROVE Current(r, t) /\ Effect
  <2> DEFINE new == FaultInitiated(run, t, c)
  <2>1. /\ Current(r, t) /\ CanInitiateFault(run)
        /\ runs' = [runs EXCEPT ![r] = new]
    BY <1>1 DEF InitiateFault, run
  <2>2. new \in WellFormed /\ Continues(run, t, new)
    BY <1>0, FaultInitiatedType
  <2>3. Trips(run, t, c, new)
    BY <1>0, <2>1, FaultInitiatedEffect DEF Trips
  <2>4. Contained(run) => Contained(new)
    BY <1>0, <2>1, FaultInitiatedContained
  <2> HIDE DEF new
  <2> QED
    BY <2>1, <2>2, <2>3, <2>4 DEF Handled
<1>2. ASSUME AcknowledgeAlarm(r, t, c) PROVE Current(r, t) /\ Effect
  <2> DEFINE new == AlarmAcknowledged(run, t, c)
  <2>1. Current(r, t) /\ runs' = [runs EXCEPT ![r] = new]
    BY <1>2 DEF AcknowledgeAlarm, run
  <2>2. new \in WellFormed /\ Continues(run, t, new)
    BY <1>0, AlarmAcknowledgedType
  <2>3. Acknowledges(run, t, c, new)
    BY <1>0, AlarmAcknowledgedEffect DEF Acknowledges
  <2>4. Contained(run) => Contained(new)
    BY <1>0, AlarmAcknowledgedType, UnmovedContained
  <2> HIDE DEF new
  <2> QED
    BY <2>1, <2>2, <2>3, <2>4 DEF Handled
<1>3. ASSUME NEW d \in Switches, OperateIsolationDevice(r, d, t, c)
      PROVE  Current(r, t) /\ Effect
  <2> DEFINE new == DeviceIsolated(run, d, t, c)
  <2>1. /\ Current(r, t) /\ CanOperateIsolationDevice(run, d, t)
        /\ runs' = [runs EXCEPT ![r] = new]
    BY <1>3 DEF OperateIsolationDevice, run
  <2>2. new \in WellFormed /\ Continues(run, t, new)
    BY <1>0, DeviceIsolatedType
  <2>3. Isolates(run, d, t, c, new)
    BY <1>0, <2>1, DeviceIsolatedEffect DEF Isolates
  <2>4. Contained(run) => Contained(new)
    BY <1>0, <2>1, DeviceIsolatedContained
  <2> HIDE DEF new
  <2> QED
    BY <2>1, <2>2, <2>3, <2>4 DEF Handled
<1>4. ASSUME RestoreNormalSource(r, t, c) PROVE Current(r, t) /\ Effect
  <2> DEFINE new == SourceRestored(run, t, c)
  <2>1. /\ Current(r, t) /\ CanRestoreNormalSource(run, t)
        /\ runs' = [runs EXCEPT ![r] = new]
    BY <1>4 DEF RestoreNormalSource, run
  <2>2. new \in WellFormed /\ Continues(run, t, new)
    BY <1>0, SourceRestoredType
  <2>3. Recloses(run, t, c, new)
    BY <1>0, <2>1, SourceRestoredEffect DEF Recloses
  <2>4. Contained(run) => Contained(new)
    BY <1>0, <2>1, SourceRestoredContained
  <2> HIDE DEF new
  <2> QED
    BY <2>1, <2>2, <2>3, <2>4 DEF Handled
<1>5. ASSUME AssessRestoration(r, t, c) PROVE Current(r, t) /\ Effect
  <2> DEFINE new == RestorationAssessed(run, t, c)
  <2>1. /\ Current(r, t) /\ CanAssessRestoration(run, t)
        /\ runs' = [runs EXCEPT ![r] = new]
    BY <1>5 DEF AssessRestoration, run
  <2>2. new \in WellFormed /\ Continues(run, t, new)
    BY <1>0, RestorationAssessedType
  <2>3. Assesses(run, t, c, new)
    BY <1>0, <2>1, RestorationAssessedEffect DEF Assesses
  <2>4. Contained(run) => Contained(new)
    BY <1>0, <2>1, RestorationAssessedContained
  <2> HIDE DEF new
  <2> QED
    BY <2>1, <2>2, <2>3, <2>4 DEF Handled
<1>6. ASSUME NEW a \in DOMAIN run.assessments, ExecuteRestoration(r, a, t, c)
      PROVE Current(r, t) /\ Effect
  <2> DEFINE new == RestorationExecuted(run, a, t, c)
  <2>1. /\ Current(r, t) /\ CanExecuteRestoration(run, a, t)
        /\ runs' = [runs EXCEPT ![r] = new]
    BY <1>6 DEF ExecuteRestoration, run
  <2>2. new \in WellFormed /\ Continues(run, t, new)
    BY <1>0, <2>1, RestorationExecutedType
  <2>3. Executes(run, a, t, c, new)
    <3>1. CandidateTie(run, a) \in Switches
      BY <1>0, <2>1, Executable
    <3> QED
      BY <1>0, <2>1, <3>1, RestorationExecutedEffect DEF Executes
  <2>4. Contained(run) => Contained(new)
    BY <1>0, <2>1, RestorationExecutedContained
  <2> HIDE DEF new
  <2> QED
    BY <2>1, <2>2, <2>3, <2>4 DEF Handled
<1>7. ASSUME NEW a \in DOMAIN run.assessments, InvalidateAssessment(r, a, t, c)
      PROVE Current(r, t) /\ Effect
  <2> DEFINE new == AssessmentLapsed(run, t, c)
  <2>1. /\ Current(r, t) /\ ExecutionRequested(run, a) /\ ~ BindingMatches(run, a, t)
        /\ runs' = [runs EXCEPT ![r] = new]
    BY <1>7 DEF InvalidateAssessment, run
  <2>0. Outstanding(run)
    BY <2>1 DEF ExecutionRequested
  <2>2. new \in WellFormed /\ Continues(run, t, new)
    BY <1>0, <2>0, AssessmentLapsedType
  <2>3. Lapses(run, a, t, c, new)
    BY <1>0, <2>1, AssessmentLapsedEffect DEF Lapses
  <2>4. Contained(run) => Contained(new)
    BY <1>0, <2>0, AssessmentLapsedType, UnmovedContained
  <2> HIDE DEF new
  <2> QED
    BY <2>1, <2>2, <2>3, <2>4 DEF Handled
<1> QED
  BY <1>1, <1>2, <1>3, <1>4, <1>5, <1>6, <1>7 DEF RunCommand, run

\* A run starts.
Opened(n, t, c, new) ==
  \E mode \in Modes, g \in Configs, fault \in Sections :
    ValidInitialisation(mode, g, fault) /\ Starts(mode, g, fault, t, c, new)

\* Run r is closed as of time u, and run n starts.
Followed(r, n, u, c) ==
  /\ Mutable(r) /\ ~ Live(n) /\ runs[r].time <= u /\ u \in Times
  /\ \E closed \in WellFormed, new \in WellFormed, t \in Times :
       /\ runs' = [runs EXCEPT ![r] = closed, ![n] = new]
       /\ Closes(runs[r], u, c, closed) /\ Continues(runs[r], u, closed)
       /\ Opened(n, t, c, new)
       /\ Contained(runs[r]) => Contained(closed) /\ Contained(new)

LEMMA ResetFollows ==
  ASSUME TypeInv, ContainedInv, NEW r \in RunIds, NEW n \in RunIds, NEW t \in Times,
         NEW c \in CommandIds, ResetRun(r, n, t, c)
  PROVE  Followed(r, n, t, c)
<1> DEFINE run == runs[r]
           closed == Closed(run, t, c)
           new == NewRun(run.mode, run.config, run.fault, run.initial, c)
<1>1. Mutable(r) /\ run \in WellFormed /\ t >= run.time /\ ~ Live(n) /\ Contained(run)
        /\ runs' = [runs EXCEPT ![r] = closed, ![n] = new]
  BY LiveType DEF ResetRun, Current, Mutable, ContainedInv
<1> HIDE DEF run
<1>2. /\ run.mode \in Modes /\ run.config \in Configs /\ run.fault \in Sections
      /\ run.initial \in Times /\ run.time \in Nat /\ t \in Nat
  BY <1>1, Fields, ScenarioAssumption DEF ScenarioAssumption
<1>3. closed \in WellFormed /\ Continues(run, t, closed) /\ Contained(closed)
  BY <1>1, ClosedType, ClosedContained
<1>4. Closes(run, t, c, closed)
  BY <1>1, ClosedEffect DEF Closes
<1>5. ValidInitialisation(run.mode, run.config, run.fault)
  BY <1>1 DEF Contained
<1>6. /\ new \in WellFormed /\ Contained(new)
      /\ Starts(run.mode, run.config, run.fault, run.initial, c, new)
  BY <1>2, <1>5, NewRunType, NewRunContained, NewRunEffect
<1> HIDE DEF closed, new
<1> QED
  BY <1>1, <1>2, <1>3, <1>4, <1>5, <1>6 DEF Followed, Opened, run

LEMMA ReplaceFollows ==
  ASSUME TypeInv, ContainedInv, NEW r \in RunIds, NEW n \in RunIds, NEW mode \in Modes,
         NEW g \in Configs, NEW fault \in Sections, NEW t \in Times,
         NEW c \in CommandIds, ReplaceRun(r, n, mode, g, fault, t, c)
  PROVE  Followed(r, n, runs[r].time, c)
<1> DEFINE run == runs[r]
           closed == Closed(run, run.time, c)
           new == NewRun(mode, g, fault, t, c)
<1>1. /\ Mutable(r) /\ run \in WellFormed /\ ~ Live(n) /\ Contained(run)
      /\ ValidInitialisation(mode, g, fault)
      /\ runs' = [runs EXCEPT ![r] = closed, ![n] = new]
  BY LiveType DEF ReplaceRun, Mutable, ContainedInv
<1> HIDE DEF run
<1>2. run.time \in Times /\ run.time \in Nat
  BY <1>1, Fields, ScenarioAssumption DEF ScenarioAssumption
<1>3. /\ closed \in WellFormed /\ Continues(run, run.time, closed)
      /\ Contained(closed)
  BY <1>1, <1>2, ClosedType, ClosedContained
<1>4. Closes(run, run.time, c, closed)
  BY <1>1, <1>2, ClosedEffect DEF Closes
<1>5. /\ new \in WellFormed /\ Contained(new)
      /\ Starts(mode, g, fault, t, c, new)
  BY <1>1, NewRunType, NewRunContained, NewRunEffect
<1>6. run.time <= run.time
  BY <1>2
<1> HIDE DEF closed, new
<1> QED
  BY <1>1, <1>2, <1>3, <1>4, <1>5, <1>6 DEF Followed, Opened, run

\* Every step is one of these three.
LEMMA RowSteps ==
  ASSUME TypeInv, ContainedInv, Next
  PROVE  \E c \in CommandIds :
         \/ \E n \in RunIds, t \in Times, new \in WellFormed :
              /\ \A r \in RunIds : ~ Mutable(r)
              /\ ~ Live(n)
              /\ runs' = [runs EXCEPT ![n] = new]
              /\ Opened(n, t, c, new) /\ Contained(new)
         \/ \E r \in RunIds, t \in Times, new \in WellFormed :
              /\ Current(r, t)
              /\ runs' = [runs EXCEPT ![r] = new]
              /\ Handled(runs[r], t, c, new)
              /\ Continues(runs[r], t, new) /\ Contained(new)
         \/ \E r \in RunIds, n \in RunIds, u \in Times : Followed(r, n, u, c)
<1>1. PICK t \in Times, c \in CommandIds :
        \/ \E n \in RunIds, mode \in Modes, g \in Configs, fault \in Sections :
             \/ Initialise(n, mode, g, fault, t, c)
             \/ \E r \in RunIds : ReplaceRun(r, n, mode, g, fault, t, c)
        \/ \E r \in RunIds : \/ Live(r) /\ RunCommand(r, t, c)
                             \/ \E n \in RunIds : ResetRun(r, n, t, c)
  BY DEF Next
<1>2. ASSUME NEW n \in RunIds, NEW mode \in Modes, NEW g \in Configs,
             NEW fault \in Sections, Initialise(n, mode, g, fault, t, c)
      PROVE  \E new \in WellFormed :
               /\ \A r \in RunIds : ~ Mutable(r)
               /\ ~ Live(n)
               /\ runs' = [runs EXCEPT ![n] = new]
               /\ Opened(n, t, c, new) /\ Contained(new)
  BY <1>2, NewRunType, NewRunContained, NewRunEffect DEF Initialise, Opened
<1>3. ASSUME NEW r \in RunIds, Live(r), RunCommand(r, t, c)
      PROVE  \E new \in WellFormed :
               /\ Current(r, t)
               /\ runs' = [runs EXCEPT ![r] = new]
               /\ Handled(runs[r], t, c, new)
               /\ Continues(runs[r], t, new) /\ Contained(new)
  BY <1>3, CommandHandles DEF ContainedInv
<1>4. ASSUME NEW r \in RunIds, NEW n \in RunIds, ResetRun(r, n, t, c)
      PROVE  \E u \in Times : Followed(r, n, u, c)
  BY <1>4, ResetFollows
<1>5. ASSUME NEW r \in RunIds, NEW n \in RunIds, NEW mode \in Modes, NEW g \in Configs,
             NEW fault \in Sections, ReplaceRun(r, n, mode, g, fault, t, c)
      PROVE  \E u \in Times : Followed(r, n, u, c)
  BY <1>5, ReplaceFollows DEF Followed
<1> QED
  BY <1>1, <1>2, <1>3, <1>4, <1>5

\* What an operation leaves of the telemetry.
LEMMA OperatesFields ==
  ASSUME NEW run \in WellFormed, NEW d \in Switches, NEW v \in SwitchState, NEW t \in Times,
         NEW new \in WellFormed, Operates(run, d, v, t, new)
  PROVE  /\ new.telemetry[d].at = t /\ new.telemetry[d].value = v
         /\ \A e \in Switches \ {d} : new.telemetry[e] = run.telemetry[e]
         /\ ClosedNow(new) = IF v = "CLOSED" THEN ClosedNow(run) \cup {d}
                             ELSE ClosedNow(run) \ {d}
         /\ Incident(new.config, new.fault) = Incident(run.config, run.fault)
         /\ AffectedBreaker(new) = AffectedBreaker(run)
<1>1. /\ new.telemetry[d].at = t /\ new.telemetry[d].value = v
      /\ \A e \in Switches \ {d} : new.telemetry[e] = run.telemetry[e]
  BY Fields DEF Operates
<1>2. /\ Incident(new.config, new.fault) = Incident(run.config, run.fault)
      /\ AffectedBreaker(new) = AffectedBreaker(run)
  BY DEF Operates, SameStart, AffectedBreaker
<1> QED
  BY <1>1, <1>2 DEF ClosedNow, SwitchState

LEMMA StaysFields ==
  ASSUME NEW run \in WellFormed, NEW t, NEW new \in WellFormed, Stays(run, t, new)
  PROVE  /\ ClosedNow(new) = ClosedNow(run)
         /\ Incident(new.config, new.fault) = Incident(run.config, run.fault)
         /\ AffectedBreaker(new) = AffectedBreaker(run)
BY DEF Stays, SameStart, AffectedBreaker, ClosedNow

\* Every handler operates one device or none.
LEMMA OperatesOrStays ==
  ASSUME NEW run \in WellFormed, NEW t \in Times, NEW c \in CommandIds,
         NEW new \in WellFormed, Handled(run, t, c, new)
  PROVE  \/ Stays(run, t, new)
         \/ \E d \in Switches, v \in SwitchState : Operates(run, d, v, t, new)
<1>1. ASSUME NEW a \in DOMAIN run.assessments, Executes(run, a, t, c, new)
      PROVE  \E d \in Switches, v \in SwitchState : Operates(run, d, v, t, new)
  <2>1. CandidateTie(run, a) \in Switches
    BY <1>1, Executable DEF Executes
  <2> QED
    BY <1>1, <2>1 DEF Executes, SwitchState
<1> QED
  BY <1>1, AffectedBreakerType
  DEF Handled, Trips, Acknowledges, Isolates, Recloses, Assesses, Lapses, SwitchState

-----------------------------------------------------------------------------
(* The outage that is shown.                                               *)

Shown(run) ==
  run.outages[run.revision + 1].dead = Sections \ Energised(run.config, ClosedNow(run))

LEMMA OpenedShown ==
  ASSUME NEW n \in RunIds, NEW t \in Times, NEW c \in CommandIds, NEW new \in WellFormed,
         Opened(n, t, c, new)
  PROVE  Shown(new)
<1>1. PICK mode \in Modes, g \in Configs, fault \in Sections :
        Starts(mode, g, fault, t, c, new)
  BY DEF Opened
<1>2. ClosedNow(new) = NormalClosed
  <2>1. new.telemetry = [d \in Switches |-> NormalPoint(d, t)]
    BY <1>1 DEF Starts
  <2> QED
    BY <2>1, NetworkAssumption DEF NetworkAssumption, NormalPoint, ClosedNow
<1>3. new.outages[1] = OutageAfter(new, NormalClosed, {}) /\ new.revision + 1 = 1
  BY <1>1 DEF Starts
<1> QED
  BY <1>2, <1>3 DEF Shown, OutageAfter

LEMMA StaysShown ==
  ASSUME NEW run \in WellFormed, NEW t, NEW new \in WellFormed, Stays(run, t, new),
         Shown(run)
  PROVE  Shown(new)
BY StaysFields DEF Shown, Stays, SameStart

LEMMA OperatesShown ==
  ASSUME NEW run \in WellFormed, NEW d \in Switches, NEW v \in SwitchState, NEW t \in Times,
         NEW new \in WellFormed, Operates(run, d, v, t, new)
  PROVE  Shown(new)
<1> DEFINE o == OutageAfter(run, ClosedNow(new), run.outages[run.revision + 1].dead)
<1>1. new.outages = Append(run.outages, o) /\ new.revision + 1 = Len(run.outages) + 1
  BY Fields DEF Operates
<1>2. o.dead = Sections \ Energised(new.config, ClosedNow(new))
  BY DEF OutageAfter, Operates, SameStart
<1> HIDE DEF o
<1>3. new.outages[new.revision + 1] = o
  BY <1>1, Fields
<1> QED
  BY <1>2, <1>3 DEF Shown

-----------------------------------------------------------------------------
(* What the label of a run says.                                           *)

\* The fault is active from N1 on, the breaker of its feeder is open from N1 to N2,
\* and before the tie is closed nothing is that is normally open.
Staged(run) ==
  /\ run.faultActive = (run.label # "N0")
  /\ run.label \in {"N1", "N2"} => AffectedBreaker(run) \notin ClosedNow(run)
  /\ run.label # "N5" => ClosedNow(run) \subseteq NormalClosed

LEMMA OpenedStaged ==
  ASSUME NEW n \in RunIds, NEW t \in Times, NEW c \in CommandIds, NEW new \in WellFormed,
         Opened(n, t, c, new)
  PROVE  Staged(new)
<1>1. PICK mode \in Modes, g \in Configs, fault \in Sections :
        Starts(mode, g, fault, t, c, new)
  BY DEF Opened
<1>2. new.telemetry = [d \in Switches |-> NormalPoint(d, t)]
  BY <1>1 DEF Starts
<1>3. ClosedNow(new) \subseteq NormalClosed
  BY <1>2 DEF NormalPoint, ClosedNow
<1>4. new.label = "N0" /\ ~ new.faultActive
  BY <1>1 DEF Starts
<1>5. new.faultActive \in BOOLEAN
  BY Fields
<1> QED
  BY <1>3, <1>4, <1>5 DEF Staged

LEMMA StaysStaged ==
  ASSUME NEW run \in WellFormed, NEW t \in Times, NEW new \in WellFormed, Stays(run, t, new),
         Staged(run)
  PROVE  /\ new.label = run.label => Staged(new)
         /\ new.label = "N4" /\ run.label \notin {"N0", "N5"} => Staged(new)
<1>1. new.faultActive = run.faultActive
  BY DEF Stays
<1> QED
  BY <1>1, StaysFields DEF Staged

LEMMA HandledStaged ==
  ASSUME NEW run \in WellFormed, NEW t \in Times, NEW c \in CommandIds,
         NEW new \in WellFormed, Handled(run, t, c, new), Staged(run)
  PROVE  Staged(new)
<1>0. /\ AffectedBreaker(run) \in Switches /\ AffectedBreaker(run) \in NormalClosed
      /\ {"OPEN", "CLOSED"} \subseteq SwitchState
      /\ new.faultActive \in BOOLEAN
  BY Fields, AffectedBreakerType, NetworkAssumption, DeviceAssumption
  DEF DeviceAssumption, NetworkAssumption, AffectedBreaker, SwitchState
<1>1. CASE Trips(run, t, c, new)
  <2>1. ClosedNow(new) = ClosedNow(run) \ {AffectedBreaker(run)}
          /\ AffectedBreaker(new) = AffectedBreaker(run)
    BY <1>0, <1>1, OperatesFields DEF Trips
  <2>2. run.label = "N0" /\ new.label = "N1" /\ new.faultActive
    BY <1>1 DEF Trips, CanInitiateFault
  <2> QED
    BY <1>0, <2>1, <2>2 DEF Staged
<1>2. CASE Acknowledges(run, t, c, new)
  <2>1. Stays(run, t, new) /\ new.label = run.label
    BY <1>2 DEF Acknowledges
  <2> QED
    BY <2>1, StaysStaged
<1>3. ASSUME NEW d \in Switches, Isolates(run, d, t, c, new) PROVE Staged(new)
  <2>1. ClosedNow(new) = ClosedNow(run) \ {d} /\ AffectedBreaker(new) = AffectedBreaker(run)
    BY <1>0, <1>3, OperatesFields DEF Isolates
  <2>2. /\ run.label = "N1" /\ new.label \in {"N1", "N2"}
        /\ new.faultActive = run.faultActive
    BY <1>3 DEF Isolates, CanOperateIsolationDevice
  <2> QED
    BY <2>1, <2>2 DEF Staged
<1>4. CASE Recloses(run, t, c, new)
  <2>1. ClosedNow(new) = ClosedNow(run) \cup {AffectedBreaker(run)}
    BY <1>0, <1>4, OperatesFields DEF Recloses
  <2>2. run.label = "N2" /\ new.label = "N3" /\ new.faultActive = run.faultActive
    BY <1>4 DEF Recloses, CanRestoreNormalSource
  <2> QED
    BY <1>0, <2>1, <2>2 DEF Staged
<1>5. CASE Assesses(run, t, c, new)
  BY <1>5, StaysStaged DEF Assesses, CanAssessRestoration
<1>6. ASSUME NEW a \in DOMAIN run.assessments, Executes(run, a, t, c, new) PROVE Staged(new)
  <2>1. run.label = "N4" /\ new.label = "N5" /\ new.faultActive = run.faultActive
    BY <1>6 DEF Executes, CanExecuteRestoration, ExecutionRequested
  <2> QED
    BY <2>1 DEF Staged
<1>7. ASSUME NEW a \in DOMAIN run.assessments, Lapses(run, a, t, c, new) PROVE Staged(new)
  <2>1. Stays(run, t, new) /\ new.label = run.label
    BY <1>7 DEF Lapses
  <2> QED
    BY <2>1, StaysStaged
<1> QED
  BY <1>1, <1>2, <1>3, <1>4, <1>5, <1>6, <1>7 DEF Handled

-----------------------------------------------------------------------------
(* The dates of the telemetry.                                             *)

Deadline(run) == run.initial + FreshLimit

\* Observations date from the run's own time span.  Until the tie is closed only the
\* boundaries and the breaker have been operated; until the fault is isolated a
\* closed device has not been; and once it is isolated its boundaries were opened
\* in time.
Dated(run) ==
  /\ run.initial <= run.time
  /\ \A d \in Switches : run.telemetry[d].at <= run.time
  /\ run.label # "N5" =>
       \A d \in Switches :
         d \notin Incident(run.config, run.fault) \cup {AffectedBreaker(run)} =>
           run.telemetry[d].at = run.initial
  /\ run.label \in {"N0", "N1"} =>
       \A d \in ClosedNow(run) : run.telemetry[d].at = run.initial
  /\ run.label \in {"N2", "N3", "N4", "N5"} =>
       \A d \in Incident(run.config, run.fault) : run.telemetry[d].at <= Deadline(run)
  /\ run.label = "N5" =>
       run.telemetry[CandidateTie(run, LastAssessment(run))].at <= Deadline(run)

LEMMA TimesAreNumbers ==
  ASSUME NEW run \in WellFormed
  PROVE  /\ run.initial \in Nat /\ run.time \in Nat /\ Deadline(run) \in Nat
         /\ \A d \in Switches : run.telemetry[d].at \in Nat
<1>1. run.initial \in Times /\ run.time \in Times
      /\ \A d \in Switches : run.telemetry[d].at \in Times
  BY Fields DEF Point
<1>2. Times \subseteq Nat /\ FreshLimit \in Nat
  BY ScenarioAssumption, NetworkAssumption DEF ScenarioAssumption, NetworkAssumption
<1>3. run.initial \in Nat
  BY <1>1, <1>2
<1>4. Deadline(run) \in Nat
  BY <1>2, <1>3 DEF Deadline
<1> QED
  BY <1>1, <1>2, <1>4

LEMMA OpenedDated ==
  ASSUME NEW n \in RunIds, NEW t \in Times, NEW c \in CommandIds, NEW new \in WellFormed,
         Opened(n, t, c, new)
  PROVE  Dated(new)
<1>1. PICK mode \in Modes, g \in Configs, fault \in Sections :
        Starts(mode, g, fault, t, c, new)
  BY DEF Opened
<1>2. \A d \in Switches : new.telemetry[d].at = t
  BY <1>1 DEF Starts, NormalPoint
<1>3. t <= t
  BY ScenarioAssumption DEF ScenarioAssumption
<1>4. new.initial = t /\ new.time = t /\ new.label = "N0"
  BY <1>1 DEF Starts
<1> QED
  BY <1>2, <1>3, <1>4 DEF Dated, ClosedNow

LEMMA StaysDated ==
  ASSUME NEW run \in WellFormed, NEW t \in Times, NEW new \in WellFormed, Stays(run, t, new),
         Dated(run), run.time <= t
  PROVE  /\ new.label = run.label /\ new.assessments = run.assessments => Dated(new)
         /\ new.label = "N4" /\ run.label \in {"N2", "N3", "N4"} => Dated(new)
<1>1. /\ new.initial = run.initial /\ new.time = t /\ new.telemetry = run.telemetry
  BY DEF Stays, SameStart
<1>2. /\ ClosedNow(new) = ClosedNow(run)
      /\ Incident(new.config, new.fault) = Incident(run.config, run.fault)
      /\ AffectedBreaker(new) = AffectedBreaker(run)
      /\ Deadline(new) = Deadline(run)
  BY <1>1, StaysFields DEF Deadline
<1>3. t \in Nat
  BY ScenarioAssumption DEF ScenarioAssumption
<1>4. run.initial <= t /\ \A d \in Switches : run.telemetry[d].at <= t
  BY <1>3, TimesAreNumbers DEF Dated
<1>5. ASSUME new.label = run.label, new.assessments = run.assessments PROVE Dated(new)
  BY <1>1, <1>2, <1>4, <1>5 DEF Dated, CandidateTie, LastAssessment
<1>6. ASSUME new.label = "N4", run.label \in {"N2", "N3", "N4"} PROVE Dated(new)
  BY <1>1, <1>2, <1>4, <1>6 DEF Dated
<1> QED
  BY <1>5, <1>6

LEMMA OperatesDates ==
  ASSUME NEW run \in WellFormed, NEW d \in Switches, NEW v \in SwitchState, NEW t \in Times,
         NEW new \in WellFormed, Operates(run, d, v, t, new), Dated(run), run.time <= t
  PROVE  /\ new.initial = run.initial /\ new.time = t /\ t \in Nat
         /\ run.initial <= t
         /\ \A e \in Switches : new.telemetry[e].at <= t
         /\ Deadline(new) = Deadline(run)
<1>1. new.initial = run.initial /\ new.time = t /\ t \in Nat
  BY ScenarioAssumption DEF Operates, SameStart, ScenarioAssumption
<1>2. run.initial <= t /\ \A e \in Switches : run.telemetry[e].at <= t
  BY <1>1, TimesAreNumbers DEF Dated
<1>3. \A e \in Switches : new.telemetry[e].at <= t
  BY <1>1, <1>2, OperatesFields
<1> QED
  BY <1>1, <1>2, <1>3 DEF Deadline

\* An observation that an assessment or a gate trusts is not older than the limit.
LEMMA TrustedIsYoung ==
  ASSUME NEW run \in WellFormed, NEW t \in Times, NEW d \in Switches,
         Trustworthy(Observe(run.telemetry, t)[d])
  PROVE  t <= run.telemetry[d].at + FreshLimit /\ run.telemetry[d].at <= t
<1>1. Freshness(t, run.telemetry[d].at) = "FRESH"
  BY DEF Trustworthy, Observe
<1>2. t \in Nat /\ run.telemetry[d].at \in Nat /\ FreshLimit \in Nat
  BY TimesAreNumbers, ScenarioAssumption, NetworkAssumption
  DEF ScenarioAssumption, NetworkAssumption
<1> QED
  BY <1>1, <1>2 DEF Freshness

LEMMA HandledDated ==
  ASSUME NEW run \in WellFormed, NEW t \in Times, NEW c \in CommandIds,
         NEW new \in WellFormed, Handled(run, t, c, new), run.time <= t,
         Staged(run), Dated(run), Contained(new)
  PROVE  Dated(new)
<1> DEFINE breaker == AffectedBreaker(run)
           boundaries == Incident(run.config, run.fault)
<1>0. breaker \in Switches /\ {"OPEN", "CLOSED"} \subseteq SwitchState
  BY AffectedBreakerType DEF SwitchState
<1>1. CASE Trips(run, t, c, new)
  <2>1. run.label = "N0" /\ new.label = "N1" /\ Operates(run, breaker, "OPEN", t, new)
    BY <1>1 DEF Trips, CanInitiateFault
  <2>2. /\ \A e \in Switches \ {breaker} : new.telemetry[e] = run.telemetry[e]
        /\ ClosedNow(new) = ClosedNow(run) \ {breaker}
        /\ Incident(new.config, new.fault) = boundaries
        /\ AffectedBreaker(new) = breaker
    BY <1>0, <2>1, OperatesFields
  <2>3. ClosedNow(new) \subseteq Switches
    BY DEF ClosedNow
  <2> HIDE DEF breaker, boundaries
  <2> QED
    BY <1>0, <2>1, <2>2, <2>3, OperatesDates DEF Dated, breaker, boundaries
<1>2. CASE Acknowledges(run, t, c, new)
  <2>1. /\ Stays(run, t, new) /\ new.label = run.label
        /\ new.assessments = run.assessments
    BY <1>2 DEF Acknowledges
  <2> QED
    BY <2>1, StaysDated
<1>3. ASSUME NEW d \in Switches, Isolates(run, d, t, c, new) PROVE Dated(new)
  <2>1. /\ run.label = "N1" /\ new.label \in {"N1", "N2"}
        /\ Operates(run, d, "OPEN", t, new)
        /\ d \in boundaries /\ ProvenClosed(Observe(run.telemetry, t)[d])
    BY <1>3 DEF Isolates, CanOperateIsolationDevice, Boundary
  <2>2. /\ \A e \in Switches \ {d} : new.telemetry[e] = run.telemetry[e]
        /\ ClosedNow(new) = ClosedNow(run) \ {d}
        /\ Incident(new.config, new.fault) = boundaries
        /\ AffectedBreaker(new) = breaker
    BY <1>0, <2>1, OperatesFields
  <2>3. d \in ClosedNow(run) /\ Trustworthy(Observe(run.telemetry, t)[d])
    BY <2>1 DEF ProvenClosed, Observe, ClosedNow
  <2>4. t <= Deadline(run)
    BY <2>1, <2>3, TrustedIsYoung DEF Dated, Deadline
  <2>5. /\ new.initial = run.initial /\ new.time = t /\ t \in Nat /\ run.initial <= t
        /\ \A e \in Switches : new.telemetry[e].at <= t
        /\ Deadline(new) = Deadline(run)
    BY <1>0, <2>1, OperatesDates
  <2>6. boundaries \subseteq Switches /\ ClosedNow(new) \subseteq Switches
    BY DEF Incident, ClosedNow
  <2>7. \A e \in boundaries : new.telemetry[e].at <= Deadline(new)
    BY <2>4, <2>5, <2>6, TimesAreNumbers
  <2> HIDE DEF breaker, boundaries
  <2> QED
    BY <2>1, <2>2, <2>5, <2>6, <2>7 DEF Dated, breaker, boundaries
<1>4. CASE Recloses(run, t, c, new)
  <2>1. run.label = "N2" /\ new.label = "N3" /\ Operates(run, breaker, "CLOSED", t, new)
    BY <1>4 DEF Recloses, CanRestoreNormalSource
  <2>2. /\ \A e \in Switches \ {breaker} : new.telemetry[e] = run.telemetry[e]
        /\ ClosedNow(new) = ClosedNow(run) \cup {breaker}
        /\ Incident(new.config, new.fault) = boundaries
        /\ AffectedBreaker(new) = breaker
    BY <1>0, <2>1, OperatesFields
  <2>3. breaker \notin boundaries /\ boundaries \subseteq Switches
    BY <2>1, <2>2 DEF Contained, Incident
  <2> HIDE DEF breaker, boundaries
  <2> QED
    BY <1>0, <2>1, <2>2, <2>3, OperatesDates DEF Dated, breaker, boundaries
<1>5. CASE Assesses(run, t, c, new)
  <2>1. /\ Stays(run, t, new) /\ new.label = "N4"
        /\ run.label \in {"N2", "N3", "N4"}
    BY <1>5 DEF Assesses, CanAssessRestoration
  <2> QED
    BY <2>1, StaysDated
<1>6. ASSUME NEW a \in DOMAIN run.assessments, Executes(run, a, t, c, new) PROVE Dated(new)
  <2> DEFINE tie == CandidateTie(run, a)
             cand == Candidate(run.config, ClosedNow(run), run.fault)
  <2>1. /\ run.label = "N4" /\ new.label = "N5" /\ Operates(run, tie, "CLOSED", t, new)
        /\ a = LastAssessment(run) /\ CanExecuteRestoration(run, a, t)
    BY <1>6 DEF Executes, CanExecuteRestoration, ExecutionRequested
  <2>2. tie = cand.tie /\ cand # NoCandidate /\ tie \in Switches
    BY <2>1, Executable
  <2>3. tie \in Ties
    BY <2>2, Fields, ClosedNowType, CandidateType DEF UsableTies
  <2>4. tie \in Monitored /\ tie # breaker
    BY <2>3, Fields, DeviceAssumption, NetworkAssumption
    DEF DeviceAssumption, NetworkAssumption, AffectedBreaker
  <2> HIDE DEF tie, cand
  <2>5. /\ \A e \in Switches \ {tie} : new.telemetry[e] = run.telemetry[e]
        /\ new.telemetry[tie].at = t
        /\ ClosedNow(new) = ClosedNow(run) \cup {tie}
        /\ Incident(new.config, new.fault) = boundaries
    BY <1>0, <2>1, <2>2, OperatesFields
  <2>6. tie \notin boundaries /\ boundaries \subseteq Switches
    BY <2>1, <2>5 DEF Contained, Incident
  <2>7. run.telemetry[tie].at = run.initial
    BY <2>1, <2>2, <2>4, <2>6 DEF Dated
  <2>8. Trustworthy(Observe(run.telemetry, t)[tie])
    <3>1. Assessment(run, t).outcome = "PERMITTED"
      BY <2>1 DEF CanExecuteRestoration, BindingMatches, Binds
    <3>2. AssessmentOutcome(run.config, Observe(run.telemetry, t), run.fault) = "PERMITTED"
      BY <3>1 DEF Assessment
    <3>3. TelemetrySufficient(Observe(run.telemetry, t))
      BY <3>2 DEF AssessmentOutcome, OutcomeOf
    <3> QED
      BY <2>4, <3>3 DEF TelemetrySufficient
  <2>9. t <= Deadline(run)
    BY <2>2, <2>7, <2>8, TrustedIsYoung DEF Deadline
  <2>10. /\ new.initial = run.initial /\ new.time = t /\ t \in Nat /\ run.initial <= t
         /\ \A e \in Switches : new.telemetry[e].at <= t
         /\ Deadline(new) = Deadline(run)
    BY <1>0, <2>1, <2>2, OperatesDates
  <2>11. CandidateTie(new, LastAssessment(new)) = tie
    BY <2>1 DEF tie, CandidateTie, LastAssessment, Operates
  <2>12. \A e \in boundaries : new.telemetry[e].at <= Deadline(new)
    BY <2>1, <2>5, <2>6, <2>10 DEF Dated
  <2> HIDE DEF boundaries
  <2> QED
    BY <2>1, <2>5, <2>9, <2>10, <2>11, <2>12 DEF Dated
<1>7. ASSUME NEW a \in DOMAIN run.assessments, Lapses(run, a, t, c, new) PROVE Dated(new)
  <2>1. /\ Stays(run, t, new) /\ new.label = run.label
        /\ new.assessments = run.assessments
    BY <1>7 DEF Lapses
  <2> QED
    BY <2>1, StaysDated
<1> QED
  BY <1>1, <1>2, <1>3, <1>4, <1>5, <1>6, <1>7 DEF Handled

-----------------------------------------------------------------------------
(* The log.                                                                *)

LEMMA Concatenated ==
  ASSUME NEW S, NEW old \in Seq(S), NEW added \in Seq(S)
  PROVE  /\ Len(old \o added) = Len(old) + Len(added)
         /\ \A i \in 1 .. Len(old) : (old \o added)[i] = old[i]
         /\ \A i \in 1 .. Len(added) : (old \o added)[Len(old) + i] = added[i]
OBVIOUS

LEMMA InsertedEvents ==
  ASSUME NEW t, NEW revision, NEW c, NEW specs \in Seq(EventSpec)
  PROVE  \E S : /\ Event \subseteq S
               /\ Inserted(t, revision, c, specs) \in Seq(S)
               /\ Len(Inserted(t, revision, c, specs)) = Len(specs)
               /\ \A i \in 1 .. Len(specs) :
                    Inserted(t, revision, c, specs)[i] = Recorded(specs[i], t, revision, c)
<1> DEFINE added == Inserted(t, revision, c, specs)
           S == {Recorded(specs[i], t, revision, c) : i \in DOMAIN specs} \cup Event
<1>1. DOMAIN specs = 1 .. Len(specs) /\ Len(specs) \in Nat
  OBVIOUS
<1>2. /\ added = [i \in 1 .. Len(specs) |-> Recorded(specs[i], t, revision, c)]
      /\ \A i \in 1 .. Len(specs) : Recorded(specs[i], t, revision, c) \in S
  BY <1>1 DEF Inserted
<1>3. Event \subseteq S
  OBVIOUS
<1> HIDE DEF S
<1>4. added \in Seq(S) /\ Len(added) = Len(specs)
  BY <1>1, <1>2
<1>5. \A i \in 1 .. Len(specs) : added[i] = Recorded(specs[i], t, revision, c)
  BY <1>2
<1> HIDE DEF added
<1>6. \E T : /\ Event \subseteq T /\ added \in Seq(T) /\ Len(added) = Len(specs)
            /\ \A i \in 1 .. Len(specs) : added[i] = Recorded(specs[i], t, revision, c)
  BY <1>3, <1>4, <1>5
<1> QED
  BY <1>6 DEF added

\* The events that are inserted follow those of the log.
Inserts(old, all, t, revision, c, specs) == all = old \o Inserted(t, revision, c, specs)

Follow(old, all, t, revision, c, specs) ==
  /\ Len(all) = Len(old) + Len(specs)
  /\ \A i \in 1 .. Len(old) : all[i] = old[i]
  /\ \A i \in 1 .. Len(specs) : all[Len(old) + i] = Recorded(specs[i], t, revision, c)

LEMMA FollowingEvents ==
  ASSUME NEW old \in Seq(Event), NEW t, NEW revision, NEW c, NEW specs \in Seq(EventSpec),
         NEW all, Inserts(old, all, t, revision, c, specs)
  PROVE  Follow(old, all, t, revision, c, specs)
<1> DEFINE added == Inserted(t, revision, c, specs)
<1>1. PICK S : /\ Event \subseteq S /\ added \in Seq(S) /\ Len(added) = Len(specs)
               /\ \A i \in 1 .. Len(specs) : added[i] = Recorded(specs[i], t, revision, c)
  BY InsertedEvents
<1>2. all = old \o added
  BY DEF Inserts
<1> HIDE DEF added
<1>3. old \in Seq(S) /\ added \in Seq(S)
  BY <1>1
<1>4. Len(all) = Len(old) + Len(added)
  BY <1>2, <1>3, Concatenated
<1>5. \A i \in 1 .. Len(old) : all[i] = old[i]
  BY <1>2, <1>3, Concatenated
<1>6. \A i \in 1 .. Len(added) : all[Len(old) + i] = added[i]
  BY <1>2, <1>3, Concatenated
<1>7. ASSUME NEW i \in 1 .. Len(specs)
      PROVE  all[Len(old) + i] = Recorded(specs[i], t, revision, c)
  <2>1. i \in 1 .. Len(added)
    BY <1>1
  <2>2. all[Len(old) + i] = added[i]
    BY <1>6, <2>1
  <2> QED
    BY <1>1, <2>2
<1> QED
  BY <1>1, <1>4, <1>5, <1>7 DEF Follow

LEMMA WrittenEvents ==
  ASSUME NEW run \in WellFormed, NEW t, NEW c, NEW specs \in Seq(EventSpec),
         NEW new, Writes(run, t, c, specs, new)
  PROVE  /\ Len(new.events) = Len(run.events) + Len(specs)
         /\ \A i \in 1 .. Len(run.events) : new.events[i] = run.events[i]
         /\ \A i \in 1 .. Len(specs) :
              new.events[Len(run.events) + i] = Recorded(specs[i], t, new.revision, c)
<1>1. Inserts(run.events, new.events, t, new.revision, c, specs) /\ run.events \in Seq(Event)
  BY Fields DEF Writes, Inserts
<1>2. Follow(run.events, new.events, t, new.revision, c, specs)
  BY <1>1, FollowingEvents
<1> QED
  BY <1>2 DEF Follow

\* What the handlers write.
LEMMA SpecsType ==
  ASSUME NEW run \in WellFormed
  PROVE  /\ TripSpecs(run) \in Seq(EventSpec)
         /\ <<Spec3("ALARM_ACKNOWLEDGED", AffectedBreaker(run), "ACKNOWLEDGED")>>
              \in Seq(EventSpec)
         /\ \A d \in Switches, v \in SwitchState : SwitchingSpecs(d, v) \in Seq(EventSpec)
         /\ \A t \in Times : AssessmentSpecs(run, Assessment(run, t)) \in Seq(EventSpec)
         /\ Outstanding(run) => <<InvalidatedSpec(run)>> \in Seq(EventSpec)
         /\ ClosingSpecs(run) \in Seq(EventSpec)
         /\ \A g \in Configs : StartSpecs(g) \in Seq(EventSpec)
<1>1. TripSpecs(run) \in Seq(EventSpec)
  <2>1. Spec3("FAULT_INITIATED", run.fault, "FAULTED") \in EventSpec
    BY Fields, SpecType, ValueType DEF EventTypes
  <2>2. Spec3("ALARM_GENERATED", AffectedBreaker(run), NoValue) \in EventSpec
    BY AffectedBreakerType, SpecType, ValueType DEF EventTypes
  <2>3. SwitchSpecs(AffectedBreaker(run), "OPEN") \in Seq(EventSpec)
    BY AffectedBreakerType, SwitchType DEF SwitchState
  <2> QED
    BY <2>1, <2>2, <2>3, DerivedType DEF TripSpecs
<1>2. Spec3("ALARM_ACKNOWLEDGED", AffectedBreaker(run), "ACKNOWLEDGED") \in EventSpec
  BY AffectedBreakerType, SpecType, ValueType DEF EventTypes
<1>3. ASSUME NEW d \in Switches, NEW v \in SwitchState
      PROVE  SwitchingSpecs(d, v) \in Seq(EventSpec)
  BY SwitchingType DEF SwitchingSpecs
<1>4. ASSUME NEW t \in Times PROVE AssessmentSpecs(run, Assessment(run, t)) \in Seq(EventSpec)
  <2> DEFINE a == Assessment(run, t)
             n == LastAssessment(run) + 1
             found == IF a.candidate = NoCandidate THEN "RESTORATION_NO_CANDIDATE"
                      ELSE "RESTORATION_CANDIDATE_IDENTIFIED"
  <2>1. a \in AssessmentRecord
    BY AssessmentType
  <2>2. found \in EventTypes
    BY DEF EventTypes
  <2>3. n \in Nat
    BY Fields DEF LastAssessment
  <2> HIDE DEF a, n, found
  <2>4. a.candidate.tie \in Switches \cup {NoEntity} /\ a.outcome \in Outcomes
    BY <2>1 DEF AssessmentRecord, CandidateRecord
  <2>5. About(Spec3(found, a.candidate.tie, NoValue), n) \in EventSpec
    BY <2>2, <2>3, <2>4, SpecType, ValueType
  <2>6. About(Spec3("RESTORATION_ASSESSED", a.candidate.tie, a.outcome), n) \in EventSpec
    BY <2>3, <2>4, SpecType, ValueType DEF EventTypes
  <2> QED
    BY <2>5, <2>6 DEF AssessmentSpecs, a, n, found
<1>5. Outstanding(run) => InvalidatedSpec(run) \in EventSpec
  <2> SUFFICES ASSUME Outstanding(run) PROVE InvalidatedSpec(run) \in EventSpec
    OBVIOUS
  <2>1. PICK t \in Times : TRUE
    BY Fields
  <2> QED
    BY <2>1, InvalidationType DEF InvalidationReasons
<1>6. Spec3("SCENARIO_RESET", NoEntity, NoValue) \in EventSpec
  BY SpecType, ValueType DEF EventTypes
<1>7. ASSUME NEW g \in Configs PROVE StartSpecs(g) \in Seq(EventSpec)
  <2>1. Spec3("SCENARIO_INITIALISED", NoEntity, NoValue) \in EventSpec
    BY SpecType, ValueType DEF EventTypes
  <2>2. Spec3("CONFIGURATION_SELECTED", NoEntity, g) \in EventSpec
    BY SpecType, ValueType DEF EventTypes
  <2> QED
    BY <2>1, <2>2, DerivedType DEF StartSpecs
<1>8. ClosingSpecs(run) \in Seq(EventSpec)
  <2>1. CASE Outstanding(run)
    BY <1>5, <1>6, <2>1 DEF ClosingSpecs, ResetSpecs
  <2>2. CASE ~ Outstanding(run)
    BY <1>6, <2>2 DEF ClosingSpecs, ResetSpecs
  <2> QED
    BY <2>1, <2>2
<1> QED
  BY <1>1, <1>2, <1>3, <1>4, <1>5, <1>7, <1>8

-----------------------------------------------------------------------------
(* Invalidations.                                                          *)

\* The body of InvalidationEvidenced, and what keeps it: the first assessment is made
\* at the end of the procedure, and only assessments made are invalidated.
Evidence(run, record) ==
  /\ record.event \in DOMAIN run.events
  /\ run.events[record.event].type = "RESTORATION_ASSESSMENT_INVALIDATED"
  /\ run.events[record.event].assessment = record.assessment
  /\ run.events[record.event].at = record.at
  /\ run.events[record.event].revision = record.revision

Evidenced(run) ==
  /\ run.label \in {"N0", "N1", "N2", "N3"} => run.assessments = << >>
  /\ InvalidatedIn(run) \subseteq 1 .. LastAssessment(run)
  /\ 1 .. LastAssessment(run) - 1 \subseteq InvalidatedIn(run)
  /\ run.status = "CLOSED" => ~ Outstanding(run)
  /\ \A i, j \in DOMAIN run.invalidations :
       run.invalidations[i].assessment = run.invalidations[j].assessment => i = j
  /\ \A i \in DOMAIN run.invalidations : Evidence(run, run.invalidations[i])

LEMMA EvidenceKept ==
  ASSUME NEW run \in WellFormed, NEW t, NEW new \in WellFormed, Continues(run, t, new),
         NEW record, Evidence(run, record)
  PROVE  Evidence(new, record)
<1>1. record.event \in DOMAIN new.events /\ new.events[record.event] = run.events[record.event]
  <2>1. IsExtendedBy(run.events, new.events) /\ record.event \in DOMAIN run.events
    BY DEF Continues, Evidence
  <2>2. DOMAIN run.events \subseteq DOMAIN new.events
    BY <2>1, Fields DEF IsExtendedBy
  <2> QED
    BY <2>1, <2>2 DEF IsExtendedBy
<1> QED
  BY <1>1 DEF Evidence

LEMMA OpenedEvidenced ==
  ASSUME NEW n \in RunIds, NEW t \in Times, NEW c \in CommandIds, NEW new \in WellFormed,
         Opened(n, t, c, new)
  PROVE  Evidenced(new)
<1>1. new.assessments = << >> /\ new.invalidations = << >>
  BY DEF Opened, Starts
<1>2. LastAssessment(new) = 0 /\ InvalidatedIn(new) = {}
  BY <1>1 DEF LastAssessment, InvalidatedIn
<1> QED
  BY <1>1, <1>2 DEF Evidenced, Outstanding

\* Nothing is assessed or invalidated.
LEMMA NothingJudged ==
  ASSUME NEW run \in WellFormed, NEW t, NEW new \in WellFormed, Continues(run, t, new),
         new.assessments = run.assessments, new.invalidations = run.invalidations,
         Evidenced(run)
  PROVE  /\ new.label \in {"N0", "N1", "N2", "N3"} => run.label \in {"N0", "N1", "N2", "N3"}
         /\ new.status = "CLOSED" => ~ Outstanding(run)
         => Evidenced(new)
<1>1. LastAssessment(new) = LastAssessment(run) /\ InvalidatedIn(new) = InvalidatedIn(run)
  BY DEF LastAssessment, InvalidatedIn
<1> QED
  BY <1>1, EvidenceKept DEF Evidenced, Outstanding

\* The outstanding assessment is invalidated.
LEMMA OutstandingInvalidated ==
  ASSUME NEW run \in WellFormed, NEW t \in Times, NEW c \in CommandIds, NEW specs,
         NEW new \in WellFormed, Continues(run, t, new), Evidenced(run), Outstanding(run),
         NEW reason, Invalidates(run, t, reason, new), new.assessments = run.assessments,
         new.label = run.label, new.revision = run.revision,
         specs \in Seq(EventSpec), Len(specs) # 0, specs[1] = InvalidatedSpec(run),
         Writes(run, t, c, specs, new)
  PROVE  Evidenced(new)
<1> DEFINE m == Len(run.events) + 1
           record == Invalidation(run, t, m, reason)
           last == LastAssessment(run)
<1>1. last \in Nat /\ last # 0 /\ last \notin InvalidatedIn(run) /\ LastAssessment(new) = last
  BY Fields DEF Outstanding, LastAssessment
<1>2. /\ new.invalidations = Append(run.invalidations, record)
      /\ record.assessment = last /\ record.event = m /\ record.at = t
      /\ record.revision = run.revision
  BY DEF Invalidates, Invalidation
<1>3. /\ m \in DOMAIN new.events
      /\ new.events[m].type = "RESTORATION_ASSESSMENT_INVALIDATED"
      /\ new.events[m].assessment = last /\ new.events[m].at = t
      /\ new.events[m].revision = run.revision
  <2>1. Len(specs) \in Nat /\ 1 \in 1 .. Len(specs) /\ Len(run.events) \in Nat
    BY Fields
  <2>0. /\ Len(new.events) = Len(run.events) + Len(specs)
        /\ \A i \in 1 .. Len(specs) :
              new.events[Len(run.events) + i] = Recorded(specs[i], t, new.revision, c)
    BY WrittenEvents
  <2>2. new.events[m] = Recorded(specs[1], t, new.revision, c)
    BY <2>0, <2>1
  <2>3. /\ specs[1].type = "RESTORATION_ASSESSMENT_INVALIDATED"
        /\ specs[1].assessment = last
    BY DEF InvalidatedSpec, About, Spec3
  <2>5. /\ new.events[m].type = specs[1].type
        /\ new.events[m].assessment = specs[1].assessment /\ new.events[m].at = t
        /\ new.events[m].revision = new.revision
    BY <2>2 DEF Recorded
  <2>4. m \in DOMAIN new.events
    BY <2>0, <2>1, Fields
  <2> QED
    BY <2>3, <2>4, <2>5
<1> HIDE DEF record, m
<1>4. Evidence(new, record)
  BY <1>2, <1>3 DEF Evidence
<1> DEFINE old == run.invalidations
<1>5. /\ Len(old) \in Nat /\ DOMAIN old = 1 .. Len(old)
      /\ DOMAIN new.invalidations = 1 .. Len(old) + 1
      /\ \A i \in 1 .. Len(old) : new.invalidations[i] = old[i]
      /\ new.invalidations[Len(old) + 1] = record
  BY <1>2, Fields
<1>6. InvalidatedIn(new) = InvalidatedIn(run) \cup {last}
  <2>1. \A x : x \in InvalidatedIn(new) <=>
                 \E i \in 1 .. Len(old) + 1 : new.invalidations[i].assessment = x
    BY <1>5 DEF InvalidatedIn
  <2>2. \A x : x \in InvalidatedIn(run) <=> \E i \in 1 .. Len(old) : old[i].assessment = x
    BY <1>5 DEF InvalidatedIn
  <2> HIDE DEF old, last
  <2>3. ASSUME NEW x \in InvalidatedIn(new) PROVE x \in InvalidatedIn(run) \cup {last}
    <3>1. PICK i \in 1 .. Len(old) + 1 : new.invalidations[i].assessment = x
      BY <2>1, <2>3
    <3>2. i \in 1 .. Len(old) \/ i = Len(old) + 1
      BY <1>5
    <3> QED
      BY <1>2, <1>5, <2>2, <3>1, <3>2
  <2>4. last \in InvalidatedIn(new)
    <3>1. Len(old) + 1 \in 1 .. Len(old) + 1
      BY <1>5
    <3> QED
      BY <1>2, <1>5, <2>1, <3>1
  <2>5. ASSUME NEW x \in InvalidatedIn(run) PROVE x \in InvalidatedIn(new)
    <3>1. PICK i \in 1 .. Len(old) : old[i].assessment = x
      BY <2>2, <2>5
    <3>2. i \in 1 .. Len(old) + 1
      BY <1>5
    <3> QED
      BY <1>5, <2>1, <3>1, <3>2
  <2> QED
    BY <2>3, <2>4, <2>5
<1>7. \A i \in DOMAIN new.invalidations : Evidence(new, new.invalidations[i])
  <2> SUFFICES ASSUME NEW i \in 1 .. Len(old) + 1 PROVE Evidence(new, new.invalidations[i])
    BY <1>5
  <2>1. i \in 1 .. Len(old) \/ i = Len(old) + 1
    BY <1>5
  <2>2. i \in 1 .. Len(old) => Evidence(run, old[i])
    BY <1>5 DEF Evidenced
  <2> QED
    BY <1>4, <1>5, <2>1, <2>2, EvidenceKept
<1>8. ASSUME NEW i \in DOMAIN new.invalidations, NEW j \in DOMAIN new.invalidations,
             new.invalidations[i].assessment = new.invalidations[j].assessment
      PROVE  i = j
  <2>1. \A k \in 1 .. Len(old) : old[k].assessment # last
    BY <1>1, <1>5 DEF InvalidatedIn
  <2>2. /\ i \in 1 .. Len(old) \/ i = Len(old) + 1
        /\ j \in 1 .. Len(old) \/ j = Len(old) + 1
    BY <1>5
  <2>3. CASE i \in 1 .. Len(old) /\ j \in 1 .. Len(old)
    BY <1>5, <1>8, <2>3 DEF Evidenced
  <2>4. CASE i \in 1 .. Len(old) /\ j = Len(old) + 1
    BY <1>2, <1>5, <1>8, <2>1, <2>4
  <2>5. CASE i = Len(old) + 1 /\ j \in 1 .. Len(old)
    BY <1>2, <1>5, <1>8, <2>1, <2>5
  <2> QED
    BY <2>2, <2>3, <2>4, <2>5
<1>9. ~ Outstanding(new)
  BY <1>1, <1>6 DEF Outstanding
<1>10. last \in 1 .. last
  BY <1>1
<1> QED
  BY <1>1, <1>6, <1>7, <1>8, <1>9, <1>10 DEF Evidenced

LEMMA HandledEvidenced ==
  ASSUME NEW run \in WellFormed, NEW t \in Times, NEW c \in CommandIds,
         NEW new \in WellFormed, Handled(run, t, c, new), Continues(run, t, new),
         run.status # "CLOSED", Evidenced(run)
  PROVE  Evidenced(new)
<1>1. ASSUME new.assessments = run.assessments, new.invalidations = run.invalidations,
             new.label \in {"N0", "N1", "N2", "N3"} => run.label \in {"N0", "N1", "N2", "N3"},
             new.status # "CLOSED"
      PROVE  Evidenced(new)
  BY <1>1, NothingJudged
<1>2. CASE Trips(run, t, c, new)
  BY <1>1, <1>2 DEF Trips, Operates, CanInitiateFault
<1>3. CASE Acknowledges(run, t, c, new)
  BY <1>1, <1>3 DEF Acknowledges
<1>4. ASSUME NEW d \in Switches, Isolates(run, d, t, c, new) PROVE Evidenced(new)
  BY <1>1, <1>4 DEF Isolates, Operates, CanOperateIsolationDevice
<1>5. CASE Recloses(run, t, c, new)
  BY <1>1, <1>5 DEF Recloses, Operates, CanRestoreNormalSource
<1>6. CASE Assesses(run, t, c, new)
  <2>1. /\ new.label = "N4" /\ new.status # "CLOSED"
        /\ new.assessments = Append(run.assessments, Assessment(run, t))
        /\ new.invalidations = run.invalidations
    BY <1>6 DEF Assesses
  <2>2. /\ LastAssessment(new) = LastAssessment(run) + 1 /\ LastAssessment(run) \in Nat
        /\ InvalidatedIn(new) = InvalidatedIn(run)
    BY <2>1, Fields DEF LastAssessment, InvalidatedIn
  <2>3. 1 .. LastAssessment(run) \subseteq InvalidatedIn(run)
    <3>1. CASE run.label \in {"N2", "N3"}
      <4>1. LastAssessment(run) = 0
        BY <3>1 DEF Evidenced, LastAssessment
      <4> QED
        BY <4>1
    <3>2. CASE LastAssessment(run) \in InvalidatedIn(run)
      BY <2>2, <3>2 DEF Evidenced
    <3> QED
      BY <1>6, <3>1, <3>2 DEF Assesses, CanAssessRestoration
  <2>4. /\ InvalidatedIn(new) \subseteq 1 .. LastAssessment(new)
        /\ 1 .. LastAssessment(new) - 1 \subseteq InvalidatedIn(new)
    <3>1. InvalidatedIn(run) \subseteq 1 .. LastAssessment(run)
      BY DEF Evidenced
    <3> QED
      BY <2>2, <2>3, <3>1
  <2> QED
    BY <2>1, <2>4, EvidenceKept DEF Evidenced
<1>7. ASSUME NEW a \in DOMAIN run.assessments, Executes(run, a, t, c, new)
      PROVE  Evidenced(new)
  BY <1>1, <1>7 DEF Executes, Operates
<1>8. ASSUME NEW a \in DOMAIN run.assessments, Lapses(run, a, t, c, new)
      PROVE  Evidenced(new)
  <2> DEFINE specs == <<InvalidatedSpec(run)>>
  <2>1. /\ Outstanding(run) /\ Invalidates(run, t, "BOUND_EVIDENCE_NO_LONGER_CURRENT", new)
        /\ new.assessments = run.assessments /\ new.label = run.label
        /\ new.revision = run.revision /\ Writes(run, t, c, specs, new)
    BY <1>8 DEF Lapses, ExecutionRequested, Stays
  <2>2. specs \in Seq(EventSpec) /\ Len(specs) # 0 /\ specs[1] = InvalidatedSpec(run)
    BY <2>1, SpecsType
  <2> HIDE DEF specs
  <2> QED
    BY <2>1, <2>2, OutstandingInvalidated
<1> QED
  BY <1>2, <1>3, <1>4, <1>5, <1>6, <1>7, <1>8 DEF Handled

LEMMA ClosesEvidenced ==
  ASSUME NEW run \in WellFormed, NEW t \in Times, NEW c \in CommandIds,
         NEW new \in WellFormed, Closes(run, t, c, new), Continues(run, t, new),
         Evidenced(run)
  PROVE  Evidenced(new)
<1>1. CASE ~ Outstanding(run)
  <2>1. /\ new.assessments = run.assessments /\ new.invalidations = run.invalidations
        /\ new.label = run.label
    BY <1>1 DEF Closes
  <2> QED
    BY <1>1, <2>1, NothingJudged
<1>2. CASE Outstanding(run)
  <2> DEFINE specs == ClosingSpecs(run)
  <2>1. /\ Invalidates(run, t, "SCENARIO_RESET", new)
        /\ new.assessments = run.assessments /\ new.label = run.label
        /\ new.revision = run.revision /\ Writes(run, t, c, specs, new)
    BY <1>2 DEF Closes, Stays
  <2>2. specs \in Seq(EventSpec)
    BY SpecsType
  <2>3. specs = <<InvalidatedSpec(run)>> \o ResetSpecs
    BY <1>2 DEF ClosingSpecs
  <2>4. Len(specs) # 0 /\ specs[1] = InvalidatedSpec(run)
    BY <2>3 DEF ResetSpecs
  <2> HIDE DEF specs
  <2> QED
    BY <1>2, <2>1, <2>2, <2>4, OutstandingInvalidated
<1> QED
  BY <1>1, <1>2

-----------------------------------------------------------------------------
(* Reassessment.                                                           *)

\* At N4 the last assessment binds what the run still is; once it is invalidated an
\* assessment made now would not permit; and no assessment after the first ever did.
Judged(run) ==
  LET last == LastAssessment(run)
      now  == Observe(run.telemetry, run.time)
  IN  /\ run.label = "N4" /\ run.status # "CLOSED" =>
           /\ last # 0
           /\ run.assessments[last].revision = run.revision
           /\ run.assessments[last].evidence = [d \in Monitored |-> run.telemetry[d]]
           /\ run.assessments[last].candidate =
                Candidate(run.config, ClosedNow(run), run.fault)
           /\ last \in InvalidatedIn(run) =>
                AssessmentOutcome(run.config, now, run.fault) # "PERMITTED"
      /\ \A a \in DOMAIN run.assessments :
           a > 1 => run.assessments[a].outcome # "PERMITTED"

\* Observations only lose trust as time passes.
LEMMA TrustDecays ==
  ASSUME NEW run \in WellFormed, NEW t \in Times, NEW u \in Times, u <= t,
         NEW d \in Switches, run.telemetry[d].at <= u,
         Trustworthy(Observe(run.telemetry, t)[d])
  PROVE  Trustworthy(Observe(run.telemetry, u)[d])
<1>1. t <= run.telemetry[d].at + FreshLimit /\ run.telemetry[d].at <= t
  BY TrustedIsYoung
<1>2. t \in Nat /\ u \in Nat /\ run.telemetry[d].at \in Nat /\ FreshLimit \in Nat
  BY TimesAreNumbers, ScenarioAssumption, NetworkAssumption
  DEF ScenarioAssumption, NetworkAssumption
<1>3. Freshness(u, run.telemetry[d].at) = "FRESH"
  BY <1>1, <1>2 DEF Freshness
<1> QED
  BY <1>3 DEF Trustworthy, Observe

\* So what is permitted now was permitted before, on the same telemetry.
LEMMA PermissionDecays ==
  ASSUME NEW run \in WellFormed, NEW t \in Times, NEW u \in Times, u <= t,
         \A d \in Switches : run.telemetry[d].at <= u,
         AssessmentOutcome(run.config, Observe(run.telemetry, t), run.fault) = "PERMITTED"
  PROVE  AssessmentOutcome(run.config, Observe(run.telemetry, u), run.fault) = "PERMITTED"
<1> DEFINE late == Observe(run.telemetry, t)
           early == Observe(run.telemetry, u)
           g == run.config
           closed == ClosedNow(run)
           cand == Candidate(g, closed, run.fault)
<1>1. ClosedIn(late) = closed /\ ClosedIn(early) = closed
  BY ObservedClosed
<1>2. /\ cand # NoCandidate /\ TelemetrySufficient(late)
      /\ LoadAttributable(g, closed, cand.feeder)
      /\ Isolated(g, late, run.fault)
      /\ AlternateSourcePermissive(g, closed, cand)
      /\ RadialPermissive(g, closed, cand) /\ CapacityPermissive(g, closed, cand)
  BY <1>1 DEF AssessmentOutcome, OutcomeOf, IsolationPermissive
<1>3. \A d \in Switches : Trustworthy(late[d]) => Trustworthy(early[d])
  BY TrustDecays
<1>4. TelemetrySufficient(early)
  BY <1>2, <1>3, NetworkAssumption DEF TelemetrySufficient, NetworkAssumption
<1>5. \A d \in Switches : early[d].value = late[d].value
  BY DEF Observe
<1>6. Isolated(g, early, run.fault)
  BY <1>1, <1>2, <1>3, <1>5 DEF Isolated, ProvenOpen, Incident
<1> HIDE DEF early, late, cand, closed
<1>7. AssessmentOutcome(g, early, run.fault) =
        OutcomeOf(g, early, closed, run.fault, cand)
  BY <1>1 DEF AssessmentOutcome, cand
<1>8. OutcomeOf(g, early, closed, run.fault, cand) = "PERMITTED"
  BY <1>2, <1>4, <1>6 DEF OutcomeOf, IsolationPermissive
<1> QED
  BY <1>7, <1>8 DEF early

LEMMA OpenedJudged ==
  ASSUME NEW n \in RunIds, NEW t \in Times, NEW c \in CommandIds, NEW new \in WellFormed,
         Opened(n, t, c, new)
  PROVE  Judged(new)
<1>1. new.assessments = << >> /\ new.label = "N0"
  BY DEF Opened, Starts
<1> QED
  BY <1>1 DEF Judged

\* The run leaves N4, is not there yet, or is closed.
LEMMA NotAtN4Judged ==
  ASSUME NEW run, NEW new, Judged(run), new.assessments = run.assessments,
         new.label # "N4" \/ new.status = "CLOSED"
  PROVE  Judged(new)
BY DEF Judged

\* The run stays at N4 on the same telemetry, at a later time.
LEMMA StaysJudged ==
  ASSUME NEW run \in WellFormed, NEW t \in Times, NEW new \in WellFormed, Stays(run, t, new),
         run.time <= t, Judged(run), Dated(run), new.assessments = run.assessments,
         new.label = run.label, new.status = run.status,
         \/ new.invalidations = run.invalidations
         \/ AssessmentOutcome(run.config, Observe(run.telemetry, t), run.fault)
              # "PERMITTED"
  PROVE  Judged(new)
<1>1. CASE run.label # "N4" \/ run.status = "CLOSED"
  BY <1>1, NotAtN4Judged
<1>2. CASE run.label = "N4" /\ run.status # "CLOSED"
  <2>1. /\ new.revision = run.revision /\ new.telemetry = run.telemetry /\ new.time = t
        /\ new.config = run.config /\ new.fault = run.fault
        /\ ClosedNow(new) = ClosedNow(run)
    BY StaysFields DEF Stays, SameStart
  <2>2. LastAssessment(new) = LastAssessment(run)
    BY DEF LastAssessment
  <2>3. LastAssessment(run) \in InvalidatedIn(new) =>
          AssessmentOutcome(run.config, Observe(run.telemetry, t), run.fault) # "PERMITTED"
    <3>1. CASE new.invalidations = run.invalidations
      <4>1. InvalidatedIn(new) = InvalidatedIn(run)
        BY <3>1 DEF InvalidatedIn
      <4>2. \A d \in Switches : run.telemetry[d].at <= run.time
        BY DEF Dated
      <4>3. AssessmentOutcome(run.config, Observe(run.telemetry, t), run.fault) = "PERMITTED"
              => AssessmentOutcome(run.config, Observe(run.telemetry, run.time), run.fault)
                   = "PERMITTED"
        BY <4>2, Fields, PermissionDecays
      <4> QED
        BY <1>2, <4>1, <4>3 DEF Judged
    <3> QED
      BY <3>1
  <2> QED
    BY <1>2, <2>1, <2>2, <2>3 DEF Judged
<1> QED
  BY <1>1, <1>2

LEMMA HandledJudged ==
  ASSUME NEW run \in WellFormed, NEW t \in Times, NEW c \in CommandIds,
         NEW new \in WellFormed, Handled(run, t, c, new), run.time <= t,
         run.status # "CLOSED", Dated(run), Evidenced(run), Judged(run)
  PROVE  Judged(new)
<1>1. CASE Trips(run, t, c, new)
  BY <1>1, NotAtN4Judged DEF Trips, Operates
<1>2. CASE Acknowledges(run, t, c, new)
  <2>1. /\ Stays(run, t, new) /\ new.label = run.label /\ new.status = run.status
        /\ new.assessments = run.assessments /\ new.invalidations = run.invalidations
    BY <1>2 DEF Acknowledges
  <2> QED
    BY <2>1, StaysJudged
<1>3. ASSUME NEW d \in Switches, Isolates(run, d, t, c, new) PROVE Judged(new)
  BY <1>3, NotAtN4Judged DEF Isolates, Operates
<1>4. CASE Recloses(run, t, c, new)
  BY <1>4, NotAtN4Judged DEF Recloses, Operates
<1>5. CASE Assesses(run, t, c, new)
  <2> DEFINE a == Assessment(run, t)
             obs == Observe(run.telemetry, t)
  <2>1. /\ CanAssessRestoration(run, t)
        /\ new.revision = run.revision /\ new.telemetry = run.telemetry /\ new.time = t
        /\ new.config = run.config /\ new.fault = run.fault
        /\ ClosedNow(new) = ClosedNow(run)
        /\ new.invalidations = run.invalidations
        /\ new.assessments = Append(run.assessments, a)
    BY <1>5, StaysFields DEF Assesses, Stays, SameStart
  <2>2. /\ a.revision = run.revision
        /\ a.evidence = [d \in Monitored |-> run.telemetry[d]]
        /\ a.candidate = Candidate(run.config, ClosedNow(run), run.fault)
        /\ a.outcome = AssessmentOutcome(run.config, obs, run.fault)
    BY ObservedClosed DEF Assessment
  <2> HIDE DEF a
  <2>3. /\ LastAssessment(new) = LastAssessment(run) + 1 /\ LastAssessment(run) \in Nat
        /\ new.assessments[LastAssessment(new)] = a
        /\ DOMAIN new.assessments = 1 .. LastAssessment(run) + 1
        /\ \A i \in 1 .. LastAssessment(run) : new.assessments[i] = run.assessments[i]
        /\ DOMAIN run.assessments = 1 .. LastAssessment(run)
    BY <2>1, Fields DEF LastAssessment
  <2>4. LastAssessment(new) \notin InvalidatedIn(new)
    <3>1. InvalidatedIn(new) \subseteq 1 .. LastAssessment(run)
      BY <2>1 DEF Evidenced, InvalidatedIn
    <3> QED
      BY <2>3, <3>1
  <2>5. LastAssessment(run) # 0 => a.outcome # "PERMITTED"
    <3> SUFFICES ASSUME LastAssessment(run) # 0 PROVE a.outcome # "PERMITTED"
      OBVIOUS
    <3>1. run.label = "N4" /\ LastAssessment(run) \in InvalidatedIn(run)
      <4>1. run.label \notin {"N2", "N3"}
        BY DEF Evidenced, LastAssessment
      <4> QED
        BY <2>1, <4>1 DEF CanAssessRestoration
    <3>2. AssessmentOutcome(run.config, Observe(run.telemetry, run.time), run.fault)
            # "PERMITTED"
      BY <3>1 DEF Judged
    <3>3. \A d \in Switches : run.telemetry[d].at <= run.time
      BY DEF Dated
    <3> QED
      BY <2>2, <3>2, <3>3, Fields, PermissionDecays
  <2>6. ASSUME NEW i \in DOMAIN new.assessments, i > 1
        PROVE  new.assessments[i].outcome # "PERMITTED"
    <3>1. i \in 1 .. LastAssessment(run) \/ i = LastAssessment(run) + 1
      BY <2>3
    <3>2. CASE i \in 1 .. LastAssessment(run)
      BY <2>3, <2>6, <3>2 DEF Judged
    <3>3. CASE i = LastAssessment(run) + 1
      BY <2>3, <2>5, <2>6, <3>3
    <3> QED
      BY <3>1, <3>2, <3>3
  <2> HIDE DEF obs
  <2>7. LastAssessment(new) # 0
    BY <2>3
  <2> QED
    BY <2>1, <2>2, <2>3, <2>4, <2>6, <2>7 DEF Judged
<1>6. ASSUME NEW a \in DOMAIN run.assessments, Executes(run, a, t, c, new)
      PROVE  Judged(new)
  BY <1>6, NotAtN4Judged DEF Executes, Operates
<1>7. ASSUME NEW a \in DOMAIN run.assessments, Lapses(run, a, t, c, new)
      PROVE  Judged(new)
  <2>1. /\ Stays(run, t, new) /\ new.label = run.label /\ new.status = run.status
        /\ new.assessments = run.assessments /\ a = LastAssessment(run)
        /\ run.label = "N4" /\ ~ BindingMatches(run, a, t)
    BY <1>7 DEF Lapses, ExecutionRequested
  <2>2. Assessment(run, t).outcome # "PERMITTED"
    <3>1. /\ run.assessments[a].revision = run.revision
          /\ run.assessments[a].evidence = [d \in Monitored |-> run.telemetry[d]]
          /\ run.assessments[a].candidate = Candidate(run.config, ClosedNow(run), run.fault)
      BY <2>1 DEF Judged
    <3>2. /\ Assessment(run, t).revision = run.revision
          /\ Assessment(run, t).evidence = [d \in Monitored |-> run.telemetry[d]]
          /\ Assessment(run, t).candidate = Candidate(run.config, ClosedNow(run), run.fault)
      BY ObservedClosed DEF Assessment
    <3> QED
      BY <2>1, <3>1, <3>2 DEF BindingMatches, Binds
  <2>3. AssessmentOutcome(run.config, Observe(run.telemetry, t), run.fault) # "PERMITTED"
    BY <2>2 DEF Assessment
  <2> QED
    BY <2>1, <2>3, StaysJudged
<1> QED
  BY <1>1, <1>2, <1>3, <1>4, <1>5, <1>6, <1>7 DEF Handled

-----------------------------------------------------------------------------
(* The audit trail.                                                        *)

\* The log grows from old to all by the events that specs describes.
Grows(old, all, t, revision, c, specs) ==
  /\ \A j \in DOMAIN old : j \in DOMAIN all /\ all[j] = old[j]
  /\ \A i \in DOMAIN specs :
       /\ Len(old) + i \in DOMAIN all
       /\ all[Len(old) + i] = Recorded(specs[i], t, revision, c)
  /\ \A j \in DOMAIN all : j \in DOMAIN old \/ \E i \in DOMAIN specs : j = Len(old) + i

LEMMA RecordedFields ==
  ASSUME NEW spec, NEW t, NEW revision, NEW c
  PROVE  LET event == Recorded(spec, t, revision, c)
         IN  /\ event.type = spec.type /\ event.entity = spec.entity
             /\ event.value = spec.value /\ event.assessment = spec.assessment
             /\ event.at = t /\ event.revision = revision
BY DEF Recorded

LEMMA LogGrows ==
  ASSUME NEW old \in Seq(Event), NEW t, NEW revision, NEW c, NEW specs \in Seq(EventSpec),
         NEW all \in Seq(Event), Inserts(old, all, t, revision, c, specs)
  PROVE  Grows(old, all, t, revision, c, specs)
<1>1. /\ DOMAIN old = 1 .. Len(old) /\ DOMAIN all = 1 .. Len(all)
      /\ DOMAIN specs = 1 .. Len(specs)
      /\ Len(old) \in Nat /\ Len(specs) \in Nat /\ Len(all) \in Nat
  OBVIOUS
<1>0. Follow(old, all, t, revision, c, specs)
  BY FollowingEvents
<1>2. /\ Len(all) = Len(old) + Len(specs)
      /\ \A i \in 1 .. Len(old) : all[i] = old[i]
      /\ \A i \in 1 .. Len(specs) : all[Len(old) + i] = Recorded(specs[i], t, revision, c)
  BY <1>0 DEF Follow
<1>3. ASSUME NEW j \in 1 .. Len(all)
      PROVE  j \in 1 .. Len(old) \/ \E i \in 1 .. Len(specs) : j = Len(old) + i
  <2>1. CASE j <= Len(old)
    BY <1>1, <2>1
  <2>2. CASE ~ (j <= Len(old))
    <3>1. j - Len(old) \in 1 .. Len(specs) /\ j = Len(old) + (j - Len(old))
      BY <1>1, <1>2, <2>2
    <3> QED
      BY <3>1
  <2> QED
    BY <2>1, <2>2
<1>4. /\ \A j \in 1 .. Len(old) : j \in 1 .. Len(all)
      /\ \A i \in 1 .. Len(specs) : Len(old) + i \in 1 .. Len(all)
  BY <1>1, <1>2
<1> QED
  BY <1>1, <1>2, <1>3, <1>4 DEF Grows

\* What an operation records, and what the other commands do not.
Quiet(specs) ==
  \A i \in DOMAIN specs :
    specs[i].type \notin {"DEVICE_STATE_CHANGE", "TOPOLOGY_RECALCULATED"}

OneOf(specs, type) ==
  \E i \in DOMAIN specs :
    specs[i].type = type /\ \A j \in DOMAIN specs : specs[j].type = type => j = i

Changing(specs, d, v) ==
  /\ OneOf(specs, "DEVICE_STATE_CHANGE") /\ OneOf(specs, "TOPOLOGY_RECALCULATED")
  /\ \A i \in DOMAIN specs :
       specs[i].type = "DEVICE_STATE_CHANGE" => specs[i].entity = d /\ specs[i].value = v

\* The logs of an operation and of a trip, event by event.
LEMMA Spliced ==
  ASSUME NEW p, NEW q, NEW x, NEW y, NEW z, NEW w
  PROVE  /\ LET five == <<p>> \o <<q, x>> \o <<y, z>>
            IN  /\ DOMAIN five = 1 .. 5
                /\ five[1] = p /\ five[2] = q /\ five[3] = x /\ five[4] = y /\ five[5] = z
         /\ LET six == <<p>> \o <<q, x>> \o <<w>> \o <<y, z>>
            IN  /\ DOMAIN six = 1 .. 6
                /\ six[1] = p /\ six[2] = q /\ six[3] = x /\ six[4] = w
                /\ six[5] = y /\ six[6] = z
         /\ LET two == <<p>> \o <<q>>
            IN  DOMAIN two = 1 .. 2 /\ two[1] = p /\ two[2] = q
OBVIOUS

LEMMA SwitchingChanges ==
  ASSUME NEW d, NEW v
  PROVE  Changing(SwitchingSpecs(d, v), d, v)
<1> DEFINE s == SwitchingSpecs(d, v)
<1>1. /\ DOMAIN s = 1 .. 5
      /\ s[1] = Spec3("SWITCHING_ACTION", d, v)
      /\ s[2] = Spec3("TELEMETRY_UPDATED", d, v)
      /\ s[3] = Spec3("DEVICE_STATE_CHANGE", d, v)
      /\ s[4] = Spec3("TOPOLOGY_RECALCULATED", NoEntity, NoValue)
      /\ s[5] = Spec3("OUTAGE_UPDATED", NoEntity, NoValue)
  BY Spliced DEF SwitchingSpecs, SwitchSpecs, DerivedSpecs
<1> HIDE DEF s
<1>2. Changing(s, d, v)
  BY <1>1 DEF Changing, OneOf, Spec3
<1> QED
  BY <1>2 DEF s

LEMMA TripChanges ==
  ASSUME NEW run
  PROVE  Changing(TripSpecs(run), AffectedBreaker(run), "OPEN")
<1> DEFINE d == AffectedBreaker(run)
           s == TripSpecs(run)
<1>1. /\ DOMAIN s = 1 .. 6
      /\ s[1] = Spec3("FAULT_INITIATED", run.fault, "FAULTED")
      /\ s[2] = Spec3("TELEMETRY_UPDATED", d, "OPEN")
      /\ s[3] = Spec3("DEVICE_STATE_CHANGE", d, "OPEN")
      /\ s[4] = Spec3("ALARM_GENERATED", d, NoValue)
      /\ s[5] = Spec3("TOPOLOGY_RECALCULATED", NoEntity, NoValue)
      /\ s[6] = Spec3("OUTAGE_UPDATED", NoEntity, NoValue)
  BY Spliced DEF TripSpecs, SwitchSpecs, DerivedSpecs
<1> HIDE DEF d, s
<1>2. Changing(s, d, "OPEN")
  BY <1>1 DEF Changing, OneOf, Spec3
<1> QED
  BY <1>2 DEF d, s

LEMMA AboutChanges ==
  ASSUME NEW specs \in Seq(EventSpec), NEW d, NEW v, NEW a \in Nat, Changing(specs, d, v)
  PROVE  AllAbout(specs, a) \in Seq(EventSpec) /\ Changing(AllAbout(specs, a), d, v)
<1> DEFINE all == AllAbout(specs, a)
<1>1. /\ DOMAIN all = DOMAIN specs /\ DOMAIN specs = 1 .. Len(specs) /\ Len(specs) \in Nat
      /\ \A i \in DOMAIN specs : all[i] = About(specs[i], a) /\ specs[i] \in EventSpec
  BY DEF AllAbout
<1>2. \A i \in DOMAIN specs :
        /\ all[i] \in EventSpec /\ all[i].type = specs[i].type
        /\ all[i].entity = specs[i].entity /\ all[i].value = specs[i].value
  BY <1>1 DEF About, EventSpec
<1>3. all = [i \in 1 .. Len(specs) |-> all[i]]
  BY <1>1 DEF AllAbout
<1> HIDE DEF all
<1>4. all \in Seq(EventSpec)
  BY <1>1, <1>2, <1>3
<1>5. Changing(all, d, v)
  BY <1>1, <1>2 DEF Changing, OneOf
<1> QED
  BY <1>4, <1>5 DEF all

LEMMA QuietSpecs ==
  ASSUME NEW run
  PROVE  /\ Quiet(<<Spec3("ALARM_ACKNOWLEDGED", AffectedBreaker(run), "ACKNOWLEDGED")>>)
         /\ \A a : Quiet(AssessmentSpecs(run, a))
         /\ Quiet(<<InvalidatedSpec(run)>>)
         /\ Quiet(ClosingSpecs(run))
<1>1. Quiet(<<Spec3("ALARM_ACKNOWLEDGED", AffectedBreaker(run), "ACKNOWLEDGED")>>)
  BY DEF Quiet, Spec3
<1>2. ASSUME NEW a PROVE Quiet(AssessmentSpecs(run, a))
  BY DEF Quiet, AssessmentSpecs, Spec3, About
<1>3. InvalidatedSpec(run).type = "RESTORATION_ASSESSMENT_INVALIDATED"
  BY DEF InvalidatedSpec, Spec3, About
<1> DEFINE x == InvalidatedSpec(run)
           y == Spec3("SCENARIO_RESET", NoEntity, NoValue)
<1>4. \/ ClosingSpecs(run) = <<x>> \o <<y>>
      \/ ClosingSpecs(run) = <<y>>
  BY DEF ClosingSpecs, ResetSpecs
<1>6. y.type = "SCENARIO_RESET"
  BY DEF Spec3
<1> HIDE DEF x, y
<1>5. Quiet(<<x>>) /\ Quiet(ClosingSpecs(run))
  BY <1>3, <1>4, <1>6, Spliced DEF Quiet, x
<1> QED
  BY <1>1, <1>2, <1>5 DEF x

\* Every command records the one change it makes, or makes none.
LEMMA HandledWrites ==
  ASSUME NEW run \in WellFormed, NEW t \in Times, NEW c \in CommandIds,
         NEW new \in WellFormed, Handled(run, t, c, new)
  PROVE  \E specs \in Seq(EventSpec) :
           /\ Writes(run, t, c, specs, new)
           /\ \/ Quiet(specs) /\ Stays(run, t, new)
              \/ \E d \in Switches, v \in SwitchState :
                   Changing(specs, d, v) /\ Operates(run, d, v, t, new)
<1>0. AffectedBreaker(run) \in Switches /\ {"OPEN", "CLOSED"} \subseteq SwitchState
  BY AffectedBreakerType DEF SwitchState
<1>1. CASE Trips(run, t, c, new)
  BY <1>0, <1>1, TripChanges, SpecsType DEF Trips
<1>2. CASE Acknowledges(run, t, c, new)
  BY <1>2, QuietSpecs, SpecsType DEF Acknowledges
<1>3. ASSUME NEW d \in Switches, Isolates(run, d, t, c, new)
      PROVE  \E specs \in Seq(EventSpec) :
               /\ Writes(run, t, c, specs, new)
               /\ Changing(specs, d, "OPEN") /\ Operates(run, d, "OPEN", t, new)
  BY <1>0, <1>3, SwitchingChanges, SpecsType DEF Isolates
<1>4. CASE Recloses(run, t, c, new)
  BY <1>0, <1>4, SwitchingChanges, SpecsType DEF Recloses
<1>5. CASE Assesses(run, t, c, new)
  BY <1>5, QuietSpecs, SpecsType DEF Assesses
<1>6. ASSUME NEW a \in DOMAIN run.assessments, Executes(run, a, t, c, new)
      PROVE  \E specs \in Seq(EventSpec) :
               /\ Writes(run, t, c, specs, new)
               /\ \E d \in Switches :
                    Changing(specs, d, "CLOSED") /\ Operates(run, d, "CLOSED", t, new)
  <2> DEFINE d == CandidateTie(run, a)
             specs == SwitchingSpecs(d, "CLOSED")
  <2>1. /\ d \in Switches /\ Operates(run, d, "CLOSED", t, new)
        /\ Writes(run, t, c, AllAbout(specs, a), new)
    BY <1>6, Executable DEF Executes
  <2>2. specs \in Seq(EventSpec) /\ Changing(specs, d, "CLOSED") /\ a \in Nat
    BY <1>0, <2>1, SwitchingChanges, SpecsType, Fields
  <2> HIDE DEF specs, d
  <2>3. AllAbout(specs, a) \in Seq(EventSpec) /\ Changing(AllAbout(specs, a), d, "CLOSED")
    BY <2>2, AboutChanges
  <2> QED
    BY <2>1, <2>3
<1>7. ASSUME NEW a \in DOMAIN run.assessments, Lapses(run, a, t, c, new)
      PROVE  \E specs \in Seq(EventSpec) :
               Writes(run, t, c, specs, new) /\ Quiet(specs) /\ Stays(run, t, new)
  <2>1. <<InvalidatedSpec(run)>> \in Seq(EventSpec)
    BY <1>7, SpecsType DEF Lapses, ExecutionRequested
  <2> QED
    BY <1>7, <2>1, QuietSpecs DEF Lapses
<1> QED
  BY <1>0, <1>1, <1>2, <1>3, <1>4, <1>5, <1>6, <1>7 DEF Handled

\* The body of EventsExplainTelemetry.
Recalculated(run) ==
  /\ \A k \in 0 .. run.revision :
       \E i \in Recalculations(run) : run.events[i].revision = k
  /\ \A i, j \in Recalculations(run) :
       run.events[i].revision = run.events[j].revision => i = j

Chronicle(run) ==
  /\ \A i \in DOMAIN run.events :
       run.events[i].at <= run.time /\ run.events[i].revision <= run.revision
  /\ \A i, j \in DOMAIN run.events :
       i < j => /\ run.events[i].at <= run.events[j].at
                /\ run.events[i].revision <= run.events[j].revision

Explained(run) ==
  /\ \A d \in Switches : TelemetryExplained(run, d)
  /\ Recalculated(run) /\ Chronicle(run)

LEMMA LogTypes ==
  ASSUME NEW run \in WellFormed
  PROVE  /\ run.events \in Seq(Event) /\ Len(run.events) \in Nat
         /\ DOMAIN run.events = 1 .. Len(run.events)
         /\ run.time \in Nat /\ run.revision \in Nat
         /\ \A i \in DOMAIN run.events :
              run.events[i].at \in Nat /\ run.events[i].revision \in Nat
<1>1. run.events \in Seq(Event) /\ run.time \in Times /\ run.revision \in Nat
  BY Fields
<1>2. \A e \in Event : e.at \in Times /\ e.revision \in Nat
  BY DEF Event
<1>3. Times \subseteq Nat
  BY ScenarioAssumption DEF ScenarioAssumption
<1> DEFINE log == run.events
<1>4. log \in Seq(Event)
  BY <1>1
<1> HIDE DEF log
<1>5. DOMAIN log = 1 .. Len(log) /\ Len(log) \in Nat
  BY <1>4
<1>6. \A i \in DOMAIN log : log[i] \in Event
  BY <1>4
<1>7. \A i \in DOMAIN log : log[i].at \in Nat /\ log[i].revision \in Nat
  BY <1>2, <1>3, <1>6
<1> QED
  BY <1>1, <1>3, <1>4, <1>5, <1>7 DEF log

LEMMA ChronicleKept ==
  ASSUME NEW run \in WellFormed, NEW t \in Times, NEW new \in WellFormed, NEW c, NEW specs,
         Grows(run.events, new.events, t, new.revision, c, specs), specs \in Seq(EventSpec),
         Chronicle(run), run.time <= t, new.time = t, run.revision <= new.revision
  PROVE  Chronicle(new)
<1> DEFINE old == run.events
           all == new.events
<1>1. /\ Len(old) \in Nat /\ DOMAIN old = 1 .. Len(old)
      /\ run.time \in Nat /\ run.revision \in Nat /\ t \in Nat /\ new.revision \in Nat
      /\ \A i \in DOMAIN old : old[i].at \in Nat /\ old[i].revision \in Nat
      /\ DOMAIN specs \subseteq Nat \ {0}
  BY LogTypes
<1>0. Grows(old, all, t, new.revision, c, specs)
  OBVIOUS
<1>a. \A i \in DOMAIN old : old[i].at <= run.time /\ old[i].revision <= run.revision
  BY DEF Chronicle
<1>b. \A i, j \in DOMAIN old :
        i < j => old[i].at <= old[j].at /\ old[i].revision <= old[j].revision
  BY DEF Chronicle
<1> HIDE DEF old, all
<1>c. \A i \in DOMAIN old : all[i] = old[i]
  BY <1>0 DEF Grows
<1>d. \A i \in DOMAIN specs : all[Len(old) + i] = Recorded(specs[i], t, new.revision, c)
  BY <1>0 DEF Grows
<1>e. \A i \in DOMAIN specs :
        all[Len(old) + i].at = t /\ all[Len(old) + i].revision = new.revision
  BY <1>d, RecordedFields
<1>f. \A j \in DOMAIN all : j \in DOMAIN old \/ \E i \in DOMAIN specs : j = Len(old) + i
  BY <1>0 DEF Grows
<1>3. ASSUME NEW i \in DOMAIN all
      PROVE  all[i].at <= t /\ all[i].revision <= new.revision
  <2>1. CASE i \in DOMAIN old
    BY <1>1, <1>a, <1>c, <2>1
  <2>2. ASSUME NEW k \in DOMAIN specs, i = Len(old) + k
        PROVE  all[i].at <= t /\ all[i].revision <= new.revision
    BY <1>1, <1>e, <2>2
  <2> QED
    BY <1>f, <2>1, <2>2
<1>4. ASSUME NEW i \in DOMAIN all, NEW j \in DOMAIN all, i < j
      PROVE  all[i].at <= all[j].at /\ all[i].revision <= all[j].revision
  <2>1. CASE i \in DOMAIN old /\ j \in DOMAIN old
    BY <1>b, <1>c, <1>4, <2>1
  <2>2. ASSUME NEW k \in DOMAIN specs, j = Len(old) + k
        PROVE  all[i].at <= all[j].at /\ all[i].revision <= all[j].revision
    BY <1>3, <1>e, <2>2
  <2>3. ASSUME NEW k \in DOMAIN specs, i = Len(old) + k, j \in DOMAIN old PROVE FALSE
    BY <1>1, <1>4, <2>3
  <2> QED
    BY <1>f, <2>1, <2>2, <2>3
<1> QED
  BY <1>3, <1>4 DEF Chronicle, old, all

\* Where nothing changes the log explains what it did.
LEMMA QuietExplained ==
  ASSUME NEW run \in WellFormed, NEW t, NEW new \in WellFormed, NEW c, NEW specs,
         Grows(run.events, new.events, t, new.revision, c, specs), Quiet(specs),
         Stays(run, t, new)
  PROVE  /\ \A d \in Switches : TelemetryExplained(run, d) => TelemetryExplained(new, d)
         /\ Recalculated(run) => Recalculated(new)
<1> DEFINE old == run.events
           all == new.events
<1>0. Grows(old, all, t, new.revision, c, specs)
  OBVIOUS
<1>1. \A i \in DOMAIN old : i \in DOMAIN all /\ all[i] = old[i]
  BY <1>0 DEF Grows
<1>2. /\ \A d : ChangesOf(new, d) = ChangesOf(run, d)
      /\ Recalculations(new) = Recalculations(run)
  <2> HIDE DEF old, all
  <2>1. \A i \in DOMAIN specs : all[Len(old) + i] = Recorded(specs[i], t, new.revision, c)
    BY <1>0 DEF Grows
  <2>2. \A i \in DOMAIN specs :
          all[Len(old) + i].type \notin {"DEVICE_STATE_CHANGE", "TOPOLOGY_RECALCULATED"}
    BY <2>1, RecordedFields DEF Quiet
  <2>3. \A j \in DOMAIN all : j \in DOMAIN old \/ \E i \in DOMAIN specs : j = Len(old) + i
    BY <1>0 DEF Grows
  <2>4. ASSUME NEW d PROVE ChangesOf(new, d) = ChangesOf(run, d)
    BY <1>1, <2>2, <2>3 DEF ChangesOf, old, all
  <2>5. Recalculations(new) = Recalculations(run)
    BY <1>1, <2>2, <2>3 DEF Recalculations, old, all
  <2> QED
    BY <2>4, <2>5
<1>3. /\ new.telemetry = run.telemetry /\ new.initial = run.initial
      /\ new.revision = run.revision
  BY DEF Stays, SameStart
<1>4. ASSUME NEW d \in Switches, TelemetryExplained(run, d) PROVE TelemetryExplained(new, d)
  <2>1. CASE ChangesOf(run, d) = {}
    BY <1>2, <1>3, <1>4, <2>1 DEF TelemetryExplained
  <2>2. CASE ChangesOf(run, d) # {}
    <3>1. PICK i \in ChangesOf(run, d) :
            /\ \A j \in ChangesOf(run, d) : j <= i
            /\ run.telemetry[d] = [value |-> old[i].value, quality |-> "GOOD",
                                   at |-> old[i].at, revision |-> old[i].revision]
      BY <1>4, <2>2 DEF TelemetryExplained
    <3>2. all[i] = old[i]
      BY <1>1 DEF ChangesOf
    <3> QED
      BY <1>2, <1>3, <2>2, <3>1, <3>2 DEF TelemetryExplained
  <2> QED
    BY <2>1, <2>2
<1>5. ASSUME Recalculated(run) PROVE Recalculated(new)
  <2>1. \A i \in Recalculations(run) : all[i] = old[i]
    BY <1>1 DEF Recalculations
  <2> QED
    BY <1>2, <1>3, <1>5, <2>1 DEF Recalculated
<1> QED
  BY <1>4, <1>5

\* An operation is explained by the one change it records, as is its revision.
LEMMA ChangingExplained ==
  ASSUME NEW run \in WellFormed, NEW t, NEW new \in WellFormed, NEW c,
         NEW d \in Switches, NEW v \in SwitchState, NEW specs \in Seq(EventSpec),
         Grows(run.events, new.events, t, new.revision, c, specs), Changing(specs, d, v),
         Operates(run, d, v, t, new), Chronicle(run)
  PROVE  /\ \A e \in Switches : TelemetryExplained(run, e) => TelemetryExplained(new, e)
         /\ Recalculated(run) => Recalculated(new)
<1> DEFINE old == run.events
           all == new.events
           n == Len(old)
<1>0. Grows(old, all, t, new.revision, c, specs)
  OBVIOUS
<1>2. /\ n \in Nat /\ DOMAIN old = 1 .. n /\ DOMAIN specs \subseteq Nat \ {0}
      /\ run.revision \in Nat /\ new.revision = run.revision + 1
      /\ \A i \in DOMAIN old : old[i].revision \in Nat /\ old[i].revision <= run.revision
  BY LogTypes DEF Operates, Chronicle
<1>3. PICK m \in DOMAIN specs :
        /\ specs[m].type = "DEVICE_STATE_CHANGE" /\ specs[m].entity = d /\ specs[m].value = v
        /\ \A j \in DOMAIN specs : specs[j].type = "DEVICE_STATE_CHANGE" => j = m
  BY DEF Changing, OneOf
<1>4. PICK k \in DOMAIN specs :
        /\ specs[k].type = "TOPOLOGY_RECALCULATED"
        /\ \A j \in DOMAIN specs : specs[j].type = "TOPOLOGY_RECALCULATED" => j = k
  BY DEF Changing, OneOf
<1>5. /\ new.initial = run.initial
      /\ new.telemetry[d] = [value |-> v, quality |-> "GOOD", at |-> t,
                             revision |-> new.revision]
      /\ \A e \in Switches \ {d} : new.telemetry[e] = run.telemetry[e]
  BY Fields DEF Operates, SameStart
<1>e. TelemetryExplained(new, d) <=> \* restated for hidden definitions
        IF ChangesOf(new, d) = {} THEN new.telemetry[d] = NormalPoint(d, new.initial)
        ELSE \E i \in ChangesOf(new, d) :
               /\ \A j \in ChangesOf(new, d) : j <= i
               /\ new.telemetry[d] =
                    [value |-> all[i].value, quality |-> "GOOD",
                     at |-> all[i].at, revision |-> all[i].revision]
  BY DEF TelemetryExplained
<1>f. /\ \A e : ChangesOf(new, e) = {j \in DOMAIN all :
                   all[j].type = "DEVICE_STATE_CHANGE" /\ all[j].entity = e}
      /\ \A e : ChangesOf(run, e) = {j \in DOMAIN old :
                   old[j].type = "DEVICE_STATE_CHANGE" /\ old[j].entity = e}
      /\ Recalculations(new) = {j \in DOMAIN all : all[j].type = "TOPOLOGY_RECALCULATED"}
      /\ Recalculations(run) = {j \in DOMAIN old : old[j].type = "TOPOLOGY_RECALCULATED"}
  BY DEF ChangesOf, Recalculations
<1> HIDE DEF old, all
<1>1. \A i \in DOMAIN old : i \in DOMAIN all /\ all[i] = old[i]
  BY <1>0 DEF Grows
<1>a. \A i \in DOMAIN specs :
        n + i \in DOMAIN all /\ all[n + i] = Recorded(specs[i], t, new.revision, c)
  BY <1>0 DEF Grows
<1>b. \A i \in DOMAIN specs :
        /\ all[n + i].type = specs[i].type /\ all[n + i].entity = specs[i].entity
        /\ all[n + i].value = specs[i].value /\ all[n + i].at = t
        /\ all[n + i].revision = new.revision
  BY <1>a, RecordedFields
<1>c. \A j \in DOMAIN all : j \in DOMAIN old \/ \E i \in DOMAIN specs : j = n + i
  BY <1>0 DEF Grows
<1> HIDE DEF n
<1>6. /\ ChangesOf(new, d) = ChangesOf(run, d) \cup {n + m}
      /\ \A e \in Switches \ {d} : ChangesOf(new, e) = ChangesOf(run, e)
      /\ Recalculations(new) = Recalculations(run) \cup {n + k}
  <2>1. ASSUME NEW j PROVE j \in ChangesOf(new, d) <=> j \in ChangesOf(run, d) \/ j = n + m
    <3>1. j \in ChangesOf(run, d) => j \in ChangesOf(new, d)
      BY <1>1, <1>f
    <3>2. n + m \in ChangesOf(new, d)
      BY <1>3, <1>a, <1>b, <1>f
    <3>3. j \in ChangesOf(new, d) => j \in ChangesOf(run, d) \/ j = n + m
      BY <1>1, <1>3, <1>b, <1>c, <1>f
    <3> QED
      BY <3>1, <3>2, <3>3
  <2>2. ASSUME NEW e \in Switches \ {d}, NEW j
        PROVE  j \in ChangesOf(new, e) <=> j \in ChangesOf(run, e)
    <3>1. j \in ChangesOf(run, e) => j \in ChangesOf(new, e)
      BY <1>1, <1>f
    <3>2. j \in ChangesOf(new, e) => j \in ChangesOf(run, e)
      <4> SUFFICES ASSUME j \in DOMAIN all, all[j].type = "DEVICE_STATE_CHANGE",
                          all[j].entity = e
                   PROVE  j \in ChangesOf(run, e)
        BY <1>f
      <4>1. \A i \in DOMAIN specs : specs[i].type = "DEVICE_STATE_CHANGE" => specs[i].entity = d
        BY <1>3
      <4>2. \A i \in DOMAIN specs : j # n + i
        BY <1>b, <4>1
      <4> QED
        BY <1>1, <1>c, <1>f, <4>2
    <3> QED
      BY <3>1, <3>2
  <2>3. ASSUME NEW j
        PROVE  j \in Recalculations(new) <=> j \in Recalculations(run) \/ j = n + k
    <3>1. j \in Recalculations(run) => j \in Recalculations(new)
      BY <1>1, <1>f
    <3>2. n + k \in Recalculations(new)
      BY <1>4, <1>a, <1>b, <1>f
    <3>3. j \in Recalculations(new) => j \in Recalculations(run) \/ j = n + k
      BY <1>1, <1>4, <1>b, <1>c, <1>f
    <3> QED
      BY <3>1, <3>2, <3>3
  <2> QED
    BY <2>1, <2>2, <2>3
<1>7. ASSUME NEW e \in Switches \ {d}, TelemetryExplained(run, e)
      PROVE  TelemetryExplained(new, e)
  <2>1. CASE ChangesOf(run, e) = {}
    BY <1>5, <1>6, <1>7, <2>1 DEF TelemetryExplained
  <2>2. CASE ChangesOf(run, e) # {}
    <3>1. PICK i \in ChangesOf(run, e) :
            /\ \A j \in ChangesOf(run, e) : j <= i
            /\ run.telemetry[e] = [value |-> old[i].value, quality |-> "GOOD",
                                   at |-> old[i].at, revision |-> old[i].revision]
      BY <1>7, <2>2 DEF TelemetryExplained, old
    <3>2. all[i] = old[i]
      BY <1>1, <1>f
    <3> QED
      BY <1>5, <1>6, <2>2, <3>1, <3>2 DEF TelemetryExplained, all
  <2> QED
    BY <2>1, <2>2
<1>8. TelemetryExplained(new, d)
  <2>1. n + m \in ChangesOf(new, d) /\ \A j \in ChangesOf(new, d) : j <= n + m
    <3>1. \A j \in ChangesOf(run, d) : j <= n + m
      BY <1>2, <1>f
    <3> QED
      BY <1>2, <1>6, <3>1
  <2> QED
    <3>1. new.telemetry[d] = [value |-> all[n + m].value, quality |-> "GOOD",
                              at |-> all[n + m].at, revision |-> all[n + m].revision]
      BY <1>3, <1>5, <1>b
    <3> QED
      BY <1>e, <2>1, <3>1
<1>9. ASSUME Recalculated(run) PROVE Recalculated(new)
  <2>1. \A i \in Recalculations(run) :
          all[i] = old[i] /\ old[i].revision \in Nat /\ old[i].revision <= run.revision
    BY <1>1, <1>2, <1>f
  <2>5. \A i \in Recalculations(run) : all[i].revision # run.revision + 1
    <3>1. \A x \in Nat : x <= run.revision => x # run.revision + 1
      BY <1>2
    <3> QED
      BY <2>1, <3>1
  <2>2. all[n + k].revision = run.revision + 1
    BY <1>2, <1>4, <1>b
  <2>3. ASSUME NEW x \in 0 .. new.revision
        PROVE  \E i \in Recalculations(new) : all[i].revision = x
    <3>1. x \in 0 .. run.revision \/ x = run.revision + 1
      BY <1>2
    <3> QED
      BY <1>6, <1>9, <2>1, <2>2, <3>1 DEF Recalculated, old
  <2>4. ASSUME NEW i \in Recalculations(new), NEW j \in Recalculations(new),
               all[i].revision = all[j].revision
        PROVE  i = j
    <3>1. CASE i \in Recalculations(run) /\ j \in Recalculations(run)
      BY <1>9, <2>1, <2>4, <3>1 DEF Recalculated, old
    <3>2. CASE i \in Recalculations(run) /\ j = n + k
      BY <2>2, <2>4, <2>5, <3>2
    <3>3. CASE i = n + k /\ j \in Recalculations(run)
      BY <2>2, <2>4, <2>5, <3>3
    <3> QED
      BY <1>6, <3>1, <3>2, <3>3
  <2> QED
    BY <2>3, <2>4 DEF Recalculated, all
<1> QED
  BY <1>7, <1>8, <1>9

\* What is written to the log of a row.
LEMMA RowGrows ==
  ASSUME NEW run \in WellFormed, NEW t, NEW c, NEW specs \in Seq(EventSpec),
         NEW new \in WellFormed, Writes(run, t, c, specs, new)
  PROVE  Grows(run.events, new.events, t, new.revision, c, specs)
<1>1. /\ Inserts(run.events, new.events, t, new.revision, c, specs)
      /\ run.events \in Seq(Event) /\ new.events \in Seq(Event)
  BY Fields DEF Writes, Inserts
<1> QED
  BY <1>1, LogGrows

LEMMA HandledExplained ==
  ASSUME NEW run \in WellFormed, NEW t \in Times, NEW c \in CommandIds,
         NEW new \in WellFormed, Handled(run, t, c, new), run.time <= t, Explained(run)
  PROVE  Explained(new)
<1>1. PICK specs \in Seq(EventSpec) :
        /\ Writes(run, t, c, specs, new)
        /\ \/ Quiet(specs) /\ Stays(run, t, new)
           \/ \E d \in Switches, v \in SwitchState :
                Changing(specs, d, v) /\ Operates(run, d, v, t, new)
  BY HandledWrites
<1>2. Grows(run.events, new.events, t, new.revision, c, specs)
  BY <1>1, RowGrows
<1>3. /\ \A d \in Switches : TelemetryExplained(run, d)
      /\ Recalculated(run) /\ Chronicle(run)
  BY DEF Explained
<1>4. CASE Quiet(specs) /\ Stays(run, t, new)
  <2>1. new.time = t /\ run.revision <= new.revision
    BY <1>4, LogTypes DEF Stays
  <2>2. Chronicle(new)
    BY <1>2, <1>3, <2>1, ChronicleKept
  <2> QED
    BY <1>2, <1>3, <1>4, <2>2, QuietExplained DEF Explained
<1>5. ASSUME NEW d \in Switches, NEW v \in SwitchState,
             Changing(specs, d, v), Operates(run, d, v, t, new)
      PROVE  Explained(new)
  <2>1. new.time = t /\ run.revision <= new.revision
    BY <1>5, LogTypes DEF Operates
  <2>2. Chronicle(new)
    BY <1>2, <1>3, <2>1, ChronicleKept
  <2> QED
    BY <1>2, <1>3, <1>5, <2>2, ChangingExplained DEF Explained
<1> QED
  BY <1>1, <1>4, <1>5

LEMMA ClosesExplained ==
  ASSUME NEW run \in WellFormed, NEW t \in Times, NEW c \in CommandIds,
         NEW new \in WellFormed, Closes(run, t, c, new), run.time <= t, Explained(run)
  PROVE  Explained(new)
<1> DEFINE specs == ClosingSpecs(run)
<1>1. /\ specs \in Seq(EventSpec) /\ Quiet(specs)
      /\ Writes(run, t, c, specs, new) /\ Stays(run, t, new)
  BY QuietSpecs, SpecsType DEF Closes
<1> HIDE DEF specs
<1>2. Grows(run.events, new.events, t, new.revision, c, specs)
  BY <1>1, RowGrows
<1>3. new.time = t /\ run.revision <= new.revision
  BY <1>1, LogTypes DEF Stays
<1>4. Chronicle(new)
  BY <1>1, <1>2, <1>3, ChronicleKept DEF Explained
<1> QED
  BY <1>1, <1>2, <1>4, QuietExplained DEF Explained

LEMMA OpenedExplained ==
  ASSUME NEW n \in RunIds, NEW t \in Times, NEW c \in CommandIds, NEW new \in WellFormed,
         Opened(n, t, c, new)
  PROVE  Explained(new)
<1>1. PICK mode \in Modes, g \in Configs, fault \in Sections :
        Starts(mode, g, fault, t, c, new)
  BY DEF Opened
<1> DEFINE specs == StartSpecs(g)
           all == new.events
<1>2. /\ new.initial = t /\ new.time = t /\ new.revision = 0
      /\ new.telemetry = [d \in Switches |-> NormalPoint(d, t)]
      /\ Inserts(<< >>, all, t, 0, c, specs)
      /\ specs \in Seq(EventSpec) /\ << >> \in Seq(Event) /\ all \in Seq(Event)
  BY <1>1, SpecsType, Fields DEF Starts, Inserts
<1>3. /\ DOMAIN specs = 1 .. 4
      /\ specs[1].type = "SCENARIO_INITIALISED" /\ specs[2].type = "CONFIGURATION_SELECTED"
      /\ specs[3].type = "TOPOLOGY_RECALCULATED" /\ specs[4].type = "OUTAGE_UPDATED"
  BY DEF StartSpecs, DerivedSpecs, Spec3
<1> HIDE DEF specs, all
<1>4. Grows(<< >>, all, t, 0, c, specs)
  BY <1>2, LogGrows
<1>5. /\ \A i \in 1 .. 4 :
           i \in DOMAIN all /\ all[i].type = specs[i].type
             /\ all[i].at = t /\ all[i].revision = 0
      /\ \A j \in DOMAIN all : j \in 1 .. 4
  <2>1. Len(<< >>) = 0 /\ \A i \in 1 .. 4 : 0 + i = i
    OBVIOUS
  <2>2. \A i \in 1 .. 4 : i \in DOMAIN all /\ all[i] = Recorded(specs[i], t, 0, c)
    BY <1>3, <1>4, <2>1 DEF Grows
  <2>3. \A j \in DOMAIN all : j \in 1 .. 4
    BY <1>3, <1>4, <2>1 DEF Grows
  <2>4. \A i \in 1 .. 4 : all[i].type = specs[i].type
    BY <2>2, RecordedFields
  <2>5. \A i \in 1 .. 4 : all[i].at = t /\ all[i].revision = 0
    BY <2>2, RecordedFields
  <2> QED
    BY <2>2, <2>3, <2>4, <2>5
<1>6. /\ \A d \in Switches : ChangesOf(new, d) = {}
      /\ Recalculations(new) = {3}
  BY <1>3, <1>5 DEF ChangesOf, Recalculations, all
<1>7. \A d \in Switches : TelemetryExplained(new, d)
  BY <1>2, <1>6 DEF TelemetryExplained
<1>8. Recalculated(new)
  BY <1>2, <1>5, <1>6 DEF Recalculated, all
<1>9. Chronicle(new)
  <2>1. t \in Nat
    BY ScenarioAssumption DEF ScenarioAssumption
  <2>2. t <= t /\ 0 <= 0
    BY <2>1
  <2>3. \A i \in DOMAIN all : all[i].at = t /\ all[i].revision = 0
    BY <1>5
  <2>4. \A i \in DOMAIN all : all[i].at <= t /\ all[i].revision <= 0
    BY <2>2, <2>3
  <2>5. \A i, j \in DOMAIN all :
          all[i].at <= all[j].at /\ all[i].revision <= all[j].revision
    BY <2>2, <2>3
  <2> QED
    BY <1>2, <2>4, <2>5 DEF Chronicle, all
<1> QED
  BY <1>7, <1>8, <1>9 DEF Explained

-----------------------------------------------------------------------------
(* The restored network.                                                   *)

\* What a handler may have opened, of the devices that are normally closed.
MayBeOpen(run) == Incident(run.config, run.fault) \cup {AffectedBreaker(run)}

Kept(run) == NormalClosed \ MayBeOpen(run) \subseteq ClosedNow(run)

LEMMA OpenedKept ==
  ASSUME NEW n \in RunIds, NEW t \in Times, NEW c \in CommandIds, NEW new \in WellFormed,
         Opened(n, t, c, new)
  PROVE  Kept(new)
<1>1. PICK mode \in Modes, g \in Configs, fault \in Sections :
        Starts(mode, g, fault, t, c, new)
  BY DEF Opened
<1>2. new.telemetry = [d \in Switches |-> NormalPoint(d, t)]
  BY <1>1 DEF Starts
<1> QED
  BY <1>2, NetworkAssumption DEF NormalPoint, ClosedNow, Kept, NetworkAssumption

LEMMA StaysKept ==
  ASSUME NEW run \in WellFormed, NEW t \in Times, NEW new \in WellFormed, Stays(run, t, new),
         Kept(run)
  PROVE  Kept(new)
BY StaysFields DEF Kept, MayBeOpen

\* A handler that opens a device opens the breaker or a boundary.
LEMMA HandledKept ==
  ASSUME NEW run \in WellFormed, NEW t \in Times, NEW c \in CommandIds,
         NEW new \in WellFormed, Handled(run, t, c, new), Kept(run)
  PROVE  Kept(new)
<1>0. AffectedBreaker(run) \in Switches /\ {"OPEN", "CLOSED"} \subseteq SwitchState
  BY Fields, AffectedBreakerType DEF SwitchState
<1>1. ASSUME NEW d \in Switches, Operates(run, d, "CLOSED", t, new) PROVE Kept(new)
  <2>1. /\ ClosedNow(new) = ClosedNow(run) \cup {d}
        /\ Incident(new.config, new.fault) = Incident(run.config, run.fault)
        /\ AffectedBreaker(new) = AffectedBreaker(run)
    BY <1>0, <1>1, OperatesFields
  <2> QED
    BY <2>1 DEF Kept, MayBeOpen
<1>2. ASSUME NEW d \in Switches, Operates(run, d, "OPEN", t, new), d \in MayBeOpen(run)
      PROVE  Kept(new)
  <2>1. /\ ClosedNow(new) = ClosedNow(run) \ {d}
        /\ Incident(new.config, new.fault) = Incident(run.config, run.fault)
        /\ AffectedBreaker(new) = AffectedBreaker(run)
    BY <1>0, <1>2, OperatesFields
  <2> QED
    BY <1>2, <2>1 DEF Kept, MayBeOpen
<1>3. ASSUME NEW d \in Switches, Isolates(run, d, t, c, new) PROVE Kept(new)
  <2>1. d \in MayBeOpen(run)
    BY <1>3 DEF Isolates, CanOperateIsolationDevice, Boundary, MayBeOpen
  <2> QED
    BY <1>2, <1>3, <2>1 DEF Isolates
<1>4. ASSUME NEW a \in DOMAIN run.assessments, Executes(run, a, t, c, new) PROVE Kept(new)
  <2>1. CandidateTie(run, a) \in Switches
    BY <1>4, Executable DEF Executes
  <2> QED
    BY <1>1, <1>4, <2>1 DEF Executes
<1>5. CASE Trips(run, t, c, new)
  <2>1. AffectedBreaker(run) \in MayBeOpen(run)
    BY DEF MayBeOpen
  <2> QED
    BY <1>0, <1>2, <1>5, <2>1 DEF Trips
<1>6. CASE Recloses(run, t, c, new)
  BY <1>0, <1>1, <1>6 DEF Recloses
<1>7. CASE Stays(run, t, new)
  BY <1>7, StaysKept
<1> QED
  BY <1>3, <1>4, <1>5, <1>6, <1>7 DEF Handled, Acknowledges, Assesses, Lapses

\* The network an executed restoration has left.
Restored(run) ==
  run.label = "N5" =>
    LET bound == run.assessments[LastAssessment(run)].candidate
    IN  /\ Radial(run.config, ClosedNow(run))
        /\ \A f \in Feeders :
             LoadOf(SuppliedBy(run.config, ClosedNow(run), f)) <= Capacity[f]
        /\ bound.sections \subseteq SuppliedBy(run.config, ClosedNow(run), bound.feeder)

\* What is dead after the fault was handled belongs to the faulted feeder.
LEMMA DeadIsOwn ==
  ASSUME NEW run \in WellFormed, Contained(run), Kept(run)
  PROVE  \A s \in Sections \ Energised(run.config, ClosedNow(run)) :
            FeederOf[s] = FeederOf[run.fault]
<1> DEFINE least == NormalClosed \ MayBeOpen(run)
<1>1. /\ run.mode \in Modes /\ run.config \in Configs /\ run.fault \in Sections
      /\ ClosedNow(run) \in SUBSET Switches
      /\ ValidInitialisation(run.mode, run.config, run.fault)
  BY Fields, ClosedNowType DEF Contained
<1>2. \A s \in Sections \ Energised(run.config, least) : FeederOf[s] = FeederOf[run.fault]
  BY <1>1, SupplyAssumption DEF SupplyAssumption, MayBeOpen, AffectedBreaker
<1>3. least \subseteq ClosedNow(run) /\ least \in SUBSET Switches
  BY <1>1 DEF Kept
<1> HIDE DEF least
<1>4. Energised(run.config, least) \subseteq Energised(run.config, ClosedNow(run))
  BY <1>1, <1>3, EnergisedMonotone
<1> QED
  BY <1>2, <1>4

\* The tie closes on what the permissives, asked again of the telemetry as it is,
\* found of the network without it.
LEMMA ExecutedRestored ==
  ASSUME NEW run \in WellFormed, NEW t \in Times, NEW c \in CommandIds,
         NEW new \in WellFormed, NEW a, Executes(run, a, t, c, new),
         Contained(run), Contained(new), Staged(run), Kept(run)
  PROVE  Restored(new)
<1> DEFINE g == run.config
           closed == ClosedNow(run)
           cand == Candidate(g, closed, run.fault)
           tie == cand.tie
           after == closed \cup {tie}
<1>1. /\ g \in Configs /\ closed \in SUBSET Switches /\ run.fault \in Sections
      /\ CanExecuteRestoration(run, a, t)
  BY Fields, ClosedNowType DEF Executes
<1>2. /\ a = LastAssessment(run) /\ run.label = "N4"
      /\ run.assessments[a].candidate = Assessment(run, t).candidate
      /\ Assessment(run, t).outcome = "PERMITTED"
  BY <1>1 DEF CanExecuteRestoration, ExecutionRequested, BindingMatches, Binds
<1>3. /\ Assessment(run, t).candidate = cand
      /\ AssessmentOutcome(g, Observe(run.telemetry, t), run.fault) = "PERMITTED"
      /\ ClosedIn(Observe(run.telemetry, t)) = closed
  BY <1>2, ObservedClosed DEF Assessment
<1>4. /\ cand # NoCandidate /\ AlternateSourcePermissive(g, closed, cand)
      /\ RadialPermissive(g, closed, cand) /\ CapacityPermissive(g, closed, cand)
  BY <1>3 DEF AssessmentOutcome, OutcomeOf
<1>5. /\ CandidateTie(run, a) = tie
      /\ run.assessments[LastAssessment(run)].candidate = cand
  BY <1>2, <1>3 DEF CandidateTie
<1>6. /\ tie \in UsableTies(g, closed, run.fault)
      /\ cand.feeder = AlternateFeeder(g, tie, run.fault)
      /\ cand.sections = ProposedSections(g, closed, tie, run.fault)
  BY <1>1, <1>4, CandidateType
<1>7. tie \in Switches /\ {"OPEN", "CLOSED"} \subseteq SwitchState
  BY <1>6, NetworkAssumption DEF UsableTies, NetworkAssumption, SwitchState
<1>8. /\ new.config = g /\ new.fault = run.fault /\ ClosedNow(new) = after
      /\ LastAssessment(new) = LastAssessment(run)
      /\ new.assessments = run.assessments /\ new.label = "N5"
  <2>1. Operates(run, tie, "CLOSED", t, new) /\ new.label = "N5"
    BY <1>5 DEF Executes
  <2>2. ClosedNow(new) = after
    BY <1>7, <2>1, OperatesFields
  <2> QED
    BY <2>1, <2>2 DEF Operates, SameStart, LastAssessment
<1> HIDE DEF cand, tie
<1>9. run.fault \notin Energised(g, after)
  <2>1. Incident(g, run.fault) \cap after = {}
    BY <1>8 DEF Contained
  <2>2. after \in SUBSET Switches
    BY <1>1, <1>7
  <2> QED
    BY <1>1, <2>1, <2>2, OpenBoundariesKill
<1>10. closed \subseteq NormalClosed
  BY <1>2 DEF Staged
<1>11. \A s \in Sections \ Energised(g, closed) : FeederOf[s] = FeederOf[run.fault]
  BY DeadIsOwn
<1>12. \A f \in Feeders : LoadOf(SuppliedBy(g, NormalClosed, f)) <= Capacity[f]
  BY <1>1, SupplyAssumption DEF SupplyAssumption
<1>13. \A f \in Feeders : LoadOf(SuppliedBy(g, after, f)) <= Capacity[f]
  <2> HIDE DEF g, closed
  <2>1. cand.tie = tie
    BY DEF tie
  <2> QED
    BY <1>1, <1>4, <1>6, <1>9, <1>10, <1>11, <1>12, <2>1, RestoredLoads
<1>14. Radial(g, after) /\ cand.sections \subseteq SuppliedBy(g, after, cand.feeder)
  BY <1>4 DEF RadialPermissive, AlternateSourcePermissive, tie
<1> HIDE DEF g, after
<1> QED
  BY <1>5, <1>8, <1>13, <1>14 DEF Restored

LEMMA StaysRestored ==
  ASSUME NEW run \in WellFormed, NEW t \in Times, NEW new \in WellFormed, Stays(run, t, new),
         Restored(run), new.label = run.label, new.assessments = run.assessments
  PROVE  Restored(new)
<1>1. new.config = run.config /\ ClosedNow(new) = ClosedNow(run)
      /\ LastAssessment(new) = LastAssessment(run)
  BY StaysFields DEF Stays, SameStart, LastAssessment
<1> QED
  BY <1>1 DEF Restored

LEMMA HandledRestored ==
  ASSUME NEW run \in WellFormed, NEW t \in Times, NEW c \in CommandIds,
         NEW new \in WellFormed, Handled(run, t, c, new),
         Contained(run), Contained(new), Staged(run), Kept(run), Restored(run)
  PROVE  Restored(new)
<1>1. CASE new.label # "N5"
  BY <1>1 DEF Restored
<1>2. ASSUME NEW a \in DOMAIN run.assessments, Executes(run, a, t, c, new)
      PROVE  Restored(new)
  BY <1>2, ExecutedRestored
<1>3. ASSUME NEW a \in DOMAIN run.assessments, Lapses(run, a, t, c, new)
      PROVE  Restored(new)
  BY <1>3, StaysRestored DEF Lapses
<1>4. CASE Acknowledges(run, t, c, new)
  BY <1>4, StaysRestored DEF Acknowledges
<1> QED
  BY <1>1, <1>2, <1>3, <1>4 DEF Handled, Trips, Isolates, Recloses, Assesses

-----------------------------------------------------------------------------
(* All of it together.                                                     *)

\* What every row in the database has: none of the properties below is inductive
\* by itself, and the parts need one another.
Sound(run) ==
  /\ Shown(run) /\ Staged(run) /\ Dated(run)
  /\ Evidenced(run) /\ Judged(run) /\ Explained(run)
  /\ Kept(run) /\ Restored(run)

LEMMA OpenedSound ==
  ASSUME NEW n \in RunIds, NEW t \in Times, NEW c \in CommandIds, NEW new \in WellFormed,
         Opened(n, t, c, new)
  PROVE  Sound(new)
<1>1. Shown(new) /\ Staged(new) /\ Dated(new)
  BY OpenedShown, OpenedStaged, OpenedDated
<1>2. Evidenced(new) /\ Judged(new) /\ Explained(new)
  BY OpenedEvidenced, OpenedJudged, OpenedExplained
<1>3. Kept(new)
  BY OpenedKept
<1>4. Restored(new)
  BY DEF Opened, Starts, Restored
<1> QED
  BY <1>1, <1>2, <1>3, <1>4 DEF Sound

LEMMA HandledSound ==
  ASSUME NEW run \in WellFormed, NEW t \in Times, NEW c \in CommandIds,
         NEW new \in WellFormed, Handled(run, t, c, new), Continues(run, t, new),
         Contained(run), Contained(new), run.time <= t, run.status # "CLOSED", Sound(run)
  PROVE  Sound(new)
<1>1. /\ Shown(run) /\ Staged(run) /\ Dated(run)
      /\ Evidenced(run) /\ Judged(run) /\ Explained(run)
      /\ Kept(run) /\ Restored(run)
  BY DEF Sound
<1>2. Shown(new)
  BY <1>1, OperatesOrStays, StaysShown, OperatesShown
<1>3. Staged(new)
  BY <1>1, HandledStaged
<1>4. Dated(new)
  BY <1>1, HandledDated
<1>5. Evidenced(new)
  BY <1>1, HandledEvidenced
<1>6. Judged(new)
  BY <1>1, HandledJudged
<1>7. Explained(new)
  BY <1>1, HandledExplained
<1>8. Kept(new)
  BY <1>1, HandledKept
<1>9. Restored(new)
  BY <1>1, HandledRestored
<1> QED
  BY <1>2, <1>3, <1>4, <1>5, <1>6, <1>7, <1>8, <1>9 DEF Sound

LEMMA ClosesSound ==
  ASSUME NEW run \in WellFormed, NEW t \in Times, NEW c \in CommandIds,
         NEW new \in WellFormed, Closes(run, t, c, new), Continues(run, t, new),
         run.time <= t, Sound(run)
  PROVE  Sound(new)
<1>1. /\ Shown(run) /\ Staged(run) /\ Dated(run)
      /\ Evidenced(run) /\ Judged(run) /\ Explained(run)
      /\ Kept(run) /\ Restored(run)
  BY DEF Sound
<1>2. /\ Stays(run, t, new) /\ new.label = run.label /\ new.status = "CLOSED"
      /\ new.assessments = run.assessments
  BY DEF Closes
<1>3. Shown(new)
  BY <1>1, <1>2, StaysShown
<1>4. Staged(new)
  BY <1>1, <1>2, StaysStaged
<1>5. Dated(new)
  BY <1>1, <1>2, StaysDated
<1>6. Evidenced(new)
  BY <1>1, ClosesEvidenced
<1>7. Judged(new)
  BY <1>1, <1>2, NotAtN4Judged
<1>8. Explained(new)
  BY <1>1, ClosesExplained
<1>9. Kept(new)
  BY <1>1, <1>2, StaysKept
<1>10. Restored(new)
  BY <1>1, <1>2, StaysRestored
<1> QED
  BY <1>3, <1>4, <1>5, <1>6, <1>7, <1>8, <1>9, <1>10 DEF Sound

SoundInv == \A r \in RunIds : Live(r) => Sound(runs[r])

LEMMA SoundStep ==
  ASSUME TypeInv, ContainedInv, SoundInv, [Next]_vars
  PROVE  SoundInv'
<1>1. CASE UNCHANGED vars
  BY <1>1 DEF SoundInv, Live, vars
<1>2. CASE Next
  <2>0. /\ runs \in [RunIds -> WellFormed \cup {NoRun}]
        /\ \A r \in RunIds : Live(r) => Sound(runs[r]) /\ runs[r] \in WellFormed
    BY LiveType DEF TypeInv, SoundInv
  <2>1. ASSUME NEW c \in CommandIds, NEW n \in RunIds, NEW t \in Times,
               NEW new \in WellFormed, runs' = [runs EXCEPT ![n] = new],
               Opened(n, t, c, new)
        PROVE  SoundInv'
    BY <2>0, <2>1, OpenedSound DEF SoundInv, Live
  <2>2. ASSUME NEW c \in CommandIds, NEW r \in RunIds, NEW t \in Times,
               NEW new \in WellFormed, Current(r, t),
               runs' = [runs EXCEPT ![r] = new], Handled(runs[r], t, c, new),
               Continues(runs[r], t, new), Contained(new)
        PROVE  SoundInv'
    <3>1. Live(r) /\ runs[r].status # "CLOSED" /\ runs[r].time \in Nat /\ t \in Nat
          /\ runs[r].time <= t /\ runs[r] \in WellFormed /\ Sound(runs[r])
          /\ Contained(runs[r])
      BY <2>0, <2>2, Fields, ScenarioAssumption
      DEF Current, Mutable, ScenarioAssumption, ContainedInv
    <3>2. Sound(new)
      BY <2>2, <3>1, HandledSound
    <3> QED
      BY <2>0, <2>2, <3>2 DEF SoundInv, Live
  <2>3. ASSUME NEW c \in CommandIds, NEW r \in RunIds, NEW n \in RunIds, NEW u \in Times,
               Followed(r, n, u, c)
        PROVE  SoundInv'
    <3>1. PICK closed \in WellFormed, new \in WellFormed, t \in Times :
            /\ runs' = [runs EXCEPT ![r] = closed, ![n] = new]
            /\ Closes(runs[r], u, c, closed) /\ Continues(runs[r], u, closed)
            /\ Opened(n, t, c, new)
      BY <2>3 DEF Followed
    <3>2. Live(r) /\ ~ Live(n) /\ runs[r].time <= u
      BY <2>3 DEF Followed, Mutable
    <3>3. Sound(closed) /\ Sound(new)
      BY <2>0, <3>1, <3>2, ClosesSound, OpenedSound
    <3> QED
      BY <2>0, <3>1, <3>3 DEF SoundInv, Live
  <2> QED
    BY <1>2, <2>1, <2>2, <2>3, RowSteps
<1> QED
  BY <1>1, <1>2

LEMMA SoundInvariant == Spec => []SoundInv
<1>1. Init => SoundInv
  BY DEF Init, SoundInv, Live
<1> QED
  BY <1>1, SoundStep, TypeInvariant, ContainedInvariant, PTL DEF Spec

\* The outage a snapshot shows, stored under the run's revision by the command that
\* last recalculated the topology, is always the outage of the telemetry it shows.
THEOREM OutageStaysCurrent == Spec => []OutageIsCurrent
<1>1. TypeInv /\ SoundInv => OutageIsCurrent
  BY LiveType, Fields DEF SoundInv, Sound, Shown, OutageIsCurrent, LiveRuns
<1> QED
  BY <1>1, TypeInvariant, SoundInvariant, PTL

\* No handler opens the last boundary, or closes the tie, on observations older than
\* the freshness limit, so a run gets that far only while its start is fresh.
THEOREM ProcedureKeepsItsWindow == Spec => []ProcedureWindow
<1>1. SoundInv => ProcedureWindow
  BY DEF SoundInv, Sound, Dated, Deadline, ProcedureWindow, LiveRuns
<1> QED
  BY <1>1, SoundInvariant, PTL

\* Every assessment a later one replaced, or that its run was closed over, has been
\* invalidated once, and the event that says so is in the log.
THEOREM InvalidationsAreEvidenced == Spec => []InvalidationEvidenced
<1>1. SoundInv => InvalidationEvidenced
  BY DEF SoundInv, Sound, Evidenced, Evidence, InvalidationEvidenced, LiveRuns
<1> QED
  BY <1>1, SoundInvariant, PTL

\* What invalidated an assessment at N4 is age, and age has no remedy: no assessment
\* of the same run that comes after an invalidation permits.
THEOREM NoReassessmentPermits == Spec => []ReassessmentNeverPermits
<1>1. SoundInv => ReassessmentNeverPermits
  BY DEF SoundInv, Sound, Judged, ReassessmentNeverPermits, LiveRuns
<1> QED
  BY <1>1, SoundInvariant, PTL

\* Through every handler the log explains the stored telemetry, has one recalculation
\* for each revision, and never goes back in time or in revision.
THEOREM EventsStayExplanatory == Spec => []EventsExplainTelemetry
<1>1. SoundInv => EventsExplainTelemetry
  BY DEF SoundInv, Sound, Explained, Recalculated, Chronicle, EventsExplainTelemetry, LiveRuns
<1> QED
  BY <1>1, SoundInvariant, PTL

\* The permissives are judged on the network before the tie closes; the network after
\* it is radial all the same, overloads no feeder and supplies what was proposed.
THEOREM RestorationIsSound == Spec => []RestoredNetworkSound
<1>1. SoundInv => RestoredNetworkSound
  BY DEF SoundInv, Sound, Restored, RestoredNetworkSound, LiveRuns
<1> QED
  BY <1>1, SoundInvariant, PTL

-----------------------------------------------------------------------------
(* Offers.                                                                 *)

\* The tie of an assessment that still binds is open: were it closed, what it is to
\* supply would be supplied already.
LEMMA BoundTieIsOpen ==
  ASSUME NEW run \in WellFormed, NEW t \in Times, NEW a,
         ExecutionRequested(run, a), BindingMatches(run, a, t)
  PROVE  run.telemetry[CandidateTie(run, a)].value = "OPEN"
<1> DEFINE g == run.config
           closed == ClosedNow(run)
           cand == Candidate(g, closed, run.fault)
           obs == Observe(run.telemetry, t)
<1>1. g \in Configs /\ closed \in SUBSET Switches /\ run.fault \in Sections
  BY Fields, ClosedNowType
<1>2. /\ run.assessments[a].candidate = Assessment(run, t).candidate
      /\ Assessment(run, t).outcome = "PERMITTED"
  BY DEF BindingMatches, Binds
<1>3. /\ Assessment(run, t).candidate = cand
      /\ AssessmentOutcome(g, obs, run.fault) = "PERMITTED" /\ ClosedIn(obs) = closed
  BY <1>2, ObservedClosed DEF Assessment
<1>4. cand # NoCandidate /\ AlternateSourcePermissive(g, closed, cand)
  BY <1>3 DEF AssessmentOutcome, OutcomeOf
<1>5. /\ cand.tie \in UsableTies(g, closed, run.fault)
      /\ cand.sections = ProposedSections(g, closed, cand.tie, run.fault)
  BY <1>1, <1>4, CandidateType
<1> HIDE DEF cand, closed, g
<1>6. PICK s \in cand.sections : s \notin Energised(g, closed)
  BY <1>5 DEF UsableTies, ProposedSections
<1>7. s \in SuppliedBy(g, closed \cup {cand.tie}, cand.feeder) /\ cand.feeder \in Feeders
  BY <1>4, <1>6, NetworkAssumption DEF AlternateSourcePermissive, NetworkAssumption
<1>8. cand.tie \notin closed
  <2> SUFFICES ASSUME cand.tie \in closed PROVE FALSE
    OBVIOUS
  <2>1. closed \cup {cand.tie} = closed
    OBVIOUS
  <2> QED
    BY <1>6, <1>7, <2>1 DEF Energised
<1>9. cand.tie \in Switches
  BY <1>5, NetworkAssumption DEF UsableTies, NetworkAssumption
<1>10. run.telemetry[cand.tie].value \in SwitchState /\ run.telemetry[cand.tie].value # "CLOSED"
  BY <1>8, <1>9, Fields DEF closed, ClosedNow, Point
<1> QED
  BY <1>2, <1>3, <1>10 DEF CandidateTie, SwitchState

\* What a snapshot offers its command handler accepts, in every run there can be.
THEOREM OffersStayAccepted == Spec => []OffersAreAccepted
<1>1. ASSUME TypeInv, ContainedInv, SoundInv, NEW r \in LiveRuns,
             NEW x \in AllowedActions(runs[r])
      PROVE  LET run == runs[r]
             IN  \/ x.type = "INITIATE_FAULT" /\ CanInitiateFault(run)
                 \/ x.type = "ACKNOWLEDGE_ALARM" /\ CanAcknowledgeAlarm(run)
                 \/ /\ x.type = "OPERATE_ISOLATION_DEVICE"
                    /\ CanOperateIsolationDevice(run, x.target, run.time)
                 \/ x.type = "RESTORE_NORMAL_SOURCE" /\ CanRestoreNormalSource(run, run.time)
                 \/ x.type = "ASSESS_RESTORATION" /\ CanAssessRestoration(run, run.time)
                 \/ /\ x.type = "EXECUTE_RESTORATION"
                    /\ CanExecuteRestoration(run, x.assessment, run.time)
                 \/ x.type = "RESET_RUN" /\ Mutable(r)
  <2> DEFINE run == runs[r]
             breaker == AffectedBreaker(run)
  <2>1. /\ r \in RunIds /\ Live(r) /\ run \in WellFormed /\ run.time \in Times
        /\ Contained(run) /\ Staged(run)
        /\ breaker \in Switches /\ run.telemetry[breaker].value \in SwitchState
    <3>1. r \in RunIds /\ Live(r) /\ run \in WellFormed /\ Contained(run) /\ Staged(run)
      <4>1. r \in RunIds /\ Live(r)
        BY DEF LiveRuns
      <4>2. run \in WellFormed
        BY <1>1, <4>1, LiveType
      <4>3. Contained(run) /\ Staged(run)
        BY <1>1, <4>1 DEF ContainedInv, SoundInv, Sound
      <4> QED
        BY <4>1, <4>2, <4>3
    <3> HIDE DEF run
    <3>2. run.time \in Times /\ breaker \in Switches
      BY <3>1, Fields, AffectedBreakerType
    <3> HIDE DEF breaker
    <3>3. run.telemetry[breaker] \in Point
      BY <3>1, <3>2, Fields
    <3> QED
      BY <3>1, <3>2, <3>3 DEF Point
  <2>2. run.status # "CLOSED"
    BY DEF AllowedActions
  <2>3. Mutable(r)
    BY <2>1, <2>2 DEF Mutable
  <2>4. run.label = "N0" => run.telemetry[breaker].value = "CLOSED"
    <3>1. breaker \in NormalClosed
      BY <2>1, Fields, NetworkAssumption, DeviceAssumption
      DEF DeviceAssumption, NetworkAssumption, AffectedBreaker
    <3> QED
      BY <2>1, <3>1 DEF Contained, ClosedNow
  <2>5. run.label = "N2" => run.telemetry[breaker].value = "OPEN"
    BY <2>1 DEF Staged, ClosedNow, SwitchState
  <2>6. \/ x = Action3("INITIATE_FAULT", NoEntity, 0) /\ run.label = "N0" /\ ~ run.faultActive
        \/ x = Action3("ACKNOWLEDGE_ALARM", NoEntity, 0) /\ run.alarm = "UNACKNOWLEDGED"
        \/ \E d \in Switches : /\ x = Action3("OPERATE_ISOLATION_DEVICE", d, 0)
                               /\ CanOperateIsolationDevice(run, d, run.time)
        \/ /\ x = Action3("RESTORE_NORMAL_SOURCE", NoEntity, 0)
           /\ run.label = "N2" /\ FaultIsolated(run, run.time)
           /\ run.mode = "FORMAL" \/ RecloseAvailable(run, run.time)
        \/ /\ x = Action3("ASSESS_RESTORATION", NoEntity, 0)
           /\ CanAssessRestoration(run, run.time)
        \/ /\ x = Action3("EXECUTE_RESTORATION", NoEntity, LastAssessment(run))
           /\ run.label = "N4" /\ CurrentExecutable(run)
        \/ x = Action3("RESET_RUN", NoEntity, 0)
    BY <2>2 DEF AllowedActions, Offered
  <2> HIDE DEF run, breaker
  <2>7. \A type, target, a : /\ Action3(type, target, a).type = type
                             /\ Action3(type, target, a).target = target
                             /\ Action3(type, target, a).assessment = a
    BY DEF Action3
  <2>8. CASE x = Action3("EXECUTE_RESTORATION", NoEntity, LastAssessment(run))
               /\ run.label = "N4" /\ CurrentExecutable(run)
    <3> DEFINE a == LastAssessment(run)
    <3>1. ExecutionRequested(run, a) /\ BindingMatches(run, a, run.time)
      BY <2>8 DEF CurrentExecutable, ExecutionRequested
    <3>2. CanExecuteRestoration(run, a, run.time)
      BY <2>1, <3>1, BoundTieIsOpen DEF CanExecuteRestoration
    <3> QED
      BY <2>7, <2>8, <3>2 DEF run
  <2>9. CASE x = Action3("INITIATE_FAULT", NoEntity, 0) /\ run.label = "N0" /\ ~ run.faultActive
    BY <2>4, <2>7, <2>9 DEF CanInitiateFault, run, breaker
  <2>10. CASE /\ x = Action3("RESTORE_NORMAL_SOURCE", NoEntity, 0)
              /\ run.label = "N2" /\ FaultIsolated(run, run.time)
              /\ run.mode = "FORMAL" \/ RecloseAvailable(run, run.time)
    BY <2>5, <2>7, <2>10 DEF CanRestoreNormalSource, run, breaker
  <2> QED
    BY <2>3, <2>6, <2>7, <2>8, <2>9, <2>10 DEF CanAcknowledgeAlarm, run
<1>2. TypeInv /\ ContainedInv /\ SoundInv => OffersAreAccepted
  BY <1>1 DEF OffersAreAccepted
<1> QED
  BY <1>2, TypeInvariant, ContainedInvariant, SoundInvariant, PTL

-----------------------------------------------------------------------------
(* The refinement.                                                         *)

\* What SupplyRestoration sees of a row.
RowPhase(run) ==
  IF run = NoRun THEN "ABSENT"
  ELSE IF run.status = "CLOSED" THEN "CLOSED"
  ELSE IF run.label = "N0" THEN "NORMAL"
  ELSE IF run.label = "N1" THEN "FAULTED"
  ELSE IF run.label \in {"N2", "N3", "N4"} THEN "ISOLATED"
  ELSE "RESTORED"
RowFault(run) == IF run = NoRun THEN FormalFault ELSE run.fault
RowSupply(run) ==
  IF run = NoRun THEN {} ELSE Energised(run.config, ClosedNow(run))

PhaseMap == [r \in RunIds |-> RowPhase(runs[r])]
FaultMap == [r \in RunIds |-> RowFault(runs[r])]
SupplyMap == [r \in RunIds |-> RowSupply(runs[r])]

LEMMA PhaseOfRow ==
  ASSUME NEW run \in WellFormed \cup {NoRun}
  PROVE  RowPhase(run) =
           IF ~ (run # NoRun) THEN "ABSENT"
           ELSE CASE run.status = "CLOSED" -> "CLOSED"
                  [] run.status # "CLOSED" /\ run.label = "N0" -> "NORMAL"
                  [] run.status # "CLOSED" /\ run.label = "N1" -> "FAULTED"
                  [] run.status # "CLOSED" /\ run.label \in {"N2", "N3", "N4"} -> "ISOLATED"
                  [] run.status # "CLOSED" /\ run.label = "N5" -> "RESTORED"
<1>1. CASE run = NoRun
  BY <1>1 DEF RowPhase
<1>2. CASE run # NoRun
  <2>1. run.label \in {"N0", "N1", "N2", "N3", "N4", "N5"}
    BY <1>2, Fields DEF Labels
  <2> QED
    BY <1>2, <2>1 DEF RowPhase
<1> QED
  BY <1>1, <1>2

LEMMA Mapping ==
  ASSUME TypeInv
  PROVE  /\ [r \in RunIds |-> PhaseOf(r)] = PhaseMap
         /\ [r \in RunIds |-> IF Live(r) THEN runs[r].fault ELSE FormalFault] = FaultMap
         /\ [r \in RunIds |-> IF Live(r) THEN Energised(runs[r].config, ClosedNow(runs[r]))
                              ELSE {}] = SupplyMap
<1>1. \A r \in RunIds : runs[r] \in WellFormed \cup {NoRun}
  BY DEF TypeInv
<1>2. \A r \in RunIds : PhaseOf(r) = RowPhase(runs[r])
  BY <1>1, PhaseOfRow DEF PhaseOf, Live
<1>3. \A r \in RunIds :
        (IF Live(r) THEN runs[r].fault ELSE FormalFault) = RowFault(runs[r])
  BY DEF Live, RowFault
<1>4. \A r \in RunIds :
        (IF Live(r) THEN Energised(runs[r].config, ClosedNow(runs[r])) ELSE {})
          = RowSupply(runs[r])
  BY DEF Live, RowSupply
<1> QED
  BY <1>2, <1>3, <1>4 DEF PhaseMap, FaultMap, SupplyMap

LEMMA MappingNext ==
  ASSUME TypeInv'
  PROVE  /\ [r \in RunIds |-> PhaseOf(r)]' = PhaseMap'
         /\ [r \in RunIds |-> IF Live(r) THEN runs[r].fault ELSE FormalFault]' = FaultMap'
         /\ [r \in RunIds |-> IF Live(r) THEN Energised(runs[r].config, ClosedNow(runs[r]))
                              ELSE {}]' = SupplyMap'
<1>1. \A r \in RunIds : runs'[r] \in WellFormed \cup {NoRun}
  BY DEF TypeInv
<1>2. \A r \in RunIds : PhaseOf(r)' = RowPhase(runs'[r])
  BY <1>1, PhaseOfRow DEF PhaseOf, Live
<1>3. \A r \in RunIds :
        (IF Live(r) THEN runs[r].fault ELSE FormalFault)' = RowFault(runs'[r])
  BY DEF Live, RowFault
<1>4. \A r \in RunIds :
        (IF Live(r) THEN Energised(runs[r].config, ClosedNow(runs[r])) ELSE {})'
          = RowSupply(runs'[r])
  BY DEF Live, RowSupply, ClosedNow
<1> QED
  BY <1>2, <1>3, <1>4 DEF PhaseMap, FaultMap, SupplyMap

\* A map over the runs that changes at one place, and at two.
LEMMA ChangesAtOne ==
  ASSUME NEW S, NEW f, NEW g, NEW r \in S, NEW v,
         f = [x \in S |-> f[x]], g = [x \in S |-> g[x]],
         g[r] = v, \A x \in S : x # r => g[x] = f[x]
  PROVE  g = [f EXCEPT ![r] = v]
OBVIOUS

LEMMA ChangesAtTwo ==
  ASSUME NEW S, NEW f, NEW g, NEW r \in S, NEW v, NEW n \in S, NEW w, r # n,
         f = [x \in S |-> f[x]], g = [x \in S |-> g[x]],
         g[r] = v, g[n] = w, \A x \in S : x # r /\ x # n => g[x] = f[x]
  PROVE  g = [f EXCEPT ![r] = v, ![n] = w]
OBVIOUS

\* What SupplyRestoration sees of a row that becomes new, and of two rows.
Shows(r, new) ==
  /\ PhaseMap' = [PhaseMap EXCEPT ![r] = RowPhase(new)]
  /\ FaultMap' = [FaultMap EXCEPT ![r] = RowFault(new)]
  /\ SupplyMap' = [SupplyMap EXCEPT ![r] = RowSupply(new)]

ShowsBoth(r, old, n, new) ==
  /\ PhaseMap' = [PhaseMap EXCEPT ![r] = RowPhase(old), ![n] = RowPhase(new)]
  /\ FaultMap' = [FaultMap EXCEPT ![r] = RowFault(old), ![n] = RowFault(new)]
  /\ SupplyMap' = [SupplyMap EXCEPT ![r] = RowSupply(old), ![n] = RowSupply(new)]

LEMMA MapsAreFunctions ==
  /\ PhaseMap = [x \in RunIds |-> PhaseMap[x]] /\ PhaseMap' = [x \in RunIds |-> PhaseMap'[x]]
  /\ FaultMap = [x \in RunIds |-> FaultMap[x]] /\ FaultMap' = [x \in RunIds |-> FaultMap'[x]]
  /\ SupplyMap = [x \in RunIds |-> SupplyMap[x]]
  /\ SupplyMap' = [x \in RunIds |-> SupplyMap'[x]]
  /\ \A x \in RunIds : /\ PhaseMap[x] = RowPhase(runs[x]) /\ PhaseMap'[x] = RowPhase(runs'[x])
                       /\ FaultMap[x] = RowFault(runs[x]) /\ FaultMap'[x] = RowFault(runs'[x])
                       /\ SupplyMap[x] = RowSupply(runs[x])
                       /\ SupplyMap'[x] = RowSupply(runs'[x])
<1>1. /\ PhaseMap = [x \in RunIds |-> PhaseMap[x]] /\ PhaseMap' = [x \in RunIds |-> PhaseMap'[x]]
      /\ \A x \in RunIds : PhaseMap[x] = RowPhase(runs[x]) /\ PhaseMap'[x] = RowPhase(runs'[x])
  BY DEF PhaseMap
<1>2. /\ FaultMap = [x \in RunIds |-> FaultMap[x]] /\ FaultMap' = [x \in RunIds |-> FaultMap'[x]]
      /\ \A x \in RunIds : FaultMap[x] = RowFault(runs[x]) /\ FaultMap'[x] = RowFault(runs'[x])
  BY DEF FaultMap
<1>3. /\ SupplyMap = [x \in RunIds |-> SupplyMap[x]]
      /\ SupplyMap' = [x \in RunIds |-> SupplyMap'[x]]
      /\ \A x \in RunIds : SupplyMap[x] = RowSupply(runs[x]) /\ SupplyMap'[x] = RowSupply(runs'[x])
  BY DEF SupplyMap
<1> QED
  BY <1>1, <1>2, <1>3

LEMMA OneRow ==
  ASSUME TypeInv, NEW r \in RunIds, NEW new, runs' = [runs EXCEPT ![r] = new]
  PROVE  Shows(r, new)
<1>1. /\ runs'[r] = new
      /\ \A x \in RunIds : x # r => runs'[x] = runs[x]
  BY DEF TypeInv
<1>2. PhaseMap' = [PhaseMap EXCEPT ![r] = RowPhase(new)]
  <2>1. PhaseMap'[r] = RowPhase(new) /\ \A x \in RunIds : x # r => PhaseMap'[x] = PhaseMap[x]
    BY <1>1, MapsAreFunctions
  <2> QED
    BY <2>1, MapsAreFunctions, ChangesAtOne
<1>3. FaultMap' = [FaultMap EXCEPT ![r] = RowFault(new)]
  <2>1. FaultMap'[r] = RowFault(new) /\ \A x \in RunIds : x # r => FaultMap'[x] = FaultMap[x]
    BY <1>1, MapsAreFunctions
  <2> QED
    BY <2>1, MapsAreFunctions, ChangesAtOne
<1>4. SupplyMap' = [SupplyMap EXCEPT ![r] = RowSupply(new)]
  <2>1. SupplyMap'[r] = RowSupply(new) /\ \A x \in RunIds : x # r => SupplyMap'[x] = SupplyMap[x]
    BY <1>1, MapsAreFunctions
  <2> QED
    BY <2>1, MapsAreFunctions, ChangesAtOne
<1> QED
  BY <1>2, <1>3, <1>4 DEF Shows

LEMMA TwoRows ==
  ASSUME TypeInv, NEW r \in RunIds, NEW n \in RunIds, r # n, NEW old, NEW new,
         runs' = [runs EXCEPT ![r] = old, ![n] = new]
  PROVE  ShowsBoth(r, old, n, new)
<1>1. /\ runs'[r] = old /\ runs'[n] = new
      /\ \A x \in RunIds : x # r /\ x # n => runs'[x] = runs[x]
  BY DEF TypeInv
<1>2. PhaseMap' = [PhaseMap EXCEPT ![r] = RowPhase(old), ![n] = RowPhase(new)]
  <2>1. PhaseMap'[r] = RowPhase(old) /\ PhaseMap'[n] = RowPhase(new)
    BY <1>1, MapsAreFunctions
  <2>2. ASSUME NEW x \in RunIds, x # r, x # n PROVE PhaseMap'[x] = PhaseMap[x]
    <3>1. runs'[x] = runs[x]
      BY <1>1, <2>2
    <3>2. PhaseMap'[x] = RowPhase(runs'[x]) /\ PhaseMap[x] = RowPhase(runs[x])
      BY MapsAreFunctions
    <3> QED
      BY <3>1, <3>2
  <2> QED
    BY <2>1, <2>2, MapsAreFunctions, ChangesAtTwo
<1>3. FaultMap' = [FaultMap EXCEPT ![r] = RowFault(old), ![n] = RowFault(new)]
  <2>1. FaultMap'[r] = RowFault(old) /\ FaultMap'[n] = RowFault(new)
    BY <1>1, MapsAreFunctions
  <2>2. ASSUME NEW x \in RunIds, x # r, x # n PROVE FaultMap'[x] = FaultMap[x]
    <3>1. runs'[x] = runs[x]
      BY <1>1, <2>2
    <3>2. FaultMap'[x] = RowFault(runs'[x]) /\ FaultMap[x] = RowFault(runs[x])
      BY MapsAreFunctions
    <3> QED
      BY <3>1, <3>2
  <2> QED
    BY <2>1, <2>2, MapsAreFunctions, ChangesAtTwo
<1>4. SupplyMap' = [SupplyMap EXCEPT ![r] = RowSupply(old), ![n] = RowSupply(new)]
  <2>1. SupplyMap'[r] = RowSupply(old) /\ SupplyMap'[n] = RowSupply(new)
    BY <1>1, MapsAreFunctions
  <2>2. ASSUME NEW x \in RunIds, x # r, x # n PROVE SupplyMap'[x] = SupplyMap[x]
    <3>1. runs'[x] = runs[x]
      BY <1>1, <2>2
    <3>2. SupplyMap'[x] = RowSupply(runs'[x]) /\ SupplyMap[x] = RowSupply(runs[x])
      BY MapsAreFunctions
    <3> QED
      BY <3>1, <3>2
  <2> QED
    BY <2>1, <2>2, MapsAreFunctions, ChangesAtTwo
<1> QED
  BY <1>2, <1>3, <1>4 DEF ShowsBoth

\* What SupplyRestoration sees of a command.
Moves(run, new) ==
  \/ RowPhase(new) = RowPhase(run) /\ RowSupply(new) = RowSupply(run)
  \/ /\ RowPhase(run) = "NORMAL" /\ RowPhase(new) = "FAULTED"
     /\ RowSupply(new) \subseteq RowSupply(run) /\ RowFault(run) \notin RowSupply(new)
  \/ /\ RowPhase(run) = "FAULTED" /\ RowPhase(new) \in {"FAULTED", "ISOLATED"}
     /\ RowSupply(new) \subseteq RowSupply(run)
  \/ /\ RowPhase(run) = "ISOLATED" /\ RowPhase(new) \in {"ISOLATED", "RESTORED"}
     /\ RowSupply(run) \subseteq RowSupply(new)
     /\ RowSupply(new) \subseteq Sections \ {RowFault(run)}

LEMMA RowTypes ==
  ASSUME NEW run \in WellFormed
  PROVE  /\ RowFault(run) = run.fault /\ RowFault(run) \in Sections
         /\ RowSupply(run) = Energised(run.config, ClosedNow(run))
         /\ RowSupply(run) \subseteq Sections
         /\ run # NoRun
<1>1. run # NoRun
  BY NoRunAssumption DEF WellFormed
<1>2. run.config \in Configs /\ ClosedNow(run) \in SUBSET Switches /\ run.fault \in Sections
  BY Fields, ClosedNowType
<1> QED
  BY <1>1, <1>2, EnergisedType DEF RowFault, RowSupply

LEMMA StaysSupplies ==
  ASSUME NEW run \in WellFormed, NEW t, NEW new \in WellFormed, Stays(run, t, new)
  PROVE  RowSupply(new) = RowSupply(run) /\ RowFault(new) = RowFault(run)
BY RowTypes, StaysFields DEF Stays, SameStart

LEMMA OperatesSupplies ==
  ASSUME NEW run \in WellFormed, NEW d \in Switches, NEW v \in SwitchState, NEW t \in Times,
         NEW new \in WellFormed, Operates(run, d, v, t, new)
  PROVE  /\ RowFault(new) = RowFault(run)
         /\ v = "OPEN" => RowSupply(new) \subseteq RowSupply(run)
         /\ v = "CLOSED" => RowSupply(run) \subseteq RowSupply(new)
<1>1. /\ new.config = run.config /\ new.fault = run.fault
      /\ run.config \in Configs
      /\ ClosedNow(run) \in SUBSET Switches /\ ClosedNow(new) \in SUBSET Switches
  BY Fields, ClosedNowType DEF Operates, SameStart
<1>2. ClosedNow(new) = IF v = "CLOSED" THEN ClosedNow(run) \cup {d} ELSE ClosedNow(run) \ {d}
  BY OperatesFields
<1>3. /\ v = "OPEN" => ClosedNow(new) \subseteq ClosedNow(run)
      /\ v = "CLOSED" => ClosedNow(run) \subseteq ClosedNow(new)
  BY <1>2
<1> QED
  BY <1>1, <1>3, EnergisedMonotone, RowTypes

LEMMA HandledMoves ==
  ASSUME NEW run \in WellFormed, NEW t \in Times, NEW c \in CommandIds,
         NEW new \in WellFormed, Handled(run, t, c, new), run.status # "CLOSED",
         Staged(new), Contained(new)
  PROVE  RowFault(new) = RowFault(run) /\ Moves(run, new)
<1>0. /\ AffectedBreaker(run) \in Switches /\ {"OPEN", "CLOSED"} \subseteq SwitchState
      /\ run # NoRun /\ new # NoRun
  BY AffectedBreakerType, RowTypes DEF SwitchState
<1>d. new.label # "N0" => new.fault \notin Energised(new.config, ClosedNow(new))
  BY ContainedIsDead, Fields DEF Staged
<1>e. new.label # "N0" => RowFault(new) \notin RowSupply(new) /\ RowSupply(new) \subseteq Sections
  BY <1>d, RowTypes
<1>1. CASE Trips(run, t, c, new)
  <2>1. run.label = "N0" /\ new.label = "N1" /\ new.status = "ACTIVE"
        /\ Operates(run, AffectedBreaker(run), "OPEN", t, new)
    BY <1>1 DEF Trips, CanInitiateFault
  <2>2. RowPhase(run) = "NORMAL" /\ RowPhase(new) = "FAULTED"
    BY <1>0, <2>1 DEF RowPhase
  <2> QED
    BY <1>0, <1>e, <2>1, <2>2, OperatesSupplies DEF Moves
<1>2. CASE Acknowledges(run, t, c, new)
  <2>1. Stays(run, t, new) /\ new.label = run.label /\ new.status = run.status
    BY <1>2 DEF Acknowledges
  <2>2. RowPhase(new) = RowPhase(run)
    BY <1>0, <2>1 DEF RowPhase
  <2> QED
    BY <2>1, <2>2, StaysSupplies DEF Moves
<1>3. ASSUME NEW d \in Switches, Isolates(run, d, t, c, new)
      PROVE  RowFault(new) = RowFault(run) /\ Moves(run, new)
  <2>1. run.label = "N1" /\ new.label \in {"N1", "N2"} /\ new.status = "ACTIVE"
        /\ Operates(run, d, "OPEN", t, new)
    BY <1>3 DEF Isolates, CanOperateIsolationDevice
  <2>2. RowPhase(run) = "FAULTED" /\ RowPhase(new) \in {"FAULTED", "ISOLATED"}
    BY <1>0, <2>1 DEF RowPhase
  <2> QED
    BY <1>0, <2>1, <2>2, OperatesSupplies DEF Moves
<1>4. CASE Recloses(run, t, c, new)
  <2>1. run.label = "N2" /\ new.label = "N3" /\ new.status = "ACTIVE"
        /\ Operates(run, AffectedBreaker(run), "CLOSED", t, new)
    BY <1>4 DEF Recloses, CanRestoreNormalSource
  <2>2. RowPhase(run) = "ISOLATED" /\ RowPhase(new) = "ISOLATED"
    BY <1>0, <2>1 DEF RowPhase
  <2>3. /\ RowFault(new) = RowFault(run) /\ RowSupply(run) \subseteq RowSupply(new)
        /\ RowSupply(new) \subseteq Sections \ {RowFault(run)}
    BY <1>0, <1>e, <2>1, OperatesSupplies
  <2> QED
    BY <2>2, <2>3 DEF Moves
<1>5. CASE Assesses(run, t, c, new)
  <2>1. Stays(run, t, new) /\ new.label = "N4" /\ new.status = run.status
        /\ run.label \in {"N2", "N3", "N4"}
    BY <1>5 DEF Assesses, CanAssessRestoration
  <2>2. RowPhase(new) = RowPhase(run)
    BY <1>0, <2>1 DEF RowPhase
  <2> QED
    BY <2>1, <2>2, StaysSupplies DEF Moves
<1>6. ASSUME NEW a \in DOMAIN run.assessments, Executes(run, a, t, c, new)
      PROVE  RowFault(new) = RowFault(run) /\ Moves(run, new)
  <2> DEFINE tie == CandidateTie(run, a)
  <2>1. run.label = "N4" /\ new.label = "N5" /\ new.status = "RUN_COMPLETE"
        /\ Operates(run, tie, "CLOSED", t, new) /\ tie \in Switches
    BY <1>6, Executable DEF Executes, CanExecuteRestoration, ExecutionRequested
  <2> HIDE DEF tie
  <2>2. RowPhase(run) = "ISOLATED" /\ RowPhase(new) = "RESTORED"
    BY <1>0, <2>1 DEF RowPhase
  <2>3. /\ RowFault(new) = RowFault(run) /\ RowSupply(run) \subseteq RowSupply(new)
        /\ RowSupply(new) \subseteq Sections \ {RowFault(run)}
    BY <1>0, <1>e, <2>1, OperatesSupplies
  <2> QED
    BY <2>2, <2>3 DEF Moves
<1>7. ASSUME NEW a \in DOMAIN run.assessments, Lapses(run, a, t, c, new)
      PROVE  RowFault(new) = RowFault(run) /\ Moves(run, new)
  <2>1. Stays(run, t, new) /\ new.label = run.label /\ new.status = run.status
    BY <1>7 DEF Lapses
  <2>2. RowPhase(new) = RowPhase(run)
    BY <1>0, <2>1 DEF RowPhase
  <2> QED
    BY <2>1, <2>2, StaysSupplies DEF Moves
<1> QED
  BY <1>1, <1>2, <1>3, <1>4, <1>5, <1>6, <1>7 DEF Handled

\* The actions of SupplyRestoration on the mapped variables.
MapOpen(n) ==
  /\ \A r \in RunIds : PhaseMap[r] \notin {"NORMAL", "FAULTED", "ISOLATED", "RESTORED"}
  /\ PhaseMap[n] = "ABSENT"
  /\ \E s \in SUBSET Sections, f \in Sections :
       /\ PhaseMap' = [PhaseMap EXCEPT ![n] = "NORMAL"]
       /\ SupplyMap' = [SupplyMap EXCEPT ![n] = s]
       /\ FaultMap' = [FaultMap EXCEPT ![n] = f]

MapReplace(r, n) ==
  /\ PhaseMap[r] \in {"NORMAL", "FAULTED", "ISOLATED", "RESTORED"}
  /\ PhaseMap[n] = "ABSENT"
  /\ \E s \in SUBSET Sections, f \in Sections :
       /\ PhaseMap' = [PhaseMap EXCEPT ![r] = "CLOSED", ![n] = "NORMAL"]
       /\ SupplyMap' = [SupplyMap EXCEPT ![n] = s]
       /\ FaultMap' = [FaultMap EXCEPT ![n] = f]

MapBecomes(r, p, s) ==
  /\ PhaseMap' = [PhaseMap EXCEPT ![r] = p]
  /\ SupplyMap' = [SupplyMap EXCEPT ![r] = s]
  /\ FaultMap' = FaultMap

MapMoves(r) ==
  \/ /\ PhaseMap[r] = "NORMAL"
     /\ \E s \in SUBSET SupplyMap[r] : FaultMap[r] \notin s /\ MapBecomes(r, "FAULTED", s)
  \/ /\ PhaseMap[r] = "FAULTED"
     /\ \E s \in SUBSET SupplyMap[r], p \in {"FAULTED", "ISOLATED"} : MapBecomes(r, p, s)
  \/ /\ PhaseMap[r] = "ISOLATED"
     /\ \E s \in SUBSET (Sections \ {FaultMap[r]}), p \in {"ISOLATED", "RESTORED"} :
          SupplyMap[r] \subseteq s /\ MapBecomes(r, p, s)

MapStep ==
  \/ PhaseMap' = PhaseMap /\ FaultMap' = FaultMap /\ SupplyMap' = SupplyMap
  \/ \E n \in RunIds : MapOpen(n)
  \/ \E r, n \in RunIds : MapReplace(r, n)
  \/ \E r \in RunIds : MapMoves(r)

LEMMA StepMaps ==
  ASSUME TypeInv, ContainedInv, SoundInv, SoundInv', Next
  PROVE  MapStep
<1>0. /\ runs \in [RunIds -> WellFormed \cup {NoRun}]
      /\ \A r \in RunIds : Live(r) => runs[r] \in WellFormed
  BY LiveType DEF TypeInv
<1>a. \A r \in RunIds : /\ PhaseMap[r] = RowPhase(runs[r])
                        /\ FaultMap[r] = RowFault(runs[r])
                        /\ SupplyMap[r] = RowSupply(runs[r])
  BY DEF PhaseMap, FaultMap, SupplyMap
<1>b. ASSUME NEW n \in RunIds, NEW t \in Times, NEW c \in CommandIds,
             NEW new \in WellFormed, Opened(n, t, c, new)
      PROVE  /\ RowPhase(new) = "NORMAL" /\ RowFault(new) \in Sections
             /\ RowSupply(new) \in SUBSET Sections
  BY <1>b, RowTypes DEF Opened, Starts, RowPhase
<1>1. ASSUME NEW c \in CommandIds, NEW n \in RunIds, NEW t \in Times,
             NEW new \in WellFormed, \A r \in RunIds : ~ Mutable(r), ~ Live(n),
             runs' = [runs EXCEPT ![n] = new], Opened(n, t, c, new)
      PROVE  MapOpen(n)
  <2>1. \A r \in RunIds : PhaseMap[r] \notin {"NORMAL", "FAULTED", "ISOLATED", "RESTORED"}
    BY <1>1, <1>a DEF Mutable, Live, RowPhase
  <2>2. PhaseMap[n] = "ABSENT"
    BY <1>1, <1>a DEF Live, RowPhase
  <2>3. Shows(n, new)
    BY <1>1, OneRow
  <2>4. RowPhase(new) = "NORMAL" /\ RowFault(new) \in Sections
        /\ RowSupply(new) \in SUBSET Sections
    BY <1>1, <1>b
  <2> QED
    BY <2>1, <2>2, <2>3, <2>4 DEF MapOpen, Shows
<1>2. ASSUME NEW c \in CommandIds, NEW r \in RunIds, NEW t \in Times,
             NEW new \in WellFormed, Current(r, t),
             runs' = [runs EXCEPT ![r] = new], Handled(runs[r], t, c, new),
             Contained(new)
      PROVE  MapStep
  <2> DEFINE run == runs[r]
  <2>1. Live(r) /\ run \in WellFormed /\ run.status # "CLOSED"
    BY <1>0, <1>2 DEF Current, Mutable
  <2>2. Staged(new)
    <3>1. runs'[r] = new /\ new # NoRun
      BY <1>0, <1>2, RowTypes
    <3> QED
      BY <3>1 DEF SoundInv, Sound, Live
  <2>3. RowFault(new) = RowFault(run) /\ Moves(run, new)
    BY <1>2, <2>1, <2>2, HandledMoves
  <2>a. Shows(r, new)
    BY <1>2, OneRow
  <2>4. /\ PhaseMap' = [PhaseMap EXCEPT ![r] = RowPhase(new)]
        /\ FaultMap' = [FaultMap EXCEPT ![r] = RowFault(new)]
        /\ SupplyMap' = [SupplyMap EXCEPT ![r] = RowSupply(new)]
    BY <2>a DEF Shows
  <2>5. PhaseMap[r] = RowPhase(run) /\ FaultMap[r] = RowFault(run)
        /\ SupplyMap[r] = RowSupply(run)
    BY <1>a
  <2> HIDE DEF run
  <2>6. FaultMap' = FaultMap
    BY <2>3, <2>4, <2>5 DEF FaultMap
  <2>7. MapBecomes(r, RowPhase(new), RowSupply(new))
    BY <2>4, <2>6 DEF MapBecomes
  <2>8. CASE RowPhase(new) = RowPhase(run) /\ RowSupply(new) = RowSupply(run)
    <3>1. PhaseMap' = PhaseMap /\ SupplyMap' = SupplyMap
      BY <2>4, <2>5, <2>8 DEF PhaseMap, SupplyMap
    <3> QED
      BY <2>6, <3>1 DEF MapStep
  <2>9. CASE ~ (RowPhase(new) = RowPhase(run) /\ RowSupply(new) = RowSupply(run))
    <3>1. MapMoves(r)
      BY <2>3, <2>5, <2>7, <2>9 DEF Moves, MapMoves
    <3> QED
      BY <3>1 DEF MapStep
  <2> QED
    BY <2>8, <2>9
<1>3. ASSUME NEW c \in CommandIds, NEW r \in RunIds, NEW n \in RunIds, NEW u \in Times,
             Followed(r, n, u, c)
      PROVE  MapReplace(r, n)
  <2>1. PICK closed \in WellFormed, new \in WellFormed, t \in Times :
          /\ runs' = [runs EXCEPT ![r] = closed, ![n] = new]
          /\ Closes(runs[r], u, c, closed) /\ Opened(n, t, c, new)
    BY <1>3 DEF Followed
  <2>2. Live(r) /\ ~ Live(n) /\ runs[r].status # "CLOSED" /\ runs[r] \in WellFormed
    BY <1>0, <1>3 DEF Followed, Mutable
  <2>3. PhaseMap[r] \in {"NORMAL", "FAULTED", "ISOLATED", "RESTORED"}
        /\ PhaseMap[n] = "ABSENT"
    BY <1>a, <2>2 DEF RowPhase, Live
  <2>4. /\ RowPhase(closed) = "CLOSED" /\ RowFault(closed) = FaultMap[r]
        /\ RowSupply(closed) = SupplyMap[r]
    <3>1. Stays(runs[r], u, closed) /\ closed.status = "CLOSED" /\ closed # NoRun
      BY <2>1, RowTypes DEF Closes
    <3> QED
      BY <1>a, <2>2, <3>1, StaysSupplies DEF RowPhase
  <2>5. r # n
    BY <2>2
  <2>a. ShowsBoth(r, closed, n, new)
    BY <2>1, <2>5, TwoRows
  <2>6. /\ PhaseMap' = [PhaseMap EXCEPT ![r] = RowPhase(closed), ![n] = RowPhase(new)]
        /\ FaultMap' = [FaultMap EXCEPT ![r] = RowFault(closed), ![n] = RowFault(new)]
        /\ SupplyMap' = [SupplyMap EXCEPT ![r] = RowSupply(closed), ![n] = RowSupply(new)]
    BY <2>a DEF ShowsBoth
  <2>7. /\ FaultMap' = [FaultMap EXCEPT ![n] = RowFault(new)]
        /\ SupplyMap' = [SupplyMap EXCEPT ![n] = RowSupply(new)]
    BY <2>4, <2>6 DEF FaultMap, SupplyMap
  <2> QED
    BY <1>b, <2>1, <2>3, <2>4, <2>6, <2>7 DEF MapReplace
<1> QED
  BY <1>1, <1>2, <1>3, RowSteps DEF MapStep

\* The coordinator implements SupplyRestoration: every step of every handler is, seen
\* through the label and the topology of the stored telemetry, a step of the abstract
\* specification or none.
THEOREM CoordinatorImplements == Spec => ImplementsSupplyRestoration
<1>1. Init => Supply!Init
  <2> SUFFICES ASSUME Init PROVE Supply!Init
    OBVIOUS
  <2>1. \A r \in RunIds : ~ Live(r)
    BY DEF Init, Live
  <2>2. FormalFault \in Sections
    BY ScenarioAssumption DEF ScenarioAssumption
  <2> QED
    BY <2>1, <2>2 DEF Supply!Init, PhaseOf
<1>2. ASSUME TypeInv, TypeInv', ContainedInv, SoundInv, SoundInv', [Next]_vars
      PROVE  [Supply!Next]_(Supply!avars)
  <2>1. CASE UNCHANGED vars
    BY <2>1 DEF vars, Supply!avars, PhaseOf, Live, ClosedNow
  <2>2. CASE Next
    <3>1. MapStep
      BY <1>2, <2>2, StepMaps
    <3>2. CASE PhaseMap' = PhaseMap /\ FaultMap' = FaultMap /\ SupplyMap' = SupplyMap
      BY <1>2, <3>2, Mapping, MappingNext DEF Supply!avars
    <3>3. ASSUME NEW n \in RunIds, MapOpen(n) PROVE Supply!Next
      <4>1. \A r \in RunIds : ~ Supply!IsOpen(r)
        BY <1>2, <3>3, Mapping DEF MapOpen, Supply!IsOpen
      <4>2. Supply!Open(n)
        <5>1. PICK s \in SUBSET Sections, f \in Sections :
                /\ PhaseMap' = [PhaseMap EXCEPT ![n] = "NORMAL"]
                /\ SupplyMap' = [SupplyMap EXCEPT ![n] = s]
                /\ FaultMap' = [FaultMap EXCEPT ![n] = f]
          BY <3>3 DEF MapOpen
        <5>2. PhaseMap[n] = "ABSENT"
          BY <3>3 DEF MapOpen
        <5> QED
          BY <1>2, <4>1, <5>1, <5>2, Mapping, MappingNext DEF Supply!Open
      <4> QED
        BY <4>2 DEF Supply!Next
    <3>4. ASSUME NEW r \in RunIds, NEW n \in RunIds, MapReplace(r, n) PROVE Supply!Next
      <4>1. Supply!IsOpen(r)
        BY <1>2, <3>4, Mapping DEF MapReplace, Supply!IsOpen
      <4>2. Supply!Replace(r, n)
        <5>1. PICK s \in SUBSET Sections, f \in Sections :
                /\ PhaseMap' = [PhaseMap EXCEPT ![r] = "CLOSED", ![n] = "NORMAL"]
                /\ SupplyMap' = [SupplyMap EXCEPT ![n] = s]
                /\ FaultMap' = [FaultMap EXCEPT ![n] = f]
          BY <3>4 DEF MapReplace
        <5>2. PhaseMap[n] = "ABSENT"
          BY <3>4 DEF MapReplace
        <5> QED
          BY <1>2, <4>1, <5>1, <5>2, Mapping, MappingNext DEF Supply!Replace
      <4> QED
        BY <4>2 DEF Supply!Next
    <3>5. ASSUME NEW r \in RunIds, MapMoves(r) PROVE Supply!Next
      <4>1. \A p, s : MapBecomes(r, p, s) => Supply!Becomes(r, p, s)
        BY <1>2, Mapping, MappingNext DEF MapBecomes, Supply!Becomes
      <4>2. Supply!Trip(r) \/ Supply!Sectionalise(r) \/ Supply!Resupply(r)
        BY <1>2, <3>5, <4>1, Mapping
        DEF MapMoves, Supply!Trip, Supply!Sectionalise, Supply!Resupply
      <4> QED
        BY <4>2 DEF Supply!Next
    <3> QED
      BY <3>1, <3>2, <3>3, <3>4, <3>5 DEF MapStep
  <2> QED
    BY <1>2, <2>1, <2>2
<1> QED
  BY <1>1, <1>2, TypeInvariant, ContainedInvariant, SoundInvariant, PTL
  DEF Spec, ImplementsSupplyRestoration, Supply!Spec
=============================================================================
