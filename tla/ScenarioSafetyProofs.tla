------------------------ MODULE ScenarioSafetyProofs ------------------------
(***************************************************************************)
(* Type correctness and three safety properties of the coordinator, for    *)
(* every network that satisfies the assumptions, every number of runs and  *)
(* every clock: the faulted section stays dead, at most one run is mutable,*)
(* and history is preserved.                                               *)
(*                                                                         *)
(* TypeOK is not inductive alone: an operation reads the outage of the     *)
(* previous revision, so every row must also have one stored outage for    *)
(* each revision.                                                          *)
(***************************************************************************)
EXTENDS ScenarioSafety, GridProofs, SequenceTheorems,
        WellFoundedInduction

\* A row the handlers may rely on.
WellFormed == {run \in Run : Len(run.outages) = run.revision + 1}

TypeInv == runs \in [RunIds -> WellFormed \cup {NoRun}]

\* A later row of the same run, as of time t.
Continues(run, t, new) ==
  /\ new.mode = run.mode /\ new.config = run.config
  /\ new.fault = run.fault /\ new.initial = run.initial
  /\ new.time = t /\ run.revision <= new.revision
  /\ IsExtendedBy(run.events, new.events)
  /\ IsExtendedBy(run.outages, new.outages)
  /\ IsExtendedBy(run.assessments, new.assessments)
  /\ IsExtendedBy(run.invalidations, new.invalidations)

EventSpec ==
  [type : EventTypes, entity : Switches \cup Sections \cup {NoEntity},
   value : EventValues, assessment : Nat]

-----------------------------------------------------------------------------
(* The candidate of an assessment.                                         *)

\* The candidate is of the type an assessment row keeps.
LEMMA CandidateType ==
  ASSUME NEW g \in Configs, NEW c \in SUBSET Switches, NEW fault \in Sections
  PROVE  /\ Candidate(g, c, fault) \in CandidateRecord
         /\ Candidate(g, c, fault) # NoCandidate =>
              LET cand == Candidate(g, c, fault)
              IN  /\ cand.tie \in UsableTies(g, c, fault)
                  /\ cand.feeder = AlternateFeeder(g, cand.tie, fault)
                  /\ cand.sections = ProposedSections(g, c, cand.tie, fault)
<1>1. CASE Candidate(g, c, fault) = NoCandidate
  BY <1>1 DEF NoCandidate, CandidateRecord, NoEntity
<1>2. CASE Candidate(g, c, fault) # NoCandidate
  <2>1. PICK tie \in UsableTies(g, c, fault) :
          /\ Candidate(g, c, fault) = CandidateAt(g, c, fault, tie)
          /\ tie \in Switches /\ AlternateFeeder(g, tie, fault) \in Feeders
          /\ ProposedSections(g, c, tie, fault) \in SUBSET Sections
    BY <1>2, CandidateFound
  <2> QED
    BY <2>1 DEF CandidateAt, CandidateRecord
<1> QED
  BY <1>1, <1>2

LEMMA OutcomeType ==
  ASSUME NEW g, NEW obs, NEW fault
  PROVE  AssessmentOutcome(g, obs, fault) \in Outcomes
BY DEF AssessmentOutcome, OutcomeOf, Outcomes

-----------------------------------------------------------------------------
(* What the handlers build a row from.                                     *)

LEMMA ClosedNowType ==
  ASSUME NEW run PROVE ClosedNow(run) \in SUBSET Switches
BY DEF ClosedNow

LEMMA OutageType ==
  ASSUME NEW run, run.config \in Configs, NEW closed \in SUBSET Switches,
         NEW dead \in SUBSET Sections
  PROVE  OutageAfter(run, closed, dead) \in Outage
BY DEF OutageAfter, Outage

\* The events a handler inserts extend the log.
LEMMA LoggedType ==
  ASSUME NEW run, run.events \in Seq(Event), run.time \in Times, run.revision \in Nat,
         NEW c \in CommandIds, NEW specs \in Seq(EventSpec)
  PROVE  /\ Logged(run, c, specs) \in Seq(Event)
         /\ Len(Logged(run, c, specs)) = Len(run.events) + Len(specs)
         /\ \A i \in 1 .. Len(run.events) : Logged(run, c, specs)[i] = run.events[i]
<1> DEFINE event(spec) ==
             [type |-> spec.type, entity |-> spec.entity, value |-> spec.value,
              assessment |-> spec.assessment, at |-> run.time,
              revision |-> run.revision, command |-> c]
           added == [i \in DOMAIN specs |-> event(specs[i])]
<1>1. ASSUME NEW spec \in EventSpec PROVE event(spec) \in Event
  BY <1>1 DEF EventSpec, Event
<1> HIDE DEF event
<1>2. added \in Seq(Event) /\ Len(added) = Len(specs)
  <2>1. DOMAIN specs = 1 .. Len(specs) /\ Len(specs) \in Nat
    OBVIOUS
  <2>2. \A i \in 1 .. Len(specs) : specs[i] \in EventSpec
    OBVIOUS
  <2> QED
    BY <1>1, <2>1, <2>2
<1>3. Logged(run, c, specs) = run.events \o added
  BY DEF Logged, event
<1> HIDE DEF added
<1>4. Len(run.events) \in Nat /\ Len(added) \in Nat
  BY <1>2
<1> QED
  BY <1>2, <1>3, <1>4, ConcatProperties

LEMMA SpecType ==
  ASSUME NEW type \in EventTypes, NEW entity \in Switches \cup Sections \cup {NoEntity},
         NEW value \in EventValues, NEW a \in Nat
  PROVE  /\ Spec3(type, entity, value) \in EventSpec
         /\ About(Spec3(type, entity, value), a) \in EventSpec
BY DEF Spec3, About, EventSpec

\* The values and the entities that need not be looked up.
LEMMA ValueType ==
  /\ {"OPEN", "CLOSED", "FAULTED", "ACKNOWLEDGED", "INVALIDATED", NoValue} \subseteq EventValues
  /\ Outcomes \subseteq EventValues /\ Configs \subseteq EventValues
BY DEF EventValues, SwitchState

LEMMA DerivedType == DerivedSpecs \in Seq(EventSpec)
<1>1. Spec3("TOPOLOGY_RECALCULATED", NoEntity, NoValue) \in EventSpec
  BY SpecType, ValueType DEF EventTypes
<1>2. Spec3("OUTAGE_UPDATED", NoEntity, NoValue) \in EventSpec
  BY SpecType, ValueType DEF EventTypes
<1> QED
  BY <1>1, <1>2 DEF DerivedSpecs

LEMMA SwitchType ==
  ASSUME NEW d \in Switches, NEW v \in SwitchState
  PROVE  SwitchSpecs(d, v) \in Seq(EventSpec)
<1>1. Spec3("TELEMETRY_UPDATED", d, v) \in EventSpec
  BY SpecType, ValueType DEF EventTypes, SwitchState
<1>2. Spec3("DEVICE_STATE_CHANGE", d, v) \in EventSpec
  BY SpecType, ValueType DEF EventTypes, SwitchState
<1> QED
  BY <1>1, <1>2 DEF SwitchSpecs

LEMMA AllAboutType ==
  ASSUME NEW specs \in Seq(EventSpec), NEW a \in Nat
  PROVE  AllAbout(specs, a) \in Seq(EventSpec)
<1>1. ASSUME NEW spec \in EventSpec PROVE About(spec, a) \in EventSpec
  BY <1>1 DEF About, EventSpec
<1>2. DOMAIN specs = 1 .. Len(specs) /\ Len(specs) \in Nat
  OBVIOUS
<1>3. \A i \in 1 .. Len(specs) : About(specs[i], a) \in EventSpec
  BY <1>1
<1> QED
  BY <1>2, <1>3 DEF AllAbout

-----------------------------------------------------------------------------
(* Each handler turns a well-formed row into a well-formed row.            *)

\* The fields of a well-formed row, one by one.
LEMMA Fields ==
  ASSUME NEW run \in WellFormed
  PROVE  /\ run \in Run /\ Len(run.outages) = run.revision + 1
         /\ run.mode \in Modes /\ run.config \in Configs /\ run.fault \in Sections
         /\ run.initial \in Times /\ run.time \in Times /\ run.revision \in Nat
         /\ run.stage \in Stages /\ run.label \in Labels /\ run.status \in Statuses
         /\ run.faultActive \in BOOLEAN /\ run.alarm \in AlarmStates
         /\ run.telemetry \in [Switches -> Point] /\ run.outages \in Seq(Outage)
         /\ run.assessments \in Seq(AssessmentRecord)
         /\ run.invalidations \in Seq(InvalidationRecord)
         /\ run.events \in Seq(Event)
BY DEF WellFormed, Run

LEMMA ExtendedReflexive ==
  ASSUME NEW S, NEW s \in Seq(S) PROVE IsExtendedBy(s, s)
BY DEF IsExtendedBy

LEMMA ExtendedAppend ==
  ASSUME NEW S, NEW s \in Seq(S), NEW e \in S PROVE IsExtendedBy(s, Append(s, e))
BY DEF IsExtendedBy

LEMMA ExtendedTransitive ==
  ASSUME NEW S, NEW s \in Seq(S), NEW t \in Seq(S), NEW u \in Seq(S),
         IsExtendedBy(s, t), IsExtendedBy(t, u)
  PROVE  IsExtendedBy(s, u)
BY DEF IsExtendedBy

\* Moving the clock alone continues a run.
LEMMA ContinuesItself ==
  ASSUME NEW run \in WellFormed, NEW t
  PROVE  /\ IsExtendedBy(run.events, run.events)
         /\ IsExtendedBy(run.outages, run.outages)
         /\ IsExtendedBy(run.assessments, run.assessments)
         /\ IsExtendedBy(run.invalidations, run.invalidations)
         /\ run.revision <= run.revision
BY Fields, ExtendedReflexive

\* What an operation changes, and that it leaves the rest alone.
LEMMA OperatedType ==
  ASSUME NEW run \in WellFormed, NEW d \in Switches, NEW v \in SwitchState,
         NEW t \in Times
  PROVE  LET after == Operated(run, d, v, t)
         IN  /\ after \in WellFormed
             /\ Continues(run, t, after)
             /\ after.label = run.label /\ after.faultActive = run.faultActive
             /\ ClosedNow(after) = IF v = "CLOSED" THEN ClosedNow(run) \cup {d}
                                   ELSE ClosedNow(run) \ {d}
<1> DEFINE next == run.revision + 1
           point == [value |-> v, quality |-> "GOOD", at |-> t, revision |-> next]
           telemetry == [run.telemetry EXCEPT ![d] = point]
           closed == {e \in Switches : telemetry[e].value = "CLOSED"}
           o == OutageAfter(run, closed, run.outages[next].dead)
           after == [run EXCEPT !.telemetry = telemetry, !.time = t,
                                !.revision = next, !.outages = Append(@, o)]
<1>1. Operated(run, d, v, t) = after
  BY DEF Operated
<1>2. telemetry \in [Switches -> Point] /\ next \in Nat /\ point.value = v
  BY Fields DEF Point, Quality
<1>3. o \in Outage
  <2>1. run.outages[next] \in Outage
    BY Fields, ElementOfSeq
  <2>2. run.outages[next].dead \in SUBSET Sections
    BY <2>1 DEF Outage
  <2> QED
    BY <2>2, Fields, OutageType
<1>4. Append(run.outages, o) \in Seq(Outage) /\ Len(Append(run.outages, o)) = next + 1
  <2> HIDE DEF o, next
  <2> QED
    BY <1>3, Fields DEF next
<1>5. closed = IF v = "CLOSED" THEN ClosedNow(run) \cup {d} ELSE ClosedNow(run) \ {d}
  <2>1. telemetry[d].value = v /\ \A e \in Switches \ {d} : telemetry[e] = run.telemetry[e]
    BY <1>2, Fields
  <2> HIDE DEF telemetry
  <2> QED
    BY <2>1 DEF ClosedNow
<1> HIDE DEF telemetry, o, next
<1>6. /\ after \in Run
      /\ after.telemetry = telemetry /\ after.outages = Append(run.outages, o)
      /\ after.revision = next
  BY <1>2, <1>4, Fields DEF Run
<1>7. after \in WellFormed
  BY <1>4, <1>6 DEF WellFormed
<1>8. ClosedNow(after) = closed
  BY <1>6 DEF ClosedNow
<1>9. after.label = run.label /\ after.faultActive = run.faultActive
  BY Fields DEF Run
<1>10. Continues(run, t, after)
  <2>1. IsExtendedBy(run.outages, after.outages)
    BY <1>3, <1>6, Fields, ExtendedAppend
  <2>2. run.revision <= after.revision
    BY <1>6, Fields DEF next
  <2> QED
    BY <2>1, <2>2, ContinuesItself, Fields DEF Run, Continues
<1> QED
  BY <1>1, <1>5, <1>7, <1>8, <1>9, <1>10

LEMMA LoggedRunType ==
  ASSUME NEW run \in WellFormed, NEW c \in CommandIds, NEW specs \in Seq(EventSpec)
  PROVE  LET new == [run EXCEPT !.events = Logged(run, c, specs)]
         IN  /\ new \in WellFormed
             /\ \A base \in WellFormed : \A t : Continues(base, t, run) => Continues(base, t, new)
             /\ new.label = run.label /\ new.faultActive = run.faultActive
             /\ new.status = run.status
             /\ ClosedNow(new) = ClosedNow(run)
<1> DEFINE log == Logged(run, c, specs)
           new == [run EXCEPT !.events = log]
<1>1. log \in Seq(Event)
  BY Fields, LoggedType
<1>2. IsExtendedBy(run.events, log)
  <2>1. Len(specs) \in Nat /\ Len(run.events) \in Nat
    BY Fields
  <2>2. /\ Len(log) = Len(run.events) + Len(specs)
        /\ \A i \in 1 .. Len(run.events) : log[i] = run.events[i]
    BY Fields, LoggedType
  <2>3. DOMAIN run.events = 1 .. Len(run.events)
    BY Fields
  <2> HIDE DEF log
  <2> QED
    BY <2>1, <2>2, <2>3 DEF IsExtendedBy
<1> HIDE DEF log
<1>3. new \in WellFormed /\ new.events = log
  BY <1>1, Fields DEF WellFormed, Run
<1>4. /\ new.label = run.label /\ new.faultActive = run.faultActive
      /\ new.status = run.status /\ new.telemetry = run.telemetry
  BY Fields DEF Run
<1>5. ASSUME NEW base \in WellFormed, NEW t, Continues(base, t, run)
      PROVE  Continues(base, t, new)
  <2>1. IsExtendedBy(base.events, log)
    <3>1. IsExtendedBy(base.events, run.events)
      BY <1>5 DEF Continues
    <3> QED
      BY <1>1, <1>2, <3>1, Fields, ExtendedTransitive
  <2> QED
    BY <1>3, <1>5, <2>1, Fields DEF Run, Continues
<1> QED
  BY <1>3, <1>4, <1>5 DEF log, ClosedNow

LEMMA AffectedBreakerType ==
  ASSUME NEW run \in WellFormed PROVE AffectedBreaker(run) \in Switches
BY Fields, NetworkAssumption DEF AffectedBreaker, NetworkAssumption

LEMMA FaultInitiatedType ==
  ASSUME NEW run \in WellFormed, NEW t \in Times, NEW c \in CommandIds
  PROVE  LET new == FaultInitiated(run, t, c)
         IN  /\ new \in WellFormed /\ Continues(run, t, new)
             /\ new.label = "N1"
             /\ new.faultActive = TRUE
             /\ ClosedNow(new) = ClosedNow(run) \ {AffectedBreaker(run)}
<1> DEFINE d == AffectedBreaker(run)
           operated == Operated(run, d, "OPEN", t)
           after == [operated EXCEPT
                       !.stage = "POST_FAULT", !.label = "N1", !.status = "ACTIVE",
                       !.faultActive = TRUE, !.alarm = "UNACKNOWLEDGED"]
           specs == <<Spec3("FAULT_INITIATED", run.fault, "FAULTED")>>
                      \o SwitchSpecs(d, "OPEN")
                      \o <<Spec3("ALARM_GENERATED", d, NoValue)>> \o DerivedSpecs
<1>1. /\ operated \in WellFormed /\ Continues(run, t, operated)
      /\ ClosedNow(operated) = ClosedNow(run) \ {d}
  BY AffectedBreakerType, OperatedType DEF SwitchState
<1> HIDE DEF operated
<1>2. /\ after \in WellFormed /\ Continues(run, t, after)
      /\ after.label = "N1" /\ after.faultActive = TRUE
      /\ ClosedNow(after) = ClosedNow(run) \ {d}
  <2>1. after \in WellFormed
    BY <1>1, Fields DEF WellFormed, Run, Stages, Labels, Statuses, AlarmStates
  <2>2. after.label = "N1" /\ after.faultActive = TRUE
    BY <1>1, Fields DEF Run
  <2>3. ClosedNow(after) = ClosedNow(operated)
    BY <1>1, Fields DEF Run, ClosedNow
  <2>4. Continues(run, t, after)
    BY <1>1, Fields DEF Run, Continues
  <2> QED
    BY <1>1, <2>1, <2>2, <2>3, <2>4
<1>3. specs \in Seq(EventSpec)
  <2>1. Spec3("FAULT_INITIATED", run.fault, "FAULTED") \in EventSpec
    BY Fields, SpecType, ValueType DEF EventTypes
  <2>2. Spec3("ALARM_GENERATED", d, NoValue) \in EventSpec
    BY AffectedBreakerType, SpecType, ValueType DEF EventTypes
  <2>3. SwitchSpecs(d, "OPEN") \in Seq(EventSpec)
    BY AffectedBreakerType, SwitchType DEF SwitchState
  <2> HIDE DEF d
  <2> QED
    BY <2>1, <2>2, <2>3, DerivedType
<1> HIDE DEF after, specs
<1> DEFINE new == [after EXCEPT !.events = Logged(after, c, specs)]
<1>4. /\ new \in WellFormed /\ Continues(run, t, new)
      /\ new.label = after.label /\ new.faultActive = after.faultActive
      /\ ClosedNow(new) = ClosedNow(after)
  BY <1>2, <1>3, LoggedRunType
<1>5. FaultInitiated(run, t, c) = new
  BY DEF FaultInitiated, after, specs, operated
<1> HIDE DEF new
<1> QED
  BY <1>2, <1>4, <1>5

LEMMA AlarmAcknowledgedType ==
  ASSUME NEW run \in WellFormed, NEW t \in Times, NEW c \in CommandIds
  PROVE  LET new == AlarmAcknowledged(run, t, c)
         IN  /\ new \in WellFormed /\ Continues(run, t, new)
             /\ new.label = run.label
             /\ new.faultActive = run.faultActive
             /\ ClosedNow(new) = ClosedNow(run)
<1> DEFINE after == [run EXCEPT !.alarm = "ACKNOWLEDGED", !.time = t]
           specs == <<Spec3("ALARM_ACKNOWLEDGED", AffectedBreaker(run), "ACKNOWLEDGED")>>
<1>1. /\ after \in WellFormed /\ Continues(run, t, after)
      /\ after.label = run.label /\ after.faultActive = run.faultActive
      /\ ClosedNow(after) = ClosedNow(run)
  <2>1. after \in WellFormed
    BY Fields DEF WellFormed, Run, AlarmStates
  <2>2. /\ after.label = run.label /\ after.faultActive = run.faultActive
        /\ ClosedNow(after) = ClosedNow(run)
    BY Fields DEF Run, ClosedNow
  <2>3. Continues(run, t, after)
    BY ContinuesItself, Fields DEF Run, Continues
  <2> QED
    BY <2>1, <2>2, <2>3
<1>2. specs \in Seq(EventSpec)
  BY AffectedBreakerType, SpecType, ValueType DEF EventTypes
<1> HIDE DEF after, specs
<1> DEFINE new == [after EXCEPT !.events = Logged(after, c, specs)]
<1>3. /\ new \in WellFormed /\ Continues(run, t, new)
      /\ new.label = after.label /\ new.faultActive = after.faultActive
      /\ ClosedNow(new) = ClosedNow(after)
  BY <1>1, <1>2, LoggedRunType
<1>4. AlarmAcknowledged(run, t, c) = new
  BY DEF AlarmAcknowledged, after, specs
<1> HIDE DEF new
<1> QED
  BY <1>1, <1>3, <1>4

\* The events of one switching operation.
LEMMA SwitchingType ==
  ASSUME NEW d \in Switches, NEW v \in SwitchState
  PROVE  <<Spec3("SWITCHING_ACTION", d, v)>> \o SwitchSpecs(d, v) \o DerivedSpecs
           \in Seq(EventSpec)
<1>1. Spec3("SWITCHING_ACTION", d, v) \in EventSpec
  BY SpecType, ValueType DEF EventTypes, SwitchState
<1>2. SwitchSpecs(d, v) \in Seq(EventSpec)
  BY SwitchType
<1> QED
  BY <1>1, <1>2, DerivedType

LEMMA DeviceIsolatedType ==
  ASSUME NEW run \in WellFormed, NEW d \in Switches, NEW t \in Times, NEW c \in CommandIds
  PROVE  LET new == DeviceIsolated(run, d, t, c)
         IN  /\ new \in WellFormed /\ Continues(run, t, new)
             /\ new.label = IF FaultIsolated(Operated(run, d, "OPEN", t), t)
                            THEN "N2" ELSE "N1"
             /\ new.faultActive = run.faultActive
             /\ ClosedNow(new) = ClosedNow(run) \ {d}
<1> DEFINE moved == Operated(run, d, "OPEN", t)
           isolated == FaultIsolated(moved, t)
           after == [moved EXCEPT
                       !.stage = IF isolated THEN "FAULT_ISOLATED" ELSE "ISOLATING",
                       !.label = IF isolated THEN "N2" ELSE "N1",
                       !.status = "ACTIVE"]
           specs == <<Spec3("SWITCHING_ACTION", d, "OPEN")>>
                      \o SwitchSpecs(d, "OPEN") \o DerivedSpecs
<1>1. /\ moved \in WellFormed /\ Continues(run, t, moved)
      /\ ClosedNow(moved) = ClosedNow(run) \ {d}
      /\ moved.faultActive = run.faultActive
  BY OperatedType DEF SwitchState
<1> HIDE DEF moved, isolated
<1>2. /\ after \in WellFormed /\ Continues(run, t, after)
      /\ after.label = (IF isolated THEN "N2" ELSE "N1")
      /\ after.faultActive = run.faultActive
      /\ ClosedNow(after) = ClosedNow(run) \ {d}
  <2>1. after \in WellFormed
    BY <1>1, Fields DEF WellFormed, Run, Stages, Labels, Statuses
  <2>2. after.label = (IF isolated THEN "N2" ELSE "N1") /\ after.faultActive = run.faultActive
    BY <1>1, Fields DEF Run
  <2>3. ClosedNow(after) = ClosedNow(moved)
    BY <1>1, Fields DEF Run, ClosedNow
  <2>4. Continues(run, t, after)
    BY <1>1, Fields DEF Run, Continues
  <2> QED
    BY <1>1, <2>1, <2>2, <2>3, <2>4
<1>3. specs \in Seq(EventSpec)
  BY SwitchingType DEF SwitchState
<1> HIDE DEF after, specs
<1> DEFINE new == [after EXCEPT !.events = Logged(after, c, specs)]
<1>4. /\ new \in WellFormed /\ Continues(run, t, new)
      /\ new.label = after.label /\ new.faultActive = after.faultActive
      /\ ClosedNow(new) = ClosedNow(after)
  BY <1>2, <1>3, LoggedRunType
<1>5. DeviceIsolated(run, d, t, c) = new
  BY DEF DeviceIsolated, after, specs, moved, isolated
<1> HIDE DEF new
<1> QED
  BY <1>2, <1>4, <1>5 DEF isolated, moved

LEMMA SourceRestoredType ==
  ASSUME NEW run \in WellFormed, NEW t \in Times, NEW c \in CommandIds
  PROVE  LET new == SourceRestored(run, t, c)
         IN  /\ new \in WellFormed /\ Continues(run, t, new)
             /\ new.label = "N3"
             /\ new.faultActive = run.faultActive
             /\ ClosedNow(new) = ClosedNow(run) \cup {AffectedBreaker(run)}
<1> DEFINE d == AffectedBreaker(run)
           operated == Operated(run, d, "CLOSED", t)
           after == [operated EXCEPT
                       !.stage = "UPSTREAM_RESTORED", !.label = "N3", !.status = "ACTIVE"]
           specs == <<Spec3("SWITCHING_ACTION", d, "CLOSED")>>
                      \o SwitchSpecs(d, "CLOSED") \o DerivedSpecs
<1>1. /\ operated \in WellFormed /\ Continues(run, t, operated)
      /\ ClosedNow(operated) = ClosedNow(run) \cup {d}
      /\ operated.faultActive = run.faultActive
  BY AffectedBreakerType, OperatedType DEF SwitchState
<1> HIDE DEF operated
<1>2. /\ after \in WellFormed /\ Continues(run, t, after)
      /\ after.label = "N3" /\ after.faultActive = run.faultActive
      /\ ClosedNow(after) = ClosedNow(run) \cup {d}
  <2>1. after \in WellFormed
    BY <1>1, Fields DEF WellFormed, Run, Stages, Labels, Statuses
  <2>2. after.label = "N3" /\ after.faultActive = run.faultActive
    BY <1>1, Fields DEF Run
  <2>3. ClosedNow(after) = ClosedNow(operated)
    BY <1>1, Fields DEF Run, ClosedNow
  <2>4. Continues(run, t, after)
    BY <1>1, Fields DEF Run, Continues
  <2> QED
    BY <1>1, <2>1, <2>2, <2>3, <2>4
<1>3. specs \in Seq(EventSpec)
  BY AffectedBreakerType, SwitchingType DEF SwitchState
<1> HIDE DEF after, specs
<1> DEFINE new == [after EXCEPT !.events = Logged(after, c, specs)]
<1>4. /\ new \in WellFormed /\ Continues(run, t, new)
      /\ new.label = after.label /\ new.faultActive = after.faultActive
      /\ ClosedNow(new) = ClosedNow(after)
  BY <1>2, <1>3, LoggedRunType
<1>5. SourceRestored(run, t, c) = new
  BY DEF SourceRestored, after, specs, operated
<1> HIDE DEF new
<1> QED
  BY <1>2, <1>4, <1>5

LEMMA ObservedClosed ==
  ASSUME NEW run, NEW t
  PROVE  ClosedIn(Observe(run.telemetry, t)) = ClosedNow(run)
BY DEF ClosedIn, Observe, ClosedNow

LEMMA AssessmentType ==
  ASSUME NEW run \in WellFormed, NEW t \in Times
  PROVE  Assessment(run, t) \in AssessmentRecord
<1> DEFINE obs == Observe(run.telemetry, t)
           cand == Candidate(run.config, ClosedIn(obs), run.fault)
           outcome == AssessmentOutcome(run.config, obs, run.fault)
           evidence == [d \in Monitored |-> run.telemetry[d]]
<1>1. outcome \in Outcomes
  BY OutcomeType
<1>2. cand \in CandidateRecord
  <2>1. ClosedIn(obs) \in SUBSET Switches
    BY DEF ClosedIn
  <2>2. run.config \in Configs /\ run.fault \in Sections
    BY Fields
  <2> HIDE DEF obs
  <2> QED
    BY <2>1, <2>2, CandidateType
<1>3. evidence \in [Monitored -> Point]
  BY Fields, NetworkAssumption DEF NetworkAssumption
<1>4. Assessment(run, t) = [outcome |-> outcome, candidate |-> cand,
                            revision |-> run.revision, evidence |-> evidence, at |-> t]
  BY DEF Assessment
<1> HIDE DEF outcome, cand, evidence
<1> QED
  BY <1>1, <1>2, <1>3, <1>4, Fields DEF AssessmentRecord

LEMMA RestorationAssessedType ==
  ASSUME NEW run \in WellFormed, NEW t \in Times, NEW c \in CommandIds
  PROVE  LET new == RestorationAssessed(run, t, c)
         IN  /\ new \in WellFormed /\ Continues(run, t, new)
             /\ new.label = "N4"
             /\ new.faultActive = run.faultActive
             /\ ClosedNow(new) = ClosedNow(run)
<1> DEFINE a == Assessment(run, t)
           n == LastAssessment(run) + 1
           found == IF a.candidate = NoCandidate THEN "RESTORATION_NO_CANDIDATE"
                    ELSE "RESTORATION_CANDIDATE_IDENTIFIED"
           after == [run EXCEPT !.time = t, !.stage = "RESTORATION_ASSESSED",
                                !.label = "N4", !.assessments = Append(@, a)]
           specs == <<About(Spec3(found, a.candidate.tie, NoValue), n),
                      About(Spec3("RESTORATION_ASSESSED", a.candidate.tie, a.outcome), n)>>
<1>1. a \in AssessmentRecord
  BY AssessmentType
<1>2. found \in EventTypes
  BY DEF EventTypes
<1>3. n \in Nat
  BY Fields DEF LastAssessment
<1> HIDE DEF a, n, found
<1>4. /\ after \in WellFormed /\ Continues(run, t, after)
      /\ after.label = "N4" /\ after.faultActive = run.faultActive
      /\ ClosedNow(after) = ClosedNow(run)
  <2>1. /\ Append(run.assessments, a) \in Seq(AssessmentRecord)
        /\ IsExtendedBy(run.assessments, Append(run.assessments, a))
    BY <1>1, Fields, ExtendedAppend
  <2>2. after \in WellFormed
    BY <2>1, Fields DEF WellFormed, Run, Stages, Labels
  <2>3. /\ after.label = "N4" /\ after.faultActive = run.faultActive
        /\ ClosedNow(after) = ClosedNow(run)
    BY Fields DEF Run, ClosedNow
  <2>4. Continues(run, t, after)
    BY <2>1, ContinuesItself, Fields DEF Run, Continues
  <2> QED
    BY <2>2, <2>3, <2>4
<1>5. a.candidate.tie \in Switches \cup {NoEntity} /\ a.outcome \in Outcomes
  BY <1>1 DEF AssessmentRecord, CandidateRecord
<1>6. specs \in Seq(EventSpec)
  <2>1. About(Spec3(found, a.candidate.tie, NoValue), n) \in EventSpec
    BY <1>2, <1>3, <1>5, SpecType, ValueType
  <2>2. About(Spec3("RESTORATION_ASSESSED", a.candidate.tie, a.outcome), n) \in EventSpec
    BY <1>3, <1>5, SpecType, ValueType DEF EventTypes
  <2> QED
    BY <2>1, <2>2
<1> HIDE DEF after, specs
<1> DEFINE new == [after EXCEPT !.events = Logged(after, c, specs)]
<1>7. /\ new \in WellFormed /\ Continues(run, t, new)
      /\ new.label = after.label /\ new.faultActive = after.faultActive
      /\ ClosedNow(new) = ClosedNow(after)
  BY <1>4, <1>6, LoggedRunType
<1>8. RestorationAssessed(run, t, c) = new
  BY DEF RestorationAssessed, RunAssessed, after, specs, a, n, found
<1> HIDE DEF new
<1> QED
  BY <1>4, <1>7, <1>8

\* An executable assessment binds what a projection finds now: a candidate
\* whose isolation and alternate source are permissive.
LEMMA Executable ==
  ASSUME NEW run \in WellFormed, NEW t \in Times, NEW a, CanExecuteRestoration(run, a, t)
  PROVE  LET closed == ClosedNow(run)
             cand   == Candidate(run.config, closed, run.fault)
         IN  /\ a \in DOMAIN run.assessments /\ a \in Nat
             /\ CandidateTie(run, a) = cand.tie
             /\ cand # NoCandidate
             /\ cand.tie \in Switches
             /\ Isolated(run.config, Observe(run.telemetry, t), run.fault)
             /\ AlternateSourcePermissive(run.config, closed, cand)
<1> DEFINE obs == Observe(run.telemetry, t)
           closed == ClosedNow(run)
           cand == Candidate(run.config, closed, run.fault)
<1>1. a = Len(run.assessments) /\ a # 0
  BY DEF CanExecuteRestoration, ExecutionRequested, Outstanding, LastAssessment
<1>2. a \in DOMAIN run.assessments /\ a \in Nat
  BY <1>1, Fields
<1>3. /\ run.assessments[a].candidate = Assessment(run, t).candidate
      /\ Assessment(run, t).outcome = "PERMITTED"
  BY DEF CanExecuteRestoration, BindingMatches, Binds
<1>4. /\ Assessment(run, t).candidate = cand
      /\ Assessment(run, t).outcome = AssessmentOutcome(run.config, obs, run.fault)
  BY ObservedClosed DEF Assessment
<1>5. /\ cand # NoCandidate
      /\ Isolated(run.config, obs, run.fault)
      /\ AlternateSourcePermissive(run.config, closed, cand)
  BY <1>3, <1>4, ObservedClosed DEF AssessmentOutcome, OutcomeOf, IsolationPermissive
<1>6. cand.tie \in Switches
  <2>1. cand.tie \in UsableTies(run.config, closed, run.fault)
    BY <1>5, Fields, ClosedNowType, CandidateType
  <2> QED
    BY <2>1, NetworkAssumption DEF UsableTies, NetworkAssumption
<1> QED
  BY <1>2, <1>3, <1>4, <1>5, <1>6 DEF CandidateTie

LEMMA RestorationExecutedType ==
  ASSUME NEW run \in WellFormed, NEW t \in Times, NEW c \in CommandIds, NEW a,
         CanExecuteRestoration(run, a, t)
  PROVE  LET new == RestorationExecuted(run, a, t, c)
         IN  /\ new \in WellFormed /\ Continues(run, t, new)
             /\ new.label = "N5"
             /\ new.faultActive = run.faultActive
             /\ ClosedNow(new) = ClosedNow(run) \cup {CandidateTie(run, a)}
<1> DEFINE d == CandidateTie(run, a)
           operated == Operated(run, d, "CLOSED", t)
           after == [operated EXCEPT
                       !.stage = "RESTORATION_EXECUTED", !.label = "N5",
                       !.status = "RUN_COMPLETE"]
           switching == <<Spec3("SWITCHING_ACTION", d, "CLOSED")>>
                          \o SwitchSpecs(d, "CLOSED") \o DerivedSpecs
           specs == AllAbout(switching, a)
<1>1. d \in Switches /\ a \in Nat
  BY Executable
<1>2. /\ operated \in WellFormed /\ Continues(run, t, operated)
      /\ ClosedNow(operated) = ClosedNow(run) \cup {d}
      /\ operated.faultActive = run.faultActive
  BY <1>1, OperatedType DEF SwitchState
<1> HIDE DEF operated
<1>3. /\ after \in WellFormed /\ Continues(run, t, after)
      /\ after.label = "N5" /\ after.faultActive = run.faultActive
      /\ ClosedNow(after) = ClosedNow(run) \cup {d}
  <2>1. after \in WellFormed
    BY <1>2, Fields DEF WellFormed, Run, Stages, Labels, Statuses
  <2>2. after.label = "N5" /\ after.faultActive = run.faultActive
    BY <1>2, Fields DEF Run
  <2>3. ClosedNow(after) = ClosedNow(operated)
    BY <1>2, Fields DEF Run, ClosedNow
  <2>4. Continues(run, t, after)
    BY <1>2, Fields DEF Run, Continues
  <2> QED
    BY <1>2, <2>1, <2>2, <2>3, <2>4
<1>4. switching \in Seq(EventSpec)
  BY <1>1, SwitchingType DEF SwitchState
<1> HIDE DEF switching
<1>5. specs \in Seq(EventSpec)
  BY <1>1, <1>4, AllAboutType
<1> HIDE DEF after, specs
<1> DEFINE new == [after EXCEPT !.events = Logged(after, c, specs)]
<1>6. /\ new \in WellFormed /\ Continues(run, t, new)
      /\ new.label = after.label /\ new.faultActive = after.faultActive
      /\ ClosedNow(new) = ClosedNow(after)
  BY <1>3, <1>5, LoggedRunType
<1>7. RestorationExecuted(run, a, t, c) = new
  BY DEF RestorationExecuted, after, specs, switching, operated
<1> HIDE DEF new
<1> QED
  BY <1>3, <1>6, <1>7

\* The invalidation of the outstanding assessment and its event.
LEMMA InvalidationType ==
  ASSUME NEW run \in WellFormed, Outstanding(run), NEW t \in Times,
         NEW reason \in InvalidationReasons
  PROVE  /\ Invalidation(run, t, Len(run.events) + 1, reason) \in InvalidationRecord
         /\ InvalidatedSpec(run) \in EventSpec
<1>1. LastAssessment(run) \in Nat /\ Len(run.events) + 1 \in Nat
  BY Fields DEF LastAssessment
<1>2. CandidateTie(run, LastAssessment(run)) \in Switches \cup {NoEntity}
  <2>1. LastAssessment(run) \in 1 .. Len(run.assessments)
    BY Fields DEF Outstanding, LastAssessment
  <2>2. run.assessments[LastAssessment(run)] \in AssessmentRecord
    BY <2>1, Fields, ElementOfSeq
  <2> QED
    BY <2>2 DEF CandidateTie, AssessmentRecord, CandidateRecord
<1>3. InvalidatedSpec(run) \in EventSpec
  BY <1>1, <1>2, SpecType, ValueType DEF InvalidatedSpec, EventTypes
<1> QED
  BY <1>1, <1>3, Fields DEF Invalidation, InvalidationRecord

\* Recording an invalidation.
LEMMA EvidencedType ==
  ASSUME NEW run \in WellFormed, NEW t, NEW logged \in WellFormed,
         Continues(run, t, logged), NEW record \in InvalidationRecord
  PROVE  LET new == [logged EXCEPT !.invalidations = Append(run.invalidations, record)]
         IN  /\ new \in WellFormed /\ Continues(run, t, new)
             /\ new.label = logged.label /\ new.faultActive = logged.faultActive
             /\ new.status = logged.status
             /\ ClosedNow(new) = ClosedNow(logged)
<1> DEFINE log == Append(run.invalidations, record)
           new == [logged EXCEPT !.invalidations = log]
<1>1. log \in Seq(InvalidationRecord) /\ IsExtendedBy(run.invalidations, log)
  BY Fields, ExtendedAppend
<1> HIDE DEF log
<1>2. new \in WellFormed
  BY <1>1, Fields DEF WellFormed, Run
<1>3. /\ new.label = logged.label /\ new.faultActive = logged.faultActive
      /\ new.status = logged.status /\ ClosedNow(new) = ClosedNow(logged)
  BY Fields DEF Run, ClosedNow
<1>4. Continues(run, t, new)
  BY <1>1, Fields DEF Run, Continues
<1> QED
  BY <1>2, <1>3, <1>4 DEF log

LEMMA AssessmentLapsedType ==
  ASSUME NEW run \in WellFormed, Outstanding(run), NEW t \in Times, NEW c \in CommandIds
  PROVE  LET new == AssessmentLapsed(run, t, c)
         IN  /\ new \in WellFormed /\ Continues(run, t, new)
             /\ new.label = run.label
             /\ new.faultActive = run.faultActive
             /\ ClosedNow(new) = ClosedNow(run)
<1> DEFINE moved == [run EXCEPT !.time = t]
           record == Invalidation(run, t, Len(run.events) + 1,
                                  "BOUND_EVIDENCE_NO_LONGER_CURRENT")
           specs == <<InvalidatedSpec(run)>>
           logged == [moved EXCEPT !.events = Logged(moved, c, specs)]
<1>1. /\ moved \in WellFormed /\ Continues(run, t, moved)
      /\ moved.label = run.label /\ moved.faultActive = run.faultActive
      /\ ClosedNow(moved) = ClosedNow(run) /\ moved.invalidations = run.invalidations
  <2>1. moved \in WellFormed
    BY Fields DEF WellFormed, Run
  <2>2. /\ moved.label = run.label /\ moved.faultActive = run.faultActive
        /\ ClosedNow(moved) = ClosedNow(run) /\ moved.invalidations = run.invalidations
    BY Fields DEF Run, ClosedNow
  <2>3. Continues(run, t, moved)
    BY ContinuesItself, Fields DEF Run, Continues
  <2> QED
    BY <2>1, <2>2, <2>3
<1>2. record \in InvalidationRecord /\ InvalidatedSpec(run) \in EventSpec
  BY InvalidationType DEF InvalidationReasons
<1>3. specs \in Seq(EventSpec)
  BY <1>2
<1> HIDE DEF moved, record, specs
<1>4. /\ logged \in WellFormed /\ Continues(run, t, logged)
      /\ logged.label = run.label /\ logged.faultActive = run.faultActive
      /\ ClosedNow(logged) = ClosedNow(run)
  BY <1>1, <1>3, LoggedRunType
<1>5. AssessmentLapsed(run, t, c) =
        [logged EXCEPT !.invalidations = Append(run.invalidations, record)]
  BY <1>1 DEF AssessmentLapsed, moved, record, specs
<1> HIDE DEF logged
<1> QED
  BY <1>2, <1>4, <1>5, EvidencedType

LEMMA ClosedType ==
  ASSUME NEW run \in WellFormed, NEW t \in Times, NEW c \in CommandIds
  PROVE  LET new == Closed(run, t, c)
         IN  /\ new \in WellFormed /\ Continues(run, t, new)
             /\ new.status = "CLOSED"
             /\ new.label = run.label /\ new.faultActive = run.faultActive
             /\ ClosedNow(new) = ClosedNow(run)
<1> DEFINE closed == [run EXCEPT !.time = t, !.status = "CLOSED"]
           reset == <<Spec3("SCENARIO_RESET", NoEntity, NoValue)>>
           evidence == <<InvalidatedSpec(run)>> \o reset
           record == Invalidation(run, t, Len(run.events) + 1, "SCENARIO_RESET")
<1>1. /\ closed \in WellFormed /\ Continues(run, t, closed)
      /\ closed.status = "CLOSED" /\ closed.invalidations = run.invalidations
      /\ closed.label = run.label /\ closed.faultActive = run.faultActive
      /\ ClosedNow(closed) = ClosedNow(run)
  <2>1. closed \in WellFormed
    BY Fields DEF WellFormed, Run, Statuses
  <2>2. /\ closed.status = "CLOSED" /\ closed.invalidations = run.invalidations
        /\ closed.label = run.label /\ closed.faultActive = run.faultActive
        /\ ClosedNow(closed) = ClosedNow(run)
    BY Fields DEF Run, ClosedNow
  <2>3. Continues(run, t, closed)
    BY ContinuesItself, Fields DEF Run, Continues
  <2> QED
    BY <2>1, <2>2, <2>3
<1>2. reset \in Seq(EventSpec)
  <2>1. Spec3("SCENARIO_RESET", NoEntity, NoValue) \in EventSpec
    BY SpecType, ValueType DEF EventTypes
  <2> QED
    BY <2>1
<1> HIDE DEF closed, reset
<1>3. CASE Outstanding(run)
  <2>1. record \in InvalidationRecord /\ InvalidatedSpec(run) \in EventSpec
    BY <1>3, InvalidationType DEF InvalidationReasons
  <2>2. evidence \in Seq(EventSpec)
    BY <1>2, <2>1
  <2> HIDE DEF evidence, record
  <2> DEFINE logged == [closed EXCEPT !.events = Logged(closed, c, evidence)]
  <2>3. /\ logged \in WellFormed /\ Continues(run, t, logged)
        /\ logged.status = "CLOSED"
        /\ logged.label = run.label /\ logged.faultActive = run.faultActive
        /\ ClosedNow(logged) = ClosedNow(run)
    BY <1>1, <2>2, LoggedRunType
  <2>4. Closed(run, t, c) =
          [logged EXCEPT !.invalidations = Append(run.invalidations, record)]
    BY <1>1, <1>3 DEF Closed, closed, evidence, record, reset
  <2> HIDE DEF logged
  <2> QED
    BY <2>1, <2>3, <2>4, EvidencedType
<1>4. CASE ~ Outstanding(run)
  <2>1. Closed(run, t, c) = [closed EXCEPT !.events = Logged(closed, c, reset)]
    BY <1>4 DEF Closed, closed, reset
  <2> QED
    BY <1>1, <1>2, <2>1, LoggedRunType
<1> QED
  BY <1>3, <1>4

LEMMA NewRunType ==
  ASSUME NEW mode \in Modes, NEW g \in Configs, NEW fault \in Sections,
         NEW t \in Times, NEW c \in CommandIds
  PROVE  /\ NewRun(mode, g, fault, t, c) \in WellFormed
         /\ NewRun(mode, g, fault, t, c).mode = mode
         /\ NewRun(mode, g, fault, t, c).config = g
         /\ NewRun(mode, g, fault, t, c).fault = fault
         /\ NewRun(mode, g, fault, t, c).label = "N0"
         /\ ~ NewRun(mode, g, fault, t, c).faultActive
         /\ ClosedNow(NewRun(mode, g, fault, t, c)) = NormalClosed
<1> DEFINE telemetry == [d \in Switches |-> NormalPoint(d, t)]
           run == [mode |-> mode, config |-> g, fault |-> fault,
                   initial |-> t, time |-> t, revision |-> 0,
                   stage |-> "NORMAL", label |-> "N0", status |-> "INITIALISED",
                   faultActive |-> FALSE, alarm |-> "NONE",
                   telemetry |-> telemetry,
                   outages |-> << >>, assessments |-> << >>,
                   invalidations |-> << >>, events |-> << >>]
           specs == <<Spec3("SCENARIO_INITIALISED", NoEntity, NoValue),
                      Spec3("CONFIGURATION_SELECTED", NoEntity, g)>> \o DerivedSpecs
           o == OutageAfter(run, NormalClosed, {})
           log == Logged(run, c, specs)
           new == NewRun(mode, g, fault, t, c)
<1>1. telemetry \in [Switches -> Point]
  BY DEF NormalPoint, Point, SwitchState, Quality
<1>2. {d \in Switches : telemetry[d].value = "CLOSED"} = NormalClosed
  BY NetworkAssumption DEF NetworkAssumption, NormalPoint
<1>3. specs \in Seq(EventSpec)
  <2>1. Spec3("SCENARIO_INITIALISED", NoEntity, NoValue) \in EventSpec
    BY SpecType, ValueType DEF EventTypes
  <2>2. Spec3("CONFIGURATION_SELECTED", NoEntity, g) \in EventSpec
    BY SpecType, ValueType DEF EventTypes
  <2> QED
    BY <2>1, <2>2, DerivedType
<1> HIDE DEF telemetry, specs
<1>4. o \in Outage
  <2>1. run.config \in Configs /\ NormalClosed \in SUBSET Switches
    BY NetworkAssumption DEF NetworkAssumption
  <2> HIDE DEF run
  <2> QED
    BY <2>1, OutageType
<1>5. log \in Seq(Event)
  <2>1. run.events \in Seq(Event) /\ run.time \in Times /\ run.revision \in Nat
    OBVIOUS
  <2> HIDE DEF run
  <2> QED
    BY <1>3, <2>1, LoggedType
<1>6. new = [run EXCEPT !.outages = <<o>>, !.events = log]
  BY DEF NewRun, telemetry, specs
<1> HIDE DEF o, log
<1>7. /\ new.mode = mode /\ new.config = g /\ new.fault = fault
      /\ new.label = "N0" /\ ~ new.faultActive /\ new.telemetry = telemetry
      /\ new.outages = <<o>> /\ new.revision = 0
  BY <1>6
<1>8. new \in Run
  <2>1. <<o>> \in Seq(Outage)
    BY <1>4
  <2>2. /\ << >> \in Seq(AssessmentRecord) /\ << >> \in Seq(InvalidationRecord)
        /\ 0 \in Nat
    OBVIOUS
  <2>3. new = [mode |-> mode, config |-> g, fault |-> fault,
               initial |-> t, time |-> t, revision |-> 0,
               stage |-> "NORMAL", label |-> "N0", status |-> "INITIALISED",
               faultActive |-> FALSE, alarm |-> "NONE", telemetry |-> telemetry,
               outages |-> <<o>>, assessments |-> << >>,
               invalidations |-> << >>, events |-> log]
    BY <1>6
  <2> HIDE DEF run, new
  <2> QED
    BY <1>1, <1>5, <2>1, <2>2, <2>3 DEF Run, Stages, Labels, Statuses, AlarmStates
<1> HIDE DEF new
<1>9. new \in WellFormed
  <2>1. Len(<<o>>) = 0 + 1
    OBVIOUS
  <2> QED
    BY <1>7, <1>8, <2>1 DEF WellFormed
<1>10. ClosedNow(new) = NormalClosed
  BY <1>2, <1>7 DEF ClosedNow
<1> QED
  BY <1>7, <1>9, <1>10 DEF new

-----------------------------------------------------------------------------
(* The invariant.                                                          *)

LEMMA LiveType ==
  ASSUME TypeInv, NEW r \in RunIds, Live(r)
  PROVE  runs[r] \in WellFormed
BY DEF TypeInv, Live

LEMMA NotARun == NoRun \notin WellFormed
BY NoRunAssumption DEF WellFormed

\* Every command on a run replaces it with a well-formed row.
LEMMA RunCommandType ==
  ASSUME TypeInv, NEW r \in RunIds, Live(r), NEW t \in Times, NEW c \in CommandIds,
         RunCommand(r, t, c)
  PROVE  TypeInv'
<1> DEFINE run == runs[r]
<1>0. run \in WellFormed /\ runs \in [RunIds -> WellFormed \cup {NoRun}]
  BY LiveType DEF TypeInv
<1> SUFFICES \E new \in WellFormed : runs' = [runs EXCEPT ![r] = new]
  BY <1>0 DEF TypeInv
<1> HIDE DEF run
<1>1. CASE InitiateFault(r, t, c)
  BY <1>0, <1>1, FaultInitiatedType DEF InitiateFault, run
<1>2. CASE AcknowledgeAlarm(r, t, c)
  BY <1>0, <1>2, AlarmAcknowledgedType DEF AcknowledgeAlarm, run
<1>3. CASE \E d \in Switches : OperateIsolationDevice(r, d, t, c)
  BY <1>0, <1>3, DeviceIsolatedType DEF OperateIsolationDevice, run
<1>4. CASE RestoreNormalSource(r, t, c)
  BY <1>0, <1>4, SourceRestoredType DEF RestoreNormalSource, run
<1>5. CASE AssessRestoration(r, t, c)
  BY <1>0, <1>5, RestorationAssessedType DEF AssessRestoration, run
<1>6. ASSUME NEW a, ExecuteRestoration(r, a, t, c)
      PROVE  \E new \in WellFormed : runs' = [runs EXCEPT ![r] = new]
  BY <1>0, <1>6, RestorationExecutedType DEF ExecuteRestoration, run
<1>7. ASSUME NEW a, InvalidateAssessment(r, a, t, c)
      PROVE  \E new \in WellFormed : runs' = [runs EXCEPT ![r] = new]
  BY <1>0, <1>7, AssessmentLapsedType DEF InvalidateAssessment, ExecutionRequested, run
<1> QED
  BY <1>1, <1>2, <1>3, <1>4, <1>5, <1>6, <1>7 DEF RunCommand

LEMMA TypeStep ==
  ASSUME TypeInv, Next PROVE TypeInv'
<1>0. runs \in [RunIds -> WellFormed \cup {NoRun}]
  BY DEF TypeInv
<1> SUFFICES ASSUME NEW t \in Times, NEW c \in CommandIds,
                    \/ \E n \in RunIds, mode \in Modes, g \in Configs, fault \in Sections :
                         \/ Initialise(n, mode, g, fault, t, c)
                         \/ \E r \in RunIds : ReplaceRun(r, n, mode, g, fault, t, c)
                    \/ \E r \in RunIds : \/ Live(r) /\ RunCommand(r, t, c)
                                         \/ \E n \in RunIds : ResetRun(r, n, t, c)
             PROVE  TypeInv'
  BY DEF Next
<1>1. ASSUME NEW n \in RunIds, NEW mode \in Modes, NEW g \in Configs,
             NEW fault \in Sections, Initialise(n, mode, g, fault, t, c)
      PROVE  TypeInv'
  BY <1>0, <1>1, NewRunType DEF Initialise, TypeInv
<1>2. ASSUME NEW n \in RunIds, NEW mode \in Modes, NEW g \in Configs,
             NEW fault \in Sections, NEW r \in RunIds,
             ReplaceRun(r, n, mode, g, fault, t, c)
      PROVE  TypeInv'
  <2>1. Live(r) /\ runs[r] \in WellFormed
    BY <1>2, LiveType DEF ReplaceRun, Mutable
  <2>2. runs[r].time \in Times
    BY <2>1, Fields
  <2>3. Closed(runs[r], runs[r].time, c) \in WellFormed
    BY <2>1, <2>2, ClosedType
  <2>4. NewRun(mode, g, fault, t, c) \in WellFormed
    BY NewRunType
  <2> QED
    BY <1>0, <1>2, <2>3, <2>4 DEF ReplaceRun, TypeInv
<1>3. ASSUME NEW r \in RunIds, NEW n \in RunIds, ResetRun(r, n, t, c)
      PROVE  TypeInv'
  <2>1. Live(r) /\ runs[r] \in WellFormed
    BY <1>3, LiveType DEF ResetRun, Current, Mutable
  <2>2. Closed(runs[r], t, c) \in WellFormed
    BY <2>1, ClosedType
  <2>3. /\ runs[r].mode \in Modes /\ runs[r].config \in Configs
        /\ runs[r].fault \in Sections /\ runs[r].initial \in Times
    BY <2>1, Fields
  <2>4. NewRun(runs[r].mode, runs[r].config, runs[r].fault, runs[r].initial, c)
          \in WellFormed
    BY <2>3, NewRunType
  <2> QED
    BY <1>0, <1>3, <2>2, <2>4 DEF ResetRun, TypeInv
<1> QED
  BY <1>1, <1>2, <1>3, RunCommandType

LEMMA TypeInvariant == Spec => []TypeInv
<1>1. Init => TypeInv
  BY DEF Init, TypeInv
<1>2. TypeInv /\ [Next]_vars => TypeInv'
  <2>1. TypeInv /\ UNCHANGED vars => TypeInv'
    BY DEF TypeInv, vars
  <2> QED
    BY <2>1, TypeStep
<1> QED
  BY <1>1, <1>2, PTL DEF Spec

\* The scenario database always holds well-formed rows.
THEOREM TypeCorrect == Spec => []TypeOK
<1>1. TypeInv => TypeOK
  BY DEF TypeInv, TypeOK, WellFormed
<1> QED
  BY <1>1, TypeInvariant, PTL

\* What each stage of the workflow guarantees of the network.  FaultedSectionDead
\* is not inductive: reclosing and the tie are judged by what is open, so the
\* stages must remember which devices those are.
Contained(run) ==
  /\ ValidInitialisation(run.mode, run.config, run.fault)
  /\ run.label = "N0" => ~ run.faultActive /\ ClosedNow(run) = NormalClosed
  /\ run.label = "N1" => ClosedNow(run) \subseteq NormalClosed \ {AffectedBreaker(run)}
  /\ run.label \in {"N2", "N3", "N4", "N5"} =>
       Incident(run.config, run.fault) \cap ClosedNow(run) = {}

ContainedInv == \A r \in RunIds : Live(r) => Contained(runs[r])

-----------------------------------------------------------------------------
(* The faulted section stays dead.                                         *)

\* A proof of isolation at any time leaves every boundary open.
LEMMA IsolatedIsOpen ==
  ASSUME NEW run, NEW t, NEW g, NEW s, Isolated(g, Observe(run.telemetry, t), s)
  PROVE  Incident(g, s) \cap ClosedNow(run) = {}
BY DEF Isolated, Incident, ProvenOpen, Observe, ClosedNow

LEMMA ContainedIsDead ==
  ASSUME NEW run \in WellFormed, Contained(run), run.faultActive
  PROVE  run.fault \notin Energised(run.config, ClosedNow(run))
<1> DEFINE tripped == NormalClosed \ {AffectedBreaker(run)}
<1>1. run.label \in Labels /\ run.config \in Configs /\ run.fault \in Sections
        /\ run.mode \in Modes
  BY Fields
<1>2. CASE run.label = "N1"
  <2>1. ClosedNow(run) \subseteq tripped /\ tripped \in SUBSET Switches
    BY <1>2, NetworkAssumption DEF Contained, NetworkAssumption
  <2>2. run.fault \notin Energised(run.config, tripped)
    BY <1>1, ProtectionAssumption DEF ProtectionAssumption, AffectedBreaker, Contained
  <2> QED
    BY <1>1, <2>1, <2>2, EnergisedMonotone
<1>3. CASE run.label \in {"N2", "N3", "N4", "N5"}
  <2>1. Incident(run.config, run.fault) \cap ClosedNow(run) = {}
    BY <1>3 DEF Contained
  <2> QED
    BY <1>1, <2>1, ClosedNowType, OpenBoundariesKill
<1>4. run.label # "N0"
  BY DEF Contained
<1> QED
  BY <1>1, <1>2, <1>3, <1>4 DEF Labels

\* Whatever keeps a run's identity keeps the validity of its start.
LEMMA StillValid ==
  ASSUME NEW run, NEW t, NEW new, Contained(run), Continues(run, t, new)
  PROVE  /\ ValidInitialisation(new.mode, new.config, new.fault)
         /\ Incident(new.config, new.fault) = Incident(run.config, run.fault)
         /\ AffectedBreaker(new) = AffectedBreaker(run)
BY DEF Contained, Continues, AffectedBreaker

LEMMA FaultInitiatedContained ==
  ASSUME NEW run \in WellFormed, Contained(run), NEW t \in Times, NEW c \in CommandIds,
         CanInitiateFault(run)
  PROVE  Contained(FaultInitiated(run, t, c))
<1> DEFINE new == FaultInitiated(run, t, c)
<1>1. /\ Continues(run, t, new) /\ new.label = "N1"
      /\ ClosedNow(new) = ClosedNow(run) \ {AffectedBreaker(run)}
  BY FaultInitiatedType
<1> HIDE DEF new
<1>2. ClosedNow(run) = NormalClosed
  BY DEF CanInitiateFault, Contained
<1>3. Contained(new)
  BY <1>1, <1>2, StillValid DEF Contained
<1> QED
  BY <1>3 DEF new

\* Moving along without operating anything keeps a run contained.
LEMMA UnmovedContained ==
  ASSUME NEW run \in WellFormed, Contained(run), NEW t, NEW new,
         Continues(run, t, new), ClosedNow(new) = ClosedNow(run),
         new.label = run.label, new.faultActive = run.faultActive
  PROVE  Contained(new)
BY StillValid DEF Contained

LEMMA DeviceIsolatedContained ==
  ASSUME NEW run \in WellFormed, Contained(run), NEW d \in Switches, NEW t \in Times,
         NEW c \in CommandIds, CanOperateIsolationDevice(run, d, t)
  PROVE  Contained(DeviceIsolated(run, d, t, c))
<1> DEFINE moved == Operated(run, d, "OPEN", t)
           new == DeviceIsolated(run, d, t, c)
<1>1. /\ Continues(run, t, new)
      /\ new.label = IF FaultIsolated(moved, t) THEN "N2" ELSE "N1"
      /\ ClosedNow(new) = ClosedNow(run) \ {d}
  BY DeviceIsolatedType
<1>2. Continues(run, t, moved) /\ ClosedNow(moved) = ClosedNow(run) \ {d}
  BY OperatedType DEF SwitchState
<1> HIDE DEF new, moved
<1>3. ClosedNow(run) \subseteq NormalClosed \ {AffectedBreaker(run)}
  BY DEF CanOperateIsolationDevice, Contained
<1>4. FaultIsolated(moved, t) =>
        Incident(run.config, run.fault) \cap ClosedNow(moved) = {}
  BY <1>2, IsolatedIsOpen DEF FaultIsolated, Continues
<1>5. Contained(new)
  BY <1>1, <1>2, <1>3, <1>4, StillValid DEF Contained
<1> QED
  BY <1>5 DEF new

\* The breaker may be reclosed because it is no boundary of the fault: in
\* exploration the proposed topology proves it, formally it is assumed.
LEMMA SourceRestoredContained ==
  ASSUME NEW run \in WellFormed, Contained(run), NEW t \in Times, NEW c \in CommandIds,
         CanRestoreNormalSource(run, t)
  PROVE  Contained(SourceRestored(run, t, c))
<1> DEFINE d == AffectedBreaker(run)
           new == SourceRestored(run, t, c)
<1>1. /\ Continues(run, t, new) /\ new.label = "N3"
      /\ ClosedNow(new) = ClosedNow(run) \cup {d}
  BY SourceRestoredType
<1> HIDE DEF new
<1>2. Incident(run.config, run.fault) \cap ClosedNow(run) = {}
  BY DEF CanRestoreNormalSource, Contained
<1>3. d \notin Incident(run.config, run.fault)
  <2>1. CASE run.mode = "FORMAL"
    <3>1. run.fault = FormalFault /\ run.config \in Configs
      BY <2>1, Fields DEF Contained, ValidInitialisation
    <3> QED
      BY <3>1, ProtectionAssumption DEF ProtectionAssumption, AffectedBreaker
  <2>2. CASE run.mode # "FORMAL"
    <3> DEFINE point == [value |-> "CLOSED", quality |-> "GOOD", at |-> t,
                         revision |-> run.revision + 1]
               proposed == [run EXCEPT !.telemetry[d] = point]
    <3>1. FaultIsolated(proposed, t)
      BY <2>2 DEF CanRestoreNormalSource, RecloseAvailable
    <3>2. /\ proposed.config = run.config /\ proposed.fault = run.fault
          /\ proposed.telemetry = [run.telemetry EXCEPT ![d] = point]
      BY Fields DEF Run
    <3>3. d \in Switches /\ d \in DOMAIN run.telemetry
      BY Fields, AffectedBreakerType
    <3>4. proposed.telemetry[d].value = "CLOSED"
      BY <3>2, <3>3
    <3> HIDE DEF proposed, d
    <3>5. d \in ClosedNow(proposed)
      BY <3>3, <3>4 DEF ClosedNow
    <3>6. Incident(run.config, run.fault) \cap ClosedNow(proposed) = {}
      BY <3>1, <3>2, IsolatedIsOpen DEF FaultIsolated
    <3> QED
      BY <3>5, <3>6
  <2> QED
    BY <2>1, <2>2
<1>4. Contained(new)
  BY <1>1, <1>2, <1>3, StillValid DEF Contained
<1> QED
  BY <1>4 DEF new

LEMMA RestorationAssessedContained ==
  ASSUME NEW run \in WellFormed, Contained(run), NEW t \in Times, NEW c \in CommandIds,
         CanAssessRestoration(run, t)
  PROVE  Contained(RestorationAssessed(run, t, c))
<1> DEFINE new == RestorationAssessed(run, t, c)
<1>1. Continues(run, t, new) /\ new.label = "N4" /\ ClosedNow(new) = ClosedNow(run)
  BY RestorationAssessedType
<1> HIDE DEF new
<1>2. Incident(run.config, run.fault) \cap ClosedNow(run) = {}
  BY DEF CanAssessRestoration, Contained
<1>3. Contained(new)
  BY <1>1, <1>2, StillValid DEF Contained
<1> QED
  BY <1>3 DEF new

LEMMA RestorationExecutedContained ==
  ASSUME NEW run \in WellFormed, Contained(run), NEW t \in Times, NEW c \in CommandIds,
         NEW a, CanExecuteRestoration(run, a, t)
  PROVE  Contained(RestorationExecuted(run, a, t, c))
<1> DEFINE new == RestorationExecuted(run, a, t, c)
           closed == ClosedNow(run)
           cand == Candidate(run.config, closed, run.fault)
<1>1. /\ Continues(run, t, new) /\ new.label = "N5"
      /\ ClosedNow(new) = closed \cup {CandidateTie(run, a)}
  BY RestorationExecutedType
<1>2. /\ CandidateTie(run, a) = cand.tie /\ cand # NoCandidate
      /\ Isolated(run.config, Observe(run.telemetry, t), run.fault)
      /\ AlternateSourcePermissive(run.config, closed, cand)
  BY Executable
<1>3. Incident(run.config, run.fault) \cap closed = {}
  BY <1>2, IsolatedIsOpen
<1>4. cand.tie \notin Incident(run.config, run.fault)
  BY <1>2, <1>3, Fields, ClosedNowType, TieIsNoBoundary
<1> HIDE DEF new, cand
<1>5. Contained(new)
  BY <1>1, <1>2, <1>3, <1>4, StillValid DEF Contained
<1> QED
  BY <1>5 DEF new

\* Every command continues one open run, at a time not before its own, and
\* keeps it contained.
LEMMA RunCommandEffect ==
  ASSUME TypeInv, NEW r \in RunIds, Live(r), NEW t \in Times, NEW c \in CommandIds,
         RunCommand(r, t, c)
  PROVE  /\ Current(r, t)
         /\ \E new \in WellFormed :
              /\ runs' = [runs EXCEPT ![r] = new]
              /\ Continues(runs[r], t, new)
              /\ Contained(runs[r]) => Contained(new)
<1> DEFINE run == runs[r]
           Effect == \E new \in WellFormed :
                       /\ runs' = [runs EXCEPT ![r] = new]
                       /\ Continues(run, t, new)
                       /\ Contained(run) => Contained(new)
<1>0. run \in WellFormed
  BY LiveType
<1> HIDE DEF run
<1>1. ASSUME InitiateFault(r, t, c) PROVE Current(r, t) /\ Effect
  BY <1>0, <1>1, FaultInitiatedType, FaultInitiatedContained DEF InitiateFault, run
<1>2. ASSUME AcknowledgeAlarm(r, t, c) PROVE Current(r, t) /\ Effect
  BY <1>0, <1>2, AlarmAcknowledgedType, UnmovedContained DEF AcknowledgeAlarm, run
<1>3. ASSUME NEW d \in Switches, OperateIsolationDevice(r, d, t, c)
      PROVE  Current(r, t) /\ Effect
  BY <1>0, <1>3, DeviceIsolatedType, DeviceIsolatedContained
  DEF OperateIsolationDevice, run
<1>4. ASSUME RestoreNormalSource(r, t, c) PROVE Current(r, t) /\ Effect
  BY <1>0, <1>4, SourceRestoredType, SourceRestoredContained
  DEF RestoreNormalSource, run
<1>5. ASSUME AssessRestoration(r, t, c) PROVE Current(r, t) /\ Effect
  BY <1>0, <1>5, RestorationAssessedType, RestorationAssessedContained
  DEF AssessRestoration, run
<1>6. ASSUME NEW a, ExecuteRestoration(r, a, t, c) PROVE Current(r, t) /\ Effect
  BY <1>0, <1>6, RestorationExecutedType, RestorationExecutedContained
  DEF ExecuteRestoration, run
<1>7. ASSUME NEW a, InvalidateAssessment(r, a, t, c) PROVE Current(r, t) /\ Effect
  BY <1>0, <1>7, AssessmentLapsedType, UnmovedContained
  DEF InvalidateAssessment, ExecutionRequested, run
<1> QED
  BY <1>1, <1>2, <1>3, <1>4, <1>5, <1>6, <1>7 DEF RunCommand, run

\* Closing keeps a run contained, and a new run starts contained.
LEMMA ClosedContained ==
  ASSUME NEW run \in WellFormed, Contained(run), NEW t \in Times, NEW c \in CommandIds
  PROVE  Contained(Closed(run, t, c))
BY ClosedType, UnmovedContained

LEMMA NewRunContained ==
  ASSUME NEW mode \in Modes, NEW g \in Configs, NEW fault \in Sections,
         ValidInitialisation(mode, g, fault), NEW t \in Times, NEW c \in CommandIds
  PROVE  Contained(NewRun(mode, g, fault, t, c))
<1> DEFINE new == NewRun(mode, g, fault, t, c)
<1>1. /\ new.mode = mode /\ new.config = g /\ new.fault = fault
      /\ new.label = "N0" /\ ~ new.faultActive
  BY NewRunType
<1>2. ClosedNow(new) = NormalClosed
  BY NewRunType
<1> HIDE DEF new
<1>3. Contained(new)
  BY <1>1, <1>2 DEF Contained
<1> QED
  BY <1>3 DEF new

\* One run is closed as of time u and another is created.
Succeeds(r, n, u) ==
  /\ Mutable(r) /\ ~ Live(n)
  /\ \E closed \in WellFormed, new \in WellFormed :
       /\ runs' = [runs EXCEPT ![r] = closed, ![n] = new]
       /\ closed.status = "CLOSED" /\ Continues(runs[r], u, closed)
       /\ runs[r].time <= u
       /\ Contained(runs[r]) => Contained(closed) /\ Contained(new)

LEMMA ResetEffect ==
  ASSUME TypeInv, NEW r \in RunIds, NEW n \in RunIds, NEW t \in Times,
         NEW c \in CommandIds, ResetRun(r, n, t, c)
  PROVE  Succeeds(r, n, t)
<1> DEFINE run == runs[r]
           closed == Closed(run, t, c)
           new == NewRun(run.mode, run.config, run.fault, run.initial, c)
<1>1. Mutable(r) /\ run \in WellFormed /\ t >= run.time /\ ~ Live(n)
        /\ runs' = [runs EXCEPT ![r] = closed, ![n] = new]
  BY LiveType DEF ResetRun, Current, Mutable
<1> HIDE DEF run
<1>2. /\ run.mode \in Modes /\ run.config \in Configs /\ run.fault \in Sections
      /\ run.initial \in Times /\ run.time \in Nat /\ t \in Nat
  BY <1>1, Fields, ScenarioAssumption DEF ScenarioAssumption
<1>3. closed \in WellFormed /\ closed.status = "CLOSED" /\ Continues(run, t, closed)
  BY <1>1, ClosedType
<1>4. new \in WellFormed
  BY <1>2, NewRunType
<1>5. Contained(run) => Contained(closed) /\ Contained(new)
  <2> SUFFICES ASSUME Contained(run) PROVE Contained(closed) /\ Contained(new)
    OBVIOUS
  <2>1. Contained(closed)
    BY <1>1, ClosedContained
  <2>2. ValidInitialisation(run.mode, run.config, run.fault)
    BY DEF Contained
  <2>3. Contained(new)
    BY <1>2, <2>2, NewRunContained
  <2> QED
    BY <2>1, <2>3
<1> HIDE DEF closed, new
<1> QED
  BY <1>1, <1>2, <1>3, <1>4, <1>5 DEF Succeeds, run

LEMMA ReplaceEffect ==
  ASSUME TypeInv, NEW r \in RunIds, NEW n \in RunIds, NEW mode \in Modes,
         NEW g \in Configs, NEW fault \in Sections, NEW t \in Times,
         NEW c \in CommandIds, ReplaceRun(r, n, mode, g, fault, t, c)
  PROVE  Succeeds(r, n, runs[r].time)
<1> DEFINE run == runs[r]
           closed == Closed(run, run.time, c)
           new == NewRun(mode, g, fault, t, c)
<1>1. /\ Mutable(r) /\ run \in WellFormed /\ ~ Live(n)
      /\ ValidInitialisation(mode, g, fault)
      /\ runs' = [runs EXCEPT ![r] = closed, ![n] = new]
  BY LiveType DEF ReplaceRun, Mutable
<1> HIDE DEF run
<1>2. run.time \in Times /\ run.time \in Nat
  BY <1>1, Fields, ScenarioAssumption DEF ScenarioAssumption
<1>3. closed \in WellFormed /\ closed.status = "CLOSED" /\ Continues(run, run.time, closed)
  BY <1>1, <1>2, ClosedType
<1>4. new \in WellFormed /\ Contained(new)
  BY <1>1, NewRunType, NewRunContained
<1>5. Contained(run) => Contained(closed)
  BY <1>1, <1>2, ClosedContained
<1>6. run.time <= run.time
  BY <1>2
<1> HIDE DEF closed, new
<1>7. \E x \in WellFormed, y \in WellFormed :
        /\ runs' = [runs EXCEPT ![r] = x, ![n] = y]
        /\ x.status = "CLOSED" /\ Continues(run, run.time, x)
        /\ Contained(run) => Contained(x) /\ Contained(y)
  BY <1>1, <1>3, <1>4, <1>5
<1> QED
  BY <1>1, <1>6, <1>7 DEF Succeeds, run

\* Every step opens a run, continues one, or closes one for another.
LEMMA Steps ==
  ASSUME TypeInv, Next
  PROVE  \/ \E n \in RunIds : \E new \in WellFormed :
              /\ \A r \in RunIds : ~ Mutable(r)
              /\ ~ Live(n) /\ Contained(new)
              /\ runs' = [runs EXCEPT ![n] = new]
         \/ \E r \in RunIds, t \in Times : \E new \in WellFormed :
              /\ Current(r, t)
              /\ runs' = [runs EXCEPT ![r] = new]
              /\ Continues(runs[r], t, new)
              /\ Contained(runs[r]) => Contained(new)
         \/ \E r \in RunIds, n \in RunIds : \E u : Succeeds(r, n, u)
<1>1. PICK t \in Times, c \in CommandIds :
        \/ \E n \in RunIds, mode \in Modes, g \in Configs, fault \in Sections :
             \/ Initialise(n, mode, g, fault, t, c)
             \/ \E r \in RunIds : ReplaceRun(r, n, mode, g, fault, t, c)
        \/ \E r \in RunIds : \/ Live(r) /\ RunCommand(r, t, c)
                             \/ \E n \in RunIds : ResetRun(r, n, t, c)
  BY DEF Next
<1>2. ASSUME NEW n \in RunIds, NEW mode \in Modes, NEW g \in Configs,
             NEW fault \in Sections, Initialise(n, mode, g, fault, t, c)
      PROVE  \E new \in WellFormed :
               /\ \A r \in RunIds : ~ Mutable(r)
               /\ ~ Live(n) /\ Contained(new)
               /\ runs' = [runs EXCEPT ![n] = new]
  BY <1>2, NewRunType, NewRunContained DEF Initialise
<1>3. ASSUME NEW r \in RunIds, Live(r), RunCommand(r, t, c)
      PROVE  \E new \in WellFormed :
               /\ Current(r, t)
               /\ runs' = [runs EXCEPT ![r] = new]
               /\ Continues(runs[r], t, new)
               /\ Contained(runs[r]) => Contained(new)
  BY <1>3, RunCommandEffect
<1> QED
  BY <1>1, <1>2, <1>3, ResetEffect, ReplaceEffect

-----------------------------------------------------------------------------
(* The theorems.                                                           *)

LEMMA ContainedStep ==
  ASSUME TypeInv, ContainedInv, [Next]_vars PROVE ContainedInv'
<1>1. CASE UNCHANGED vars
  BY <1>1 DEF ContainedInv, Live, vars
<1>2. CASE Next
  <2>0. runs \in [RunIds -> WellFormed \cup {NoRun}]
    BY DEF TypeInv
  <2>1. ASSUME NEW n \in RunIds, NEW new \in WellFormed, Contained(new),
               runs' = [runs EXCEPT ![n] = new]
        PROVE  ContainedInv'
    BY <2>0, <2>1 DEF ContainedInv, Live
  <2>2. ASSUME NEW r \in RunIds, NEW n \in RunIds, NEW u, Succeeds(r, n, u)
        PROVE  ContainedInv'
    BY <2>0, <2>2 DEF Succeeds, Mutable, ContainedInv, Live
  <2> QED
    BY <1>2, <2>1, <2>2, Steps DEF ContainedInv, Current, Mutable
<1> QED
  BY <1>1, <1>2

\* The stages of the workflow contain the fault.
LEMMA ContainedInvariant == Spec => []ContainedInv
<1>1. Init => ContainedInv
  BY DEF Init, ContainedInv, Live
<1> QED
  BY <1>1, ContainedStep, TypeInvariant, PTL DEF Spec

\* While a fault is active no step of any handler energises the faulted
\* section, on any network that meets NetworkAssumption and
\* ProtectionAssumption.
THEOREM FaultedSectionStaysDead == Spec => []FaultedSectionDead
<1>1. TypeInv /\ ContainedInv => FaultedSectionDead
  BY LiveType, ContainedIsDead DEF ContainedInv, FaultedSectionDead, LiveRuns
<1> QED
  BY <1>1, TypeInvariant, ContainedInvariant, PTL

LEMMA OneMutableStep ==
  ASSUME TypeInv, OneMutableRun, [Next]_vars PROVE OneMutableRun'
<1>1. CASE UNCHANGED vars
  BY <1>1 DEF OneMutableRun, Mutable, Live, vars
<1>2. CASE Next
  <2>0. runs \in [RunIds -> WellFormed \cup {NoRun}]
    BY DEF TypeInv
  <2>1. ASSUME NEW n \in RunIds, NEW new \in WellFormed,
               \A r \in RunIds : ~ Mutable(r),
               runs' = [runs EXCEPT ![n] = new]
        PROVE  OneMutableRun'
    BY <2>0, <2>1 DEF OneMutableRun, Mutable, Live
  <2>2. ASSUME NEW r \in RunIds, NEW t, NEW new \in WellFormed, Current(r, t),
               runs' = [runs EXCEPT ![r] = new]
        PROVE  OneMutableRun'
    BY <2>0, <2>2 DEF OneMutableRun, Current, Mutable, Live
  <2>3. ASSUME NEW r \in RunIds, NEW n \in RunIds, NEW u, Succeeds(r, n, u)
        PROVE  OneMutableRun'
    BY <2>0, <2>3 DEF Succeeds, OneMutableRun, Mutable, Live
  <2> QED
    BY <1>2, <2>1, <2>2, <2>3, Steps
<1> QED
  BY <1>1, <1>2

\* At most one run is mutable, through resets and replacements.
THEOREM AtMostOneMutableRun == Spec => []OneMutableRun
<1>1. Init => OneMutableRun
  BY DEF Init, OneMutableRun, Mutable, Live
<1> QED
  BY <1>1, OneMutableStep, TypeInvariant, PTL DEF Spec

\* A run that is open and moves forward in time preserves its history.
LEMMA ContinuesPreserves ==
  ASSUME NEW run, NEW t, NEW new, Continues(run, t, new),
         run.status # "CLOSED", run.time <= t
  PROVE  Preserved(run, new)
BY DEF Continues, Preserved

LEMMA SelfPreserved ==
  ASSUME NEW run \in WellFormed PROVE Preserved(run, run)
<1>1. run.time \in Nat
  BY Fields, ScenarioAssumption DEF ScenarioAssumption
<1>2. run.time <= run.time
  BY <1>1
<1> QED
  BY <1>2, ContinuesItself DEF Preserved

LEMMA HistoryStep ==
  ASSUME TypeInv, Next, NEW r \in RunIds, Live(r)
  PROVE  runs'[r] # NoRun /\ Preserved(runs[r], runs'[r])
<1>0. runs \in [RunIds -> WellFormed \cup {NoRun}] /\ runs[r] \in WellFormed
  BY LiveType DEF TypeInv
<1>1. Preserved(runs[r], runs[r])
  BY <1>0, SelfPreserved
<1>2. ASSUME NEW n \in RunIds, NEW new \in WellFormed, ~ Live(n),
             runs' = [runs EXCEPT ![n] = new]
      PROVE  runs'[r] = runs[r]
  BY <1>0, <1>2 DEF Live
<1>3. ASSUME NEW s \in RunIds, NEW t \in Times, NEW new \in WellFormed, Current(s, t),
             runs' = [runs EXCEPT ![s] = new], Continues(runs[s], t, new)
      PROVE  runs'[r] # NoRun /\ Preserved(runs[r], runs'[r])
  <2>1. runs[s].status # "CLOSED" /\ runs[s].time <= t
    <3>1. Live(s) /\ t >= runs[s].time /\ runs[s].status # "CLOSED"
      BY <1>3 DEF Current, Mutable
    <3>2. t \in Nat /\ runs[s].time \in Nat
      BY <3>1, LiveType, Fields, ScenarioAssumption DEF ScenarioAssumption
    <3> QED
      BY <3>1, <3>2
  <2>2. Preserved(runs[s], new)
    BY <1>3, <2>1, ContinuesPreserves
  <2>3. r = s => runs'[r] = new
    BY <1>0, <1>3
  <2>4. r # s => runs'[r] = runs[r]
    BY <1>0, <1>3
  <2> QED
    BY <1>0, <1>1, <2>2, <2>3, <2>4, NotARun
<1>4. ASSUME NEW s \in RunIds, NEW n \in RunIds, NEW u, Succeeds(s, n, u)
      PROVE  runs'[r] # NoRun /\ Preserved(runs[r], runs'[r])
  <2>1. PICK closed \in WellFormed, new \in WellFormed :
          /\ runs' = [runs EXCEPT ![s] = closed, ![n] = new]
          /\ Continues(runs[s], u, closed) /\ runs[s].time <= u
    BY <1>4 DEF Succeeds
  <2>2. runs[s].status # "CLOSED" /\ Live(s) /\ ~ Live(n)
    BY <1>4 DEF Succeeds, Mutable
  <2>3. Preserved(runs[s], closed)
    BY <2>1, <2>2, ContinuesPreserves
  <2>4. r # n /\ s # n
    BY <2>2
  <2>5. r = s => runs'[r] = closed
    BY <1>0, <2>1, <2>4
  <2>6. r # s => runs'[r] = runs[r]
    BY <1>0, <2>1, <2>4
  <2> QED
    BY <1>0, <1>1, <2>3, <2>5, <2>6, NotARun
<1> QED
  BY <1>0, <1>1, <1>2, <1>3, <1>4, Steps, NotARun

\* Closed runs never change, and open ones only extend their logs.
THEOREM HistoryIsPreserved == Spec => HistoryPreserved
<1>1. ASSUME TypeInv, [Next]_vars
      PROVE  [\A r \in RunIds :
                Live(r) => runs[r]' # NoRun /\ Preserved(runs[r], runs[r]')]_vars
  BY <1>1, HistoryStep
<1> QED
  BY <1>1, TypeInvariant, PTL DEF Spec, HistoryPreserved
=============================================================================
