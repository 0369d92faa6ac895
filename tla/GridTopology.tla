---------------------------- MODULE GridTopology ----------------------------
(***************************************************************************)
(* The engineering calculations of the demonstrator: which sections a set  *)
(* of closed switching devices energises, whether the result is radial,    *)
(* how much load each feeder carries, when a faulted section is proven     *)
(* isolated, and how a tie-close restoration candidate is found and        *)
(* judged.  Translated from modules/topology/service.py,                   *)
(* modules/restoration/service.py, modules/outage/service.py and           *)
(* modules/telemetry/service.py.                                           *)
(*                                                                         *)
(* A configuration is a graph: switching devices are its edges, sections   *)
(* its nodes.  Ends[g][d] is the set of sections device d touches in       *)
(* configuration g; the other terminal of a feeder's source breaker is the *)
(* zone substation, which topology/service.py keeps out of the             *)
(* distribution graph, so a breaker touches one section.                   *)
(*                                                                         *)
(* The services are stateless, so this module has no variables.  What a    *)
(* breaker leads to depends only on which devices are closed: FedFrom is a *)
(* function, a table over SUBSET Switches that TLC computes once.          *)
(*                                                                         *)
(* Definitions whose names end in Mutant are not part of the model: each   *)
(* is a faulty form of the definition that follows it, substituted for it  *)
(* to see that a property notices.                                         *)
(***************************************************************************)
EXTENDS Naturals, Sequences, FiniteSetsExt

CONSTANTS
  Configs,           \* the immutable configuration packages (v1.0, v1.1)
  Sections,          \* distribution sections
  Feeders,           \* feeders
  Switches,          \* switching devices: source breakers, sectionalisers, ties
  Ties,              \* the TIE_SWITCH devices
  Ends,              \* Ends[g][d]: the sections that device d touches in g
  FeederOf,          \* the feeder a section belongs to
  BreakerOf,         \* a feeder's source breaker
  AvailableFeeders,  \* feeders whose source is AVAILABLE
  NormalClosed,      \* the devices whose normal state is CLOSED
  Monitored,         \* the devices whose telemetry an assessment requires
  IdRank,            \* position of a device's identifier in sorted order
  Load,              \* kW of a section
  Capacity,          \* kW a feeder may carry
  FreshLimit         \* MAXIMUM_TELEMETRY_AGE_MS, in the model's time units

ASSUME NetworkAssumption ==
  /\ Ends \in [Configs -> [Switches -> SUBSET Sections]]
  /\ \A g \in Configs, d \in Switches : \E s, t \in Sections : Ends[g][d] = {s, t}
  /\ FeederOf \in [Sections -> Feeders]
  /\ BreakerOf \in [Feeders -> Switches]
  /\ Ties \subseteq Switches
  /\ AvailableFeeders \subseteq Feeders
  /\ NormalClosed \subseteq Switches
  /\ Monitored \subseteq Switches
  /\ IdRank \in [Switches -> Nat]
  /\ \A d, e \in Switches : IdRank[d] = IdRank[e] => d = e
  /\ Load \in [Sections -> Nat]
  /\ Capacity \in [Feeders -> Nat]
  /\ FreshLimit \in Nat

\* A feeder's breaker is of a type of its own, is normally closed, and the ties
\* are monitored, as both packages have it.
ASSUME DeviceAssumption ==
  /\ \A f \in Feeders : BreakerOf[f] \in NormalClosed \ Ties
  /\ Ties \subseteq Monitored

\* A package lists its sections and its devices.
ASSUME FiniteAssumption == IsFiniteSet(Sections) /\ IsFiniteSet(Switches)

SwitchState == {"OPEN", "CLOSED"}
Quality == {"GOOD", "UNCERTAIN", "BAD"}
FreshnessStatus == {"FRESH", "STALE", "INVALID_TIMESTAMP"}

\* What the topology engine is told about a device (BoundaryObservation).
Observation == [value : SwitchState, quality : Quality, freshness : FreshnessStatus]

-----------------------------------------------------------------------------
(* Energisation.                                                           *)

\* Ties forgotten among the boundaries.
IncidentMutant(g, s) == {d \in Switches \ Ties : s \in Ends[g][d]}

Incident(g, s) == {d \in Switches : s \in Ends[g][d]}

\* A closed tie does not conduct.
EnclosedMutant(g, c) ==
  {S \in SUBSET Sections :
     \A d \in c \ Ties : Ends[g][d] \cap S # {} => Ends[g][d] \subseteq S}

\* A set of sections no closed device leads out of.
Enclosed(g, c) ==
  {S \in SUBSET Sections :
     \A d \in c : Ends[g][d] \cap S # {} => Ends[g][d] \subseteq S}

\* The sections some path of closed devices joins to a section of `from`:
\* those that are in every enclosed set holding all of `from`.
Reach(g, c, from) ==
  LET E == {S \in Enclosed(g, c) : from \subseteq S}
  IN  {s \in Sections : \A S \in E : s \in S}

ActiveFeeders(c) == {f \in AvailableFeeders : BreakerOf[f] \in c}

\* The sections a feeder's breaker leads to, whether or not it injects.
FedFrom ==
  [g \in Configs |-> [c \in SUBSET Switches |->
     [f \in Feeders |-> Reach(g, c, Ends[g][BreakerOf[f]])]]]

\* source_feeder_ids of every section, by feeder: empty for a feeder whose
\* source is unavailable or whose breaker is open.
SuppliedBy(g, c, f) == IF f \in ActiveFeeders(c) THEN FedFrom[g][c][f] ELSE {}

Energised(g, c) == UNION {SuppliedBy(g, c, f) : f \in Feeders}

-----------------------------------------------------------------------------
(* Radiality and feeder loads.                                             *)

\* A second injection into a tree goes unnoticed.
RadialComponentMutant(g, c, f) ==
  LET part  == FedFrom[g][c][f]
      parts == {d \in c : Ends[g][d] \cap part # {}}
  IN  MapThenSumSet(LAMBDA d : Cardinality(Ends[g][d]), parts) + 1
        = Cardinality(part) + Cardinality(parts)

\* The connected component a feeder injects into is a tree with no second
\* injection.  Its nodes are its sections and the closed devices that touch
\* them; a device contributes one edge for each section it touches.
RadialComponent(g, c, f) ==
  LET part  == FedFrom[g][c][f]
      parts == {d \in c : Ends[g][d] \cap part # {}}
      edges == MapThenSumSet(LAMBDA d : Cardinality(Ends[g][d]), parts)
  IN  /\ edges + 1 = Cardinality(part) + Cardinality(parts)
      /\ \A other \in ActiveFeeders(c) : BreakerOf[other] \in parts => other = f

Radial(g, c) == \A f \in ActiveFeeders(c) : RadialComponent(g, c, f)

\* The load of a feeder can be attributed when it shares no section.
LoadAttributable(g, c, f) ==
  \A other \in Feeders \ {f} :
     SuppliedBy(g, c, f) \cap SuppliedBy(g, c, other) = {}

LoadOf(S) == MapThenSumSet(LAMBDA s : Load[s], S)

-----------------------------------------------------------------------------
(* Telemetry validity and the isolation proof (DC-003).                    *)

\* TelemetryValidityService.classify, without a clock of its own.
Freshness(now, at) ==
  IF now < at THEN "INVALID_TIMESTAMP"
  ELSE IF now - at <= FreshLimit THEN "FRESH" ELSE "STALE"

Trustworthy(o) == o.quality = "GOOD" /\ o.freshness = "FRESH"
ProvenOpen(o) == Trustworthy(o) /\ o.value = "OPEN"
ProvenClosed(o) == Trustworthy(o) /\ o.value = "CLOSED"

ClosedIn(obs) == {d \in Switches : obs[d].value = "CLOSED"}

\* One open boundary is taken for proof.
IsolatedMutant(g, obs, s) ==
  /\ \E d \in Incident(g, s) : ProvenOpen(obs[d])
  /\ s \notin Energised(g, ClosedIn(obs))

\* Every incident boundary is proven open by trustworthy evidence, and no
\* active source path to the section remains.
Isolated(g, obs, s) ==
  /\ Incident(g, s) # {}
  /\ \A d \in Incident(g, s) : ProvenOpen(obs[d])
  /\ s \notin Energised(g, ClosedIn(obs))

-----------------------------------------------------------------------------
(* Restoration: discovery of the candidate, permissives and outcome.       *)

NoCandidate == [tie |-> "NONE", feeder |-> "NONE", sections |-> {}]

\* discover_candidate considers a tie with exactly one side on the faulted
\* feeder; the other side names the alternate feeder.
AffectedSides(g, tie, fault) ==
  {s \in Ends[g][tie] : FeederOf[s] = FeederOf[fault]}
AlternateFeeder(g, tie, fault) ==
  FeederOf[CHOOSE s \in Ends[g][tie] : s \notin AffectedSides(g, tie, fault)]

\* The healthy dead sections of the faulted feeder that the alternate feeder
\* would reach if the tie and its own breaker were closed (structurally:
\* its source is taken to be available).
ProposedSections(g, c, tie, fault) ==
  LET alternate == AlternateFeeder(g, tie, fault)
      structural == c \cup {tie, BreakerOf[alternate]}
  IN  {s \in FedFrom[g][structural][alternate] :
         /\ FeederOf[s] = FeederOf[fault]
         /\ s # fault
         /\ s \notin Energised(g, c)}

UsableTies(g, c, fault) ==
  {tie \in Ties : /\ Cardinality(AffectedSides(g, tie, fault)) = 1
                  /\ Ends[g][tie] # AffectedSides(g, tie, fault)
                  /\ ProposedSections(g, c, tie, fault) # {}}

\* Ties are tried in the order of their identifiers.
FirstOf(ties) == CHOOSE x \in ties : \A y \in ties : IdRank[x] <= IdRank[y]

CandidateAt(g, c, fault, tie) ==
  [tie |-> tie,
   feeder |-> AlternateFeeder(g, tie, fault),
   sections |-> ProposedSections(g, c, tie, fault)]

Candidate(g, c, fault) ==
  LET usable == UsableTies(g, c, fault)
  IN  IF usable = {} THEN NoCandidate
      ELSE CandidateAt(g, c, fault, FirstOf(usable))

IsolationPermissive(g, obs, fault) == Isolated(g, obs, fault)

AlternateSourcePermissive(g, c, cand) ==
  /\ cand.feeder \in AvailableFeeders
  /\ BreakerOf[cand.feeder] \in c
  /\ cand.sections \subseteq SuppliedBy(g, c \cup {cand.tie}, cand.feeder)

RadialPermissive(g, c, cand) == Radial(g, c \cup {cand.tie})

TelemetrySufficient(obs) == \A d \in Monitored : Trustworthy(obs[d])

\* The load the feeder already carries is left out.
CapacityPermissiveMutant(g, c, cand) ==
  LoadOf(cand.sections) <= Capacity[cand.feeder]

CapacityPermissive(g, c, cand) ==
  LoadOf(SuppliedBy(g, c, cand.feeder)) + LoadOf(cand.sections)
    <= Capacity[cand.feeder]

Outcomes == {"NO_CANDIDATE", "BLOCKED", "REJECTED", "PERMITTED"}

\* RestorationService.assess: insufficient information blocks before any
\* failed permissive rejects.
OutcomeOf(g, obs, c, fault, cand) ==
  IF cand = NoCandidate THEN "NO_CANDIDATE"
  ELSE IF ~ (TelemetrySufficient(obs) /\ LoadAttributable(g, c, cand.feeder))
       THEN "BLOCKED"
  ELSE IF /\ IsolationPermissive(g, obs, fault)
          /\ AlternateSourcePermissive(g, c, cand)
          /\ RadialPermissive(g, c, cand)
          /\ CapacityPermissive(g, c, cand)
       THEN "PERMITTED" ELSE "REJECTED"

AssessmentOutcome(g, obs, fault) ==
  OutcomeOf(g, obs, ClosedIn(obs), fault, Candidate(g, ClosedIn(obs), fault))

=============================================================================
