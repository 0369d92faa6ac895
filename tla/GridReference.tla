----------------------------- MODULE GridReference -----------------------------
(***************************************************************************)
(* The engineering calculations of GridTopology judged against reference   *)
(* definitions, for every combination of open and closed devices and not   *)
(* only the ones the workflow reaches: the services accept any.  A state   *)
(* is a network; a step operates one device.                               *)
(***************************************************************************)
EXTENDS GridTopology

\* What a tie can add to a feeder is of one feeder: while the feeder reaches one
\* end of it and not the other, whatever else is open or closed, the other end
\* hangs together with sections of its own feeder only.  Both packages have a
\* single tie, and are of that kind.
ASSUME TieAssumption ==
  \A g \in Configs, c \in SUBSET Switches, f \in Feeders, tie \in Ties :
    \A s, t \in Ends[g][tie] :
      s \in FedFrom[g][c][f] /\ t \notin FedFrom[g][c][f] =>
        \A x, y \in Reach(g, c, {t}) : FeederOf[x] = FeederOf[y]

VARIABLES config, closed

vars == <<config, closed>>

\* The devices as an operation leaves them: observed GOOD and FRESH.
Observed(c) ==
  [d \in Switches |-> [value |-> IF d \in c THEN "CLOSED" ELSE "OPEN",
                       quality |-> "GOOD", freshness |-> "FRESH"]]

Operate(d) ==
  /\ closed' = IF d \in closed THEN closed \ {d} ELSE closed \cup {d}
  /\ UNCHANGED config

Init == config \in Configs /\ closed = NormalClosed
Next == \E d \in Switches : Operate(d)
Spec == Init /\ [][Next]_vars

-----------------------------------------------------------------------------
(* Reference definitions.                                                  *)

\* The sections joined to `from` by at most n closed devices.
Joined(g, c, from) ==
  LET near[n \in Nat] ==
        IF n = 0 THEN from
        ELSE LET nearer == near[n - 1]
                 crossed == {d \in c : Ends[g][d] \cap nearer # {}}
             IN  nearer \cup UNION {Ends[g][d] : d \in crossed}
  IN  near[Cardinality(Sections)]

\* topology/service.py walks the graph breadth first from every breaker that
\* injects: a section is supplied by a feeder exactly when a walk of closed
\* devices joins it to the feeder's closed breaker at an available source.
SupplyIsAWalk ==
  \A f \in Feeders :
    SuppliedBy(config, closed, f) =
      IF f \in ActiveFeeders(closed)
      THEN Joined(config, closed, Ends[config][BreakerOf[f]]) ELSE {}

\* The code counts nodes and edges; radial means that no section has two
\* sources and that every closed device of a supplied part is the only way
\* between its two ends, so that opening it would cut supply.
RadialMeansOneWay ==
  Radial(config, closed) <=>
    /\ \A f, h \in ActiveFeeders(closed) :
         f # h => SuppliedBy(config, closed, f) \cap SuppliedBy(config, closed, h) = {}
    /\ \A d \in closed :
         \A s, t \in Ends[config][d] :
           s # t /\ s \in Energised(config, closed)
             => t \notin Joined(config, closed \ {d}, {s})

\* RestorationService judges a candidate on the network before the tie closes.
\* If it says PERMITTED, closing the tie energises the candidate's sections
\* and nothing else, so the load it compared with the capacity is the load the
\* feeder will carry; the network is radial and the faulted section dead.
PermittedIsExact ==
  \A fault \in Sections :
    AssessmentOutcome(config, Observed(closed), fault) = "PERMITTED" =>
      LET cand == Candidate(config, closed, fault)
          after == closed \cup {cand.tie}
      IN  /\ Energised(config, after) = Energised(config, closed) \cup cand.sections
          /\ LoadOf(SuppliedBy(config, after, cand.feeder)) <= Capacity[cand.feeder]
          /\ Radial(config, after)
          /\ fault \notin Energised(config, after)

\* An isolation proof rests on the section's own boundaries: whatever else is
\* operated, it stands until one of them is.
IsolationOutlastsOthers ==
  [][\A s \in Sections :
       /\ Isolated(config, Observed(closed), s)
       /\ \A d \in Switches :
            s \in Ends[config][d] => (d \in closed <=> d \in closed')
       => Isolated(config', Observed(closed'), s)]_vars
=============================================================================
