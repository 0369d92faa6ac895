------------------------------ MODULE GridProofs ------------------------------
(***************************************************************************)
(* What GridTopology's calculations guarantee on every network: supply     *)
(* grows with the closed devices, a section whose boundaries are all open  *)
(* is dead, a candidate's tie, once found to supply the candidate, is not  *)
(* a boundary of the faulted section, loads add up, and closing a tie that *)
(* the permissives admit overloads no feeder.                              *)
(***************************************************************************)
EXTENDS GridTopology, FiniteSetTheorems, WellFoundedInduction, TLAPS

\* Reach is an enclosed set that holds its origins.
LEMMA ReachEnclosed ==
  ASSUME NEW g \in Configs, NEW c \in SUBSET Switches, NEW from \in SUBSET Sections
  PROVE  /\ Reach(g, c, from) \in Enclosed(g, c)
         /\ from \subseteq Reach(g, c, from)
<1> DEFINE E == {S \in Enclosed(g, c) : from \subseteq S}
           R == Reach(g, c, from)
<1>1. R = {s \in Sections : \A S \in E : s \in S}
  BY DEF Reach
<1>2. from \subseteq R
  BY <1>1
<1>3. ASSUME NEW d \in c, Ends[g][d] \cap R # {}
      PROVE  Ends[g][d] \subseteq R
  <2>1. \A S \in E : Ends[g][d] \subseteq S
    BY <1>1, <1>3 DEF Enclosed
  <2>2. Ends[g][d] \subseteq Sections
    BY NetworkAssumption DEF NetworkAssumption
  <2> QED
    BY <1>1, <2>1, <2>2
<1> QED
  BY <1>1, <1>2, <1>3 DEF Enclosed

\* It is the least one.
LEMMA ReachLeast ==
  ASSUME NEW g \in Configs, NEW c \in SUBSET Switches, NEW from \in SUBSET Sections,
         NEW S \in Enclosed(g, c), from \subseteq S
  PROVE  Reach(g, c, from) \subseteq S
BY DEF Reach

\* Closing devices only adds to what is reached.
LEMMA ReachMonotone ==
  ASSUME NEW g \in Configs, NEW c \in SUBSET Switches, NEW d \in SUBSET Switches,
         c \subseteq d, NEW from \in SUBSET Sections
  PROVE  Reach(g, c, from) \subseteq Reach(g, d, from)
<1>1. Reach(g, d, from) \in Enclosed(g, c)
  BY ReachEnclosed DEF Enclosed
<1> QED
  BY <1>1, ReachEnclosed, ReachLeast

LEMMA SuppliedByReach ==
  ASSUME NEW g \in Configs, NEW c \in SUBSET Switches, NEW f \in Feeders
  PROVE  /\ Ends[g][BreakerOf[f]] \in SUBSET Sections
         /\ FedFrom[g][c][f] = Reach(g, c, Ends[g][BreakerOf[f]])
         /\ f \in ActiveFeeders(c) => SuppliedBy(g, c, f) = FedFrom[g][c][f]
         /\ SuppliedBy(g, c, f) \subseteq Sections
<1>1. Ends[g][BreakerOf[f]] \in SUBSET Sections
  BY NetworkAssumption DEF NetworkAssumption
<1>2. FedFrom[g][c][f] = Reach(g, c, Ends[g][BreakerOf[f]])
  BY DEF FedFrom
<1>3. Reach(g, c, Ends[g][BreakerOf[f]]) \subseteq Sections
  BY DEF Reach
<1> QED
  BY <1>1, <1>2, <1>3 DEF SuppliedBy

LEMMA EnergisedType ==
  ASSUME NEW g \in Configs, NEW c \in SUBSET Switches
  PROVE  Energised(g, c) \subseteq Sections
BY SuppliedByReach DEF Energised

\* Closing devices only adds to what is energised.
THEOREM EnergisedMonotone ==
  ASSUME NEW g \in Configs, NEW c \in SUBSET Switches, NEW d \in SUBSET Switches,
         c \subseteq d
  PROVE  Energised(g, c) \subseteq Energised(g, d)
<1>1. ASSUME NEW f \in Feeders PROVE SuppliedBy(g, c, f) \subseteq SuppliedBy(g, d, f)
  <2>1. f \in ActiveFeeders(c) => f \in ActiveFeeders(d)
    BY DEF ActiveFeeders
  <2>2. FedFrom[g][c][f] \subseteq FedFrom[g][d][f]
    BY SuppliedByReach, ReachMonotone
  <2> QED
    BY <2>1, <2>2 DEF SuppliedBy
<1> QED
  BY <1>1 DEF Energised

\* A section whose boundary devices are all open is dead.
THEOREM OpenBoundariesKill ==
  ASSUME NEW g \in Configs, NEW c \in SUBSET Switches, NEW s \in Sections,
         Incident(g, s) \cap c = {}
  PROVE  s \notin Energised(g, c)
<1>1. ASSUME NEW f \in ActiveFeeders(c) PROVE s \notin SuppliedBy(g, c, f)
  <2>1. f \in Feeders /\ BreakerOf[f] \in c /\ BreakerOf[f] \in Switches
    BY <1>1, NetworkAssumption DEF ActiveFeeders, NetworkAssumption
  <2>2. s \notin Ends[g][BreakerOf[f]]
    BY <2>1 DEF Incident
  <2>3. Sections \ {s} \in Enclosed(g, c)
    <3>1. \A d \in c : s \notin Ends[g][d]
      BY DEF Incident
    <3> QED
      BY <3>1, NetworkAssumption DEF Enclosed, NetworkAssumption
  <2>4. FedFrom[g][c][f] \subseteq Sections \ {s}
    BY <2>1, <2>2, <2>3, SuppliedByReach, ReachLeast
  <2> QED
    BY <2>1, <2>4, SuppliedByReach
<1> QED
  BY <1>1 DEF Energised, SuppliedBy

\* If the boundaries of a dead section are open, closing one of them supplies
\* nothing else that an active feeder did not supply before.
LEMMA NothingThroughTheFault ==
  ASSUME NEW g \in Configs, NEW c \in SUBSET Switches, NEW s \in Sections,
         Incident(g, s) \cap c = {}, NEW tie \in Incident(g, s),
         NEW f \in ActiveFeeders(c)
  PROVE  FedFrom[g][c \cup {tie}][f] \subseteq FedFrom[g][c][f] \cup {s}
<1> DEFINE F == FedFrom[g][c][f]
           after == c \cup {tie}
<1>1. f \in Feeders /\ tie \in Switches /\ after \in SUBSET Switches
  BY NetworkAssumption DEF ActiveFeeders, Incident, NetworkAssumption
<1>2. F \in Enclosed(g, c) /\ Ends[g][BreakerOf[f]] \subseteq F
  <2> DEFINE from == Ends[g][BreakerOf[f]]
  <2>1. from \in SUBSET Sections /\ F = Reach(g, c, from)
    BY <1>1, SuppliedByReach
  <2> HIDE DEF from, F
  <2> QED
    BY <2>1, ReachEnclosed DEF from
<1>3. PICK o \in Sections : Ends[g][tie] = {s, o}
  <2>1. PICK a, b \in Sections : Ends[g][tie] = {a, b}
    BY <1>1, NetworkAssumption DEF NetworkAssumption
  <2>2. s \in Ends[g][tie]
    BY DEF Incident
  <2> QED
    BY <2>1, <2>2
<1>4. \A d \in c : s \notin Ends[g][d]
  BY DEF Incident
<1>5. s \notin F
  <2>1. s \notin Energised(g, c)
    BY OpenBoundariesKill
  <2> QED
    BY <1>1, <2>1, SuppliedByReach DEF Energised
<1>6. F \subseteq Sections
  BY <1>2 DEF Enclosed
<1>7. CASE o \in F
  <2>1. F \cup {s} \in Enclosed(g, after)
    BY <1>2, <1>3, <1>4, <1>6, <1>7 DEF Enclosed
  <2> QED
    BY <1>1, <1>2, <2>1, SuppliedByReach, ReachLeast
<1>8. CASE o \notin F
  <2>1. F \in Enclosed(g, after)
    BY <1>2, <1>3, <1>5, <1>6, <1>8 DEF Enclosed
  <2> QED
    BY <1>1, <1>2, <2>1, SuppliedByReach, ReachLeast
<1> QED
  BY <1>7, <1>8

-----------------------------------------------------------------------------
(* Loads.  LoadOf is a fold; what it folds to is counted: the load of a    *)
(* set of sections is the number of units of load of its members.          *)

Units(S) == {u \in S \X Nat : 1 <= u[2] /\ u[2] <= Load[u[1]]}

LEMMA UnitsOfOne ==
  ASSUME NEW s \in Sections
  PROVE  IsFiniteSet(Units({s})) /\ Cardinality(Units({s})) = Load[s]
<1> DEFINE n == Load[s]
           f == [i \in 1 .. n |-> <<s, i>>]
<1>1. n \in Nat
  BY NetworkAssumption DEF NetworkAssumption
<1>2. IsFiniteSet(1 .. n) /\ Cardinality(1 .. n) = n
  BY <1>1, FS_Interval
<1>3. f \in Bijection(1 .. n, Units({s}))
  <2>1. Units({s}) = {<<s, i>> : i \in 1 .. n}
    BY <1>1 DEF Units
  <2>2. f \in [1 .. n -> Units({s})]
    BY <2>1
  <2>3. \A i, j \in 1 .. n : f[i] = f[j] => i = j
    OBVIOUS
  <2>4. \A u \in Units({s}) : \E i \in 1 .. n : f[i] = u
    BY <2>1
  <2> HIDE DEF f, n
  <2> QED
    BY <2>2, <2>3, <2>4 DEF Bijection, Injection, Surjection, IsInjective
<1>4. ExistsBijection(1 .. n, Units({s}))
  <2> HIDE DEF f, n
  <2> QED
    BY <1>3 DEF ExistsBijection
<1> HIDE DEF f
<1> QED
  BY <1>2, <1>4, FS_Bijection

LEMMA UnitsFinite ==
  ASSUME NEW S \in SUBSET Sections, IsFiniteSet(S)
  PROVE  IsFiniteSet(Units(S))
<1> DEFINE parts == {Units({s}) : s \in S}
           f == [s \in S |-> Units({s})]
<1>1. IsFiniteSet(parts)
  <2>1. f \in Surjection(S, parts)
    BY DEF Surjection
  <2> HIDE DEF f, parts
  <2> QED
    BY <2>1, FS_Surjection
<1>2. \A part \in parts : IsFiniteSet(part)
  BY UnitsOfOne
<1>3. Units(S) = UNION parts
  BY DEF Units
<1> HIDE DEF parts
<1> QED
  BY <1>1, <1>2, <1>3, FS_UNION

\* The units of a union, and of sections told apart.
LEMMA UnitsOfUnion ==
  ASSUME NEW S \in SUBSET Sections, NEW T \in SUBSET Sections, IsFiniteSet(S), IsFiniteSet(T)
  PROVE  /\ Cardinality(Units(S \cup T)) <= Cardinality(Units(S)) + Cardinality(Units(T))
         /\ S \cap T = {} =>
                Cardinality(Units(S \cup T)) = Cardinality(Units(S)) + Cardinality(Units(T))
<1>1. Units(S \cup T) = Units(S) \cup Units(T)
  BY DEF Units
<1>2. S \cap T = {} => Units(S) \cap Units(T) = {}
  BY DEF Units
<1>3. IsFiniteSet(Units(S)) /\ IsFiniteSet(Units(T))
  BY UnitsFinite
<1>4. Cardinality(Units(S)) \in Nat /\ Cardinality(Units(T)) \in Nat
      /\ IsFiniteSet(Units(S) \cap Units(T)) /\ Cardinality(Units(S) \cap Units(T)) \in Nat
      /\ Cardinality({}) = 0
  BY <1>3, FS_CardinalityType, FS_Intersection, FS_EmptySet
<1>5. Cardinality(Units(S) \cup Units(T)) =
          Cardinality(Units(S)) + Cardinality(Units(T)) - Cardinality(Units(S) \cap Units(T))
  BY <1>3, FS_Union
<1> DEFINE a == Cardinality(Units(S))
           b == Cardinality(Units(T))
           both == Cardinality(Units(S) \cap Units(T))
<1>6. a \in Nat /\ b \in Nat /\ both \in Nat /\ (S \cap T = {} => both = 0)
      /\ Cardinality(Units(S \cup T)) = a + b - both
  BY <1>1, <1>2, <1>4, <1>5
<1> HIDE DEF a, b, both
<1>7. /\ Cardinality(Units(S \cup T)) <= a + b
      /\ S \cap T = {} => Cardinality(Units(S \cup T)) = a + b
  BY <1>6
<1> QED
  BY <1>7 DEF a, b

Pick(s) == CHOOSE x \in s : TRUE

\* The function a fold chooses to sum the weights of subsets of S.
Sums(weight, S, h) ==
  h = [s \in SUBSET S |->
         IF s = {} THEN 0 ELSE weight[Pick(s)] + h[s \ {Pick(s)}]]

\* There is one such function: two would differ first on a smallest set.
LEMMA SumsAgree ==
  ASSUME NEW S, IsFiniteSet(S), NEW weight, NEW g, NEW h,
         Sums(weight, S, g), Sums(weight, S, h)
  PROVE  g[S] = h[S]
<1> DEFINE bad == {s \in SUBSET S : g[s] # h[s]}
<1>1. ASSUME NEW f, Sums(weight, S, f)
      PROVE  /\ f[{}] = 0
             /\ \A s \in SUBSET S :
                  s # {} => f[s] = weight[Pick(s)] + f[s \ {Pick(s)}]
  BY <1>1 DEF Sums
<1>2. bad = {}
  <2> SUFFICES ASSUME bad # {} PROVE FALSE
    OBVIOUS
  <2>1. FiniteSubsetsOf(S) = SUBSET S
    BY FS_FiniteSubsetsOfFinite
  <2>2. IsWellFoundedOn(StrictSubsetOrdering(S), SUBSET S)
    BY <2>1, FS_StrictSubsetOrderingWellFounded
  <2>3. bad \subseteq SUBSET S
    OBVIOUS
  <2> HIDE DEF bad
  <2>4. PICK s \in bad : \A r \in bad : <<r, s>> \notin StrictSubsetOrdering(S)
    BY <2>2, <2>3, WFMin
  <2>5. s \in SUBSET S /\ g[s] # h[s]
    BY <2>4 DEF bad
  <2>6. CASE s = {}
    BY <1>1, <2>5, <2>6
  <2>7. CASE s # {}
    <3> DEFINE rest == s \ {Pick(s)}
    <3>1. Pick(s) \in s
      BY <2>7 DEF Pick
    <3>2. g[s] = weight[Pick(s)] + g[rest] /\ h[s] = weight[Pick(s)] + h[rest]
      BY <1>1, <2>5, <2>7
    <3>3. rest \in SUBSET S /\ rest \subseteq s /\ rest # s
      BY <2>5, <3>1
    <3>4. <<rest, s>> \in StrictSubsetOrdering(S)
      BY <2>5, <3>3 DEF StrictSubsetOrdering
    <3>5. g[rest] = h[rest]
      BY <2>4, <3>3, <3>4 DEF bad
    <3> QED
      BY <2>5, <3>2, <3>5
  <2> QED
    BY <2>6, <2>7
<1> QED
  BY <1>2

\* The load of sections is the number of their units.
LEMMA LoadOfCounts ==
  ASSUME NEW S \in SUBSET Sections, IsFiniteSet(S)
  PROVE  LoadOf(S) = Cardinality(Units(S))
<1> DEFINE count(s) == Cardinality(Units(s))
           g == [s \in SUBSET S |-> count(s)]
<1>1. \A s \in SUBSET S : s # {} => Pick(s) \in s
  BY DEF Pick
<1>2. count({}) = 0
  <2>1. Units({}) = {}
    BY DEF Units
  <2> QED
    BY <2>1, FS_EmptySet
<1>3. ASSUME NEW s \in SUBSET S, s # {}
      PROVE  count(s) = Load[Pick(s)] + count(s \ {Pick(s)})
  <2> DEFINE x == Pick(s)
             rest == s \ {x}
  <2>1. x \in s /\ x \in Sections
    BY <1>1, <1>3
  <2>2. s = {x} \cup rest /\ {x} \cap rest = {}
    BY <2>1
  <2>3. IsFiniteSet({x}) /\ IsFiniteSet(rest)
    BY FS_Singleton, FS_Subset
  <2>4. count({x}) = Load[x]
    BY <2>1, UnitsOfOne
  <2> HIDE DEF x, rest
  <2>5. count({x} \cup rest) = count({x}) + count(rest)
    <3>1. {x} \in SUBSET Sections /\ rest \in SUBSET Sections
      BY <2>2
    <3> QED
      BY <2>2, <2>3, <3>1, UnitsOfUnion
  <2> QED
    BY <2>2, <2>4, <2>5 DEF x, rest
<1> HIDE DEF count
<1>4. Sums(Load, S, g)
  <2>1. \A s \in SUBSET S : g[s] = IF s = {} THEN 0 ELSE Load[Pick(s)] + g[s \ {Pick(s)}]
    BY <1>2, <1>3
  <2> QED
    BY <2>1 DEF Sums
<1> DEFINE h == CHOOSE h : h = [s \in SUBSET S |->
                    IF s = {} THEN 0
                    ELSE Load[CHOOSE x \in s : TRUE] + h[s \ {CHOOSE x \in s : TRUE}]]
<1>5. LoadOf(S) = h[S]
  BY DEF LoadOf, MapThenSumSet, MapThenFoldSet
<1>6. Sums(Load, S, h)
  <2> HIDE DEF g
  <2> QED
    BY <1>4 DEF Sums, Pick
<1>7. g[S] = count(S)
  OBVIOUS
<1> HIDE DEF g, h
<1>8. g[S] = h[S]
  BY <1>4, <1>6, SumsAgree
<1> QED
  BY <1>5, <1>7, <1>8 DEF count

\* Loads add up, and fewer sections load less.
LEMMA LoadsAddUp ==
  ASSUME NEW S \in SUBSET Sections, NEW T \in SUBSET Sections, IsFiniteSet(S), IsFiniteSet(T)
  PROVE  /\ LoadOf(S) \in Nat
         /\ LoadOf(S \cup T) <= LoadOf(S) + LoadOf(T)
         /\ S \subseteq T => LoadOf(S) <= LoadOf(T)
<1>1. IsFiniteSet(S \cup T) /\ S \cup T \in SUBSET Sections
  BY FS_Union
<1>2. LoadOf(S) = Cardinality(Units(S)) /\ LoadOf(T) = Cardinality(Units(T))
      /\ LoadOf(S \cup T) = Cardinality(Units(S \cup T))
  BY <1>1, LoadOfCounts
<1>3. IsFiniteSet(Units(S)) /\ IsFiniteSet(Units(T))
  BY UnitsFinite
<1>4. LoadOf(S) \in Nat
  BY <1>2, <1>3, FS_CardinalityType
<1>5. S \subseteq T => LoadOf(S) <= LoadOf(T)
  <2>1. S \subseteq T => Units(S) \subseteq Units(T)
    BY DEF Units
  <2> QED
    BY <1>2, <1>3, <2>1, FS_Subset
<1> QED
  BY <1>2, <1>4, <1>5, UnitsOfUnion

-----------------------------------------------------------------------------
(* The network after a tie closes.                                         *)

\* No new section is reached through a device that does not touch what is
\* reached already.
LEMMA UntouchedReach ==
  ASSUME NEW g \in Configs, NEW c \in SUBSET Switches, NEW tie \in Switches,
         NEW from \in SUBSET Sections, Ends[g][tie] \cap Reach(g, c, from) = {}
  PROVE  Reach(g, c \cup {tie}, from) \subseteq Reach(g, c, from)
<1>1. Reach(g, c, from) \in Enclosed(g, c) /\ from \subseteq Reach(g, c, from)
  BY ReachEnclosed
<1>2. Reach(g, c, from) \in Enclosed(g, c \cup {tie})
  BY <1>1 DEF Enclosed
<1>3. c \cup {tie} \in SUBSET Switches
  OBVIOUS
<1> QED
  BY <1>1, <1>2, <1>3, ReachLeast

\* What no device leads out of, none leads into.
LEMMA Apart ==
  ASSUME NEW g \in Configs, NEW c \in SUBSET Switches, NEW S \in Enclosed(g, c)
  PROVE  Sections \ S \in Enclosed(g, c)
<1>1. ASSUME NEW d \in c, Ends[g][d] \cap (Sections \ S) # {}
      PROVE  Ends[g][d] \subseteq Sections \ S
  <2>1. Ends[g][d] \subseteq Sections
    BY NetworkAssumption DEF NetworkAssumption
  <2>2. ~ (Ends[g][d] \subseteq S)
    BY <1>1
  <2>3. Ends[g][d] \cap S = {}
    BY <2>2 DEF Enclosed
  <2> QED
    BY <2>1, <2>3
<1> QED
  BY <1>1 DEF Enclosed

\* In a radial network no section has two feeders.
LEMMA RadialPartsAreApart ==
  ASSUME NEW g \in Configs, NEW c \in SUBSET Switches, Radial(g, c),
         NEW f \in ActiveFeeders(c), NEW h \in ActiveFeeders(c), h # f
  PROVE  FedFrom[g][c][f] \cap FedFrom[g][c][h] = {}
<1> DEFINE F == FedFrom[g][c][f]
           start == Ends[g][BreakerOf[h]]
<1>1. f \in Feeders /\ h \in Feeders /\ BreakerOf[h] \in c
  BY NetworkAssumption DEF ActiveFeeders, NetworkAssumption
<1>2. /\ F = Reach(g, c, Ends[g][BreakerOf[f]]) /\ Ends[g][BreakerOf[f]] \in SUBSET Sections
      /\ FedFrom[g][c][h] = Reach(g, c, start) /\ start \in SUBSET Sections
  BY <1>1, SuppliedByReach
<1>3. RadialComponent(g, c, f)
  BY DEF Radial
<1>4. BreakerOf[h] \notin {d \in c : Ends[g][d] \cap F # {}}
  BY <1>3 DEF RadialComponent
<1>5. start \subseteq Sections \ F
  BY <1>1, <1>2, <1>4
<1>6. Sections \ F \in Enclosed(g, c)
  BY <1>2, ReachEnclosed, Apart
<1>7. FedFrom[g][c][h] \subseteq Sections \ F
  BY <1>2, <1>5, <1>6, ReachLeast
<1> QED
  BY <1>7

\* A tie is nobody's breaker.
LEMMA TieActivatesNone ==
  ASSUME NEW c \in SUBSET Switches, NEW tie \in Ties
  PROVE  ActiveFeeders(c \cup {tie}) = ActiveFeeders(c)
<1>1. \A f \in AvailableFeeders : BreakerOf[f] # tie
  BY NetworkAssumption, DeviceAssumption DEF NetworkAssumption, DeviceAssumption
<1> QED
  BY <1>1 DEF ActiveFeeders

\* When a closed tie lets feeder f reach a section that was dead, and the network
\* is radial, no other feeder reaches anything new and f takes no section that
\* was alive.
LEMMA TieExtendsOneFeeder ==
  ASSUME NEW g \in Configs, NEW c \in SUBSET Switches, NEW tie \in Ties,
         NEW f \in ActiveFeeders(c), Radial(g, c \cup {tie}),
         NEW s \in FedFrom[g][c \cup {tie}][f], s \notin Energised(g, c)
  PROVE  /\ \A h \in ActiveFeeders(c) \ {f} :
              FedFrom[g][c \cup {tie}][h] \subseteq FedFrom[g][c][h]
         /\ (FedFrom[g][c \cup {tie}][f] \ FedFrom[g][c][f]) \cap Energised(g, c) = {}
<1> DEFINE after == c \cup {tie}
           before(h) == FedFrom[g][c][h]
           later(h) == FedFrom[g][after][h]
           start(h) == Ends[g][BreakerOf[h]]
<1>1. tie \in Switches /\ after \in SUBSET Switches
  BY NetworkAssumption DEF NetworkAssumption
<1>2. ActiveFeeders(after) = ActiveFeeders(c)
  BY TieActivatesNone
<1>3. ASSUME NEW h \in ActiveFeeders(c)
      PROVE  /\ start(h) \in SUBSET Sections
             /\ before(h) = Reach(g, c, start(h)) /\ later(h) = Reach(g, after, start(h))
             /\ before(h) \subseteq Energised(g, c)
             /\ before(h) \subseteq later(h)
  <2>1. h \in Feeders
    BY <1>3, NetworkAssumption DEF ActiveFeeders, NetworkAssumption
  <2>2. start(h) \in SUBSET Sections /\ before(h) = Reach(g, c, start(h))
        /\ SuppliedBy(g, c, h) = before(h)
    BY <2>1, SuppliedByReach
  <2>3. later(h) = Reach(g, after, start(h))
    BY <1>1, <2>1, SuppliedByReach
  <2>4. before(h) \subseteq Energised(g, c)
    BY <2>1, <2>2 DEF Energised
  <2>5. c \subseteq after
    OBVIOUS
  <2> QED
    BY <1>1, <2>2, <2>3, <2>4, <2>5, ReachMonotone
<1>4. Ends[g][tie] \subseteq later(f)
  <2>1. s \notin before(f)
    BY <1>3
  <2>2. Ends[g][tie] \cap before(f) # {}
    <3> SUFFICES ASSUME Ends[g][tie] \cap before(f) = {} PROVE FALSE
      OBVIOUS
    <3>1. start(f) \in SUBSET Sections /\ before(f) = Reach(g, c, start(f))
          /\ later(f) = Reach(g, after, start(f))
      BY <1>3
    <3> HIDE DEF start, before, later
    <3>2. Ends[g][tie] \cap Reach(g, c, start(f)) = {}
      BY <3>1 DEF before
    <3>3. later(f) \subseteq before(f)
      BY <1>1, <3>1, <3>2, UntouchedReach
    <3> QED
      BY <2>1, <3>3 DEF later
  <2>3. later(f) \in Enclosed(g, after)
    <3>1. start(f) \in SUBSET Sections /\ later(f) = Reach(g, after, start(f))
      BY <1>3
    <3> HIDE DEF start, later
    <3> QED
      BY <1>1, <3>1, ReachEnclosed
  <2>4. Ends[g][tie] \cap later(f) # {}
    BY <1>3, <2>2
  <2> QED
    BY <2>3, <2>4 DEF Enclosed
<1>5. ASSUME NEW h \in ActiveFeeders(c), h # f
      PROVE  later(f) \cap later(h) = {}
  BY <1>1, <1>2, <1>5, RadialPartsAreApart
<1>6. ASSUME NEW h \in ActiveFeeders(c), h # f
      PROVE  later(h) \subseteq before(h)
  <2>1. Ends[g][tie] \cap before(h) = {}
    BY <1>3, <1>4, <1>5, <1>6
  <2>2. start(h) \in SUBSET Sections /\ before(h) = Reach(g, c, start(h))
        /\ later(h) = Reach(g, after, start(h))
    BY <1>3
  <2> HIDE DEF start, before, later
  <2>3. Ends[g][tie] \cap Reach(g, c, start(h)) = {}
    BY <2>1, <2>2
  <2> QED
    BY <1>1, <2>2, <2>3, UntouchedReach
<1>7. ASSUME NEW x \in later(f), x \notin before(f), x \in Energised(g, c)
      PROVE  FALSE
  <2>1. PICK h \in Feeders : x \in SuppliedBy(g, c, h)
    BY <1>7 DEF Energised
  <2>2. h \in ActiveFeeders(c) /\ x \in before(h)
    BY <2>1 DEF SuppliedBy
  <2>3. h # f
    BY <1>7, <2>2
  <2> QED
    BY <1>3, <1>5, <1>7, <2>2, <2>3
<1> QED
  BY <1>6, <1>7

-----------------------------------------------------------------------------
(* The candidate of an assessment.                                         *)

\* Among any devices one has the least identifier.
LEMMA LeastRank ==
  ASSUME NEW S \in SUBSET Switches, S # {}
  PROVE  \E x \in S : \A y \in S : IdRank[x] <= IdRank[y]
<1> DEFINE T == {n \in Nat : \E x \in S : IdRank[x] = n}
<1>1. \A x \in S : IdRank[x] \in Nat
  BY NetworkAssumption DEF NetworkAssumption
<1>2. T \subseteq Nat /\ T # {}
  BY <1>1
<1>3. PICK n \in T : \A m \in T : <<m, n>> \notin OpToRel(<, Nat)
  <2> HIDE DEF T
  <2> QED
    BY <1>2, NatLessThanWellFounded, WFMin, Zenon
<1>4. \A m \in T : ~ (m < n)
  <2> HIDE DEF T
  <2> QED
    BY <1>2, <1>3 DEF OpToRel
<1>5. PICK x \in S : IdRank[x] = n
  BY <1>3
<1>6. ASSUME NEW y \in S PROVE IdRank[x] <= IdRank[y]
  <2>1. IdRank[y] \in T
    BY <1>1
  <2>2. ~ (IdRank[y] < n)
    BY <1>4, <2>1
  <2> QED
    BY <1>1, <1>5, <2>2
<1> QED
  BY <1>6

\* discover_candidate answers NoCandidate, or a usable tie with the feeder beyond
\* it and the dead sections that feeder would reach.
LEMMA CandidateFound ==
  ASSUME NEW g \in Configs, NEW c \in SUBSET Switches, NEW fault \in Sections,
         Candidate(g, c, fault) # NoCandidate
  PROVE  \E tie \in UsableTies(g, c, fault) :
           /\ Candidate(g, c, fault) = CandidateAt(g, c, fault, tie)
           /\ tie \in Switches /\ AlternateFeeder(g, tie, fault) \in Feeders
           /\ ProposedSections(g, c, tie, fault) \in SUBSET Sections
<1> DEFINE usable == UsableTies(g, c, fault)
           least(x) == \A y \in usable : IdRank[x] <= IdRank[y]
           tie == CHOOSE x \in usable : least(x)
<1>1. usable # {}
  BY DEF Candidate
<1>2. usable \in SUBSET Switches
  BY NetworkAssumption DEF NetworkAssumption, UsableTies
<1>3. Candidate(g, c, fault) = CandidateAt(g, c, fault, tie)
  BY <1>1 DEF Candidate, FirstOf
<1>4. tie \in usable
  <2> HIDE DEF usable
  <2>1. \E x \in usable : least(x)
    BY <1>1, <1>2, LeastRank
  <2> HIDE DEF least
  <2> QED
    BY <2>1
<1>5. tie \in Switches
  BY <1>2, <1>4
<1> HIDE DEF tie
<1>6. AlternateFeeder(g, tie, fault) \in Feeders
  <2>1. \E s \in Ends[g][tie] : s \notin AffectedSides(g, tie, fault)
    BY <1>4 DEF UsableTies, AffectedSides
  <2>2. Ends[g][tie] \subseteq Sections
    BY <1>5, NetworkAssumption DEF NetworkAssumption
  <2> QED
    BY <2>1, <2>2, NetworkAssumption DEF AlternateFeeder, NetworkAssumption
<1>7. ProposedSections(g, c, tie, fault) \in SUBSET Sections
  <2> DEFINE alternate == AlternateFeeder(g, tie, fault)
             structural == c \cup {tie, BreakerOf[alternate]}
  <2>1. alternate \in Feeders /\ structural \in SUBSET Switches
    BY <1>5, <1>6, NetworkAssumption DEF NetworkAssumption
  <2>2. ProposedSections(g, c, tie, fault) \subseteq FedFrom[g][structural][alternate]
    BY DEF ProposedSections
  <2> HIDE DEF alternate, structural
  <2>3. FedFrom[g][structural][alternate] \subseteq Sections
    BY <2>1, SuppliedByReach DEF Reach
  <2> QED
    BY <2>2, <2>3
<1> HIDE DEF usable
<1> QED
  BY <1>3, <1>4, <1>5, <1>6, <1>7 DEF usable

\* The tie of a permissive candidate is no boundary of the fault: through the
\* fault it would supply nothing, yet it supplies the candidate's dead sections.
LEMMA TieIsNoBoundary ==
  ASSUME NEW g \in Configs, NEW c \in SUBSET Switches, NEW fault \in Sections,
         Incident(g, fault) \cap c = {},
         Candidate(g, c, fault) # NoCandidate,
         AlternateSourcePermissive(g, c, Candidate(g, c, fault))
  PROVE  Candidate(g, c, fault).tie \notin Incident(g, fault)
<1> DEFINE cand == Candidate(g, c, fault)
<1>1. /\ cand.tie \in UsableTies(g, c, fault)
      /\ cand.feeder = AlternateFeeder(g, cand.tie, fault)
      /\ cand.sections = ProposedSections(g, c, cand.tie, fault)
  BY CandidateFound DEF CandidateAt
<1> HIDE DEF cand
<1>2. PICK s \in cand.sections : TRUE
  BY <1>1 DEF UsableTies
<1>3. s # fault /\ s \notin Energised(g, c)
  BY <1>1, <1>2 DEF ProposedSections
<1>4. /\ cand.feeder \in ActiveFeeders(c) /\ cand.feeder \in Feeders
      /\ s \in SuppliedBy(g, c \cup {cand.tie}, cand.feeder)
  BY <1>2, NetworkAssumption
  DEF AlternateSourcePermissive, ActiveFeeders, NetworkAssumption, cand
<1>5. s \in FedFrom[g][c \cup {cand.tie}][cand.feeder]
  BY <1>4 DEF SuppliedBy
<1>6. s \notin FedFrom[g][c][cand.feeder]
  BY <1>3, <1>4 DEF Energised, SuppliedBy
<1>7. cand.tie \notin Incident(g, fault)
  BY <1>3, <1>4, <1>5, <1>6, NothingThroughTheFault
<1> QED
  BY <1>7 DEF cand

-----------------------------------------------------------------------------
(* The loads after a permitted restoration.                                *)

\* Going from c to after extends feeder f over dead sections and leaves the other
\* feeders alone; taken is what the faulted feeder gets back.
TakesOver(g, c, after, f, fault, taken) ==
  /\ f \in Feeders /\ f \in ActiveFeeders(c)
  /\ \A h \in Feeders \ {f} : SuppliedBy(g, after, h) = SuppliedBy(g, c, h)
  /\ SuppliedBy(g, c, f) \subseteq SuppliedBy(g, after, f)
  /\ (SuppliedBy(g, after, f) \ SuppliedBy(g, c, f)) \cap Energised(g, c) = {}
  /\ taken = {s \in Energised(g, after) \ Energised(g, c) : FeederOf[s] = FeederOf[fault]}

\* So does the tie of a candidate whose feeder is live, on a network that stays
\* radial and where the fault stays dead.
LEMMA TakesOnlyTheDead ==
  ASSUME NEW g \in Configs, NEW c \in SUBSET Switches, NEW fault \in Sections,
         NEW tie \in UsableTies(g, c, fault),
         NEW f, f = AlternateFeeder(g, tie, fault),
         f \in AvailableFeeders, BreakerOf[f] \in c, Radial(g, c \cup {tie}),
         fault \notin Energised(g, c \cup {tie})
  PROVE  TakesOver(g, c, c \cup {tie}, f, fault, ProposedSections(g, c, tie, fault))
<1> DEFINE after == c \cup {tie}
           new == ProposedSections(g, c, tie, fault)
<1>1. tie \in Ties /\ tie \in Switches /\ after \in SUBSET Switches /\ new # {}
  BY NetworkAssumption DEF UsableTies, NetworkAssumption
<1>2. f \in ActiveFeeders(c) /\ f \in Feeders
  BY NetworkAssumption DEF ActiveFeeders, NetworkAssumption
<1>3. ActiveFeeders(after) = ActiveFeeders(c)
  BY <1>1, TieActivatesNone
<1>4. \A h \in Feeders :
        /\ SuppliedBy(g, c, h) = IF h \in ActiveFeeders(c) THEN FedFrom[g][c][h] ELSE {}
        /\ SuppliedBy(g, after, h) =
             IF h \in ActiveFeeders(c) THEN FedFrom[g][after][h] ELSE {}
  BY <1>3 DEF SuppliedBy
<1>5. new = {s \in FedFrom[g][after][f] :
               FeederOf[s] = FeederOf[fault] /\ s # fault /\ s \notin Energised(g, c)}
  <2>1. c \cup {tie, BreakerOf[AlternateFeeder(g, tie, fault)]} = after
    OBVIOUS
  <2> QED
    BY <2>1 DEF ProposedSections
<1> HIDE DEF new
<1>6. /\ \A h \in ActiveFeeders(c) \ {f} : FedFrom[g][after][h] \subseteq FedFrom[g][c][h]
      /\ (FedFrom[g][after][f] \ FedFrom[g][c][f]) \cap Energised(g, c) = {}
  <2>1. PICK s \in new : TRUE
    BY <1>1
  <2>2. s \in FedFrom[g][after][f] /\ s \notin Energised(g, c)
    BY <1>5, <2>1
  <2> QED
    BY <1>1, <1>2, <2>2, TieExtendsOneFeeder
<1>7. \A h \in Feeders : SuppliedBy(g, c, h) \subseteq SuppliedBy(g, after, h)
  <2> TAKE h \in Feeders
  <2> DEFINE start == Ends[g][BreakerOf[h]]
  <2>1. start \in SUBSET Sections /\ FedFrom[g][c][h] = Reach(g, c, start)
        /\ FedFrom[g][after][h] = Reach(g, after, start)
    BY <1>1, SuppliedByReach
  <2> HIDE DEF start
  <2>2. FedFrom[g][c][h] \subseteq FedFrom[g][after][h]
    BY <1>1, <2>1, ReachMonotone
  <2> QED
    BY <1>4, <2>2
<1>8. \A h \in Feeders \ {f} : SuppliedBy(g, after, h) = SuppliedBy(g, c, h)
  <2> TAKE h \in Feeders \ {f}
  <2>1. SuppliedBy(g, after, h) \subseteq SuppliedBy(g, c, h)
    <3> HIDE DEF after
    <3>1. h \in ActiveFeeders(c) => FedFrom[g][after][h] \subseteq FedFrom[g][c][h]
      BY <1>6
    <3> QED
      BY <1>4, <3>1
  <2>2. SuppliedBy(g, c, h) \subseteq SuppliedBy(g, after, h)
    BY <1>7
  <2> QED
    BY <2>1, <2>2
<1>9. (SuppliedBy(g, after, f) \ SuppliedBy(g, c, f)) \cap Energised(g, c) = {}
  BY <1>2, <1>4, <1>6
<1>10. \A x : x \in Energised(g, after) /\ x \notin Energised(g, c)
                => x \in SuppliedBy(g, after, f)
  BY <1>8 DEF Energised
<1>11. new = {s \in Energised(g, after) \ Energised(g, c) : FeederOf[s] = FeederOf[fault]}
  <2>1. SuppliedBy(g, after, f) = FedFrom[g][after][f]
    BY <1>2, <1>4
  <2>2. FedFrom[g][after][f] \subseteq Energised(g, after)
    BY <1>2, <2>1 DEF Energised
  <2> QED
    BY <1>5, <1>10, <2>1, <2>2
<1> QED
  BY <1>2, <1>7, <1>8, <1>9, <1>11 DEF new, TakesOver

\* If all it takes over is of the faulted feeder, the load that was compared with
\* the capacity is the load it will carry.
LEMMA FeederLoad ==
  ASSUME NEW g \in Configs, NEW c \in SUBSET Switches, NEW after \in SUBSET Switches,
         NEW f \in Feeders, NEW new \in SUBSET Sections,
         SuppliedBy(g, after, f) \subseteq SuppliedBy(g, c, f) \cup new,
         LoadOf(SuppliedBy(g, c, f)) + LoadOf(new) <= Capacity[f]
  PROVE  LoadOf(SuppliedBy(g, after, f)) <= Capacity[f]
<1> DEFINE old == SuppliedBy(g, c, f)
           whole == SuppliedBy(g, after, f)
<1>1. \A S \in SUBSET Sections : IsFiniteSet(S)
  BY FiniteAssumption, FS_Subset DEF FiniteAssumption
<1>2. old \in SUBSET Sections /\ whole \in SUBSET Sections /\ whole \subseteq old \cup new
  BY SuppliedByReach
<1>3. LoadOf(old) + LoadOf(new) <= Capacity[f] /\ Capacity[f] \in Nat
  BY NetworkAssumption DEF NetworkAssumption
<1> HIDE DEF old, whole
<1>4. old \cup new \in SUBSET Sections
  BY <1>2
<1>5. LoadOf(old) \in Nat /\ LoadOf(new) \in Nat
      /\ LoadOf(old \cup new) <= LoadOf(old) + LoadOf(new)
  BY <1>1, <1>2, LoadsAddUp
<1>6. LoadOf(whole) \in Nat /\ LoadOf(old \cup new) \in Nat
      /\ LoadOf(whole) <= LoadOf(old \cup new)
  BY <1>1, <1>2, <1>4, LoadsAddUp
<1>7. LoadOf(whole) <= Capacity[f]
  BY <1>3, <1>5, <1>6
<1> QED
  BY <1>7 DEF whole

\* The candidate's feeder carries what it carried and what it takes over; every
\* other feeder carries at most what it carries normally.
LEMMA RestoredLoads ==
  ASSUME NEW g \in Configs, NEW c \in SUBSET Switches, NEW fault \in Sections,
         NEW tie \in UsableTies(g, c, fault),
         NEW cand, cand.tie = tie, cand.feeder = AlternateFeeder(g, tie, fault),
         cand.sections = ProposedSections(g, c, tie, fault),
         c \subseteq NormalClosed,
         \A s \in Sections \ Energised(g, c) : FeederOf[s] = FeederOf[fault],
         \A h \in Feeders : LoadOf(SuppliedBy(g, NormalClosed, h)) <= Capacity[h],
         fault \notin Energised(g, c \cup {tie}),
         AlternateSourcePermissive(g, c, cand),
         RadialPermissive(g, c, cand),
         CapacityPermissive(g, c, cand)
  PROVE  \A h \in Feeders : LoadOf(SuppliedBy(g, c \cup {tie}, h)) <= Capacity[h]
<1> DEFINE after == c \cup {tie}
           new == ProposedSections(g, c, tie, fault)
<1>1. PICK f : f = AlternateFeeder(g, tie, fault)
  OBVIOUS
<1>2. cand.tie = tie /\ cand.feeder = f /\ cand.sections = new
  BY <1>1
<1>3. tie \in Switches /\ after \in SUBSET Switches
  BY NetworkAssumption DEF UsableTies, NetworkAssumption
<1>4. f \in AvailableFeeders /\ BreakerOf[f] \in c /\ Radial(g, after)
      /\ LoadOf(SuppliedBy(g, c, f)) + LoadOf(new) <= Capacity[f]
  BY <1>2 DEF AlternateSourcePermissive, RadialPermissive, CapacityPermissive
<1>5. /\ f \in Feeders
      /\ \A h \in Feeders \ {f} : SuppliedBy(g, after, h) = SuppliedBy(g, c, h)
      /\ (SuppliedBy(g, after, f) \ SuppliedBy(g, c, f)) \cap Energised(g, c) = {}
      /\ new = {s \in Energised(g, after) \ Energised(g, c) : FeederOf[s] = FeederOf[fault]}
  <2>1. f \in AvailableFeeders /\ BreakerOf[f] \in c /\ Radial(g, c \cup {tie})
    BY <1>4
  <2>2. TakesOver(g, c, after, f, fault, new)
    BY <1>1, <2>1, TakesOnlyTheDead
  <2> QED
    BY <2>2 DEF TakesOver
<1> HIDE DEF new
<1>6. /\ \A h \in Feeders : SuppliedBy(g, after, h) \in SUBSET Sections
      /\ \A h \in Feeders : SuppliedBy(g, NormalClosed, h) \in SUBSET Sections
      /\ Energised(g, after) \subseteq Sections
  BY <1>3, SuppliedByReach, EnergisedType, NetworkAssumption DEF NetworkAssumption
<1>7. \A S \in SUBSET Sections : IsFiniteSet(S)
  BY FiniteAssumption, FS_Subset DEF FiniteAssumption
<1>8. Capacity \in [Feeders -> Nat]
  BY NetworkAssumption DEF NetworkAssumption
<1>9. LoadOf(SuppliedBy(g, after, f)) <= Capacity[f]
  <2>1. SuppliedBy(g, after, f) \subseteq SuppliedBy(g, c, f) \cup new
    <3>1. ASSUME NEW x \in SuppliedBy(g, after, f), x \notin SuppliedBy(g, c, f)
          PROVE  x \in new
      <4>1. x \in Energised(g, after) /\ x \notin Energised(g, c)
        BY <1>5, <3>1 DEF Energised
      <4>2. x \in Sections
        BY <1>6, <4>1
      <4>3. FeederOf[x] = FeederOf[fault]
        BY <4>1, <4>2
      <4> QED
        BY <1>5, <4>1, <4>3
    <3> QED
      BY <3>1
  <2>2. new \in SUBSET Sections
    BY <1>5, <1>6
  <2> QED
    BY <1>3, <1>4, <1>5, <2>1, <2>2, FeederLoad
<1>10. ASSUME NEW h \in Feeders, h # f
       PROVE  LoadOf(SuppliedBy(g, after, h)) <= Capacity[h]
  <2>1. SuppliedBy(g, after, h) \subseteq SuppliedBy(g, c, h)
    BY <1>5, <1>10
  <2>2. SuppliedBy(g, c, h) \subseteq SuppliedBy(g, NormalClosed, h)
    <3>1. h \in ActiveFeeders(c) => h \in ActiveFeeders(NormalClosed)
      BY DEF ActiveFeeders
    <3>2. FedFrom[g][c][h] \subseteq FedFrom[g][NormalClosed][h]
      <4> DEFINE start == Ends[g][BreakerOf[h]]
      <4>1. NormalClosed \in SUBSET Switches
        BY NetworkAssumption DEF NetworkAssumption
      <4>2. start \in SUBSET Sections /\ FedFrom[g][c][h] = Reach(g, c, start)
            /\ FedFrom[g][NormalClosed][h] = Reach(g, NormalClosed, start)
        BY <4>1, SuppliedByReach
      <4> HIDE DEF start
      <4> QED
        BY <4>1, <4>2, ReachMonotone
    <3> QED
      BY <3>1, <3>2 DEF SuppliedBy
  <2> DEFINE one == SuppliedBy(g, after, h)
             all == SuppliedBy(g, NormalClosed, h)
  <2>3. one \in SUBSET Sections /\ all \in SUBSET Sections /\ one \subseteq all
    BY <1>6, <2>1, <2>2
  <2>4. LoadOf(all) <= Capacity[h] /\ Capacity[h] \in Nat
    BY <1>8
  <2> HIDE DEF one, all
  <2>5. LoadOf(one) <= LoadOf(all) /\ LoadOf(one) \in Nat /\ LoadOf(all) \in Nat
    BY <1>7, <2>3, LoadsAddUp
  <2>6. LoadOf(one) <= Capacity[h]
    BY <2>4, <2>5
  <2> QED
    BY <2>6 DEF one
<1> QED
  BY <1>9, <1>10
=============================================================================
