-------------------------- MODULE GridReferenceProofs --------------------------
(***************************************************************************)
(* The calculations agree with their reference definitions, on every       *)
(* network and from every state of its devices: isolation outlasts what is *)
(* operated elsewhere, walks find what the supply encloses, counting nodes *)
(* and edges finds the loops, and a permitted restoration feeds what was   *)
(* dead and nothing else.                                                  *)
(***************************************************************************)
EXTENDS GridReference, GridProofs

NetworkType == config \in Configs /\ closed \in SUBSET Switches

LEMMA ObservedIsClosed ==
  ASSUME NEW c \in SUBSET Switches
  PROVE  ClosedIn(Observed(c)) = c
BY DEF ClosedIn, Observed

\* What is observed GOOD and FRESH is proven open exactly when it is not closed.
LEMMA ObservedOpen ==
  ASSUME NEW c \in SUBSET Switches, NEW d \in Switches
  PROVE  ProvenOpen(Observed(c)[d]) <=> d \notin c
BY DEF ProvenOpen, Trustworthy, Observed

LEMMA OperateType ==
  ASSUME NetworkType, Next
  PROVE  NetworkType' /\ config' = config
BY DEF NetworkType, Next, Operate

LEMMA NetworkStays == Spec => []NetworkType
<1>1. Init => NetworkType
  BY NetworkAssumption DEF Init, NetworkType, NetworkAssumption
<1>2. NetworkType /\ [Next]_vars => NetworkType'
  BY OperateType DEF NetworkType, vars
<1> QED
  BY <1>1, <1>2, PTL DEF Spec

\* Energisation need not be considered again: boundaries that stay open kill.
LEMMA IsolationStep ==
  ASSUME NetworkType, Next, NEW s \in Sections,
         Isolated(config, Observed(closed), s),
         \A d \in Switches : s \in Ends[config][d] => (d \in closed <=> d \in closed')
  PROVE  Isolated(config', Observed(closed'), s)
<1>1. config' = config /\ config \in Configs
        /\ closed \in SUBSET Switches /\ closed' \in SUBSET Switches
  BY OperateType DEF NetworkType
<1>2. \A d \in Incident(config, s) : d \in Switches /\ d \notin closed'
  BY <1>1, ObservedOpen DEF Isolated, Incident
<1>3. \A d \in Incident(config, s) : ProvenOpen(Observed(closed')[d])
  BY <1>1, <1>2, ObservedOpen
<1>4. s \notin Energised(config, ClosedIn(Observed(closed')))
  BY <1>1, <1>2, ObservedIsClosed, OpenBoundariesKill
<1> QED
  BY <1>1, <1>3, <1>4 DEF Isolated

\* Whatever else is operated, a proof of isolation stands.
THEOREM IsolationOutlasts == Spec => IsolationOutlastsOthers
<1>1. ASSUME NetworkType, [Next]_vars
      PROVE  [\A s \in Sections :
                /\ Isolated(config, Observed(closed), s)
                /\ \A d \in Switches :
                     s \in Ends[config][d] => (d \in closed <=> d \in closed')
                => Isolated(config', Observed(closed'), s)]_vars
  BY <1>1, IsolationStep
<1> QED
  BY <1>1, NetworkStays, PTL DEF Spec, IsolationOutlastsOthers

-----------------------------------------------------------------------------
(* Walks.                                                                  *)

\* The sections that one closed device more leads to.
Further(g, c, S) == S \cup UNION {Ends[g][d] : d \in {e \in c : Ends[g][e] \cap S # {}}}

\* h[n] is what walks of at most n devices join to `from`.
Nears(g, c, from, h) ==
  h = [n \in Nat |-> IF n = 0 THEN from ELSE Further(g, c, h[n - 1])]

LEMMA FurtherType ==
  ASSUME NEW g \in Configs, NEW c \in SUBSET Switches, NEW S \in SUBSET Sections
  PROVE  /\ Further(g, c, S) \in SUBSET Sections
         /\ \A x : x \in Further(g, c, S) <=>
               x \in S \/ \E d \in c : x \in Ends[g][d] /\ Ends[g][d] \cap S # {}
<1>1. \A d \in c : Ends[g][d] \subseteq Sections
  BY NetworkAssumption DEF NetworkAssumption
<1> QED
  BY <1>1 DEF Further

\* A walk of n devices that starts in `from`; it may stand still.
Walk(g, c, from, n, w) ==
  /\ w \in [0 .. n -> Sections]
  /\ w[0] \in from
  /\ \A i \in 0 .. (n - 1) :
       \/ w[i + 1] = w[i]
       \/ \E d \in c : w[i] \in Ends[g][d] /\ w[i + 1] \in Ends[g][d]

\* Where such walks end satisfies the equation of Joined.
LEMMA WalksAreNears ==
  ASSUME NEW g \in Configs, NEW c \in SUBSET Switches, NEW from \in SUBSET Sections
  PROVE  \E h : Nears(g, c, from, h)
<1> DEFINE ends(n) == {s \in Sections : \E w : Walk(g, c, from, n, w) /\ w[n] = s}
           h == [n \in Nat |-> ends(n)]
<1>1. ends(0) = from
  <2>1. ASSUME NEW s \in from PROVE s \in ends(0)
    <3> DEFINE w == [i \in 0 .. 0 |-> s]
    <3>1. s \in Sections
      OBVIOUS
    <3>2. Walk(g, c, from, 0, w) /\ w[0] = s
      BY <3>1 DEF Walk
    <3> HIDE DEF w
    <3> QED
      BY <3>1, <3>2
  <2>2. ASSUME NEW s \in ends(0) PROVE s \in from
    BY DEF Walk
  <2> QED
    BY <2>1, <2>2
<1>2. ASSUME NEW n \in Nat PROVE ends(n + 1) = Further(g, c, ends(n))
  <2>0. \A d \in c : Ends[g][d] \subseteq Sections
    BY NetworkAssumption DEF NetworkAssumption
  <2>1. ASSUME NEW s \in ends(n + 1) PROVE s \in Further(g, c, ends(n))
    <3>1. PICK w : Walk(g, c, from, n + 1, w) /\ w[n + 1] = s
      BY <2>1
    <3> DEFINE v == [i \in 0 .. n |-> w[i]]
    <3>2. Walk(g, c, from, n, v) /\ v[n] = w[n]
      BY <3>1 DEF Walk
    <3> HIDE DEF v
    <3>3. w[n] \in ends(n)
      <4>1. w[n] \in Sections
        BY <3>1 DEF Walk
      <4> QED
        BY <3>2, <4>1
    <3>4. s = w[n] \/ \E d \in c : w[n] \in Ends[g][d] /\ s \in Ends[g][d]
      BY <3>1 DEF Walk
    <3> HIDE DEF ends
    <3> QED
      BY <3>3, <3>4 DEF Further
  <2>2. ASSUME NEW p \in ends(n), NEW s \in Sections,
               s = p \/ \E d \in c : p \in Ends[g][d] /\ s \in Ends[g][d]
        PROVE  s \in ends(n + 1)
    <3>1. PICK w : Walk(g, c, from, n, w) /\ w[n] = p
      BY <2>2
    <3> DEFINE v == [i \in 0 .. (n + 1) |-> IF i = n + 1 THEN s ELSE w[i]]
    <3>2. v \in [0 .. (n + 1) -> Sections]
      BY <3>1 DEF Walk
    <3>3. /\ v[n + 1] = s /\ v[n] = p /\ v[0] = w[0]
          /\ \A i \in 0 .. n : v[i] = w[i]
      BY <3>1
    <3> HIDE DEF v
    <3>4. ASSUME NEW i \in 0 .. n
          PROVE  \/ v[i + 1] = v[i]
                 \/ \E d \in c : v[i] \in Ends[g][d] /\ v[i + 1] \in Ends[g][d]
      <4>1. CASE i = n
        BY <2>2, <3>3, <4>1
      <4>2. CASE i # n
        <5>1. i \in 0 .. (n - 1) /\ i + 1 \in 0 .. n
          BY <4>2
        <5> QED
          BY <3>1, <3>3, <5>1 DEF Walk
      <4> QED
        BY <4>1, <4>2
    <3>5. (n + 1) - 1 = n
      OBVIOUS
    <3>6. w[0] \in from
      BY <3>1 DEF Walk
    <3>7. Walk(g, c, from, n + 1, v)
      BY <3>2, <3>3, <3>4, <3>5, <3>6 DEF Walk
    <3> QED
      BY <3>3, <3>7
  <2>3. ends(n) \in SUBSET Sections
    OBVIOUS
  <2>4. ASSUME NEW s \in Further(g, c, ends(n)) PROVE s \in ends(n + 1)
    <3> HIDE DEF ends
    <3>1. s \in Sections
      BY <2>3, FurtherType
    <3>2. s \in ends(n) \/ \E d \in c : s \in Ends[g][d] /\ Ends[g][d] \cap ends(n) # {}
      BY <2>3, FurtherType
    <3> QED
      BY <2>2, <3>1, <3>2
  <2> HIDE DEF ends
  <2> QED
    BY <2>1, <2>4
<1> HIDE DEF ends
<1>3. \A n \in Nat : h[n] = IF n = 0 THEN from ELSE Further(g, c, h[n - 1])
  <2>1. ASSUME NEW n \in Nat, n # 0 PROVE ends(n) = Further(g, c, ends(n - 1))
    <3>1. n - 1 \in Nat /\ (n - 1) + 1 = n
      BY <2>1
    <3>2. ends((n - 1) + 1) = Further(g, c, ends(n - 1))
      BY <1>2, <3>1
    <3> QED
      BY <3>1, <3>2
  <2> QED
    BY <1>1, <2>1
<1>4. Nears(g, c, from, h)
  BY <1>3 DEF Nears
<1> QED
  BY <1>4

LEMMA JoinedIsNear ==
  ASSUME NEW g \in Configs, NEW c \in SUBSET Switches, NEW from \in SUBSET Sections
  PROVE  \E h : Nears(g, c, from, h) /\ Joined(g, c, from) = h[Cardinality(Sections)]
<1> DEFINE h == CHOOSE h :
      h = [n \in Nat |->
             IF n = 0 THEN from
             ELSE LET nearer == h[n - 1]
                      crossed == {d \in c : Ends[g][d] \cap nearer # {}}
                  IN  nearer \cup UNION {Ends[g][d] : d \in crossed}]
<1>1. Joined(g, c, from) = h[Cardinality(Sections)]
  BY DEF Joined
<1>2. Nears(g, c, from, h)
  BY WalksAreNears DEF Nears, Further
<1> HIDE DEF h
<1> QED
  BY <1>1, <1>2

\* Walks reach no further than Reach, and as long as they fall short of it each
\* device more adds a section; so as many as there are sections suffice.
LEMMA JoinedIsReach ==
  ASSUME NEW g \in Configs, NEW c \in SUBSET Switches, NEW from \in SUBSET Sections
  PROVE  Joined(g, c, from) = Reach(g, c, from)
<1> DEFINE N == Cardinality(Sections)
           R == Reach(g, c, from)
<1>1. PICK h : Nears(g, c, from, h) /\ Joined(g, c, from) = h[N]
  BY JoinedIsNear
<1>2. h[0] = from /\ \A n \in Nat : h[n + 1] = Further(g, c, h[n])
  <2>1. \A n \in Nat : h[n] = IF n = 0 THEN from ELSE Further(g, c, h[n - 1])
    BY <1>1 DEF Nears
  <2>2. ASSUME NEW n \in Nat PROVE h[n + 1] = Further(g, c, h[n])
    <3>1. n + 1 \in Nat /\ n + 1 # 0 /\ (n + 1) - 1 = n
      OBVIOUS
    <3> QED
      BY <2>1, <3>1
  <2> QED
    BY <2>1, <2>2
<1>3. R \in Enclosed(g, c) /\ from \subseteq R /\ R \in SUBSET Sections
  BY ReachEnclosed DEF Enclosed
<1>4. IsFiniteSet(Sections) /\ N \in Nat /\ \A S \in SUBSET Sections : IsFiniteSet(S)
  BY FiniteAssumption, FS_CardinalityType, FS_Subset DEF FiniteAssumption
<1> DEFINE good(n) == /\ from \subseteq h[n] /\ h[n] \subseteq R
                      /\ h[n] = R \/ n <= Cardinality(h[n])
           bad == {n \in Nat : ~ good(n)}
<1> HIDE DEF R, N
<1>5. good(0)
  <2>1. Cardinality(from) \in Nat
    BY <1>4, FS_CardinalityType
  <2> QED
    BY <1>2, <1>3, <2>1
<1>6. ASSUME NEW n \in Nat, good(n) PROVE good(n + 1)
  <2> DEFINE S == h[n]
             T == h[n + 1]
  <2>1. from \subseteq S /\ S \subseteq R /\ S \in SUBSET Sections
    BY <1>3, <1>6
  <2>2. T = Further(g, c, S)
    BY <1>2
  <2> HIDE DEF S, T
  <2>3. T \in SUBSET Sections /\ S \subseteq T
    BY <2>1, <2>2, FurtherType
  <2>4. T \subseteq R
    <3> SUFFICES ASSUME NEW x \in T PROVE x \in R
      OBVIOUS
    <3>1. x \in S \/ \E d \in c : x \in Ends[g][d] /\ Ends[g][d] \cap S # {}
      BY <2>1, <2>2, FurtherType
    <3> QED
      BY <1>3, <2>1, <3>1 DEF Enclosed
  <2>5. CASE S = R
    <3>1. T = R
      BY <2>3, <2>4, <2>5
    <3> QED
      BY <2>1, <2>3, <3>1 DEF T
  <2>6. CASE S # R
    <3>1. S \notin Enclosed(g, c)
      BY <2>1, <2>6, ReachLeast DEF R
    <3>2. PICK d \in c : Ends[g][d] \cap S # {} /\ ~ (Ends[g][d] \subseteq S)
      BY <2>1, <3>1 DEF Enclosed
    <3>3. T # S
      BY <2>1, <2>2, <3>2, FurtherType
    <3>4. Cardinality(S) < Cardinality(T) /\ Cardinality(S) \in Nat /\ Cardinality(T) \in Nat
      BY <1>4, <2>1, <2>3, <3>3, FS_Subset, FS_CardinalityType
    <3>5. n <= Cardinality(S)
      BY <1>6, <2>6 DEF S
    <3> DEFINE a == Cardinality(S)
               b == Cardinality(T)
    <3>6. a < b /\ a \in Nat /\ b \in Nat /\ n <= a
      BY <3>4, <3>5
    <3> HIDE DEF a, b
    <3>7. n + 1 <= b
      BY <3>6
    <3>8. n + 1 <= Cardinality(T)
      BY <3>7 DEF b
    <3> QED
      BY <2>1, <2>3, <2>4, <3>8 DEF T
  <2> QED
    BY <2>5, <2>6
<1>7. bad = {}
  <2> SUFFICES ASSUME bad # {} PROVE FALSE
    OBVIOUS
  <2>1. bad \subseteq Nat
    OBVIOUS
  <2> HIDE DEF good
  <2> HIDE DEF bad
  <2>2. PICK n \in bad : \A m \in bad : <<m, n>> \notin OpToRel(<, Nat)
    BY <2>1, NatLessThanWellFounded, WFMin
  <2>3. n \in Nat /\ ~ good(n) /\ n # 0
    BY <1>5, <2>2 DEF bad
  <2>4. n - 1 \in Nat /\ (n - 1) + 1 = n /\ n - 1 < n
    BY <2>3
  <2>5. <<n - 1, n>> \in OpToRel(<, Nat)
    BY <2>3, <2>4 DEF OpToRel
  <2>6. good(n - 1)
    BY <2>2, <2>4, <2>5 DEF bad
  <2>7. good((n - 1) + 1)
    BY <1>6, <2>4, <2>6
  <2> QED
    BY <2>3, <2>4, <2>7
<1>8. good(N)
  BY <1>4, <1>7
<1>9. h[N] = R
  <2> SUFFICES ASSUME h[N] # R PROVE FALSE
    OBVIOUS
  <2>1. h[N] \in SUBSET Sections /\ h[N] \subseteq R /\ N <= Cardinality(h[N])
    BY <1>3, <1>8
  <2>2. h[N] # Sections
    BY <1>3, <2>1
  <2>3. Cardinality(h[N]) < N /\ Cardinality(h[N]) \in Nat
    BY <1>4, <2>1, <2>2, FS_Subset, FS_CardinalityType DEF N
  <2> DEFINE k == Cardinality(h[N])
  <2>4. k < N /\ N <= k /\ k \in Nat
    BY <2>1, <2>3
  <2> HIDE DEF k
  <2> QED
    BY <1>4, <2>4
<1> QED
  BY <1>1, <1>9 DEF R

\* The breadth-first walk of the code and the least enclosed set of this model agree
\* on every network and in every state of its devices.
THEOREM WalksFindTheSupply == Spec => []SupplyIsAWalk
<1>1. NetworkType => SupplyIsAWalk
  <2> SUFFICES ASSUME NetworkType, NEW f \in Feeders
               PROVE  SuppliedBy(config, closed, f) =
                        IF f \in ActiveFeeders(closed)
                        THEN Joined(config, closed, Ends[config][BreakerOf[f]]) ELSE {}
    BY DEF SupplyIsAWalk
  <2>1. PICK g \in Configs, c \in SUBSET Switches : g = config /\ c = closed
    BY DEF NetworkType
  <2>2. SuppliedBy(g, c, f) = IF f \in ActiveFeeders(c)
                              THEN Reach(g, c, Ends[g][BreakerOf[f]]) ELSE {}
    BY SuppliedByReach DEF SuppliedBy
  <2>3. Joined(g, c, Ends[g][BreakerOf[f]]) = Reach(g, c, Ends[g][BreakerOf[f]])
    <3>1. PICK from \in SUBSET Sections : from = Ends[g][BreakerOf[f]]
      BY SuppliedByReach
    <3> QED
      BY <3>1, JoinedIsReach
  <2> QED
    BY <2>1, <2>2, <2>3
<1> QED
  BY <1>1, NetworkStays, PTL


-----------------------------------------------------------------------------
(* Radiality.                                                              *)

\* A device between two sections, as all but the breakers are.
Two(g, d) == \E s, t \in Ends[g][d] : s # t

\* The closed devices between sections of S.
Within(g, c, S) == {d \in c : Two(g, d) /\ Ends[g][d] \subseteq S}

LEMMA EndsCount ==
  ASSUME NEW g \in Configs, NEW d \in Switches
  PROVE  /\ Cardinality(Ends[g][d]) = IF Two(g, d) THEN 2 ELSE 1
         /\ \E a, b \in Sections : Ends[g][d] = {a, b} /\ (Two(g, d) <=> a # b)
<1>1. PICK a, b \in Sections : Ends[g][d] = {a, b}
  BY NetworkAssumption DEF NetworkAssumption
<1>2. Two(g, d) <=> a # b
  BY <1>1 DEF Two
<1>3. IsFiniteSet({a}) /\ Cardinality({a}) = 1
  BY FS_Singleton
<1>4. a # b => Cardinality({a} \cup {b}) = 2
  <2>1. IsFiniteSet({a}) => Cardinality({a} \cup {b}) =
          IF b \in {a} THEN Cardinality({a}) ELSE Cardinality({a}) + 1
    BY FS_AddElement
  <2> QED
    BY <1>3, <2>1
<1>5. {a} \cup {b} = {a, b} /\ (a = b => {a, b} = {a})
  OBVIOUS
<1> QED
  BY <1>1, <1>2, <1>3, <1>4, <1>5

\* A device has an edge for each section it touches, so one more if it is between two.
LEMMA EdgesCount ==
  ASSUME NEW g \in Configs, NEW parts \in SUBSET Switches
  PROVE  MapThenSumSet(LAMBDA d : Cardinality(Ends[g][d]), parts)
           = Cardinality(parts) + Cardinality({d \in parts : Two(g, d)})
<1> DEFINE edges == MapThenSumSet(LAMBDA d : Cardinality(Ends[g][d]), parts)
           weight == [d \in Switches |-> Cardinality(Ends[g][d])]
           two(s) == {d \in s : Two(g, d)}
           count(s) == Cardinality(s) + Cardinality(two(s))
           k == [s \in SUBSET parts |-> count(s)]
           h == CHOOSE h : h = [s \in SUBSET parts |->
                  IF s = {} THEN 0
                  ELSE Cardinality(Ends[g][CHOOSE x \in s : TRUE])
                         + h[s \ {CHOOSE x \in s : TRUE}]]
<1>1. IsFiniteSet(parts) /\ \A s \in SUBSET parts : IsFiniteSet(s) /\ IsFiniteSet(two(s))
  BY FiniteAssumption, FS_Subset DEF FiniteAssumption
<1>2. edges = h[parts]
  BY DEF MapThenSumSet, MapThenFoldSet
<1>3. count({}) = 0
  <2>1. two({}) = {}
    OBVIOUS
  <2> QED
    BY <2>1, FS_EmptySet
<1>4. ASSUME NEW s \in SUBSET parts, s # {}
      PROVE  count(s) = Cardinality(Ends[g][Pick(s)]) + count(s \ {Pick(s)})
  <2> DEFINE x == Pick(s)
             rest == s \ {x}
             n == Cardinality(rest)
             m == Cardinality(two(rest))
  <2>1. x \in s /\ x \in Switches
    BY <1>4 DEF Pick
  <2> HIDE DEF x
  <2>2. IsFiniteSet(s) /\ IsFiniteSet(rest) /\ IsFiniteSet(two(rest)) /\ IsFiniteSet(two(s))
    BY <1>1
  <2>3. Cardinality(s) = n + 1 /\ n \in Nat /\ m \in Nat
    <3>1. Cardinality(rest) = Cardinality(s) - 1
      BY <2>1, <2>2, FS_RemoveElement
    <3>2. Cardinality(s) \in Nat /\ Cardinality(rest) \in Nat /\ Cardinality(two(rest)) \in Nat
      BY <2>2, FS_CardinalityType
    <3> DEFINE all == Cardinality(s)
    <3>3. n = all - 1 /\ all \in Nat /\ n \in Nat
      BY <3>1, <3>2
    <3> HIDE DEF all, n
    <3>4. all = n + 1
      BY <3>3
    <3> QED
      BY <3>2, <3>3, <3>4 DEF all
  <2>4. Cardinality(two(s)) = IF Two(g, x) THEN m + 1 ELSE m
    <3>1. CASE Two(g, x)
      <4>1. two(s) = two(rest) \cup {x} /\ x \notin two(rest)
        BY <2>1, <3>1
      <4> QED
        BY <2>2, <3>1, <4>1, FS_AddElement
    <3>2. CASE ~ Two(g, x)
      <4>1. two(s) = two(rest)
        BY <3>2
      <4> QED
        BY <3>2, <4>1
    <3> QED
      BY <3>1, <3>2
  <2>5. Cardinality(Ends[g][x]) = IF Two(g, x) THEN 2 ELSE 1
    BY <2>1, EndsCount
  <2>6. count(s) = Cardinality(s) + Cardinality(two(s)) /\ count(rest) = n + m
    OBVIOUS
  <2> HIDE DEF count, n, m
  <2>7. count(s) = Cardinality(Ends[g][x]) + count(rest)
    <3>1. CASE Two(g, x)
      BY <2>3, <2>4, <2>5, <2>6, <3>1
    <3>2. CASE ~ Two(g, x)
      BY <2>3, <2>4, <2>5, <2>6, <3>2
    <3> QED
      BY <3>1, <3>2
  <2> QED
    BY <2>7 DEF x
<1>5. k[parts] = count(parts)
  OBVIOUS
<1> HIDE DEF count
<1> DEFINE Edges(f) == f = [s \in SUBSET parts |->
             IF s = {} THEN 0 ELSE Cardinality(Ends[g][Pick(s)]) + f[s \ {Pick(s)}]]
<1>6. Edges(k)
  <2>1. \A s \in SUBSET parts :
          k[s] = IF s = {} THEN 0
                 ELSE Cardinality(Ends[g][Pick(s)]) + k[s \ {Pick(s)}]
    BY <1>3, <1>4
  <2> QED
    BY <2>1
<1> HIDE DEF k
<1>7. Edges(h)
  BY <1>6 DEF Pick
<1>8. ASSUME NEW f, Edges(f) PROVE Sums(weight, parts, f)
  <2>1. \A s \in SUBSET parts : s # {} => Pick(s) \in Switches
    BY DEF Pick
  <2>2. \A s \in SUBSET parts : s # {} => weight[Pick(s)] = Cardinality(Ends[g][Pick(s)])
    BY <2>1
  <2> HIDE DEF weight
  <2> QED
    BY <1>8, <2>2 DEF Sums
<1> HIDE DEF h, weight, Edges
<1>9. k[parts] = h[parts]
  BY <1>1, <1>6, <1>7, <1>8, SumsAgree
<1> QED
  BY <1>2, <1>5, <1>9 DEF count

-----------------------------------------------------------------------------
(* Growing a part from one of its sections.                                *)

\* A family of subsets that can always grow holds the whole.
LEMMA Growth ==
  ASSUME NEW part, IsFiniteSet(part), NEW G \in SUBSET SUBSET part, G # {},
         \A S \in G : S # part => \E T \in G : S \subseteq T /\ S # T
  PROVE  part \in G
<1> DEFINE rests == {part \ S : S \in G}
<1>1. FiniteSubsetsOf(part) = SUBSET part
  BY FS_FiniteSubsetsOfFinite
<1>2. IsWellFoundedOn(StrictSubsetOrdering(part), SUBSET part)
  <2>1. IsWellFoundedOn(StrictSubsetOrdering(part), FiniteSubsetsOf(part))
    BY FS_StrictSubsetOrderingWellFounded
  <2> HIDE DEF rests
  <2> QED
    BY <1>1, <2>1
<1>3. rests \subseteq SUBSET part /\ rests # {}
  <2>1. rests \subseteq SUBSET part
    OBVIOUS
  <2>2. PICK S \in G : TRUE
    OBVIOUS
  <2>3. part \ S \in rests
    OBVIOUS
  <2> HIDE DEF rests
  <2> QED
    BY <2>1, <2>3
<1> HIDE DEF rests
<1>4. PICK r \in rests : \A q \in rests : <<q, r>> \notin StrictSubsetOrdering(part)
  BY <1>2, <1>3, WFMin
<1>5. PICK S \in G : r = part \ S
  BY <1>4 DEF rests
<1>6. S = part
  <2> SUFFICES ASSUME S # part PROVE FALSE
    OBVIOUS
  <2>1. PICK T \in G : S \subseteq T /\ S # T
    OBVIOUS
  <2>2. part \ T \in rests
    BY DEF rests
  <2>3. part \ T \subseteq part \ S /\ part \ T # part \ S
    BY <2>1
  <2> QED
    BY <1>4, <1>5, <2>2, <2>3 DEF StrictSubsetOrdering
<1> QED
  BY <1>6

LeadsOut(g, c, S, part) ==
  \E d \in c : \E a \in S : \E b \in part \ S : Ends[g][d] = {a, b}

\* Short of the whole part, some closed device leads out.
LEMMA StepOut ==
  ASSUME NEW g \in Configs, NEW c \in SUBSET Switches, NEW root \in Sections,
         NEW S \in SUBSET Reach(g, c, {root}), root \in S, S # Reach(g, c, {root})
  PROVE  LeadsOut(g, c, S, Reach(g, c, {root}))
<1> DEFINE part == Reach(g, c, {root})
<1>0. {root} \in SUBSET Sections
  OBVIOUS
<1>1. part \in Enclosed(g, c) /\ part \subseteq Sections
  BY <1>0, ReachEnclosed DEF Enclosed
<1>2. S \notin Enclosed(g, c)
  BY ReachLeast
<1>3. PICK d \in c : Ends[g][d] \cap S # {} /\ ~ (Ends[g][d] \subseteq S)
  BY <1>1, <1>2 DEF Enclosed
<1>4. Ends[g][d] \subseteq part
  BY <1>1, <1>3 DEF Enclosed
<1>5. PICK a, b \in Sections : Ends[g][d] = {a, b}
  BY EndsCount
<1> HIDE DEF part
<1>6. CASE a \in S
  BY <1>3, <1>4, <1>5, <1>6 DEF LeadsOut, part
<1>7. CASE a \notin S
  <2>1. b \in S /\ a \in part /\ Ends[g][d] = {b, a}
    BY <1>3, <1>4, <1>5, <1>7
  <2> QED
    BY <1>7, <2>1 DEF LeadsOut, part
<1> QED
  BY <1>6, <1>7

\* Joining sections takes one device less than there are, or more.
LEMMA PartNeedsDevices ==
  ASSUME NEW g \in Configs, NEW c \in SUBSET Switches, NEW root \in Sections
  PROVE  LET part == Reach(g, c, {root})
         IN  Cardinality(part) <= Cardinality(Within(g, c, part)) + 1
<1> DEFINE part == Reach(g, c, {root})
           size(S) == Cardinality(S)
           lines(S) == Cardinality(Within(g, c, S))
           G == {S \in SUBSET part : root \in S /\ size(S) <= lines(S) + 1}
<1>0. {root} \in SUBSET Sections
  OBVIOUS
<1>1. part \subseteq Sections /\ root \in part
  BY <1>0, ReachEnclosed DEF Enclosed
<1>2. IsFiniteSet(part)
      /\ \A S \in SUBSET part : IsFiniteSet(S) /\ IsFiniteSet(Within(g, c, S))
  BY <1>1, FiniteAssumption, FS_Subset DEF FiniteAssumption, Within
<1>3. \A S \in SUBSET part : size(S) \in Nat /\ lines(S) \in Nat
  BY <1>2, FS_CardinalityType
<1>4. {root} \in G
  <2>1. size({root}) = 1
    BY FS_Singleton
  <2>2. {root} \in SUBSET part
    BY <1>1
  <2>3. lines({root}) \in Nat
    BY <1>3, <2>2
  <2> HIDE DEF size, lines
  <2> QED
    BY <2>1, <2>2, <2>3
<1>5. ASSUME NEW S \in G, S # part
      PROVE  \E T \in G : S \subseteq T /\ S # T
  <2>1. S \in SUBSET part /\ root \in S /\ size(S) <= lines(S) + 1
    BY <1>5
  <2>2. PICK d \in c, a \in S, b \in part \ S : Ends[g][d] = {a, b}
    <3>1. LeadsOut(g, c, S, part)
      BY <1>5, <2>1, StepOut
    <3> HIDE DEF part, G, size, lines
    <3> QED
      BY <3>1 DEF LeadsOut
  <2> DEFINE T == S \cup {b}
  <2>3. T \in SUBSET part /\ b \notin S /\ root \in T /\ S \subseteq T /\ S # T
    BY <2>1, <2>2
  <2>4. size(T) = size(S) + 1
    BY <1>2, <2>1, <2>3, FS_AddElement
  <2>5. lines(S) + 1 <= lines(T)
    <3>1. Within(g, c, S) \cup {d} \subseteq Within(g, c, T) /\ d \notin Within(g, c, S)
      BY <2>2, <2>3 DEF Within, Two
    <3> DEFINE more == Within(g, c, S) \cup {d}
    <3>2. Cardinality(more) = lines(S) + 1
      BY <1>2, <2>1, <3>1, FS_AddElement
    <3>3. Cardinality(more) <= lines(T)
      BY <1>2, <2>3, <3>1, FS_Subset
    <3> HIDE DEF more, lines
    <3> QED
      BY <3>2, <3>3
  <2>6. size(S) \in Nat /\ size(T) \in Nat /\ lines(S) \in Nat /\ lines(T) \in Nat
    BY <1>3, <2>1, <2>3
  <2> HIDE DEF size, lines, T
  <2>7. size(T) <= lines(T) + 1
    BY <2>1, <2>4, <2>5, <2>6
  <2> QED
    BY <2>3, <2>7
<1> HIDE DEF G, part
<1>6. G \in SUBSET SUBSET part
  BY DEF G
<1>7. part \in G
  BY <1>2, <1>4, <1>5, <1>6, Growth
<1> QED
  BY <1>7 DEF G, part


-----------------------------------------------------------------------------
(* What is reached from a section.                                         *)

LEMMA ReachFromWithin ==
  ASSUME NEW g \in Configs, NEW c \in SUBSET Switches, NEW from \in SUBSET Sections,
         NEW x \in Reach(g, c, from)
  PROVE  Reach(g, c, {x}) \subseteq Reach(g, c, from)
<1>1. Reach(g, c, from) \in Enclosed(g, c) /\ Reach(g, c, from) \subseteq Sections
  BY ReachEnclosed DEF Enclosed
<1>2. {x} \in SUBSET Sections /\ {x} \subseteq Reach(g, c, from)
  BY <1>1
<1> QED
  BY <1>1, <1>2, ReachLeast

LEMMA ReachSymmetric ==
  ASSUME NEW g \in Configs, NEW c \in SUBSET Switches, NEW x \in Sections,
         NEW y \in Reach(g, c, {x})
  PROVE  y \in Sections /\ Reach(g, c, {y}) = Reach(g, c, {x})
<1>1. {x} \in SUBSET Sections
  OBVIOUS
<1>2. y \in Sections /\ {y} \in SUBSET Sections
  BY <1>1, ReachEnclosed DEF Enclosed
<1>3. /\ Reach(g, c, {y}) \in Enclosed(g, c) /\ y \in Reach(g, c, {y})
      /\ Reach(g, c, {x}) \in Enclosed(g, c) /\ x \in Reach(g, c, {x})
  BY <1>1, <1>2, ReachEnclosed
<1>4. x \in Reach(g, c, {y})
  <2> SUFFICES ASSUME x \notin Reach(g, c, {y}) PROVE FALSE
    OBVIOUS
  <2>1. Sections \ Reach(g, c, {y}) \in Enclosed(g, c)
    BY <1>3, Apart
  <2>2. {x} \subseteq Sections \ Reach(g, c, {y})
    OBVIOUS
  <2>3. Reach(g, c, {x}) \subseteq Sections \ Reach(g, c, {y})
    BY <1>1, <2>1, <2>2, ReachLeast
  <2> QED
    BY <1>3, <2>3
<1>5. Reach(g, c, {y}) \subseteq Reach(g, c, {x})
  BY <1>1, ReachFromWithin
<1>6. Reach(g, c, {x}) \subseteq Reach(g, c, {y})
  BY <1>2, <1>4, ReachFromWithin
<1> QED
  BY <1>2, <1>5, <1>6

\* A device whose ends are joined without it is the way to nothing.
LEMMA Redundant ==
  ASSUME NEW g \in Configs, NEW c \in SUBSET Switches, NEW d \in c,
         NEW s \in Sections, NEW t \in Reach(g, c \ {d}, {s}), Ends[g][d] = {s, t}
  PROVE  Reach(g, c \ {d}, {s}) = Reach(g, c, {s})
<1> DEFINE less == c \ {d}
           R == Reach(g, less, {s})
<1>1. {s} \in SUBSET Sections /\ less \in SUBSET Switches /\ less \subseteq c
  OBVIOUS
<1>2. R \in Enclosed(g, less) /\ s \in R
  BY <1>1, ReachEnclosed
<1>3. R \in Enclosed(g, c)
  BY <1>2 DEF Enclosed
<1>4. Reach(g, c, {s}) \subseteq R
  BY <1>1, <1>2, <1>3, ReachLeast
<1>5. R \subseteq Reach(g, c, {s})
  BY <1>1, ReachMonotone
<1> QED
  BY <1>4, <1>5

\* The only way between its two ends.
OneWay(g, c, d) ==
  \A s, t \in Ends[g][d] : s # t => t \notin Reach(g, c \ {d}, {s})

\* Every section of S reaches every other without leaving S.
Holds(g, c, S) == \A x, y \in S : y \in Reach(g, Within(g, c, S), {x})

LEMMA HoldsOne ==
  ASSUME NEW g \in Configs, NEW c \in SUBSET Switches, NEW x \in Sections
  PROVE  Holds(g, c, {x}) /\ Within(g, c, {x}) = {}
<1>1. Within(g, c, {x}) \in SUBSET Switches /\ {x} \in SUBSET Sections
  BY DEF Within
<1>2. x \in Reach(g, Within(g, c, {x}), {x})
  BY <1>1, ReachEnclosed
<1> QED
  BY <1>2 DEF Holds, Within, Two

LEMMA HoldsMore ==
  ASSUME NEW g \in Configs, NEW c \in SUBSET Switches, NEW S \in SUBSET Sections,
         Holds(g, c, S), NEW d \in c, NEW a \in S, NEW b \in Sections \ S,
         Ends[g][d] = {a, b}
  PROVE  Holds(g, c, S \cup {b})
<1> DEFINE T == S \cup {b}
           W == Within(g, c, S)
           V == Within(g, c, T)
<1>1. W \in SUBSET Switches /\ V \in SUBSET Switches /\ W \subseteq V /\ d \in V
  BY DEF Within, Two
<1>2. \A x \in S : {x} \in SUBSET Sections
  OBVIOUS
<1> HIDE DEF W, V
<1>3. ASSUME NEW x \in S, NEW y \in S PROVE y \in Reach(g, V, {x})
  <2>1. y \in Reach(g, W, {x})
    BY DEF Holds, W
  <2>2. Reach(g, W, {x}) \subseteq Reach(g, V, {x})
    BY <1>1, <1>2, ReachMonotone
  <2> QED
    BY <2>1, <2>2
<1>4. ASSUME NEW x \in S PROVE b \in Reach(g, V, {x})
  <2>1. a \in Reach(g, V, {x})
    BY <1>3
  <2>2. Reach(g, V, {x}) \in Enclosed(g, V)
    BY <1>1, <1>2, ReachEnclosed
  <2> QED
    BY <1>1, <2>1, <2>2 DEF Enclosed
<1>5. ASSUME NEW y \in S PROVE y \in Reach(g, V, {b})
  <2>1. b \in Reach(g, V, {y}) /\ y \in Sections
    BY <1>4
  <2>2. Reach(g, V, {b}) = Reach(g, V, {y})
    BY <1>1, <2>1, ReachSymmetric
  <2>3. y \in Reach(g, V, {y})
    BY <1>3
  <2> QED
    BY <2>2, <2>3
<1>6. b \in Reach(g, V, {b})
  <2>1. {b} \in SUBSET Sections
    OBVIOUS
  <2> QED
    BY <1>1, <2>1, ReachEnclosed
<1> QED
  BY <1>3, <1>4, <1>5, <1>6 DEF Holds, V

\* Where devices are the only way between their ends, one device joins each section
\* to those that hold together already.
LEMMA OneDeviceMore ==
  ASSUME NEW g \in Configs, NEW c \in SUBSET Switches, NEW S \in SUBSET Sections,
         Holds(g, c, S), NEW d \in c, NEW a \in S, NEW b \in Sections \ S,
         Ends[g][d] = {a, b}, OneWay(g, c, d)
  PROVE  Within(g, c, S \cup {b}) = Within(g, c, S) \cup {d} /\ d \notin Within(g, c, S)
<1> DEFINE T == S \cup {b}
           W == Within(g, c, S)
           less == c \ {d}
<1>1. W \cup {d} \subseteq Within(g, c, T) /\ d \notin W
  BY DEF Within, Two
<1>2. ASSUME NEW e \in Within(g, c, T), e \notin W, e # d PROVE FALSE
  <2>1. e \in c /\ e \in Switches /\ Two(g, e) /\ Ends[g][e] \subseteq T
    BY <1>2 DEF Within
  <2>2. PICK p, q \in Sections : Ends[g][e] = {p, q} /\ p # q
    BY <2>1, EndsCount
  <2>3. PICK o \in S : Ends[g][e] = {o, b}
    <3>1. ~ (Ends[g][e] \subseteq S)
      BY <1>2, <2>1 DEF Within
    <3> QED
      BY <2>1, <2>2, <3>1
  <2>4. less \in SUBSET Switches /\ W \in SUBSET Switches /\ W \subseteq less /\ e \in less
    BY <1>1, <1>2, <2>1 DEF Within
  <2>5. {a} \in SUBSET Sections
    OBVIOUS
  <2>6. o \in Reach(g, W, {a})
    BY DEF Holds
  <2> HIDE DEF W, less
  <2>7. o \in Reach(g, less, {a})
    BY <2>4, <2>5, <2>6, ReachMonotone
  <2>8. Reach(g, less, {a}) \in Enclosed(g, less)
    BY <2>4, <2>5, ReachEnclosed
  <2>9. b \in Reach(g, less, {a})
    BY <2>3, <2>4, <2>7, <2>8 DEF Enclosed
  <2> QED
    BY <2>9 DEF OneWay, less
<1> QED
  BY <1>1, <1>2

\* A part in which every device is the only way between its ends takes just one
\* device less than there are sections.
LEMMA PartIsATree ==
  ASSUME NEW g \in Configs, NEW c \in SUBSET Switches, NEW root \in Sections,
         \A d \in Within(g, c, Reach(g, c, {root})) : OneWay(g, c, d)
  PROVE  LET part == Reach(g, c, {root})
         IN  Cardinality(Within(g, c, part)) + 1 = Cardinality(part)
<1> DEFINE part == Reach(g, c, {root})
           size(S) == Cardinality(S)
           lines(S) == Cardinality(Within(g, c, S))
           G == {S \in SUBSET part : root \in S /\ lines(S) + 1 = size(S) /\ Holds(g, c, S)}
<1>0. {root} \in SUBSET Sections
  OBVIOUS
<1>1. part \subseteq Sections /\ root \in part /\ part \in Enclosed(g, c)
  BY <1>0, ReachEnclosed DEF Enclosed
<1>2. IsFiniteSet(part)
      /\ \A S \in SUBSET part : IsFiniteSet(S) /\ IsFiniteSet(Within(g, c, S))
  BY <1>1, FiniteAssumption, FS_Subset DEF FiniteAssumption, Within
<1>3. \A S \in SUBSET part : size(S) \in Nat /\ lines(S) \in Nat
  BY <1>2, FS_CardinalityType
<1>4. {root} \in G
  <2>1. size({root}) = 1
    BY FS_Singleton
  <2>2. {root} \in SUBSET part
    BY <1>1
  <2>3. lines({root}) = 0 /\ Holds(g, c, {root})
    BY HoldsOne, FS_EmptySet
  <2> HIDE DEF size, lines
  <2> QED
    BY <2>1, <2>2, <2>3
<1>5. ASSUME NEW S \in G, S # part
      PROVE  \E T \in G : S \subseteq T /\ S # T
  <2>1. S \in SUBSET part /\ root \in S /\ lines(S) + 1 = size(S) /\ Holds(g, c, S)
    BY <1>5
  <2>2. PICK d \in c, a \in S, b \in part \ S : Ends[g][d] = {a, b}
    <3>1. LeadsOut(g, c, S, part)
      BY <1>5, <2>1, StepOut
    <3> HIDE DEF part, G, size, lines
    <3> QED
      BY <3>1 DEF LeadsOut
  <2> DEFINE T == S \cup {b}
  <2>3. T \in SUBSET part /\ b \notin S /\ root \in T /\ S \subseteq T /\ S # T
        /\ S \in SUBSET Sections /\ b \in Sections \ S
    BY <1>1, <2>1, <2>2
  <2>4. size(T) = size(S) + 1
    BY <1>2, <2>1, <2>3, FS_AddElement
  <2>5. OneWay(g, c, d)
    <3>1. d \in Within(g, c, part)
      BY <2>1, <2>2 DEF Within, Two
    <3> QED
      BY <3>1
  <2>6. Within(g, c, T) = Within(g, c, S) \cup {d} /\ d \notin Within(g, c, S)
    <3> HIDE DEF G, size, lines, part
    <3> QED
      BY <2>1, <2>2, <2>3, <2>5, OneDeviceMore
  <2>7. Holds(g, c, T)
    <3> HIDE DEF G, size, lines, part
    <3> QED
      BY <2>1, <2>2, <2>3, HoldsMore
  <2>8. lines(T) = lines(S) + 1
    BY <1>2, <2>1, <2>6, FS_AddElement
  <2>9. size(S) \in Nat /\ lines(S) \in Nat
    BY <1>3, <2>1
  <2> HIDE DEF size, lines, T
  <2>10. lines(T) + 1 = size(T)
    BY <2>1, <2>4, <2>8, <2>9
  <2> QED
    BY <2>3, <2>7, <2>10
<1> HIDE DEF G, part
<1>6. G \in SUBSET SUBSET part
  BY DEF G
<1>7. part \in G
  BY <1>2, <1>4, <1>5, <1>6, Growth
<1> QED
  BY <1>7 DEF G, part

\* Where one is not, it takes more.
LEMMA PartWithALoop ==
  ASSUME NEW g \in Configs, NEW c \in SUBSET Switches, NEW root \in Sections,
         NEW d \in Within(g, c, Reach(g, c, {root})), ~ OneWay(g, c, d)
  PROVE  LET part == Reach(g, c, {root})
         IN  Cardinality(Within(g, c, part)) + 1 # Cardinality(part)
<1> DEFINE part == Reach(g, c, {root})
           less == c \ {d}
           lines == Within(g, c, part)
<1>1. d \in c /\ d \in Switches /\ Ends[g][d] \subseteq part /\ less \in SUBSET Switches
  BY DEF Within
<1>2. PICK s \in part, t \in part : Ends[g][d] = {s, t} /\ t \in Reach(g, less, {s})
  <2>1. PICK s, t \in Ends[g][d] : s # t /\ t \in Reach(g, less, {s})
    BY DEF OneWay
  <2>2. PICK p, q \in Sections : Ends[g][d] = {p, q}
    BY <1>1, EndsCount
  <2>3. Ends[g][d] = {s, t} /\ s \in part /\ t \in part
    BY <1>1, <2>1, <2>2
  <2> HIDE DEF part, less
  <2> QED
    BY <2>1, <2>3
<1>3. s \in Sections /\ Reach(g, c, {s}) = part
  BY ReachSymmetric
<1>4. Reach(g, less, {s}) = part
  BY <1>1, <1>2, <1>3, Redundant
<1>5. Cardinality(part) <= Cardinality(Within(g, less, part)) + 1
  <2> HIDE DEF part, less
  <2>1. Cardinality(Reach(g, less, {s})) <= Cardinality(Within(g, less, Reach(g, less, {s}))) + 1
    BY <1>1, <1>3, PartNeedsDevices
  <2> QED
    BY <1>4, <2>1
<1>6. Within(g, less, part) = lines \ {d} /\ d \in lines
  BY DEF Within
<1>7. IsFiniteSet(lines) /\ IsFiniteSet(part)
  <2>1. {root} \in SUBSET Sections
    OBVIOUS
  <2>2. part \subseteq Sections /\ lines \subseteq Switches
    BY <2>1, ReachEnclosed DEF Enclosed, Within
  <2> QED
    BY <2>2, FiniteAssumption, FS_Subset DEF FiniteAssumption
<1> HIDE DEF lines, part, less
<1> DEFINE n == Cardinality(lines)
           m == Cardinality(lines \ {d})
           k == Cardinality(part)
<1>8. m = n - 1 /\ n \in Nat /\ k \in Nat /\ k <= m + 1
  BY <1>5, <1>6, <1>7, FS_RemoveElement, FS_CardinalityType
<1> HIDE DEF n, m, k
<1>9. n + 1 # k
  BY <1>8
<1> QED
  BY <1>9 DEF n, k, lines, part

-----------------------------------------------------------------------------
(* Radial means one way.                                                   *)

\* What a closed breaker leads to is what any section it touches reaches.
LEMMA FedFromRoot ==
  ASSUME NEW g \in Configs, NEW c \in SUBSET Switches, NEW f \in ActiveFeeders(c)
  PROVE  \E root \in Sections :
            /\ root \in Ends[g][BreakerOf[f]]
            /\ FedFrom[g][c][f] = Reach(g, c, {root})
<1> DEFINE from == Ends[g][BreakerOf[f]]
<1>1. f \in Feeders /\ BreakerOf[f] \in c /\ BreakerOf[f] \in Switches
  BY NetworkAssumption DEF ActiveFeeders, NetworkAssumption
<1>2. FedFrom[g][c][f] = Reach(g, c, from) /\ from \in SUBSET Sections
  BY <1>1, SuppliedByReach
<1>3. PICK root \in Sections : root \in from
  BY <1>1, EndsCount
<1> HIDE DEF from
<1>4. {root} \in SUBSET Sections
  OBVIOUS
<1>5. Reach(g, c, from) \subseteq Reach(g, c, {root})
  <2>1. Reach(g, c, {root}) \in Enclosed(g, c) /\ root \in Reach(g, c, {root})
    BY <1>4, ReachEnclosed
  <2>2. from \subseteq Reach(g, c, {root})
    BY <1>1, <1>3, <2>1 DEF Enclosed, from
  <2> QED
    BY <1>2, <2>1, <2>2, ReachLeast
<1>6. Reach(g, c, {root}) \subseteq Reach(g, c, from)
  <2>1. root \in Reach(g, c, from)
    BY <1>2, <1>3, ReachEnclosed
  <2> QED
    BY <1>2, <2>1, ReachFromWithin
<1>7. root \in Ends[g][BreakerOf[f]] /\ FedFrom[g][c][f] = Reach(g, c, {root})
  <2>1. Reach(g, c, from) = Reach(g, c, {root})
    BY <1>5, <1>6
  <2> QED
    BY <1>2, <1>3, <2>1 DEF from
<1> QED
  BY <1>7

\* The count of the code, freed of the nodes and edges of devices.
LEMMA RadialCount ==
  ASSUME NEW g \in Configs, NEW c \in SUBSET Switches, NEW f \in ActiveFeeders(c)
  PROVE  LET part == FedFrom[g][c][f]
         IN  RadialComponent(g, c, f) <=>
               /\ Cardinality(Within(g, c, part)) + 1 = Cardinality(part)
               /\ \A other \in ActiveFeeders(c) :
                    Ends[g][BreakerOf[other]] \cap part # {} => other = f
<1> DEFINE part == FedFrom[g][c][f]
           parts == {d \in c : Ends[g][d] \cap part # {}}
           edges == MapThenSumSet(LAMBDA d : Cardinality(Ends[g][d]), parts)
           two == {d \in parts : Two(g, d)}
<1>1. PICK root \in Sections : part = Reach(g, c, {root})
  BY FedFromRoot
<1>2. part \in Enclosed(g, c) /\ part \subseteq Sections
  <2>1. {root} \in SUBSET Sections
    OBVIOUS
  <2> HIDE DEF part
  <2>2. part \in Enclosed(g, c)
    BY <1>1, <2>1, ReachEnclosed
  <2> QED
    BY <2>2 DEF Enclosed
<1>3. parts \in SUBSET Switches
  OBVIOUS
<1>4. edges = Cardinality(parts) + Cardinality(two)
  BY <1>3, EdgesCount
<1>5. two = Within(g, c, part)
  BY <1>2 DEF Within, Two, Enclosed
<1>6. IsFiniteSet(parts) /\ IsFiniteSet(two) /\ IsFiniteSet(part)
  BY <1>2, <1>3, FiniteAssumption, FS_Subset DEF FiniteAssumption
<1>7. Cardinality(parts) \in Nat /\ Cardinality(two) \in Nat /\ Cardinality(part) \in Nat
  BY <1>6, FS_CardinalityType
<1>8. \A other \in ActiveFeeders(c) :
        BreakerOf[other] \in parts <=> Ends[g][BreakerOf[other]] \cap part # {}
  BY DEF ActiveFeeders
<1>9. RadialComponent(g, c, f) <=>
        /\ edges + 1 = Cardinality(part) + Cardinality(parts)
        /\ \A other \in ActiveFeeders(c) : BreakerOf[other] \in parts => other = f
  BY DEF RadialComponent
<1> DEFINE n == Cardinality(parts)
           m == Cardinality(two)
           k == Cardinality(part)
<1>10. edges = n + m /\ n \in Nat /\ m \in Nat /\ k \in Nat
  BY <1>4, <1>7
<1> HIDE DEF edges, n, m, k
<1>11. edges + 1 = k + n <=> m + 1 = k
  BY <1>10
<1> HIDE DEF parts, two, part
<1> QED
  BY <1>5, <1>8, <1>9, <1>11 DEF n, m, k, part

OneSource(g, c) ==
  \A f, h \in ActiveFeeders(c) :
    f # h => SuppliedBy(g, c, f) \cap SuppliedBy(g, c, h) = {}

OneWays(g, c) ==
  \A d \in c :
    \A s, t \in Ends[g][d] :
      s # t /\ s \in Energised(g, c) => t \notin Joined(g, c \ {d}, {s})

LEMMA RadialOneWay ==
  ASSUME NEW g \in Configs, NEW c \in SUBSET Switches
  PROVE  Radial(g, c) <=> OneSource(g, c) /\ OneWays(g, c)
<1> DEFINE part(f) == FedFrom[g][c][f]
<1>1. ASSUME NEW f \in ActiveFeeders(c)
      PROVE  /\ f \in Feeders /\ SuppliedBy(g, c, f) = part(f) /\ part(f) \subseteq Sections
             /\ part(f) \subseteq Energised(g, c)
             /\ part(f) \in Enclosed(g, c) /\ Ends[g][BreakerOf[f]] \subseteq part(f)
             /\ Ends[g][BreakerOf[f]] # {}
  <2>1. f \in Feeders /\ BreakerOf[f] \in Switches
    BY NetworkAssumption DEF ActiveFeeders, NetworkAssumption
  <2>2. SuppliedBy(g, c, f) = part(f) /\ part(f) \subseteq Sections
    BY <2>1, SuppliedByReach
  <2>3. part(f) \subseteq Energised(g, c)
    BY <2>1, <2>2 DEF Energised
  <2>4. part(f) \in Enclosed(g, c) /\ Ends[g][BreakerOf[f]] \subseteq part(f)
    <3> DEFINE from == Ends[g][BreakerOf[f]]
    <3>1. from \in SUBSET Sections /\ part(f) = Reach(g, c, from)
      BY <2>1, SuppliedByReach
    <3> HIDE DEF from
    <3>2. part(f) \in Enclosed(g, c) /\ from \subseteq part(f)
      BY <3>1, ReachEnclosed
    <3> QED
      BY <3>2 DEF from
  <2>5. Ends[g][BreakerOf[f]] # {}
    BY <2>1, EndsCount
  <2> QED
    BY <2>1, <2>2, <2>3, <2>4, <2>5
<1>2. ASSUME NEW d \in c, NEW s \in Sections
      PROVE  Joined(g, c \ {d}, {s}) = Reach(g, c \ {d}, {s})
  <2>1. {s} \in SUBSET Sections /\ c \ {d} \in SUBSET Switches
    OBVIOUS
  <2> QED
    BY <2>1, JoinedIsReach
<1>3. \A d \in c : Ends[g][d] \subseteq Sections
  BY NetworkAssumption DEF NetworkAssumption
<1>4. ASSUME Radial(g, c) PROVE OneSource(g, c)
  BY <1>1, <1>4, RadialPartsAreApart DEF OneSource
<1>5. ASSUME Radial(g, c) PROVE OneWays(g, c)
  <2> SUFFICES ASSUME NEW d \in c, NEW s \in Ends[g][d], NEW t \in Ends[g][d],
                      s # t, s \in Energised(g, c), t \in Joined(g, c \ {d}, {s})
               PROVE  FALSE
    BY DEF OneWays
  <2>1. PICK f \in Feeders : s \in SuppliedBy(g, c, f)
    BY DEF Energised
  <2>2. f \in ActiveFeeders(c) /\ s \in part(f)
    BY <2>1 DEF SuppliedBy
  <2>3. PICK root \in Sections : part(f) = Reach(g, c, {root})
    BY <2>2, FedFromRoot
  <2>4. d \in Within(g, c, part(f))
    <3>1. Ends[g][d] \subseteq part(f)
      BY <1>1, <2>2 DEF Enclosed
    <3> QED
      BY <3>1 DEF Within, Two
  <2>5. ~ OneWay(g, c, d)
    BY <1>2, <1>3 DEF OneWay
  <2>6. Cardinality(Within(g, c, part(f))) + 1 # Cardinality(part(f))
    BY <2>3, <2>4, <2>5, PartWithALoop
  <2>7. RadialComponent(g, c, f)
    BY <1>5, <2>2 DEF Radial
  <2> QED
    BY <2>2, <2>6, <2>7, RadialCount
<1>6. ASSUME OneSource(g, c), OneWays(g, c) PROVE Radial(g, c)
  <2> SUFFICES ASSUME NEW f \in ActiveFeeders(c) PROVE RadialComponent(g, c, f)
    BY DEF Radial
  <2>1. PICK root \in Sections : part(f) = Reach(g, c, {root})
    BY FedFromRoot
  <2>2. ASSUME NEW d \in Within(g, c, part(f)) PROVE OneWay(g, c, d)
    <3>1. d \in c /\ Ends[g][d] \subseteq Energised(g, c)
      BY <1>1 DEF Within
    <3> QED
      BY <1>2, <1>3, <1>6, <3>1 DEF OneWay, OneWays
  <2>3. Cardinality(Within(g, c, part(f))) + 1 = Cardinality(part(f))
    <3>1. \A d \in Within(g, c, Reach(g, c, {root})) : OneWay(g, c, d)
      BY <2>1, <2>2
    <3>2. Cardinality(Within(g, c, Reach(g, c, {root}))) + 1 = Cardinality(Reach(g, c, {root}))
      BY <3>1, PartIsATree
    <3> QED
      BY <2>1, <3>2
  <2>4. ASSUME NEW other \in ActiveFeeders(c), Ends[g][BreakerOf[other]] \cap part(f) # {}
        PROVE  other = f
    BY <1>1, <1>6, <2>4 DEF OneSource
  <2> QED
    BY <2>3, <2>4, RadialCount
<1> QED
  BY <1>4, <1>5, <1>6

\* Counting nodes and edges, the code finds exactly the networks in which each section
\* has one source and each closed device is the only way between its ends.
THEOREM RadialIsOneWay == Spec => []RadialMeansOneWay
<1>1. NetworkType => RadialMeansOneWay
  <2> SUFFICES ASSUME NetworkType PROVE RadialMeansOneWay
    OBVIOUS
  <2>1. Radial(config, closed) <=> OneSource(config, closed) /\ OneWays(config, closed)
    BY RadialOneWay DEF NetworkType
  <2> QED
    BY <2>1 DEF RadialMeansOneWay, OneSource, OneWays
<1> QED
  BY <1>1, NetworkStays, PTL

-----------------------------------------------------------------------------
(* What a permitted restoration does.                                      *)

\* The permissives behind PERMITTED.
LEMMA PermittedMeans ==
  ASSUME NEW g \in Configs, NEW c \in SUBSET Switches, NEW fault \in Sections,
         AssessmentOutcome(g, Observed(c), fault) = "PERMITTED"
  PROVE  /\ Candidate(g, c, fault) # NoCandidate
         /\ Incident(g, fault) \cap c = {}
         /\ AlternateSourcePermissive(g, c, Candidate(g, c, fault))
         /\ RadialPermissive(g, c, Candidate(g, c, fault))
         /\ CapacityPermissive(g, c, Candidate(g, c, fault))
<1> DEFINE cand == Candidate(g, c, fault)
<1>1. OutcomeOf(g, Observed(c), c, fault, cand) = "PERMITTED"
  BY ObservedIsClosed DEF AssessmentOutcome
<1> HIDE DEF cand
<1>2. /\ cand # NoCandidate /\ Isolated(g, Observed(c), fault)
      /\ AlternateSourcePermissive(g, c, cand) /\ RadialPermissive(g, c, cand)
      /\ CapacityPermissive(g, c, cand)
  BY <1>1 DEF OutcomeOf, IsolationPermissive
<1>3. Incident(g, fault) \cap c = {}
  BY <1>2, ObservedOpen DEF Isolated, Incident
<1> QED
  BY <1>2, <1>3 DEF cand

\* On every network and from every state of its devices, closing the tie of a
\* PERMITTED assessment (restoration/service.py assess) leaves the network radial
\* and the faulted section dead, and changes the supply of the alternate feeder
\* alone, which takes over no section that had a source; of the faulted feeder's
\* sections it restores the candidate's and no others.
THEOREM PermittedTakesOnlyTheDead ==
  ASSUME NEW g \in Configs, NEW c \in SUBSET Switches, NEW fault \in Sections,
         AssessmentOutcome(g, Observed(c), fault) = "PERMITTED"
  PROVE  LET cand == Candidate(g, c, fault)
             after == c \cup {cand.tie}
         IN  /\ Radial(g, after)
             /\ fault \notin Energised(g, after)
             /\ TakesOver(g, c, after, cand.feeder, fault, cand.sections)
<1> DEFINE cand == Candidate(g, c, fault)
<1>1. /\ cand # NoCandidate
      /\ Incident(g, fault) \cap c = {}
      /\ AlternateSourcePermissive(g, c, cand)
      /\ RadialPermissive(g, c, cand)
  BY PermittedMeans
<1>2. PICK tie \in UsableTies(g, c, fault) :
        /\ cand = CandidateAt(g, c, fault, tie)
        /\ tie \in Switches /\ AlternateFeeder(g, tie, fault) \in Feeders
  BY <1>1, CandidateFound
<1>3. tie \notin Incident(g, fault)
  <2>1. cand.tie \notin Incident(g, fault)
    BY <1>1, TieIsNoBoundary
  <2> QED
    BY <1>2, <2>1 DEF CandidateAt
<1> HIDE DEF cand
<1>4. PICK f : f = AlternateFeeder(g, tie, fault)
  OBVIOUS
<1>5. cand.tie = tie /\ cand.feeder = f /\ cand.sections = ProposedSections(g, c, tie, fault)
  BY <1>2, <1>4 DEF CandidateAt
<1>6. f \in AvailableFeeders /\ BreakerOf[f] \in c /\ Radial(g, c \cup {tie})
  BY <1>1, <1>5 DEF AlternateSourcePermissive, RadialPermissive
<1>7. fault \notin Energised(g, c \cup {tie})
  <2>1. Incident(g, fault) \cap (c \cup {tie}) = {}
    BY <1>1, <1>3
  <2>2. c \cup {tie} \in SUBSET Switches
    BY <1>2
  <2> QED
    BY <2>1, <2>2, OpenBoundariesKill
<1>8. TakesOver(g, c, c \cup {tie}, f, fault, ProposedSections(g, c, tie, fault))
  BY <1>4, <1>6, <1>7, TakesOnlyTheDead
<1> QED
  BY <1>5, <1>6, <1>7, <1>8 DEF cand

\* Closing the tie feeds nothing but sections of the faulted feeder.
FeedsOneFeeder(g, c, fault) ==
  LET after == c \cup {Candidate(g, c, fault).tie}
  IN  \A s \in Energised(g, after) \ Energised(g, c) : FeederOf[s] = FeederOf[fault]

\* Where the newly fed sections are all of the faulted feeder, the load that
\* assess compared with the capacity is the load the alternate feeder carries
\* after the tie closes, and PERMITTED is exact.
THEOREM ExactForOneFeeder ==
  ASSUME NetworkType,
         \A fault \in Sections :
           AssessmentOutcome(config, Observed(closed), fault) = "PERMITTED"
             => FeedsOneFeeder(config, closed, fault)
  PROVE  PermittedIsExact
<1> SUFFICES ASSUME NEW fault \in Sections,
                    AssessmentOutcome(config, Observed(closed), fault) = "PERMITTED"
             PROVE  LET cand == Candidate(config, closed, fault)
                        after == closed \cup {cand.tie}
                    IN  /\ Energised(config, after) = Energised(config, closed) \cup cand.sections
                        /\ LoadOf(SuppliedBy(config, after, cand.feeder)) <= Capacity[cand.feeder]
                        /\ Radial(config, after)
                        /\ fault \notin Energised(config, after)
  BY DEF PermittedIsExact
<1>1. PICK g, c : g = config /\ c = closed
  OBVIOUS
<1>2. /\ g \in Configs /\ c \in SUBSET Switches
      /\ AssessmentOutcome(g, Observed(c), fault) = "PERMITTED"
      /\ FeedsOneFeeder(g, c, fault)
  BY <1>1 DEF NetworkType
<1> DEFINE cand == Candidate(g, c, fault)
           after == c \cup {cand.tie}
<1>3. /\ Radial(g, after) /\ fault \notin Energised(g, after)
      /\ TakesOver(g, c, after, cand.feeder, fault, cand.sections)
  BY <1>2, PermittedTakesOnlyTheDead
<1>4. /\ cand # NoCandidate /\ CapacityPermissive(g, c, cand)
  BY <1>2, PermittedMeans
<1>5. after \in SUBSET Switches /\ cand.sections \in SUBSET Sections
  <2>1. PICK tie \in UsableTies(g, c, fault) :
          /\ cand = CandidateAt(g, c, fault, tie) /\ tie \in Switches
          /\ ProposedSections(g, c, tie, fault) \in SUBSET Sections
    BY <1>2, <1>4, CandidateFound
  <2> HIDE DEF cand
  <2> QED
    BY <1>2, <2>1 DEF CandidateAt
<1>6. \A s \in Energised(g, after) \ Energised(g, c) : FeederOf[s] = FeederOf[fault]
  BY <1>2 DEF FeedsOneFeeder
<1>7. LoadOf(SuppliedBy(g, c, cand.feeder)) + LoadOf(cand.sections) <= Capacity[cand.feeder]
  BY <1>4 DEF CapacityPermissive
<1> HIDE DEF cand, after
<1>8. /\ cand.feeder \in Feeders
      /\ \A h \in Feeders \ {cand.feeder} : SuppliedBy(g, after, h) = SuppliedBy(g, c, h)
      /\ SuppliedBy(g, c, cand.feeder) \subseteq SuppliedBy(g, after, cand.feeder)
      /\ (SuppliedBy(g, after, cand.feeder) \ SuppliedBy(g, c, cand.feeder))
           \cap Energised(g, c) = {}
      /\ \A s : s \in cand.sections <=> /\ s \in Energised(g, after) /\ s \notin Energised(g, c)
                                        /\ FeederOf[s] = FeederOf[fault]
  BY <1>3 DEF TakesOver
<1>9. Energised(g, after) = Energised(g, c) \cup cand.sections
  <2>1. ASSUME NEW s \in Energised(g, c) PROVE s \in Energised(g, after)
    <3>1. PICK h \in Feeders : s \in SuppliedBy(g, c, h)
      BY <2>1 DEF Energised
    <3>2. s \in SuppliedBy(g, after, h)
      BY <1>8, <3>1
    <3> QED
      BY <3>2 DEF Energised
  <2> QED
    BY <1>6, <1>8, <2>1
<1>10. LoadOf(SuppliedBy(g, after, cand.feeder)) <= Capacity[cand.feeder]
  <2>1. SuppliedBy(g, after, cand.feeder) \subseteq SuppliedBy(g, c, cand.feeder) \cup cand.sections
    <3>1. SuppliedBy(g, after, cand.feeder) \subseteq Energised(g, after)
      BY <1>8 DEF Energised
    <3> QED
      BY <1>6, <1>8, <3>1
  <2> QED
    BY <1>2, <1>5, <1>7, <1>8, <2>1, FeederLoad
<1>11. /\ Energised(g, after) = Energised(g, c) \cup cand.sections
       /\ LoadOf(SuppliedBy(g, after, cand.feeder)) <= Capacity[cand.feeder]
       /\ Radial(g, after)
       /\ fault \notin Energised(g, after)
  BY <1>3, <1>9, <1>10
<1> QED
  BY <1>1, <1>11 DEF cand, after

\* Across a closed tie a feeder reaches, besides what it reached, what hangs
\* together with the other end.
LEMMA BeyondTheTie ==
  ASSUME NEW g \in Configs, NEW c \in SUBSET Switches, NEW tie \in Ties,
         NEW from \in SUBSET Sections, NEW s, NEW t, Ends[g][tie] = {s, t},
         s \in Reach(g, c, from)
  PROVE  Reach(g, c \cup {tie}, from) \subseteq Reach(g, c, from) \cup Reach(g, c, {t})
<1> DEFINE near == Reach(g, c, from)
           far == Reach(g, c, {t})
<1>1. tie \in Switches /\ c \cup {tie} \in SUBSET Switches
  BY NetworkAssumption DEF NetworkAssumption
<1>2. {t} \in SUBSET Sections
  BY <1>1, NetworkAssumption DEF NetworkAssumption
<1>3. near \in Enclosed(g, c) /\ from \subseteq near
  BY ReachEnclosed
<1>4. far \in Enclosed(g, c) /\ t \in far
  BY <1>2, ReachEnclosed
<1>5. s \in near
  OBVIOUS
<1> HIDE DEF near, far
<1>6. near \cup far \in Enclosed(g, c \cup {tie})
  BY <1>3, <1>4, <1>5 DEF Enclosed
<1> QED
  BY <1>1, <1>3, <1>6, ReachLeast DEF near, far

\* So what a permitted tie feeds is of the faulted feeder, as the candidate is.
LEMMA PermittedFeedsOne ==
  ASSUME NEW g \in Configs, NEW c \in SUBSET Switches, NEW fault \in Sections,
         AssessmentOutcome(g, Observed(c), fault) = "PERMITTED"
  PROVE  FeedsOneFeeder(g, c, fault)
<1> DEFINE cand == Candidate(g, c, fault)
<1>1. cand # NoCandidate
  BY PermittedMeans
<1>2. TakesOver(g, c, c \cup {cand.tie}, cand.feeder, fault, cand.sections)
  BY PermittedTakesOnlyTheDead
<1>3. PICK tie \in UsableTies(g, c, fault) :
        cand = CandidateAt(g, c, fault, tie) /\ tie \in Switches
  BY <1>1, CandidateFound
<1> DEFINE after == c \cup {tie}
<1>4. cand.tie = tie /\ cand.sections # {}
  BY <1>3 DEF CandidateAt, UsableTies
<1>5. PICK f : f = cand.feeder
  OBVIOUS
<1> HIDE DEF cand
<1>6. PICK x \in cand.sections : TRUE
  BY <1>4
<1>7. /\ f \in Feeders /\ f \in ActiveFeeders(c)
      /\ \A h \in Feeders \ {f} : SuppliedBy(g, after, h) = SuppliedBy(g, c, h)
      /\ x \in Energised(g, after) /\ x \notin Energised(g, c)
      /\ FeederOf[x] = FeederOf[fault]
  BY <1>2, <1>4, <1>5, <1>6 DEF TakesOver
<1>8. tie \in Ties /\ after \in SUBSET Switches
  BY <1>3 DEF UsableTies
<1> DEFINE start == Ends[g][BreakerOf[f]]
           near == Reach(g, c, start)
           later == Reach(g, after, start)
<1>9. /\ start \in SUBSET Sections
      /\ FedFrom[g][c][f] = near /\ FedFrom[g][after][f] = later
      /\ SuppliedBy(g, c, f) = near
  BY <1>7, <1>8, SuppliedByReach DEF SuppliedBy
<1>10. SuppliedBy(g, after, f) = later
  BY <1>7, <1>8, <1>9, TieActivatesNone DEF SuppliedBy
<1>11. near \subseteq Energised(g, c)
  BY <1>7, <1>9 DEF Energised
<1> HIDE DEF start, near, later
<1>12. \A y \in Energised(g, after) \ Energised(g, c) : y \in later /\ y \notin near
  BY <1>7, <1>10, <1>11 DEF Energised
<1>13. x \in later /\ x \notin near
  BY <1>7, <1>12
<1>14. PICK s \in Ends[g][tie] : s \in near
  <2> SUFFICES ASSUME Ends[g][tie] \cap near = {} PROVE FALSE
    OBVIOUS
  <2>1. Reach(g, after, start) \subseteq Reach(g, c, start)
    BY <1>3, <1>8, <1>9, UntouchedReach DEF near
  <2> QED
    BY <1>13, <2>1 DEF near, later
<1>15. PICK t \in Sections : Ends[g][tie] = {s, t}
  <2>1. PICK p, q \in Sections : Ends[g][tie] = {p, q}
    BY <1>3, NetworkAssumption DEF NetworkAssumption
  <2>2. CASE s = p
    BY <2>1, <2>2
  <2>3. CASE s = q
    <3>1. Ends[g][tie] = {s, p}
      BY <2>1, <2>3
    <3> QED
      BY <3>1
  <2> QED
    BY <1>14, <2>1, <2>2, <2>3
<1>16. later \subseteq near \cup Reach(g, c, {t})
  BY <1>8, <1>9, <1>14, <1>15, BeyondTheTie DEF near, later
<1>17. t \notin near
  <2> SUFFICES ASSUME t \in near PROVE FALSE
    OBVIOUS
  <2>1. near \in Enclosed(g, c)
    BY <1>9, ReachEnclosed DEF near
  <2>2. {t} \in SUBSET Sections
    OBVIOUS
  <2>3. Reach(g, c, {t}) \subseteq near
    BY <2>1, <2>2, ReachLeast
  <2> QED
    BY <1>13, <1>16, <2>3
<1>18. \A y, z \in Reach(g, c, {t}) : FeederOf[y] = FeederOf[z]
  BY <1>7, <1>8, <1>9, <1>14, <1>15, <1>17, TieAssumption DEF TieAssumption
<1>19. \A y \in Energised(g, after) \ Energised(g, c) : FeederOf[y] = FeederOf[fault]
  BY <1>7, <1>12, <1>13, <1>16, <1>18
<1> QED
  BY <1>4, <1>19 DEF FeedsOneFeeder, cand

\* RestorationService judges a candidate on the network before the tie closes: on
\* a network of ties that each add one feeder's sections, PERMITTED is exact in
\* every state of the devices.
THEOREM PermittedStaysExact == Spec => []PermittedIsExact
<1>1. NetworkType => PermittedIsExact
  <2> SUFFICES ASSUME NetworkType PROVE PermittedIsExact
    OBVIOUS
  <2>1. \A fault \in Sections :
          AssessmentOutcome(config, Observed(closed), fault) = "PERMITTED"
            => FeedsOneFeeder(config, closed, fault)
    BY PermittedFeedsOne DEF NetworkType
  <2> QED
    BY <2>1, ExactForOneFeeder
<1> QED
  BY <1>1, NetworkStays, PTL
=============================================================================
