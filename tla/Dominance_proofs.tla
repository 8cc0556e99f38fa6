-------------------------- MODULE Dominance_proofs --------------------------
(***************************************************************************)
(* What dominators are like, for all graphs: they are ordered, those of a  *)
(* vertex are on one line, and every vertex that can be reached has one    *)
(* immediate dominator.  This is what renaming along the dominator tree    *)
(* relies on.                                                              *)
(***************************************************************************)
EXTENDS Dominance, GraphTraversal_proofs

\* S is a set of vertices that the edges do not leave.
Closed(g, S) == \A e \in g.edges : e[1] \in S => e[2] \in S

\* One step more.
Further(g, S) == S \cup UNION {Succs(g, v) : v \in S}
WithinUpTo(g, m, w) == w = [k \in 0 .. m |-> IF k = 0 THEN {0} ELSE Further(g, w[k - 1])]

\* The sets that the steps reach, up to any number of steps.
LEMMA WithinExists ==
  ASSUME NEW g, NEW n \in Nat
  PROVE  \E w : WithinUpTo(g, n, w)
PROOF
  <1> DEFINE Bad == {m \in Nat : ~ \E w : WithinUpTo(g, m, w)}
  <1> SUFFICES ASSUME Bad # {} PROVE FALSE
    OBVIOUS
  <1>1. PICK m \in Bad : \A y \in Bad : m <= y
    BY SmallestNumber
  <1>2. m # 0
    <2> DEFINE w == [k \in 0 .. 0 |-> {0}]
    <2>1. WithinUpTo(g, 0, w)
      BY DEF WithinUpTo
    <2> QED
      BY <2>1
  <1>3. m - 1 \in Nat /\ m - 1 \notin Bad
    BY <1>1, <1>2
  <1>4. PICK w : WithinUpTo(g, m - 1, w)
    BY <1>3
  <1> DEFINE x == [k \in 0 .. m |-> IF k = m THEN Further(g, w[m - 1]) ELSE w[k]]
  <1>5. \A k \in 0 .. m - 1 : w[k] = IF k = 0 THEN {0} ELSE Further(g, w[k - 1])
    BY <1>4 DEF WithinUpTo
  <1>6. \A k \in 0 .. m : x[k] = IF k = 0 THEN {0} ELSE Further(g, x[k - 1])
    BY <1>2, <1>3, <1>5
  <1>7. WithinUpTo(g, m, x)
    <2>1. x = [k \in 0 .. m |-> x[k]]
      OBVIOUS
    <2> HIDE DEF x
    <2> QED
      BY <2>1, <1>6 DEF WithinUpTo
  <1> QED
    BY <1>1, <1>7

\* Reached(g) is where the steps lead.
LEMMA ReachedBySteps ==
  ASSUME NEW g, g.size \in Nat
  PROVE  \E w : WithinUpTo(g, g.size, w) /\ Reached(g) = w[g.size]
PROOF
  <1>1. PICK w : WithinUpTo(g, g.size, w)
    BY WithinExists
  <1>2. WithinUpTo(g, g.size, CHOOSE x : WithinUpTo(g, g.size, x))
    BY <1>1
  <1>3. Reached(g) = (CHOOSE x : WithinUpTo(g, g.size, x))[g.size]
    BY Zenon DEF Reached, WithinUpTo, Further
  <1> QED
    BY <1>2, <1>3

-----------------------------------------------------------------------------
(* What can be reached.                                                    *)

\* Whatever contains the entry and is not left by the edges contains what can be
\* reached.
LEMMA ReachedLeast ==
  ASSUME NEW g, IsGraph(g), NEW S, 0 \in S, Closed(g, S)
  PROVE  Reached(g) \subseteq S
PROOF
  <1>1. g.size \in Nat
    BY DEF IsGraph
  <1>2. PICK w : WithinUpTo(g, g.size, w) /\ Reached(g) = w[g.size]
    BY <1>1, ReachedBySteps
  <1> DEFINE Bad == {k \in 0 .. g.size : ~ w[k] \subseteq S}
  <1> SUFFICES ASSUME Bad # {} PROVE FALSE
    BY <1>1, <1>2
  <1> Bad \subseteq Nat
    BY <1>1
  <1>3. PICK k \in Bad : \A y \in Bad : k <= y
    BY SmallestNumber
  <1>4. w[k] = IF k = 0 THEN {0} ELSE Further(g, w[k - 1])
    BY <1>2, <1>3 DEF WithinUpTo
  <1>5. k # 0 /\ k \in Nat /\ k - 1 \in 0 .. g.size
    BY <1>1, <1>3, <1>4
  <1>6. w[k - 1] \subseteq S
    BY <1>3, <1>5
  <1>7. Further(g, w[k - 1]) \subseteq S
    <2>1. ASSUME NEW v \in w[k - 1], NEW x \in Succs(g, v)
          PROVE  x \in S
      <3>1. <<v, x>> \in g.edges /\ <<v, x>>[1] = v /\ <<v, x>>[2] = x
        BY <2>1 DEF Succs
      <3> QED
        BY <3>1, <1>6, <2>1 DEF Closed
    <2> QED
      BY <2>1, <1>6 DEF Further
  <1> QED
    BY <1>3, <1>4, <1>5, <1>7

\* The steps add vertices until no edge leads further.
LEMMA ReachedClosed ==
  ASSUME NEW g, IsGraph(g)
  PROVE  0 \in Reached(g) /\ Reached(g) \subseteq Vertices(g) /\ Closed(g, Reached(g))
PROOF
  <1>1. g.size \in Nat \ {0} /\ 0 \in Vertices(g) /\ \A e \in g.edges : e = <<e[1], e[2]>> /\ e[2] \in Vertices(g)
    BY DEF IsGraph, Vertices
  <1>2. PICK w : WithinUpTo(g, g.size, w) /\ Reached(g) = w[g.size]
    BY <1>1, ReachedBySteps
  <1>3. w[0] = {0} /\ \A k \in 1 .. g.size : w[k] = Further(g, w[k - 1])
    <2>1. \A k \in 0 .. g.size : w[k] = IF k = 0 THEN {0} ELSE Further(g, w[k - 1])
      BY <1>2 DEF WithinUpTo
    <2> QED
      BY <1>1, <2>1
  <1>4. IsFiniteSet(Vertices(g)) /\ Cardinality(Vertices(g)) = g.size
    <2>1. g.size - 1 \in Int /\ ~ 0 > g.size - 1 /\ g.size - 1 - 0 + 1 = g.size
      BY <1>1
    <2>2. IsFiniteSet(0 .. g.size - 1) /\ Cardinality(0 .. g.size - 1) = g.size - 1 - 0 + 1
      BY <2>1, FS_Interval
    <2> QED
      BY <2>1, <2>2 DEF Vertices
  <1> DEFINE Good(k) == /\ 0 \in w[k] /\ w[k] \subseteq Vertices(g)
                        /\ Closed(g, w[k]) \/ Cardinality(w[k]) > k
             Bad == {k \in 0 .. g.size : ~ Good(k)}
  <1>5. Good(0)
    <2>1. Cardinality({0}) = 1
      BY FS_Singleton
    <2> QED
      BY <2>1, <1>1, <1>3
  <1>6. ASSUME NEW k \in 1 .. g.size, Good(k - 1)
        PROVE  Good(k)
    <2> DEFINE S == w[k - 1]
    <2>1. w[k] = Further(g, S)
      BY <1>3
    <2>2. 0 \in w[k] /\ S \subseteq w[k] /\ w[k] \subseteq Vertices(g)
      BY <2>1, <1>6 DEF Further, Succs
    <2>3. CASE Closed(g, S)
      <3>1. w[k] = S
        <4>1. ASSUME NEW v \in S, NEW x \in Succs(g, v)
              PROVE  x \in S
          <5>1. <<v, x>> \in g.edges /\ <<v, x>>[1] = v /\ <<v, x>>[2] = x
            BY <4>1 DEF Succs
          <5> QED
            BY <5>1, <2>3, <4>1 DEF Closed
        <4> QED
          BY <2>1, <4>1 DEF Further
      <3> QED
        BY <3>1, <2>2, <2>3
    <2>4. CASE ~ Closed(g, S)
      <3>1. PICK e \in g.edges : e[1] \in S /\ e[2] \notin S
        BY <2>4 DEF Closed
      <3>2. e[2] \in w[k]
        BY <2>1, <3>1, <1>1 DEF Further, Succs
      <3>3. IsFiniteSet(w[k])
        BY <2>2, <1>4, FS_Subset
      <3>4. IsFiniteSet(S) /\ Cardinality(S) <= Cardinality(w[k]) /\ Cardinality(S) # Cardinality(w[k])
        BY <3>1, <3>2, <3>3, <2>2, FS_Subset
      <3>5. Cardinality(S) \in Nat /\ Cardinality(w[k]) \in Nat
        BY <3>3, <3>4, FS_CardinalityType
      <3>6. Cardinality(S) > k - 1
        BY <1>6, <2>4
      <3> QED
        BY <2>2, <3>4, <3>5, <3>6
    <2> QED
      BY <2>3, <2>4
  <1> HIDE DEF Good
  <1>7. Good(g.size)
    <2> SUFFICES ASSUME Bad # {} PROVE FALSE
      BY <1>1
    <2> Bad \subseteq Nat
      BY <1>1
    <2>1. PICK k \in Bad : \A y \in Bad : k <= y
      BY SmallestNumber
    <2>2. k # 0
      BY <2>1, <1>5
    <2>4. k \in 1 .. g.size /\ k - 1 \in 0 .. g.size /\ ~ k <= k - 1
      BY <2>1, <2>2, <1>1
    <2>3. Good(k - 1)
      BY <2>1, <2>4
    <2> QED
      BY <2>1, <2>4, <2>3, <1>6
  <1>8. Cardinality(w[g.size]) <= g.size
    BY <1>4, <1>7, FS_Subset DEF Good
  <1>9. Cardinality(w[g.size]) \in Nat
    BY <1>4, <1>7, FS_Subset, FS_CardinalityType DEF Good
  <1> QED
    BY <1>1, <1>2, <1>7, <1>8, <1>9 DEF Good

-----------------------------------------------------------------------------
(* The order of the dominators.                                            *)

\* Dominators of dominators.
LEMMA DominatesTransitive ==
  ASSUME NEW g, IsGraph(g), NEW a, NEW b, NEW c, Dominates(g, a, b), Dominates(g, b, c)
  PROVE  Dominates(g, a, c)
PROOF
  <1>1. CASE a = b \/ b = c \/ a = c
    BY <1>1 DEF Dominates
  <1>2. CASE a # b /\ b # c /\ a # c
    <2>1. PICK S \in SUBSET (Vertices(g) \ {a, b}) :
             0 \in S \cup {a} /\ \A e \in g.edges : e[1] \in S => e[2] \in S \cup {a}
      BY <1>2 DEF Dominates
    <2>2. PICK T \in SUBSET (Vertices(g) \ {b, c}) :
             0 \in T \cup {b} /\ \A e \in g.edges : e[1] \in T => e[2] \in T \cup {b}
      BY <1>2 DEF Dominates
    <2> DEFINE U == S \cap T
    <2>3. U \in SUBSET (Vertices(g) \ {a, c}) /\ 0 \in U \cup {a}
      BY <2>1, <2>2
    <2>4. \A e \in g.edges : e[1] \in U => e[2] \in U \cup {a}
      BY <2>1, <2>2
    <2> QED
      BY <2>3, <2>4 DEF Dominates
  <1> QED
    BY <1>1, <1>2

\* Two vertices that dominate each other cannot be reached.
LEMMA DominatesAntisymmetric ==
  ASSUME NEW g, IsGraph(g), NEW a, NEW b \in Reached(g), Dominates(g, a, b), Dominates(g, b, a)
  PROVE  a = b
PROOF
  <1> SUFFICES ASSUME a # b PROVE FALSE
    OBVIOUS
  <1>1. PICK S \in SUBSET (Vertices(g) \ {a, b}) :
           0 \in S \cup {a} /\ \A e \in g.edges : e[1] \in S => e[2] \in S \cup {a}
    BY DEF Dominates
  <1>2. PICK T \in SUBSET (Vertices(g) \ {a, b}) :
           0 \in T \cup {b} /\ \A e \in g.edges : e[1] \in T => e[2] \in T \cup {b}
    BY DEF Dominates
  <1> DEFINE U == S \cap T
  <1>3. 0 \in U /\ b \notin U
    BY <1>1, <1>2
  <1>4. Closed(g, U)
    BY <1>1, <1>2 DEF Closed
  <1> HIDE DEF U
  <1> QED
    BY <1>3, <1>4, ReachedLeast

\* So are the dominators of what can be reached.
LEMMA DominatorReached ==
  ASSUME NEW g, IsGraph(g), NEW v \in Reached(g), NEW d, Dominates(g, d, v)
  PROVE  d \in Reached(g)
PROOF
  <1> SUFFICES ASSUME d \notin Reached(g) PROVE FALSE
    OBVIOUS
  <1>1. d # v /\ d # 0
    BY ReachedClosed
  <1>2. PICK S \in SUBSET (Vertices(g) \ {d, v}) :
           0 \in S \cup {d} /\ \A e \in g.edges : e[1] \in S => e[2] \in S \cup {d}
    BY <1>1 DEF Dominates
  <1> DEFINE U == S \cap Reached(g)
  <1>3. 0 \in U /\ v \notin U /\ Closed(g, U)
    BY <1>1, <1>2, ReachedClosed DEF Closed
  <1> HIDE DEF U
  <1> QED
    BY <1>3, ReachedLeast

\* The entry dominates what can be reached.
LEMMA EntryDominates ==
  ASSUME NEW g, IsGraph(g), NEW v \in Vertices(g)
  PROVE  Dominates(g, 0, v)
PROOF
  <1> SUFFICES ASSUME v # 0 PROVE \E S \in SUBSET (Vertices(g) \ {0, v}) :
             /\ 0 \in S \cup {0}
             /\ \A e \in g.edges : e[1] \in S => e[2] \in S \cup {0}
    BY DEF Dominates
  <1> WITNESS {} \in SUBSET (Vertices(g) \ {0, v})
  <1> QED
    OBVIOUS

\* The dominators of a vertex are on one line.
LEMMA DominatorsInLine ==
  ASSUME NEW g, IsGraph(g), NEW v \in Reached(g), NEW a, NEW b, Dominates(g, a, v), Dominates(g, b, v)
  PROVE  Dominates(g, a, b) \/ Dominates(g, b, a)
PROOF
  <1> SUFFICES ASSUME ~ Dominates(g, a, b), ~ Dominates(g, b, a) PROVE FALSE
    OBVIOUS
  <1>1. a # b /\ a # v /\ b # v
    BY DEF Dominates
  <1>2. PICK S \in SUBSET (Vertices(g) \ {a, v}) :
           0 \in S \cup {a} /\ \A e \in g.edges : e[1] \in S => e[2] \in S \cup {a}
    BY <1>1 DEF Dominates
  <1>3. PICK T \in SUBSET (Vertices(g) \ {b, v}) :
           0 \in T \cup {b} /\ \A e \in g.edges : e[1] \in T => e[2] \in T \cup {b}
    BY <1>1 DEF Dominates
  <1>4. b \in S /\ a \in T
    <2>1. b \in S
      <3> SUFFICES ASSUME b \notin S PROVE FALSE
        OBVIOUS
      <3>1. S \in SUBSET (Vertices(g) \ {a, b})
        BY <1>2
      <3> QED
        BY <3>1, <1>2 DEF Dominates
    <2>2. a \in T
      <3> SUFFICES ASSUME a \notin T PROVE FALSE
        OBVIOUS
      <3>1. T \in SUBSET (Vertices(g) \ {b, a})
        BY <1>3
      <3> QED
        BY <3>1, <1>3 DEF Dominates
    <2> QED
      BY <2>1, <2>2
  <1> DEFINE U == S \cup T
  <1>5. 0 \in U /\ v \notin U /\ Closed(g, U)
    BY <1>2, <1>3, <1>4 DEF Closed
  <1> HIDE DEF U
  <1> QED
    BY <1>5, ReachedLeast

\* dom_tree: what can be reached, but for the entry, has one immediate dominator.
LEMMA ImmediateDominator ==
  ASSUME NEW g, IsGraph(g), NEW v \in Reached(g), v # 0
  PROVE  \E d \in Reached(g) : v \in ImmediatelyDominated(g, d)
PROOF
  <1> DEFINE SD == StrictDominators(g, v)
             Above(d) == {x \in SD : ~ Dominates(g, x, d)}
             Sizes == {Cardinality(Above(d)) : d \in SD}
  <1>1. Reached(g) \subseteq Vertices(g) /\ 0 \in Vertices(g)
    BY ReachedClosed
  <1>2. 0 \in SD
    BY <1>1, EntryDominates DEF StrictDominators
  <1>3. IsFiniteSet(SD)
    <2>1. IsFiniteSet(Vertices(g))
      BY FS_Interval DEF Vertices, IsGraph
    <2> QED
      BY <2>1, FS_Subset DEF StrictDominators
  <1>4. \A d \in SD : IsFiniteSet(Above(d)) /\ Cardinality(Above(d)) \in Nat
    BY <1>3, FS_Subset, FS_CardinalityType
  <1>5. Sizes \subseteq Nat /\ Sizes # {}
    BY <1>2, <1>4
  <1>6. PICK d \in SD : \A y \in SD : Cardinality(Above(d)) <= Cardinality(Above(y))
    <2> HIDE DEF Above, SD
    <2>1. PICK s \in Sizes : \A y \in Sizes : s <= y
      BY <1>5, SmallestNumber
    <2> QED
      BY <2>1
  <1>7. ASSUME NEW x \in SD
        PROVE  Dominates(g, x, d)
    <2> SUFFICES ASSUME ~ Dominates(g, x, d) PROVE FALSE
      OBVIOUS
    <2>1. Dominates(g, x, v) /\ Dominates(g, d, v)
      BY DEF StrictDominators
    <2>2. Dominates(g, d, x)
      BY <2>1, DominatorsInLine
    <2>3. Above(x) \subseteq Above(d)
      BY <2>2, DominatesTransitive
    <2>4. x \in Above(d) /\ x \notin Above(x)
      BY DEF Dominates
    <2>5. Cardinality(Above(x)) <= Cardinality(Above(d)) /\ Cardinality(Above(x)) # Cardinality(Above(d))
      <3> HIDE DEF Above
      <3> QED
        BY <2>3, <2>4, <1>4, FS_Subset
    <2>6. Cardinality(Above(d)) <= Cardinality(Above(x))
      BY <1>6
    <2>7. Cardinality(Above(x)) \in Nat /\ Cardinality(Above(d)) \in Nat
      BY <1>4
    <2> HIDE DEF Above, SD
    <2> QED
      BY <2>5, <2>6, <2>7
  <1>8. v \in ImmediatelyDominated(g, d)
    BY <1>1, <1>7 DEF ImmediatelyDominated
  <1>9. d \in Reached(g)
    BY DominatorReached DEF StrictDominators
  <1> QED
    BY <1>8, <1>9

\* Nothing is a child of two vertices of the dominator tree.
LEMMA OneImmediateDominator ==
  ASSUME NEW g, IsGraph(g), NEW c, NEW d, NEW v \in ImmediatelyDominated(g, c) \cap ImmediatelyDominated(g, d)
  PROVE  c = d
PROOF
  <1>1. /\ v \in Reached(g) /\ c \in StrictDominators(g, v) /\ d \in StrictDominators(g, v)
        /\ Dominates(g, c, d) /\ Dominates(g, d, c)
    BY DEF ImmediatelyDominated
  <1>2. d \in Reached(g)
    BY <1>1, DominatorReached DEF StrictDominators
  <1> QED
    BY <1>1, <1>2, DominatesAntisymmetric

\* Among the dominators of a vertex there is a first one.
LEMMA FirstInLine ==
  ASSUME NEW g, IsGraph(g), NEW v \in Reached(g), NEW C, C \subseteq Vertices(g), C # {},
         \A x \in C : Dominates(g, x, v)
  PROVE  \E c \in C : \A x \in C : Dominates(g, c, x)
PROOF
  <1> DEFINE Others(c) == {x \in C : ~ Dominates(g, c, x)}
             Sizes == {Cardinality(Others(c)) : c \in C}
  <1>1. \A c \in C : IsFiniteSet(Others(c)) /\ Cardinality(Others(c)) \in Nat
    <2>1. IsFiniteSet(Vertices(g))
      BY FS_Interval DEF Vertices, IsGraph
    <2> QED
      BY <2>1, FS_Subset, FS_CardinalityType
  <1>2. PICK c \in C : \A y \in C : Cardinality(Others(c)) <= Cardinality(Others(y))
    <2> HIDE DEF Others
    <2>1. Sizes \subseteq Nat /\ Sizes # {}
      BY <1>1
    <2>2. PICK s \in Sizes : \A y \in Sizes : s <= y
      BY <2>1, SmallestNumber
    <2> QED
      BY <2>2
  <1>3. ASSUME NEW x \in C
        PROVE  Dominates(g, c, x)
    <2> SUFFICES ASSUME ~ Dominates(g, c, x) PROVE FALSE
      OBVIOUS
    <2>1. Dominates(g, x, c)
      BY DominatorsInLine
    <2>2. Others(x) \subseteq Others(c)
      BY <2>1, DominatesTransitive
    <2>3. x \in Others(c) /\ x \notin Others(x)
      BY DEF Dominates
    <2>4. Cardinality(Others(x)) <= Cardinality(Others(c)) /\ Cardinality(Others(x)) # Cardinality(Others(c))
      <3> HIDE DEF Others
      <3> QED
        BY <2>2, <2>3, <1>1, FS_Subset
    <2>5. Cardinality(Others(c)) <= Cardinality(Others(x))
      BY <1>2
    <2>6. Cardinality(Others(x)) \in Nat /\ Cardinality(Others(c)) \in Nat
      BY <1>1
    <2> HIDE DEF Others
    <2> QED
      BY <2>4, <2>5, <2>6
  <1> QED
    BY <1>3

\* What a vertex dominates, but for itself, is dominated by one of its children.
LEMMA ChildrenCover ==
  ASSUME NEW g, IsGraph(g), NEW b, NEW v \in Reached(g), v # b, Dominates(g, b, v)
  PROVE  \E c \in ImmediatelyDominated(g, b) : Dominates(g, c, v)
PROOF
  <1> DEFINE C == {x \in Vertices(g) \ {b} : Dominates(g, b, x) /\ Dominates(g, x, v)}
  <1>1. v \in C
    BY ReachedClosed DEF Dominates
  <1>2. PICK c \in C : \A x \in C : Dominates(g, c, x)
    <2>1. C \subseteq Vertices(g) /\ C # {} /\ \A x \in C : Dominates(g, x, v)
      BY <1>1
    <2> HIDE DEF C
    <2> QED
      BY <2>1, FirstInLine
  <1>3. c \in Reached(g) /\ b \in Reached(g) /\ 0 \in Reached(g) /\ Reached(g) \subseteq Vertices(g)
    BY DominatorReached, ReachedClosed
  <1>4. c # 0
    <2> SUFFICES ASSUME c = 0 PROVE FALSE
      OBVIOUS
    <2>1. Dominates(g, b, 0) /\ Dominates(g, 0, b)
      BY <1>3, EntryDominates
    <2>2. b = 0
      BY <2>1, <1>3, DominatesAntisymmetric
    <2> QED
      BY <2>2
  <1>5. PICK d \in Reached(g) : c \in ImmediatelyDominated(g, d)
    BY <1>3, <1>4, ImmediateDominator
  <1>6. Dominates(g, d, c) /\ d # c /\ Dominates(g, b, d)
    <2>1. d \in StrictDominators(g, c) /\ \A x \in StrictDominators(g, c) : Dominates(g, x, d)
      BY <1>5 DEF ImmediatelyDominated
    <2>2. b \in StrictDominators(g, c)
      BY <1>3 DEF StrictDominators
    <2> QED
      BY <2>1, <2>2 DEF StrictDominators
  <1>7. d = b
    <2> SUFFICES ASSUME d # b PROVE FALSE
      OBVIOUS
    <2>1. Dominates(g, d, v)
      BY <1>6, DominatesTransitive
    <2>2. d \in C
      BY <2>1, <1>3, <1>5, <1>6
    <2>3. Dominates(g, c, d)
      BY <2>2, <1>2
    <2> QED
      BY <2>3, <1>3, <1>6, DominatesAntisymmetric
  <1> QED
    BY <1>5, <1>7

\* What the children of a vertex dominate is disjoint.
LEMMA ChildrenDisjoint ==
  ASSUME NEW g, IsGraph(g), NEW b, NEW c \in ImmediatelyDominated(g, b), NEW e \in ImmediatelyDominated(g, b),
         NEW v \in Reached(g), Dominates(g, c, v), Dominates(g, e, v)
  PROVE  c = e
PROOF
  <1>1. ASSUME NEW x \in ImmediatelyDominated(g, b), NEW y \in ImmediatelyDominated(g, b), Dominates(g, x, y)
        PROVE  x = y
    <2> SUFFICES ASSUME x # y PROVE FALSE
      OBVIOUS
    <2>1. /\ x \in Reached(g) /\ x \in Vertices(g) /\ b # x /\ Dominates(g, b, x)
          /\ \A z \in StrictDominators(g, y) : Dominates(g, z, b)
      BY DEF ImmediatelyDominated, StrictDominators
    <2>2. Dominates(g, x, b)
      BY <2>1, <1>1 DEF StrictDominators
    <2> QED
      BY <2>1, <2>2, DominatesAntisymmetric
  <1>2. Dominates(g, c, e) \/ Dominates(g, e, c)
    BY DominatorsInLine
  <1> QED
    BY <1>1, <1>2

(* What dominates a vertex from further up dominates its predecessors.     *)
LEMMA DominatesPredecessors ==
  ASSUME NEW g, IsGraph(g), NEW a, NEW v, a # v, Dominates(g, a, v), NEW u, <<u, v>> \in g.edges
  PROVE  Dominates(g, a, u)
PROOF
  <1>1. PICK S \in SUBSET (Vertices(g) \ {a, v}) :
          /\ 0 \in S \cup {a}
          /\ \A e \in g.edges : e[1] \in S => e[2] \in S \cup {a}
    BY DEF Dominates
  <1>2. u \notin S
    BY <1>1
  <1>3. CASE u = a
    BY <1>3 DEF Dominates
  <1>4. CASE u # a
    <2>1. S \in SUBSET (Vertices(g) \ {a, u})
      BY <1>2
    <2> QED
      BY <1>1, <2>1 DEF Dominates
  <1> QED
    BY <1>3, <1>4

(* The vertices that h does not dominate: the entry is one of them, unless *)
(* it is h, and only to h do edges leave them.                             *)
LEMMA NotDominated ==
  ASSUME NEW g, IsGraph(g), NEW h, NEW S, S = {x \in Vertices(g) : ~ Dominates(g, h, x)}
  PROVE  /\ 0 \in S \cup {h}
         /\ \A e \in g.edges : e[1] \in S => e[2] \in S \cup {h}
PROOF
  <1>1. 0 \in Vertices(g)
    BY DEF IsGraph, Vertices
  <1>2. 0 \in S \cup {h}
    BY <1>1 DEF Dominates
  <1>3. ASSUME NEW e \in g.edges, e[1] \in S, e[2] \notin S \cup {h}
        PROVE  FALSE
    <2>1. e = <<e[1], e[2]>> /\ e[2] \in Vertices(g)
      BY DEF IsGraph
    <2>2. Dominates(g, h, e[2]) /\ h # e[2]
      BY <1>3, <2>1
    <2>3. Dominates(g, h, e[1])
      BY <2>1, <2>2, DominatesPredecessors
    <2> QED
      BY <1>3, <2>3
  <1> QED
    BY <1>2, <1>3

(* Control comes to a vertex for the first time from one that it does not  *)
(* dominate.                                                               *)
LEMMA UndominatedPredecessor ==
  ASSUME NEW g, IsGraph(g), AllReachable(g), NEW v \in Vertices(g) \ {0}
  PROVE  \E u \in Vertices(g) : <<u, v>> \in g.edges /\ ~ Dominates(g, v, u)
PROOF
  <1> SUFFICES ASSUME \A u \in Vertices(g) : <<u, v>> \in g.edges => Dominates(g, v, u)
               PROVE  FALSE
    OBVIOUS
  <1> DEFINE S == {x \in Vertices(g) : ~ Dominates(g, v, x)}
  <1>1. 0 \in S \cup {v} /\ \A e \in g.edges : e[1] \in S => e[2] \in S \cup {v}
    <2> HIDE DEF S
    <2>1. S = {x \in Vertices(g) : ~ Dominates(g, v, x)}
      BY DEF S
    <2> QED
      BY <2>1, NotDominated
  <1>2. ASSUME NEW e \in g.edges, e[1] \in S
        PROVE  e[2] \in S
    <2>1. e = <<e[1], e[2]>> /\ e[1] \in Vertices(g)
      BY DEF IsGraph
    <2>2. e[2] # v
      BY <1>2, <2>1
    <2> QED
      BY <1>1, <1>2, <2>2
  <1>3. S = Vertices(g)
    BY <1>1, <1>2 DEF AllReachable
  <1>4. Dominates(g, v, v)
    BY DEF Dominates
  <1> QED
    BY <1>3, <1>4

=============================================================================
