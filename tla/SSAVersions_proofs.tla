------------------------- MODULE SSAVersions_proofs -------------------------
(***************************************************************************)
(* Why a use reads the same with its subscript as without.  Phi functions  *)
(* stand on the dominance frontiers of the definitions; so at every place  *)
(* of the function one write is the latest, along the dominators of the    *)
(* block.  Renaming gives a use the version of that write, and an argument *)
(* of a phi function that of the end of its block; and when the function   *)
(* runs, what it wrote last is the latest write.                           *)
(***************************************************************************)
EXTENDS SSAExecution_proofs

-----------------------------------------------------------------------------
(* Dominance frontiers.                                                    *)

\* The blocks b does not strictly dominate, but one of their predecessors.
FrontierOf(g, b) ==
  {y \in Vertices(g) : /\ y = b \/ ~ Dominates(g, b, y)
                       /\ \E a \in Preds(g, y) \cap Reached(g) : Dominates(g, b, a)}

\* A successor that a block strictly dominates it dominates immediately.
LEMMA SuccessorDominated ==
  ASSUME NEW g, IsGraph(g), NEW b \in Reached(g), NEW y \in Succs(g, b), y # b, Dominates(g, b, y)
  PROVE  y \in ImmediatelyDominated(g, b)
PROOF
  <1>1. b \in Vertices(g) /\ y \in Vertices(g) /\ y \in Reached(g) /\ <<b, y>> \in g.edges
    BY ReachedClosed DEF Succs, Closed
  <1>2. y # 0
    <2> SUFFICES ASSUME y = 0 PROVE FALSE
      OBVIOUS
    <2>1. Dominates(g, 0, b)
      BY <1>1, EntryDominates
    <2> QED
      BY <2>1, DominatesAntisymmetric
  <1>3. ASSUME NEW x \in StrictDominators(g, y)
        PROVE  Dominates(g, x, b)
    BY <1>1, <1>3, DominatesPredecessors DEF StrictDominators
  <1> QED
    BY <1>1, <1>2, <1>3 DEF ImmediatelyDominated, StrictDominators

\* The frontier of a block from those of its children.  (computeDominanceFrontier)
LEMMA FrontierFromChildren ==
  ASSUME NEW g, IsGraph(g), NEW b \in Reached(g), NEW F,
         \A c \in ImmediatelyDominated(g, b) : F[c] = FrontierOf(g, c)
  PROVE  {s \in Succs(g, b) : s \notin ImmediatelyDominated(g, b)}
           \cup UNION {{x \in F[c] : ~ (x \in Reached(g) /\ Dominates(g, b, x)) \/ x = b} :
                         c \in ImmediatelyDominated(g, b)}
         = FrontierOf(g, b)
PROOF
  <1> DEFINE local == {s \in Succs(g, b) : s \notin ImmediatelyDominated(g, b)}
             up(c) == {x \in F[c] : ~ (x \in Reached(g) /\ Dominates(g, b, x)) \/ x = b}
  <1>1. b \in Vertices(g) /\ Reached(g) \subseteq Vertices(g)
    BY ReachedClosed
  <1>2. ASSUME NEW y \in local
        PROVE  y \in FrontierOf(g, b)
    <2>1. y \in Vertices(g) /\ b \in Preds(g, y) \cap Reached(g) /\ Dominates(g, b, b)
      BY <1>1 DEF Succs, Preds, Dominates
    <2>2. y = b \/ ~ Dominates(g, b, y)
      BY SuccessorDominated
    <2> QED
      BY <2>1, <2>2 DEF FrontierOf
  <1>3. ASSUME NEW c \in ImmediatelyDominated(g, b), NEW y \in up(c)
        PROVE  y \in FrontierOf(g, b)
    <2>1. y \in FrontierOf(g, c)
      BY <1>3
    <2>2. PICK a \in Preds(g, y) \cap Reached(g) : Dominates(g, c, a)
      BY <2>1 DEF FrontierOf
    <2>3. Dominates(g, b, c)
      BY DEF ImmediatelyDominated, StrictDominators
    <2>4. Dominates(g, b, a)
      BY <2>2, <2>3, DominatesTransitive
    <2>5. y \in Vertices(g) /\ y \in Reached(g)
      <3>1. y \in Vertices(g) /\ <<a, y>> \in g.edges /\ a \in Reached(g)
        BY <2>1, <2>2 DEF FrontierOf, Preds
      <3> QED
        BY <3>1, ReachedClosed DEF Closed
    <2> QED
      BY <1>3, <2>2, <2>4, <2>5 DEF FrontierOf
  <1>4. ASSUME NEW y \in FrontierOf(g, b)
        PROVE  y \in local \/ \E c \in ImmediatelyDominated(g, b) : y \in up(c)
    <2>1. PICK a \in Preds(g, y) \cap Reached(g) : Dominates(g, b, a)
      BY DEF FrontierOf
    <2>2. y \in Vertices(g) /\ (y = b \/ ~ Dominates(g, b, y)) /\ a \in Vertices(g) /\ <<a, y>> \in g.edges
      BY <2>1 DEF FrontierOf, Preds
    <2>3. y \in Reached(g)
      BY <2>1, <2>2, ReachedClosed DEF Closed
    <2>4. CASE a = b
      <3>1. y \in Succs(g, b)
        BY <2>2, <2>4 DEF Succs
      <3>2. y \notin ImmediatelyDominated(g, b)
        BY <2>2 DEF ImmediatelyDominated, StrictDominators
      <3> QED
        BY <3>1, <3>2
    <2>5. CASE a # b
      <3>1. PICK c \in ImmediatelyDominated(g, b) : Dominates(g, c, a)
        BY <2>1, <2>5, ChildrenCover
      <3>2. Dominates(g, b, c) /\ c # b
        BY DEF ImmediatelyDominated, StrictDominators
      <3>3. y = c \/ ~ Dominates(g, c, y)
        <4> SUFFICES ASSUME y # c, Dominates(g, c, y) PROVE FALSE
          OBVIOUS
        <4>1. Dominates(g, b, y)
          BY <3>2, DominatesTransitive
        <4>2. y = b
          BY <4>1, <2>2
        <4> QED
          BY <4>2, <3>2, DominatesAntisymmetric
      <3>4. y \in FrontierOf(g, c)
        BY <2>1, <2>2, <3>1, <3>3 DEF FrontierOf
      <3> QED
        BY <2>2, <3>4
    <2> QED
      BY <2>4, <2>5
  <1> QED
    BY <1>2, <1>3, <1>4

\* Some block of a set has no child in it.
LEMMA ChildlessMember ==
  ASSUME NEW g, IsGraph(g), NEW S, S \subseteq Vertices(g), S # {}
  PROVE  \E x \in S : ImmediatelyDominated(g, x) \cap S = {}
PROOF
  <1> DEFINE Below(x) == {v \in Reached(g) : Dominates(g, x, v)}
             Sizes == {Cardinality(Below(x)) : x \in S}
  <1>1. IsFiniteSet(Vertices(g))
    BY FS_Interval DEF IsGraph, Vertices
  <1>2. \A x \in S : IsFiniteSet(Below(x)) /\ Cardinality(Below(x)) \in Nat
    <2>1. \A x \in S : Below(x) \subseteq Vertices(g)
      BY ReachedClosed
    <2> QED
      BY <1>1, <2>1, FS_Subset, FS_CardinalityType
  <1>3. PICK x \in S : \A y \in S : Cardinality(Below(x)) <= Cardinality(Below(y))
    <2>1. Sizes \subseteq Nat /\ Sizes # {}
      BY <1>2
    <2>2. PICK k \in Sizes : \A m \in Sizes : k <= m
      BY <2>1, SmallestNumber
    <2> QED
      BY <2>2
  <1>4. ASSUME NEW c \in ImmediatelyDominated(g, x), c \in S
        PROVE  FALSE
    <2>1. c \in Reached(g) /\ Dominates(g, x, c) /\ c # x
      BY DEF ImmediatelyDominated, StrictDominators
    <2>2. Below(c) \subseteq Below(x)
      BY <2>1, DominatesTransitive
    <2>3. x \in Below(x) /\ x \notin Below(c)
      <3>1. x \in Reached(g)
        BY <2>1, DominatorReached
      <3> QED
        BY <2>1, <3>1, DominatesAntisymmetric DEF Dominates
    <2>4. Below(c) # Below(x)
      BY <2>3
    <2> HIDE DEF Below
    <2>5. Cardinality(Below(c)) < Cardinality(Below(x))
      <3>1. Cardinality(Below(c)) <= Cardinality(Below(x)) /\ (Cardinality(Below(c)) = Cardinality(Below(x)) => Below(c) = Below(x))
        BY <1>2, <2>2, FS_Subset
      <3> QED
        BY <1>2, <1>4, <2>4, <3>1
    <2> QED
      BY <1>2, <1>3, <1>4, <2>5
  <1> QED
    BY <1>4

\* The frontiers that are computed so far are right.
FrontiersRight ==
  /\ frontier = [b \in Blocks |-> frontier[b]]
  /\ stage = "dominators" => handled \subseteq Blocks
  /\ \A b \in Blocks : (stage = "dominators" => b \in handled) =>
       /\ \A y \in frontier[b] : y \in Blocks /\ Preds(program, y) # {}
       /\ b \in Reached(program) => frontier[b] = FrontierOf(program, b)

\* No frontier is computed before the walk of the dominator tree starts.
LEMMA FrontiersInit == Init => FrontiersRight
PROOF
  BY DEF Init, FrontiersRight, Blocks

\* The frontier of a block is computed when those of its children are.
LEMMA ComputeKeepsFrontiers == CodeOK /\ FrontiersRight /\ ComputeDominanceFrontier => FrontiersRight'
PROOF
  <1> SUFFICES ASSUME CodeOK, FrontiersRight, ComputeDominanceFrontier PROVE FrontiersRight'
    OBVIOUS
  <1> DEFINE Children(x) == ImmediatelyDominated(program, x)
             free == {x \in Blocks \ handled : Children(x) \subseteq handled}
  <1>1. /\ stage = "dominators" /\ handled # Blocks /\ handled \subseteq Blocks /\ program' = program /\ Blocks' = Blocks
        /\ frontier = [x \in Blocks |-> frontier[x]]
    BY DEF ComputeDominanceFrontier, FrontiersRight, Blocks
  <1>2. IsGraph(program)
    BY ProgramIsGraph
  <1>3. PICK b : /\ b = Least(free)
                 /\ frontier' = [frontier EXCEPT ![b] = DF_local(b) \cup UNION {DF_up(b, frontier[c]) : c \in Children(b)}]
                 /\ handled' = handled \cup {b}
    BY DEF ComputeDominanceFrontier
  <1>4. b \in free
    <2>1. Blocks \ handled \subseteq Vertices(program) /\ Blocks \ handled # {}
      BY <1>1 DEF Blocks
    <2>2. PICK x \in Blocks \ handled : Children(x) \cap (Blocks \ handled) = {}
      BY <1>2, <2>1, ChildlessMember
    <2>3. x \in free
      BY <2>2 DEF ImmediatelyDominated, Blocks
    <2>4. free \subseteq Nat
      BY DEF Blocks, Vertices
    <2> QED
      BY <1>3, <2>3, <2>4, LeastIsMember
  <1>5. b \in Blocks /\ \A c \in Children(b) : c \in Blocks /\ c \in handled
    BY <1>4, <1>1
  <1> HIDE DEF free
  <1>6. /\ frontier'[b] = DF_local(b) \cup UNION {DF_up(b, frontier[c]) : c \in Children(b)}
        /\ \A x \in Blocks : x # b => frontier'[x] = frontier[x]
        /\ frontier' = [x \in Blocks |-> frontier'[x]]
    BY <1>1, <1>3, <1>5
  <1>7. \A y \in frontier'[b] : y \in Blocks /\ Preds(program, y) # {}
    <2>1. ASSUME NEW y \in DF_local(b)
          PROVE  y \in Blocks /\ Preds(program, y) # {}
      BY <1>5 DEF DF_local, Succs, Preds, Blocks
    <2>2. ASSUME NEW c \in Children(b), NEW y \in DF_up(b, frontier[c])
          PROVE  y \in Blocks /\ Preds(program, y) # {}
      BY <1>1, <1>5 DEF FrontiersRight, DF_up
    <2> QED
      BY <1>6, <2>1, <2>2
  <1>8. ASSUME b \in Reached(program)
        PROVE  frontier'[b] = FrontierOf(program, b)
    <2>1. ASSUME NEW c \in Children(b)
          PROVE  frontier[c] = FrontierOf(program, c)
      <3>1. c \in Reached(program)
        BY DEF ImmediatelyDominated
      <3> QED
        BY <3>1, <1>1, <1>5 DEF FrontiersRight
    <2>2. frontier'[b] = {s \in Succs(program, b) : s \notin ImmediatelyDominated(program, b)}
            \cup UNION {{x \in frontier[c] : ~ (x \in Reached(program) /\ Dominates(program, b, x)) \/ x = b} :
                         c \in ImmediatelyDominated(program, b)}
      BY <1>6 DEF DF_local, DF_up
    <2> QED
      BY <1>2, <1>8, <2>1, <2>2, FrontierFromChildren
  <1>9. ASSUME NEW x \in Blocks, stage' = "dominators" => x \in handled'
        PROVE  /\ \A y \in frontier'[x] : y \in Blocks /\ Preds(program, y) # {}
               /\ x \in Reached(program) => frontier'[x] = FrontierOf(program, x)
    <2>1. CASE x = b
      BY <2>1, <1>7, <1>8
    <2>2. CASE x # b
      <3>1. x \in handled'
        BY <1>1, <1>9 DEF ComputeDominanceFrontier
      <3>2. x \in handled /\ frontier'[x] = frontier[x]
        BY <2>2, <3>1, <1>3, <1>6
      <3> QED
        BY <3>2 DEF FrontiersRight
    <2> QED
      BY <2>1, <2>2
  <1>10. handled' \subseteq Blocks
    BY <1>1, <1>3, <1>5
  <1> QED
    BY <1>1, <1>6, <1>9, <1>10 DEF FrontiersRight

\* Nothing else changes them.
LEMMA ConstructKeepsFrontiers == CodeOK /\ FrontiersRight /\ Construct => FrontiersRight'
PROOF
  <1> SUFFICES ASSUME CodeOK, FrontiersRight, Construct PROVE FrontiersRight'
    OBVIOUS
  <1>1. CASE ComputeDominanceFrontier
    BY <1>1, ComputeKeepsFrontiers
  <1>2. CASE ~ ComputeDominanceFrontier
    <2>1. stage # "dominators" /\ stage' # "dominators" /\ UNCHANGED <<program, frontier>>
      BY <1>2 DEF Construct, Compute_Aorig, AddUsedRelatedToDefinedRegisters, StartPlacing, PlacePhis, NextName,
           StartRenaming, RenameInstruction, FillArguments, RenameChild, ReturnFromBlock, StartSwitches, NextSwitch,
           SearchBlock, ReturnFromSearch, GiveUp, CorrectSwitch, EndPass
    <2> QED
      BY <2>1 DEF FrontiersRight, Blocks
  <1> QED
    BY <1>1, <1>2

\* The frontiers the phi functions are placed on are those of the reachable
\* blocks by their definition.
FrontiersComputed == stage # "dominators" => \A b \in Reached(program) : frontier[b] = FrontierOf(program, b)

\* The walk of the dominator tree leaves in every reached block exactly the frontier that its
\* definition by paths gives: placing phi functions starts from the right sets.
THEOREM FrontiersExact == Spec => []FrontiersComputed
PROOF
  <1> DEFINE Inv == CodeOK /\ NamesOK /\ CountOK /\ FrontiersRight
  <1>1. ExecutionInit => Inv
    BY IInvInit, FrontiersInit DEF ExecutionInit, IInv
  <1>2. Inv /\ [Next]_<<vars, machine>> => Inv'
    <2> SUFFICES ASSUME Inv, [Next]_<<vars, machine>> PROVE Inv'
      OBVIOUS
    <2>1. CASE Construct
      BY <2>1, ConstructKeepsCode, ConstructKeepsNames, ConstructKeepsCount, ConstructKeepsFrontiers
    <2>2. CASE UNCHANGED vars
      BY <2>2 DEF CodeOK, NamesOK, NamesOf, CountOK, vars, renaming, WellFormed, Blocks, FrameType, FrontiersRight
    <2> QED
      BY <2>1, <2>2 DEF Next
  <1>3. Inv => FrontiersComputed
    <2> SUFFICES ASSUME Inv, stage # "dominators", NEW b \in Reached(program)
                 PROVE  frontier[b] = FrontierOf(program, b)
      BY DEF FrontiersComputed
    <2>1. b \in Blocks
      BY ProgramIsGraph
    <2> QED
      BY <2>1 DEF FrontiersRight
  <1> QED
    BY <1>1, <1>2, <1>3, PTL DEF Spec

-----------------------------------------------------------------------------
(* Folding over the uses of a block.                                       *)

FoldUpTo(base, list, m, w) ==
  w = [s \in SUBSET (1 .. m) |-> IF s = {} THEN base ELSE WithUse(w[s \ {Max(s)}], list[Max(s)])]

\* The steps of the fold exist.
LEMMA FoldExists ==
  ASSUME NEW base, NEW list, NEW n \in Nat
  PROVE  \E w : FoldUpTo(base, list, n, w)
PROOF
  <1> DEFINE Bad == {m \in Nat : ~ \E w : FoldUpTo(base, list, m, w)}
  <1> SUFFICES ASSUME Bad # {} PROVE FALSE
    OBVIOUS
  <1>1. PICK m \in Bad : \A y \in Bad : m <= y
    BY SmallestNumber
  <1>2. m # 0
    <2> DEFINE w == [s \in SUBSET (1 .. 0) |-> base]
    <2>1. \A s \in SUBSET (1 .. 0) : s = {}
      OBVIOUS
    <2>2. FoldUpTo(base, list, 0, w)
      BY <2>1 DEF FoldUpTo
    <2> QED
      BY <2>2
  <1>3. m \in Nat /\ m - 1 \in Nat /\ m - 1 \notin Bad
    BY <1>1, <1>2
  <1>4. PICK w : FoldUpTo(base, list, m - 1, w)
    BY <1>3
  <1> DEFINE x == [s \in SUBSET (1 .. m) |-> IF m \in s THEN WithUse(w[s \ {m}], list[m]) ELSE w[s]]
  <1>5. ASSUME NEW s \in SUBSET (1 .. m), s # {}
        PROVE  x[s] = WithUse(x[s \ {Max(s)}], list[Max(s)])
    <2>1. CASE m \in s
      <3>1. Max(s) = m /\ s \ {m} \in SUBSET (1 .. m) /\ m \notin s \ {m}
        BY <2>1, <1>3, MaxIsLast
      <3> QED
        BY <2>1, <3>1
    <2>2. CASE m \notin s
      <3>1. s \in SUBSET (1 .. m - 1)
        BY <2>2, <1>3
      <3>2. w[s] = WithUse(w[s \ {Max(s)}], list[Max(s)])
        BY <3>1, <1>4, <1>5 DEF FoldUpTo
      <3>3. s \ {Max(s)} \in SUBSET (1 .. m) /\ m \notin s \ {Max(s)}
        BY <2>2
      <3> QED
        BY <2>2, <3>2, <3>3
    <2> QED
      BY <2>1, <2>2
  <1>6. x[{}] = base
    <2>1. w[{}] = base
      BY <1>4 DEF FoldUpTo
    <2> QED
      BY <2>1
  <1>7. FoldUpTo(base, list, m, x)
    <2>1. x = [s \in SUBSET (1 .. m) |-> x[s]]
      OBVIOUS
    <2> HIDE DEF x
    <2> QED
      BY <2>1, <1>5, <1>6 DEF FoldUpTo
  <1> QED
    BY <1>1, <1>7

\* Names are only added, and so is each that is used and related to one there was.
LEMMA FoldAddsUses ==
  ASSUME NEW S, NEW list \in Seq(S), NEW base
  PROVE  /\ base \subseteq FoldLeft(WithUse, base, list)
         /\ \A i \in DOMAIN list : Related[list[i].name] \cap base # {} => list[i].name \in FoldLeft(WithUse, base, list)
PROOF
  <1>1. PICK m \in Nat : DOMAIN list = 1 .. m
    <2>1. Len(list) \in Nat /\ DOMAIN list = 1 .. Len(list)
      OBVIOUS
    <2> QED
      BY <2>1
  <1>2. FoldLeft(WithUse, base, list) = (CHOOSE w : FoldUpTo(base, list, m, w))[1 .. m]
    BY <1>1, Zenon DEF FoldLeft, MapThenFoldSet, FoldUpTo
  <1>3. PICK w : w = CHOOSE v : FoldUpTo(base, list, m, v)
    OBVIOUS
  <1>4. FoldUpTo(base, list, m, w)
    <2>1. \E v : FoldUpTo(base, list, m, v)
      BY FoldExists
    <2> QED
      BY <2>1, <1>3
  <1> DEFINE Good(k) == /\ base \subseteq w[1 .. k]
                        /\ \A i \in 1 .. k : Related[list[i].name] \cap base # {} => list[i].name \in w[1 .. k]
             Bad == {k \in 0 .. m : ~ Good(k)}
  <1>5. Bad = {}
    <2> SUFFICES ASSUME Bad # {} PROVE FALSE
      OBVIOUS
    <2>9. Bad \subseteq Nat
      OBVIOUS
    <2>1. PICK k \in Bad : \A y \in Bad : k <= y
      <3> HIDE DEF Bad
      <3> QED
        BY <2>9, SmallestNumber
    <2>2. k # 0
      <3>1. 1 .. 0 = {} /\ w[{}] = base
        BY <1>4 DEF FoldUpTo
      <3>2. Good(0)
        BY <3>1
      <3> QED
        BY <3>2, <2>1
    <2>3. k \in Nat /\ k - 1 \in 0 .. m /\ k - 1 \notin Bad /\ k \in 1 .. m
      BY <2>1, <2>2
    <2>4. Good(k - 1)
      BY <2>3
    <2>5. w[1 .. k] = WithUse(w[1 .. k - 1], list[k])
      <3>1. 1 .. k \in SUBSET (1 .. m) /\ 1 .. k # {} /\ (1 .. k) \ {k} = 1 .. k - 1
        BY <2>3
      <3>2. Max(1 .. k) = k
        BY <2>3, MaxIsLast
      <3> QED
        BY <3>1, <3>2, <1>4 DEF FoldUpTo
    <2>6. base \subseteq w[1 .. k]
      BY <2>4, <2>5 DEF WithUse
    <2>7. ASSUME NEW i \in 1 .. k, Related[list[i].name] \cap base # {}
          PROVE  list[i].name \in w[1 .. k]
      <3>1. CASE i = k
        BY <3>1, <2>4, <2>5, <2>7 DEF WithUse
      <3>2. CASE i # k
        <4>1. i \in 1 .. k - 1
          BY <3>2, <2>3
        <4> QED
          BY <4>1, <2>4, <2>5, <2>7 DEF WithUse
      <3> QED
        BY <3>1, <3>2
    <2> QED
      BY <2>1, <2>6, <2>7
  <1>6. Good(m)
    <2>1. m \in 0 .. m
      OBVIOUS
    <2> HIDE DEF Good
    <2> QED
      BY <2>1, <1>5
  <1> QED
    BY <1>1, <1>2, <1>3, <1>6

-----------------------------------------------------------------------------
(* The names of a pass.                                                    *)

\* Until names get subscripts the first pass reads the function as it was lifted.
AsLifted ==
  /\ stage = "dominators" => pass = "registers"
  /\ pass = "registers" /\ stage \in {"dominators", "collect", "related"} =>
       code = [b \in Blocks |-> [i \in DOMAIN program.code[b] |-> Lifted(b, i, program.code[b][i])]]
  /\ stage = "related" => handled \subseteq Blocks /\ (pass = "memory" => handled = Blocks)

NamesKnown ==
  \A b \in Blocks : \A i \in DOMAIN code[b] : Mentioned(code[b][i].uses) \cup Mentioned(code[b][i].defs) \subseteq Names

DefinedNames == {m \in NamesOf(pass) : \E b \in Blocks : \E i \in DOMAIN code[b] : m \in Mentioned(code[b][i].defs)}

\* Names that are defined are collected block by block; a phi function defines a
\* name that is defined elsewhere too.
DefinedCollected ==
  /\ stage \in {"related", "place"} =>
       \A b \in Blocks :
         /\ original[b] \subseteq DefinedNames
         /\ \A i \in DOMAIN code[b] :
              IsPhi(code[b][i]) \/ Mentioned(code[b][i].defs) \cap NamesOf(pass) \subseteq original[b]
  /\ stage \in {"related", "place", "rename"} => DefinedNames \subseteq names

\* And so are those that are used and related to one of them.
UsedCollected ==
  stage \in {"related", "place", "rename"} =>
    \A b \in Blocks : (stage = "related" => b \in handled) => \A i \in DOMAIN code[b] :
      \A n \in Mentioned(code[b][i].uses) \cap NamesOf(pass) : Related[n] \cap DefinedNames # {} => n \in names

\* What an instruction mentions stays when subscripts change.
KeepsMentions ==
  \A b \in Blocks : \A i \in DOMAIN code[b] :
    /\ Mentioned(code'[b][i].defs) = Mentioned(code[b][i].defs)
    /\ Mentioned(code'[b][i].uses) \subseteq Mentioned(code[b][i].uses)

\* An instruction rewritten in place keeps the names it defines and writes.
LEMMA SameDefinitions ==
  ASSUME NEW x, NEW y, SameInstruction(y, x)
  PROVE  Mentioned(y.defs) = Mentioned(x.defs) /\ WrittenBy(y) = WrittenBy(x)
PROOF
  <1>1. DOMAIN y.defs = DOMAIN x.defs /\ \A k \in DOMAIN x.defs : y.defs[k].name = x.defs[k].name
    BY DEF SameInstruction
  <1> QED
    BY <1>1 DEF Mentioned, WrittenBy, ToSet

\* The names mentioned by a sequence of operands are the names of its elements.
LEMMA MentionedNames ==
  ASSUME NEW s, NEW n
  PROVE  n \in Mentioned(s) <=> \E u \in ToSet(s) : n = u.name
PROOF
  BY DEF Mentioned, ToSet

\* An instruction writes the names it defines and those related to them.
LEMMA WrittenNames ==
  ASSUME NEW x, NEW n
  PROVE  n \in WrittenBy(x) <=> \E m \in Mentioned(x.defs) : n = m \/ n \in Related[m]
PROOF
  BY DEF Mentioned, WrittenBy, ToSet

\* Renaming changes versions and adds no name to an instruction.
LEMMA RenameKeepsMentions == UsesInv /\ RenameInstruction => KeepsMentions
PROOF
  <1> SUFFICES ASSUME UsesInv, RenameInstruction, NEW b \in Blocks, NEW i \in DOMAIN code[b]
               PROVE  /\ Mentioned(code'[b][i].defs) = Mentioned(code[b][i].defs)
                      /\ Mentioned(code'[b][i].uses) \subseteq Mentioned(code[b][i].uses)
    BY DEF KeepsMentions
  <1>1. PICK c, k : RenamedAt(c, k) /\ Rewrites
    BY RenameAt
  <1>2. SameInstruction(code'[b][i], code[b][i])
    BY <1>1 DEF Rewrites
  <1>3. PICK x, y : x = code[b][i] /\ y = code'[b][i]
    OBVIOUS
  <1>4. WellFormed(x) /\ Shape(x, b) /\ (y = x \/ y = Renamed(x))
    BY <1>1, <1>3 DEF RenamedAt, UsesInv, Shaped
  <1>5. CASE y = Renamed(x)
    <2>1. \A v \in ToSet(y.uses) : \E u \in ToSet(x.uses) : v.name = u.name
      BY <1>4, <1>5, RenamedParts
    <2>2. Mentioned(y.uses) \subseteq Mentioned(x.uses)
      BY <2>1, MentionedNames
    <2> QED
      BY <2>2, <1>2, <1>3, SameDefinitions
  <1>6. CASE y = x
    BY <1>3, <1>6
  <1> QED
    BY <1>4, <1>5, <1>6

\* Filling the arguments of phi functions adds no name to an instruction.
LEMMA FillKeepsMentions == UsesInv /\ FillArguments => KeepsMentions
PROOF
  <1> SUFFICES ASSUME UsesInv, FillArguments, NEW b \in Blocks, NEW i \in DOMAIN code[b]
               PROVE  /\ Mentioned(code'[b][i].defs) = Mentioned(code[b][i].defs)
                      /\ Mentioned(code'[b][i].uses) \subseteq Mentioned(code[b][i].uses)
    BY DEF KeepsMentions
  <1>1. PICK c : FilledBy(c) /\ Rewrites
    BY FillAt
  <1>2. SameInstruction(code'[b][i], code[b][i])
    BY <1>1 DEF Rewrites
  <1>3. PICK x, y : x = code[b][i] /\ y = code'[b][i]
    OBVIOUS
  <1>4. WellFormed(x) /\ Shape(x, b) /\ (y = x \/ (IsPhi(x) /\ y = WithArgument(x, c)))
    BY <1>1, <1>3 DEF FilledBy
  <1>5. y.uses = x.uses
    BY <1>4, FilledParts
  <1> QED
    BY <1>2, <1>3, <1>5, SameDefinitions

\* The use of a switch that is corrected stays one of the same name.
LEMMA CorrectKeepsMentions == UsesInv /\ CorrectSwitch => KeepsMentions
PROOF
  <1> SUFFICES ASSUME UsesInv, CorrectSwitch, NEW b \in Blocks, NEW i \in DOMAIN code[b]
               PROVE  /\ Mentioned(code'[b][i].defs) = Mentioned(code[b][i].defs)
                      /\ Mentioned(code'[b][i].uses) \subseteq Mentioned(code[b][i].uses)
    BY DEF KeepsMentions
  <1>1. SameInstruction(code'[b][i], code[b][i])
    BY CorrectRewrites DEF Rewrites
  <1>2. PICK c, k, sub : code' = [code EXCEPT ![c][k].uses[1].sub = sub]
    BY DEF CorrectSwitch
  <1>3. code = [e \in Blocks |-> code[e]]
    BY DEF UsesInv, IInv, CodeOK
  <1>4. PICK x, y : x = code[b][i] /\ y = code'[b][i]
    OBVIOUS
  <1>5. y = x \/ y = [x EXCEPT !.uses[1].sub = sub]
    <2>1. PICK s : s = code[b]
      OBVIOUS
    <2>2. code'[b] = s \/ code'[b] = [s EXCEPT ![k].uses[1].sub = sub]
      BY <1>2, <1>3, <2>1
    <2> QED
      BY <2>1, <2>2, <1>4
  <1>6. WellFormed(x) /\ Shape(x, b)
    <2>1. PICK S : (\A z \in S : WellFormed(z)) /\ code[b] \in Seq(S)
      BY DEF UsesInv, IInv, CodeOK
    <2>2. code[b][i] \in S
      BY <2>1, ElementOfSeq
    <2> QED
      BY <2>1, <2>2, <1>4 DEF UsesInv, Shaped
  <1>7. CASE y = [x EXCEPT !.uses[1].sub = sub]
    <2> DEFINE U == [x.uses EXCEPT ![1] = [x.uses[1] EXCEPT !.sub = sub]]
    <2>1. DOMAIN x = Fields
      BY <1>6 DEF WellFormed
    <2>2. y = [x EXCEPT !.uses = U]
      BY <1>7
    <2>3. DOMAIN U = DOMAIN x.uses
      OBVIOUS
    <2>4. ASSUME NEW j \in DOMAIN U
          PROVE  U[j].name = x.uses[j].name
      <3>1. Versioned(x.uses[j])
        BY <1>6, <2>3 DEF Shape
      <3>2. U[j] = x.uses[j] \/ U[j] = [x.uses[j] EXCEPT !.sub = sub]
        BY <2>3
      <3> QED
        BY <3>1, <3>2, SubReplaced
    <2> HIDE DEF U
    <2>5. y.uses = U
      BY <2>1, <2>2 DEF Fields
    <2>6. Mentioned(y.uses) = Mentioned(x.uses)
      BY <2>3, <2>4, <2>5 DEF Mentioned
    <2> QED
      BY <2>6, <1>1, <1>4, SameDefinitions
  <1>8. CASE y = x
    BY <1>4, <1>8
  <1> QED
    BY <1>5, <1>7, <1>8

-----------------------------------------------------------------------------
(* Steps that place nothing keep what is known of names.                   *)

NamesInv == AsLifted /\ NamesKnown /\ DefinedCollected /\ UsedCollected

\* Renaming, filling in and correcting.
LEMMA MentionsKeepNames ==
  ASSUME NamesInv, Rewrites, KeepsMentions, UNCHANGED <<pass, names>>,
         stage' \in {"rename", "switch"}, stage' = "rename" => stage = "rename"
  PROVE  NamesInv'
PROOF
  <1>1. Blocks' = Blocks /\ NamesOf(pass)' = NamesOf(pass)
    BY DEF Rewrites, Blocks, NamesOf
  <1>2. ASSUME NEW b \in Blocks
        PROVE  /\ DOMAIN code'[b] = DOMAIN code[b]
               /\ \A i \in DOMAIN code[b] : /\ Mentioned(code'[b][i].defs) = Mentioned(code[b][i].defs)
                                           /\ Mentioned(code'[b][i].uses) \subseteq Mentioned(code[b][i].uses)
    BY DEF Rewrites, KeepsMentions
  <1>3. DefinedNames' = DefinedNames
    BY <1>1, <1>2 DEF DefinedNames
  <1>4. AsLifted'
    BY DEF AsLifted
  <1>5. NamesKnown'
    BY <1>1, <1>2 DEF NamesInv, NamesKnown
  <1>6. DefinedCollected'
    BY <1>3 DEF NamesInv, DefinedCollected
  <1>7. UsedCollected'
    BY <1>1, <1>2, <1>3 DEF NamesInv, UsedCollected
  <1> QED
    BY <1>4, <1>5, <1>6, <1>7 DEF NamesInv

\* The definitions of the blocks are all that is defined.
LEMMA CollectKeepsNames == NamesInv /\ Compute_Aorig => NamesInv'
PROOF
  <1> SUFFICES ASSUME NamesInv, Compute_Aorig PROVE NamesInv'
    OBVIOUS
  <1>1. /\ stage = "collect" /\ stage' = "related" /\ UNCHANGED <<program, code, pass>> /\ Blocks' = Blocks
        /\ NamesOf(pass)' = NamesOf(pass)
        /\ original' = [b \in Blocks |-> Defined(b)] /\ names' = UNION {Defined(b) : b \in Blocks}
        /\ handled' = IF pass = "memory" THEN Blocks ELSE {}
    BY DEF Compute_Aorig, Blocks, NamesOf
  <1>2. DefinedNames' = DefinedNames
    BY <1>1 DEF DefinedNames
  <1>3. \A n : \A b \in Blocks : n \in Defined(b) <=>
           n \in NamesOf(pass) /\ \E i \in DOMAIN code[b] : n \in Mentioned(code[b][i].defs)
    BY DEF Defined
  <1>4. AsLifted'
    BY <1>1 DEF NamesInv, AsLifted
  <1>5. NamesKnown'
    BY <1>1 DEF NamesInv, NamesKnown
  <1>6. DefinedCollected'
    <2>1. ASSUME NEW b \in Blocks
          PROVE  /\ original'[b] \subseteq DefinedNames
                 /\ \A i \in DOMAIN code[b] : Mentioned(code[b][i].defs) \cap NamesOf(pass) \subseteq original'[b]
      <3>1. original'[b] = Defined(b)
        BY <1>1
      <3> QED
        BY <3>1, <1>3 DEF DefinedNames
    <2>2. DefinedNames \subseteq names'
      BY <1>1, <1>3 DEF DefinedNames
    <2> QED
      BY <1>1, <1>2, <2>1, <2>2 DEF DefinedCollected
  <1>7. UsedCollected'
    <2>1. CASE pass # "memory"
      BY <1>1, <2>1 DEF UsedCollected
    <2>2. CASE pass = "memory"
      <3>1. \A n \in NamesOf(pass) : n \in Memory
        BY <2>2 DEF NamesOf
      <3>2. \A n \in NamesOf(pass) : Related[n] = {}
        BY <3>1, NamesAssumption
      <3> QED
        BY <3>2, <1>1 DEF UsedCollected
    <2> QED
      BY <2>1, <2>2
  <1> QED
    BY <1>4, <1>5, <1>6, <1>7 DEF NamesInv

\* The uses of a block are looked at in one go.
LEMMA AddUsedKeepsNames == CodeOK /\ NamesOK /\ NamesInv /\ AddUsedRelatedToDefinedRegisters => NamesInv'
PROOF
  <1> SUFFICES ASSUME CodeOK, NamesOK, NamesInv, AddUsedRelatedToDefinedRegisters PROVE NamesInv'
    OBVIOUS
  <1> DEFINE list(c) == FlattenSeq([i \in DOMAIN code[c] |-> code[c][i].uses])
  <1>1. PICK b : /\ b = Least(Blocks \ handled)
                 /\ stage = "related" /\ stage' = "related" /\ handled # Blocks
                 /\ UNCHANGED <<program, code, pass, original>> /\ Blocks' = Blocks
                 /\ NamesOf(pass)' = NamesOf(pass)
                 /\ names' = NamesOf(pass) \cap FoldLeft(WithUse, names, list(b))
                 /\ handled' = handled \cup {b}
    BY DEF AddUsedRelatedToDefinedRegisters, Blocks, NamesOf
  <1>2. pass = "registers"
    BY <1>1 DEF NamesInv, AsLifted, NamesOK
  <1>3. code = [c \in Blocks |-> [i \in DOMAIN program.code[c] |-> Lifted(c, i, program.code[c][i])]]
    BY <1>1, <1>2 DEF NamesInv, AsLifted
  <1>4. DefinedNames' = DefinedNames
    BY <1>1 DEF DefinedNames
  <1>6. NamesKnown'
    BY <1>1 DEF NamesInv, NamesKnown
  <1>7. ASSUME b \in Blocks
        PROVE  /\ names \subseteq names'
               /\ \A i \in DOMAIN code[b] : \A n \in Mentioned(code[b][i].uses) \cap NamesOf(pass) :
                    Related[n] \cap names # {} => n \in names'
    <2> DEFINE T == UNION {{code[b][i].uses[k] : k \in DOMAIN code[b][i].uses} : i \in DOMAIN code[b]}
    <2>1. PICK s : s = [i \in DOMAIN code[b] |-> code[b][i].uses]
      OBVIOUS
    <2>2. s \in Seq(Seq(T))
      <3>1. program.code[b] \in Seq(InstructionsAsLifted)
        BY <1>7, ProgramsAssumption DEF CodeOK, Blocks
      <3>2. DOMAIN code[b] = 1 .. Len(program.code[b]) /\ Len(program.code[b]) \in Nat
        BY <3>1, <1>3, <1>7
      <3>3. ASSUME NEW i \in DOMAIN code[b]
            PROVE  code[b][i].uses \in Seq(T)
        <4>1. i \in 1 .. Len(program.code[b]) /\ program.code[b][i] \in InstructionsAsLifted
          BY <3>1, <3>2, ElementOfSeq
        <4>2. PICK u : u = program.code[b][i].uses /\ u \in Seq(Names)
          BY <4>1 DEF InstructionsAsLifted
        <4>3. code[b][i].uses = [k \in DOMAIN u |-> [name |-> u[k], sub |-> NO_SUBSCRIPT]]
          BY <1>3, <1>7, <3>2, <4>1, <4>2 DEF Lifted
        <4>4. PICK v : v = code[b][i].uses
          OBVIOUS
        <4>5. DOMAIN v = 1 .. Len(u) /\ Len(u) \in Nat /\ v = [k \in 1 .. Len(u) |-> v[k]]
          BY <4>2, <4>3, <4>4
        <4>6. \A k \in DOMAIN v : v[k] \in T
          BY <4>4
        <4> HIDE DEF T
        <4>7. v \in [1 .. Len(u) -> T]
          BY <4>5, <4>6
        <4> QED
          BY <4>4, <4>5, <4>7, IsASeq
      <3> HIDE DEF T
      <3>4. s \in [1 .. Len(program.code[b]) -> Seq(T)]
        BY <2>1, <3>2, <3>3
      <3> QED
        BY <3>2, <3>4, IsASeq
    <2> HIDE DEF T
    <2>3. PICK f : f = FlattenSeq(s)
      OBVIOUS
    <2>4. f \in Seq(T) /\ \A i \in DOMAIN s : \A j \in DOMAIN s[i] : \E k \in DOMAIN f : f[k] = s[i][j]
      BY <2>2, <2>3, FlattenHasAll
    <2>5. /\ names \subseteq FoldLeft(WithUse, names, f)
          /\ \A k \in DOMAIN f : Related[f[k].name] \cap names # {} => f[k].name \in FoldLeft(WithUse, names, f)
      BY <2>4, FoldAddsUses
    <2>6. names' = NamesOf(pass) \cap FoldLeft(WithUse, names, f)
      BY <1>1, <2>1, <2>3
    <2>7. ASSUME NEW i \in DOMAIN code[b], NEW n \in Mentioned(code[b][i].uses), n \in NamesOf(pass), Related[n] \cap names # {}
          PROVE  n \in names'
      <3>1. PICK j \in DOMAIN code[b][i].uses : n = code[b][i].uses[j].name
        BY DEF Mentioned
      <3>2. i \in DOMAIN s /\ s[i] = code[b][i].uses
        BY <2>1
      <3>3. PICK k \in DOMAIN f : f[k] = code[b][i].uses[j]
        BY <2>4, <3>1, <3>2
      <3> QED
        BY <2>5, <2>6, <2>7, <3>1, <3>3
    <2>8. names \subseteq names'
      BY <2>5, <2>6 DEF NamesOK
    <2> QED
      BY <2>7, <2>8
  <1>8. b \in Blocks
    <2>1. handled \subseteq Blocks
      BY <1>1 DEF NamesInv, AsLifted
    <2>4. Blocks \subseteq Nat
      BY DEF Blocks, Vertices
    <2>2. Blocks \ handled # {} /\ Blocks \ handled \subseteq Nat
      BY <1>1, <2>1, <2>4
    <2>3. b \in Blocks \ handled
      BY <1>1, <2>2, LeastIsMember
    <2> QED
      BY <2>3
  <1>5. AsLifted'
    <2>1. handled' \subseteq Blocks /\ pass # "memory"
      BY <1>1, <1>2, <1>8 DEF NamesInv, AsLifted
    <2> QED
      BY <1>1, <1>3, <2>1 DEF NamesInv, AsLifted
  <1>9. DefinedCollected'
    BY <1>1, <1>4, <1>7, <1>8 DEF NamesInv, DefinedCollected
  <1>10. UsedCollected'
    <2>1. ASSUME NEW c \in Blocks, c \in handled', NEW i \in DOMAIN code[c],
                 NEW n \in Mentioned(code[c][i].uses), n \in NamesOf(pass), Related[n] \cap DefinedNames # {}
          PROVE  n \in names'
      <3>1. CASE c = b
        <4>1. Related[n] \cap names # {}
          BY <1>1, <2>1 DEF NamesInv, DefinedCollected
        <4> QED
          BY <4>1, <3>1, <1>7, <2>1
      <3>2. CASE c # b
        <4>1. n \in names
          BY <1>1, <2>1, <3>2 DEF NamesInv, UsedCollected
        <4> QED
          BY <4>1, <1>7, <1>8
      <3> QED
        BY <3>1, <3>2
    <2> QED
      BY <2>1, <1>1, <1>4 DEF UsedCollected
  <1> QED
    BY <1>5, <1>6, <1>9, <1>10 DEF NamesInv

\* All other steps that leave the code alone.
LEMMA ElsewhereKeepsNames == CodeOK /\ NamesOK /\ NamesInv /\ Elsewhere => NamesInv'
PROOF
  <1> SUFFICES ASSUME CodeOK, NamesOK, NamesInv, Elsewhere PROVE NamesInv'
    OBVIOUS
  <1>1. UNCHANGED <<program, code>> /\ Blocks' = Blocks
    BY ElsewhereKeepsCode DEF Blocks
  <1>2. NamesKnown'
    BY <1>1 DEF NamesInv, NamesKnown
  <1>3. ASSUME UNCHANGED pass
        PROVE  NamesOf(pass)' = NamesOf(pass) /\ DefinedNames' = DefinedNames
    BY <1>1, <1>3 DEF NamesOf, DefinedNames
  <1>4. CASE Compute_Aorig \/ AddUsedRelatedToDefinedRegisters
    BY <1>4, CollectKeepsNames, AddUsedKeepsNames
  <1>5. CASE ComputeDominanceFrontier
    <2>1. /\ UNCHANGED pass /\ stage = "dominators" /\ stage' \in {"dominators", "collect"}
      BY <1>5 DEF ComputeDominanceFrontier
    <2>2. AsLifted'
      BY <1>1, <2>1 DEF NamesInv, AsLifted
    <2> QED
      BY <1>2, <2>1, <2>2 DEF NamesInv, DefinedCollected, UsedCollected
  <1>6. CASE StartPlacing \/ NextName
    <2>1. /\ UNCHANGED <<pass, names, original, handled>> /\ stage' = "place"
          /\ stage = "place" \/ (stage = "related" /\ handled = Blocks)
      BY <1>6 DEF StartPlacing, NextName
    <2>2. AsLifted'
      BY <2>1 DEF AsLifted
    <2>3. DefinedCollected'
      BY <1>1, <1>3, <2>1 DEF NamesInv, DefinedCollected
    <2>4. UsedCollected'
      BY <1>1, <1>3, <2>1 DEF NamesInv, UsedCollected
    <2> QED
      BY <1>2, <2>2, <2>3, <2>4 DEF NamesInv
  <1>7. CASE StartRenaming \/ RenameChild \/ ReturnFromBlock
    <2>1. UNCHANGED <<pass, names, original>> /\ stage' = "rename" /\ stage \in {"place", "rename"}
      BY <1>7 DEF StartRenaming, RenameChild, ReturnFromBlock
    <2>2. AsLifted'
      BY <2>1 DEF AsLifted
    <2>3. DefinedCollected'
      BY <1>1, <1>3, <2>1 DEF NamesInv, DefinedCollected
    <2>4. UsedCollected'
      BY <1>1, <1>3, <2>1 DEF NamesInv, UsedCollected
    <2> QED
      BY <1>2, <2>2, <2>3, <2>4 DEF NamesInv
  <1>8. CASE StartSwitches \/ NextSwitch \/ SearchBlock \/ ReturnFromSearch \/ GiveUp
    <2>1. stage' \in {"switch", "search"}
      BY <1>8 DEF StartSwitches, NextSwitch, SearchBlock, ReturnFromSearch, GiveUp
    <2> QED
      BY <1>2, <2>1 DEF NamesInv, AsLifted, DefinedCollected, UsedCollected
  <1>9. CASE EndPass
    <2>1. pass' = "memory" /\ stage' \in {"collect", "done"}
      BY <1>9 DEF EndPass
    <2> QED
      BY <1>2, <2>1 DEF NamesInv, AsLifted, DefinedCollected, UsedCollected
  <1> QED
    BY <1>4, <1>5, <1>6, <1>7, <1>8, <1>9 DEF Elsewhere

\* The collected names are right before the first pass.
LEMMA NamesInvInit == Init => NamesInv
PROOF
  <1> SUFFICES ASSUME Init PROVE NamesInv
    OBVIOUS
  <1>1. /\ program \in Programs /\ pass = "registers" /\ stage = "dominators"
        /\ code = [b \in Blocks |-> [i \in DOMAIN program.code[b] |-> Lifted(b, i, program.code[b][i])]]
    BY DEF Init
  <1>2. AsLifted /\ DefinedCollected /\ UsedCollected
    BY <1>1 DEF AsLifted, DefinedCollected, UsedCollected
  <1>3. ASSUME NEW b \in Blocks, NEW i \in DOMAIN code[b]
        PROVE  Mentioned(code[b][i].uses) \cup Mentioned(code[b][i].defs) \subseteq Names
    <2>1. program.code[b] \in Seq(InstructionsAsLifted)
      BY <1>1, ProgramsAssumption DEF Blocks
    <2>2. i \in 1 .. Len(program.code[b])
      BY <1>1, <2>1
    <2>3. PICK x : x = program.code[b][i] /\ x \in InstructionsAsLifted
      BY <2>1, <2>2, ElementOfSeq
    <2>4. x.uses \in Seq(Names) /\ x.defs \in Seq(Names)
      BY <2>3 DEF InstructionsAsLifted
    <2>5. /\ \A k \in DOMAIN x.uses : x.uses[k] \in Names
          /\ \A k \in DOMAIN x.defs : x.defs[k] \in Names
      BY <2>4, ElementOfSeq
    <2>6. code[b][i] = Lifted(b, i, x)
      BY <1>1, <2>3
    <2>7. /\ code[b][i].uses = [k \in DOMAIN x.uses |-> [name |-> x.uses[k], sub |-> NO_SUBSCRIPT]]
          /\ code[b][i].defs = [k \in DOMAIN x.defs |-> [name |-> x.defs[k], sub |-> NO_SUBSCRIPT]]
      BY <2>6 DEF Lifted
    <2> QED
      BY <2>5, <2>7 DEF Mentioned
  <1> QED
    BY <1>2, <1>3 DEF NamesInv, NamesKnown

-----------------------------------------------------------------------------
(* Where the phi functions of a name are placed.                           *)

HasPhi(m, y) == \E k \in DOMAIN code[y] : IsPhi(code[y][k]) /\ code[y][k].defs[1].name = m

\* Of the name that is placed the blocks that are handled have a phi function in
\* each block of their frontier.
PlacingRight ==
  stage = "place" =>
    /\ sites \subseteq Blocks /\ (sites # {} => Least(waiting) \in DefinedNames)
    /\ \A b \in placed : b \in Blocks /\ HasPhi(Least(waiting), b)
    /\ waiting # {} => \A d \in (SitesOf(Least(waiting)) \cup placed) \ sites : frontier[d] \subseteq placed

\* The phi functions of m are all there.
PlacingDone(m) ==
  \/ pass = "memory" /\ m \notin Memory
  \/ stage = "done"
  \/ stage \in {"rename", "switch", "search"} /\ m \in NamesOf(pass)
  \/ stage = "place" /\ m \in NamesOf(pass) \ waiting

PlacedFor(m) ==
  \A b \in Blocks : \A i \in DOMAIN code[b] : m \in Mentioned(code[b][i].defs) => \A y \in frontier[b] : HasPhi(m, y)

PhisPlaced == \A m \in Names : PlacingDone(m) => PlacedFor(m)

PhisHavePreds == \A b \in Blocks : \A i \in DOMAIN code[b] : IsPhi(code[b][i]) => Preds(program, b) # {}

PlacedInv == NamesInv /\ FrontiersRight /\ PlacingRight /\ PhisPlaced /\ PhisHavePreds

\* What a new phi function mentions.
LEMMA PhiMentions ==
  ASSUME NEW x, NEW b, NEW n, NewPhi(x, b, n)
  PROVE  Mentioned(x.defs) = {n} /\ Mentioned(x.uses) = {}
PROOF
  <1>1. DOMAIN x.defs = {1} /\ x.defs[1].name = n /\ x.uses = <<>>
    BY DEF NewPhi, Shape
  <1> QED
    BY <1>1 DEF Mentioned

\* The instructions of a block when phi functions of n are placed.
LEMMA PlacedCode ==
  ASSUME UsesInv, PlacePhis, NEW b \in Blocks
  PROVE  /\ \A i \in DOMAIN code[b] : \E j \in DOMAIN code'[b] : code'[b][j] = code[b][i]
         /\ \A j \in DOMAIN code'[b] :
              \/ \E i \in DOMAIN code[b] : code'[b][j] = code[b][i]
              \/ NewPhi(code'[b][j], b, Least(waiting)) /\ b \in placed' /\ b \notin placed
PROOF
  <1>1. PICK moved : PlacedIn(b, Least(waiting), moved)
    BY PlaceAt
  <1>2. \A i \in DOMAIN code[b] : moved[i] \in DOMAIN code'[b] /\ code'[b][moved[i]] = code[b][i]
    BY <1>1 DEF PlacedIn
  <1> QED
    BY <1>1, <1>2 DEF PlacedIn

\* The blocks that get a phi function have it.
LEMMA PhiComesIn ==
  ASSUME UsesInv, PlacePhis, NEW b \in Blocks, b \in placed', b \notin placed
  PROVE  \E j \in DOMAIN code'[b] : IsPhi(code'[b][j]) /\ code'[b][j].defs[1].name = Least(waiting)
PROOF
  <1>1. PICK n : n = Least(waiting)
    OBVIOUS
  <1>2. PICK new : /\ new = frontier[Least(sites)] \ placed /\ placed' = placed \cup new
                   /\ \E address : code' = [c \in Blocks |-> IF c \in new THEN WithPhi(code[c], Phi(n, c, address[c])) ELSE code[c]]
    BY <1>1 DEF PlacePhis
  <1>3. PICK phi : phi.type = "PHI_FUNCTION" /\ phi.defs[1].name = n /\ code'[b] = WithPhi(code[b], phi)
    <2>1. PICK address : code' = [c \in Blocks |-> IF c \in new THEN WithPhi(code[c], Phi(n, c, address[c])) ELSE code[c]]
      BY <1>2
    <2>2. code'[b] = WithPhi(code[b], Phi(n, b, address[b]))
      BY <1>2, <2>1
    <2>3. Phi(n, b, address[b]).type = "PHI_FUNCTION" /\ Phi(n, b, address[b]).defs[1].name = n
      BY DEF Phi
    <2> QED
      BY <2>2, <2>3
  <1>4. PICK S : code[b] \in Seq(S)
    BY DEF UsesInv, IInv, CodeOK
  <1>5. code[b] \in Seq(S \cup {phi}) /\ phi \in S \cup {phi}
    BY <1>4, SeqMonotonic
  <1>6. PICK k \in DOMAIN WithPhi(code[b], phi) : WithPhi(code[b], phi)[k] = phi
    BY ONLY <1>5, PhiIsInserted
  <1> QED
    BY <1>1, <1>3, <1>6 DEF IsPhi

\* Names do not change: a phi function defines a name that was defined before.
LEMMA PlaceKeepsNames ==
  ASSUME UsesInv, PlacedInv, PlacePhis
  PROVE  NamesInv' /\ DefinedNames' = DefinedNames
PROOF
  <1>1. /\ UNCHANGED <<program, pass, stage, names, original, handled, waiting>> /\ stage = "place"
        /\ Blocks' = Blocks /\ NamesOf(pass)' = NamesOf(pass)
    BY DEF PlacePhis, Blocks, NamesOf
  <1>2. PICK n : n = Least(waiting) /\ n \in names /\ n \in NamesOf(pass) /\ n \in DefinedNames
    BY NamePlaced DEF PlacedInv, PlacingRight, PlacePhis
  <1>3. ASSUME NEW b \in Blocks, NEW j \in DOMAIN code'[b]
        PROVE  \/ \E i \in DOMAIN code[b] : code'[b][j] = code[b][i]
               \/ IsPhi(code'[b][j]) /\ Mentioned(code'[b][j].defs) = {n} /\ Mentioned(code'[b][j].uses) = {}
    <2>1. CASE NewPhi(code'[b][j], b, n)
      BY <2>1, PhiMentions DEF NewPhi
    <2> QED
      BY <2>1, <1>2, PlacedCode
  <1>4. DefinedNames' = DefinedNames
    <2>1. ASSUME NEW m \in DefinedNames
          PROVE  m \in DefinedNames'
      <3>1. PICK b \in Blocks : \E i \in DOMAIN code[b] : m \in NamesOf(pass) /\ m \in Mentioned(code[b][i].defs)
        BY DEF DefinedNames
      <3>3. PICK i \in DOMAIN code[b] : m \in NamesOf(pass) /\ m \in Mentioned(code[b][i].defs)
        BY <3>1
      <3>2. PICK j \in DOMAIN code'[b] : code'[b][j] = code[b][i]
        BY PlacedCode
      <3> QED
        BY <1>1, <3>2, <3>3 DEF DefinedNames
    <2>2. ASSUME NEW m \in DefinedNames'
          PROVE  m \in DefinedNames
      <3>1. PICK b \in Blocks : \E j \in DOMAIN code'[b] : m \in NamesOf(pass) /\ m \in Mentioned(code'[b][j].defs)
        BY <1>1 DEF DefinedNames
      <3> QED
        BY <1>2, <1>3, <3>1 DEF DefinedNames
    <2> QED
      BY <2>1, <2>2
  <1>5. AsLifted'
    BY <1>1 DEF AsLifted
  <1>6. NamesKnown'
    <2>1. n \in Names
      BY <1>2, NamesAssumption DEF NamesOf
    <2> QED
      BY <1>1, <1>3, <2>1 DEF PlacedInv, NamesInv, NamesKnown
  <1>7. DefinedCollected'
    <2>1. DefinedNames \subseteq names
      BY <1>1 DEF PlacedInv, NamesInv, DefinedCollected
    <2>2. ASSUME NEW b \in Blocks
          PROVE  original[b] \subseteq DefinedNames
      BY <1>1 DEF PlacedInv, NamesInv, DefinedCollected
    <2>3. ASSUME NEW b \in Blocks, NEW j \in DOMAIN code'[b]
          PROVE  IsPhi(code'[b][j]) \/ Mentioned(code'[b][j].defs) \cap NamesOf(pass) \subseteq original[b]
      BY <1>1, <1>3 DEF PlacedInv, NamesInv, DefinedCollected
    <2> QED
      BY <1>1, <1>4, <2>1, <2>2, <2>3 DEF DefinedCollected
  <1>8. UsedCollected'
    <2>1. ASSUME NEW b \in Blocks, NEW j \in DOMAIN code'[b], NEW m \in Mentioned(code'[b][j].uses) \cap NamesOf(pass),
                 Related[m] \cap DefinedNames # {}
          PROVE  m \in names
      BY <1>1, <1>3, <2>1 DEF PlacedInv, NamesInv, UsedCollected
    <2> QED
      BY <1>1, <1>4, <2>1 DEF UsedCollected
  <1> QED
    BY <1>4, <1>5, <1>6, <1>7, <1>8 DEF NamesInv

\* A block that is handled has got a phi function into each block of its frontier,
\* and those that did not define the name are handled later.
LEMMA PlaceKeepsPlacing == UsesInv /\ PlacedInv /\ PlacePhis => PlacingRight'
PROOF
  <1> SUFFICES ASSUME UsesInv, PlacedInv, PlacePhis PROVE PlacingRight'
    OBVIOUS
  <1>1. PICK n, d : n = Least(waiting) /\ d = Least(sites)
    OBVIOUS
  <1>2. /\ UNCHANGED <<program, pass, stage, original, waiting, frontier>> /\ stage = "place" /\ Blocks' = Blocks
        /\ placed' = placed \cup frontier[d] /\ sites' = (sites \ {d}) \cup NewSites(n, d) /\ sites # {}
    BY <1>1 DEF PlacePhis, Blocks
  <1>3. d \in sites /\ sites \subseteq Blocks /\ n \in DefinedNames
    <2>1. sites \subseteq Blocks /\ Blocks \subseteq Nat /\ n \in DefinedNames
      BY <1>1, <1>2 DEF PlacedInv, PlacingRight, Blocks, Vertices
    <2> QED
      BY <2>1, <1>1, <1>2, LeastIsMember
  <1>4. frontier[d] \subseteq Blocks
    BY <1>2, <1>3 DEF PlacedInv, FrontiersRight
  <1>5. NewSites(n, d) = {x \in frontier[d] \ placed : n \notin original[x]}
    BY DEF NewSites
  <1>6. DefinedNames' = DefinedNames /\ n = Least(waiting')
    BY <1>1, <1>2, PlaceKeepsNames
  <1>7. ASSUME NEW b \in placed'
        PROVE  b \in Blocks /\ HasPhi(n, b)'
    <2>1. CASE b \in placed
      <3>1. b \in Blocks /\ HasPhi(n, b)
        BY <1>1, <1>2, <2>1 DEF PlacedInv, PlacingRight
      <3>2. PICK k \in DOMAIN code[b] : IsPhi(code[b][k]) /\ code[b][k].defs[1].name = n
        BY <3>1 DEF HasPhi
      <3>3. PICK j \in DOMAIN code'[b] : code'[b][j] = code[b][k]
        BY <3>1, PlacedCode
      <3> QED
        BY <3>1, <3>2, <3>3 DEF HasPhi
    <2>2. CASE b \notin placed
      <3>1. b \in Blocks
        BY <1>2, <1>4, <1>7, <2>2
      <3>2. \E j \in DOMAIN code'[b] : IsPhi(code'[b][j]) /\ code'[b][j].defs[1].name = n
        BY <1>1, <1>7, <2>2, <3>1, PhiComesIn
      <3> QED
        BY <3>1, <3>2 DEF HasPhi
    <2> QED
      BY <2>1, <2>2
  <1>8. waiting # {}
    BY <1>2 DEF UsesInv, PlacingOK
  <1>9. SitesOf(n)' = SitesOf(n)
    BY <1>2 DEF SitesOf
  <1>10. ASSUME NEW x \in (SitesOf(n) \cup placed') \ sites'
         PROVE  frontier[x] \subseteq placed'
    <2>1. CASE x = d
      BY <2>1, <1>2
    <2>2. CASE x # d
      <3>1. x \notin sites
        BY <2>2, <1>2, <1>10
      <3>2. x \in SitesOf(n) \cup placed
        <4> SUFFICES ASSUME x \notin SitesOf(n), x \notin placed PROVE FALSE
          OBVIOUS
        <4>1. x \in frontier[d]
          BY <1>2, <1>10
        <4>2. n \notin original[x]
          BY <4>1, <1>4 DEF SitesOf
        <4> QED
          BY <4>1, <4>2, <1>2, <1>5, <1>10
      <3>3. frontier[x] \subseteq placed
        BY <1>1, <1>2, <1>8, <3>1, <3>2 DEF PlacedInv, PlacingRight
      <3> QED
        BY <3>3, <1>2
    <2> QED
      BY <2>1, <2>2
  <1>11. sites' \subseteq Blocks
    BY <1>2, <1>3, <1>4, <1>5
  <1> HIDE DEF HasPhi
  <1>12. /\ sites' \subseteq Blocks' /\ (sites' # {} => Least(waiting') \in DefinedNames')
         /\ waiting' # {} => \A x \in (SitesOf(Least(waiting))' \cup placed') \ sites' : frontier'[x] \subseteq placed'
    <2>1. SitesOf(Least(waiting))' = SitesOf(n)
      BY <1>1, <1>2 DEF SitesOf
    <2> QED
      BY <2>1, <1>2, <1>3, <1>6, <1>10, <1>11
  <1>13. \A b \in placed' : b \in Blocks' /\ HasPhi(Least(waiting), b)'
    BY <1>1, <1>2, <1>7 DEF HasPhi
  <1> QED
    BY <1>12, <1>13 DEF PlacingRight

\* The phi functions of the names that are finished stay.
LEMMA PlaceKeepsPlaced == UsesInv /\ PlacedInv /\ PlacePhis => PhisPlaced' /\ PhisHavePreds'
PROOF
  <1> SUFFICES ASSUME UsesInv, PlacedInv, PlacePhis PROVE PhisPlaced' /\ PhisHavePreds'
    OBVIOUS
  <1>1. PICK n, d : n = Least(waiting) /\ d = Least(sites)
    OBVIOUS
  <1>2. /\ UNCHANGED <<program, pass, stage, waiting, frontier>> /\ stage = "place" /\ Blocks' = Blocks
        /\ placed' = placed \cup frontier[d] /\ sites # {} /\ n \in waiting /\ n \in NamesOf(pass)
        /\ NamesOf(pass)' = NamesOf(pass)
    BY <1>1, NamePlaced DEF PlacePhis, Blocks, NamesOf
  <1>3. d \in Blocks
    <2>1. sites \subseteq Blocks /\ Blocks \subseteq Nat
      BY <1>2 DEF PlacedInv, PlacingRight, Blocks, Vertices
    <2>2. d \in sites
      BY <2>1, <1>1, <1>2, LeastIsMember
    <2> QED
      BY <2>1, <2>2
  <1>4. ASSUME NEW m \in Names, PlacingDone(m)', NEW b \in Blocks, NEW j \in DOMAIN code'[b],
               m \in Mentioned(code'[b][j].defs), NEW y \in frontier[b]
        PROVE  HasPhi(m, y)'
    <2>1. PlacingDone(m) /\ m # n
      BY <1>2, <1>4 DEF PlacingDone, NamesOf
    <2>2. ~ NewPhi(code'[b][j], b, n)
      BY <2>1, <1>4, PhiMentions
    <2>3. PICK i \in DOMAIN code[b] : code'[b][j] = code[b][i]
      BY <2>2, <1>1, PlacedCode
    <2>4. HasPhi(m, y)
      BY <2>1, <2>3, <1>4 DEF PlacedInv, PhisPlaced, PlacedFor
    <2>5. y \in Blocks
      BY <1>2 DEF PlacedInv, FrontiersRight
    <2>6. PICK k \in DOMAIN code[y] : IsPhi(code[y][k]) /\ code[y][k].defs[1].name = m
      BY <2>4 DEF HasPhi
    <2>7. PICK l \in DOMAIN code'[y] : code'[y][l] = code[y][k]
      BY <2>5, PlacedCode
    <2> QED
      BY <2>6, <2>7 DEF HasPhi
  <1>5. ASSUME NEW b \in Blocks, NEW j \in DOMAIN code'[b], IsPhi(code'[b][j])
        PROVE  Preds(program, b) # {}
    <2>1. CASE \E i \in DOMAIN code[b] : code'[b][j] = code[b][i]
      BY <2>1, <1>5 DEF PlacedInv, PhisHavePreds
    <2>2. CASE b \in placed' /\ b \notin placed
      <3>1. b \in frontier[d]
        BY <2>2, <1>2
      <3> QED
        BY <3>1, <1>2, <1>3 DEF PlacedInv, FrontiersRight
    <2> QED
      BY <2>1, <2>2, PlacedCode
  <1> QED
    BY <1>2, <1>4, <1>5 DEF PhisPlaced, PlacedFor, PhisHavePreds

\* Renaming, filling in and correcting leave the phi functions where they are.
LEMMA MentionsKeepPlaced ==
  ASSUME UsesInv, PlacedInv, Rewrites, KeepsMentions, UNCHANGED <<pass, names, frontier>>, FrontiersRight',
         stage \in {"rename", "search"}, stage' = IF stage = "rename" THEN "rename" ELSE "switch"
  PROVE  PlacedInv'
PROOF
  <1>1. Blocks' = Blocks /\ NamesOf(pass)' = NamesOf(pass) /\ program' = program
    BY DEF Rewrites, Blocks, NamesOf
  <1>2. NamesInv'
    BY MentionsKeepNames DEF PlacedInv
  <1>3. ASSUME NEW b \in Blocks
        PROVE  /\ DOMAIN code'[b] = DOMAIN code[b]
               /\ \A i \in DOMAIN code[b] : Mentioned(code'[b][i].defs) = Mentioned(code[b][i].defs)
               /\ \A i \in DOMAIN code[b] : IsPhi(code'[b][i]) <=> IsPhi(code[b][i])
    BY DEF Rewrites, KeepsMentions, SameInstruction, IsPhi
  <1>4. ASSUME NEW y \in Blocks, NEW m, HasPhi(m, y)
        PROVE  HasPhi(m, y)'
    <2>1. PICK k \in DOMAIN code[y] : IsPhi(code[y][k]) /\ code[y][k].defs[1].name = m
      BY <1>4 DEF HasPhi
    <2>2. SameInstruction(code'[y][k], code[y][k]) /\ 1 \in DOMAIN code[y][k].defs
      BY <2>1 DEF Rewrites, UsesInv, Shaped, Shape
    <2>3. code'[y][k].defs[1].name = m
      BY <2>1, <2>2 DEF SameInstruction
    <2> QED
      BY <1>3, <2>1, <2>3 DEF HasPhi
  <1>5. PhisPlaced'
    <2>1. ASSUME NEW m \in Names, PlacingDone(m)', NEW b \in Blocks, NEW i \in DOMAIN code'[b],
                 m \in Mentioned(code'[b][i].defs), NEW y \in frontier[b]
          PROVE  HasPhi(m, y)'
      <3>1. PlacingDone(m)
        BY <2>1, <1>1 DEF PlacingDone
      <3>2. i \in DOMAIN code[b] /\ m \in Mentioned(code[b][i].defs)
        BY <1>3, <2>1
      <3>3. HasPhi(m, y)
        BY <2>1, <3>1, <3>2 DEF PlacedInv, PhisPlaced, PlacedFor
      <3>4. y \in Blocks
        BY DEF PlacedInv, FrontiersRight
      <3> QED
        BY <3>3, <3>4, <1>4
    <2> QED
      BY <2>1, <1>1 DEF PhisPlaced, PlacedFor
  <1>6. PhisHavePreds'
    BY <1>1, <1>3 DEF PlacedInv, PhisHavePreds
  <1>7. PlacingRight'
    BY DEF PlacingRight
  <1> QED
    BY <1>2, <1>5, <1>6, <1>7 DEF PlacedInv

\* When a name is finished each of its definitions has its phi functions.
LEMMA ElsewhereKeepsPlaced == UsesInv /\ PlacedInv /\ Elsewhere => PlacedInv'
PROOF
  <1> SUFFICES ASSUME UsesInv, PlacedInv, Elsewhere PROVE PlacedInv'
    OBVIOUS
  <1>1. UNCHANGED <<program, code>> /\ Blocks' = Blocks /\ CodeOK /\ NamesOK
    BY ElsewhereKeepsCode DEF Blocks, UsesInv, IInv
  <1>2. NamesInv' /\ FrontiersRight'
    BY <1>1, ElsewhereKeepsNames, ConstructKeepsFrontiers DEF PlacedInv, Construct, Elsewhere
  <1>3. PhisHavePreds'
    BY <1>1 DEF PlacedInv, PhisHavePreds
  <1>4. ASSUME UNCHANGED frontier, NEW m, PlacedFor(m)
        PROVE  PlacedFor(m)'
    BY <1>1, <1>4 DEF PlacedFor, HasPhi
  <1>5. CASE ComputeDominanceFrontier
    <2>1. stage = "dominators" /\ stage' \in {"dominators", "collect"} /\ pass' = pass /\ pass # "memory"
      BY <1>5 DEF ComputeDominanceFrontier, PlacedInv, NamesInv, AsLifted
    <2>2. \A m : ~ PlacingDone(m)'
      BY <2>1 DEF PlacingDone
    <2> QED
      BY <1>2, <1>3, <2>1, <2>2 DEF PlacedInv, PhisPlaced, PlacingRight
  <1>6. CASE Compute_Aorig \/ AddUsedRelatedToDefinedRegisters
    <2>1. /\ stage \in {"collect", "related"} /\ stage' = "related" /\ UNCHANGED <<pass, frontier>>
      BY <1>6 DEF Compute_Aorig, AddUsedRelatedToDefinedRegisters
    <2>2. \A m : PlacingDone(m)' => PlacingDone(m)
      BY <2>1 DEF PlacingDone
    <2> QED
      BY <1>2, <1>3, <1>4, <2>1, <2>2 DEF PlacedInv, PhisPlaced, PlacingRight
  <1>7. CASE StartPlacing
    <2>1. /\ stage = "related" /\ stage' = "place" /\ UNCHANGED <<pass, frontier, names, original>>
          /\ waiting' = names /\ sites' = NextSites(names) /\ placed' = {}
      BY <1>7 DEF StartPlacing
    <2>2. NamesOf(pass)' = NamesOf(pass) /\ DefinedNames' = DefinedNames
      BY <1>1, <2>1 DEF NamesOf, DefinedNames
    <2>3. ASSUME NEW m \in Names, PlacingDone(m)'
          PROVE  PlacedFor(m)
      <3>1. CASE PlacingDone(m)
        BY <3>1 DEF PlacedInv, PhisPlaced
      <3>2. CASE m \in NamesOf(pass) /\ m \notin names
        <4>1. m \notin DefinedNames
          BY <3>2, <2>1 DEF PlacedInv, NamesInv, DefinedCollected
        <4> QED
          BY <4>1, <3>2 DEF DefinedNames, PlacedFor
      <3> QED
        BY <3>1, <3>2, <2>1, <2>2, <2>3 DEF PlacingDone
    <2>4. PlacingRight'
      <3>1. names # {} => sites' = SitesOf(Least(names))
        BY <2>1 DEF NextSites
      <3>2. sites' # {} => names # {}
        BY <2>1 DEF NextSites
      <3>3. \A b \in Blocks : original[b] \subseteq DefinedNames
        BY <2>1 DEF PlacedInv, NamesInv, DefinedCollected
      <3>4. sites' \subseteq Blocks /\ (sites' # {} => Least(names) \in DefinedNames)
        BY <3>1, <3>2, <3>3 DEF SitesOf
      <3>5. names # {} => SitesOf(Least(waiting))' = sites'
        BY <1>1, <2>1, <3>1 DEF SitesOf
      <3> QED
        BY <1>1, <2>1, <2>2, <3>4, <3>5 DEF PlacingRight
    <2> QED
      BY <1>2, <1>3, <1>4, <2>1, <2>3, <2>4 DEF PlacedInv, PhisPlaced
  <1>8. CASE NextName
    <2>1. PICK n : n = Least(waiting)
      OBVIOUS
    <2>2. /\ stage = "place" /\ stage' = "place" /\ UNCHANGED <<pass, frontier, names, original>>
          /\ waiting # {} /\ sites = {}
          /\ waiting' = waiting \ {n} /\ sites' = NextSites(waiting \ {n}) /\ placed' = {}
      BY <1>8, <2>1 DEF NextName
    <2>3. NamesOf(pass)' = NamesOf(pass) /\ DefinedNames' = DefinedNames
      BY <1>1, <2>2 DEF NamesOf, DefinedNames
    <2>4. n \in waiting /\ n \in NamesOf(pass)
      <3>1. waiting \subseteq NamesOf(pass) /\ NamesOf(pass) \subseteq Nat
        BY <2>2, NamesAssumption DEF UsesInv, IInv, NamesOK, PlacingOK, NamesOf
      <3>2. waiting \subseteq Nat
        BY <3>1
      <3> QED
        BY <3>1, <3>2, <2>1, <2>2, LeastIsMember
    <2>5. PlacedFor(n)
      <3>1. ASSUME NEW b \in Blocks, NEW i \in DOMAIN code[b], n \in Mentioned(code[b][i].defs), NEW y \in frontier[b]
            PROVE  HasPhi(n, y)
        <4>1. b \in SitesOf(n) \cup placed
          <5>1. CASE IsPhi(code[b][i])
            <6>1. code[b][i].defs[1].name = n
              BY <3>1, <5>1 DEF UsesInv, Shaped, Shape, Mentioned
            <6>2. PhiNamed(n, b)
              BY <5>1, <6>1 DEF UsesInv, PhisNamed
            <6> QED
              BY <6>2, <2>2, <2>4 DEF PhiNamed
          <5>2. CASE ~ IsPhi(code[b][i])
            BY <3>1, <5>2, <2>2, <2>4 DEF PlacedInv, NamesInv, DefinedCollected, SitesOf
          <5> QED
            BY <5>1, <5>2
        <4>2. frontier[b] \subseteq placed
          BY <4>1, <2>1, <2>2 DEF PlacedInv, PlacingRight
        <4> QED
          BY <4>2, <2>1, <2>2 DEF PlacedInv, PlacingRight
      <3> QED
        BY <3>1 DEF PlacedFor
    <2>6. ASSUME NEW m \in Names, PlacingDone(m)'
          PROVE  PlacedFor(m)
      <3>1. CASE m = n
        BY <3>1, <2>5
      <3>2. CASE m # n
        <4>1. PlacingDone(m)
          BY <3>2, <2>2, <2>3, <2>6 DEF PlacingDone
        <4> QED
          BY <4>1 DEF PlacedInv, PhisPlaced
      <3> QED
        BY <3>1, <3>2
    <2>7. PlacingRight'
      <3> DEFINE rest == waiting \ {n}
      <3>1. rest # {} => sites' = SitesOf(Least(rest))
        BY <2>2 DEF NextSites
      <3>2. sites' # {} => rest # {}
        BY <2>2 DEF NextSites
      <3>3. \A b \in Blocks : original[b] \subseteq DefinedNames
        BY <2>2 DEF PlacedInv, NamesInv, DefinedCollected
      <3>4. waiting' = rest
        BY <2>2
      <3> HIDE DEF rest
      <3>5. sites' \subseteq Blocks /\ (sites' # {} => Least(rest) \in DefinedNames)
        BY <3>1, <3>2, <3>3 DEF SitesOf
      <3>6. rest # {} => SitesOf(Least(waiting))' = sites'
        BY <1>1, <2>2, <3>1, <3>4 DEF SitesOf
      <3> QED
        BY <1>1, <2>2, <2>3, <3>4, <3>5, <3>6 DEF PlacingRight
    <2> QED
      BY <1>2, <1>3, <1>4, <2>2, <2>6, <2>7 DEF PlacedInv, PhisPlaced
  <1>9. CASE StartRenaming \/ RenameChild \/ ReturnFromBlock
    <2>1. /\ stage' = "rename" /\ UNCHANGED <<pass, frontier>>
          /\ stage = "rename" \/ (stage = "place" /\ waiting = {})
      BY <1>9 DEF StartRenaming, RenameChild, ReturnFromBlock
    <2>2. \A m : PlacingDone(m)' => PlacingDone(m)
      BY <2>1 DEF PlacingDone, NamesOf
    <2> QED
      BY <1>2, <1>3, <1>4, <2>1, <2>2 DEF PlacedInv, PhisPlaced, PlacingRight
  <1>10. CASE StartSwitches \/ NextSwitch \/ SearchBlock \/ ReturnFromSearch \/ GiveUp
    <2>1. stage' \in {"switch", "search"} /\ stage \in {"rename", "switch", "search"} /\ UNCHANGED <<pass, frontier>>
      BY <1>10 DEF StartSwitches, NextSwitch, SearchBlock, ReturnFromSearch, GiveUp
    <2>2. \A m : PlacingDone(m)' => PlacingDone(m)
      BY <2>1 DEF PlacingDone, NamesOf
    <2> QED
      BY <1>2, <1>3, <1>4, <2>1, <2>2 DEF PlacedInv, PhisPlaced, PlacingRight
  <1>11. CASE EndPass
    <2>1. /\ stage = "switch" /\ pass' = "memory" /\ stage' = IF pass = "registers" THEN "collect" ELSE "done"
          /\ UNCHANGED frontier /\ pass \in {"registers", "memory"}
      BY <1>1, <1>11 DEF EndPass, NamesOK
    <2>2. \A m \in Names : PlacingDone(m)' => PlacingDone(m)
      BY <2>1 DEF PlacingDone, NamesOf
    <2> QED
      BY <1>2, <1>3, <1>4, <2>1, <2>2 DEF PlacedInv, PhisPlaced, PlacingRight
  <1> QED
    BY <1>5, <1>6, <1>7, <1>8, <1>9, <1>10, <1>11 DEF Elsewhere

\* Every step of the construction keeps the phi functions where the frontiers want them.
LEMMA ConstructKeepsPlaced == UsesInv /\ PlacedInv /\ Construct => PlacedInv'
PROOF
  <1> SUFFICES ASSUME UsesInv, PlacedInv, Construct PROVE PlacedInv'
    OBVIOUS
  <1>1. FrontiersRight'
    BY ConstructKeepsFrontiers DEF UsesInv, IInv, PlacedInv
  <1>2. CASE PlacePhis
    BY <1>1, <1>2, PlaceKeepsNames, PlaceKeepsPlacing, PlaceKeepsPlaced DEF PlacedInv
  <1>3. CASE RenameInstruction
    <2>1. stage = "rename" /\ stage' = stage /\ UNCHANGED <<pass, names, frontier>>
      BY <1>3 DEF RenameInstruction
    <2> QED
      BY <1>1, <1>3, <2>1, RenameAt, RenameKeepsMentions, MentionsKeepPlaced
  <1>4. CASE FillArguments
    <2>1. stage = "rename" /\ stage' = stage /\ UNCHANGED <<pass, names, frontier>>
      BY <1>4 DEF FillArguments
    <2> QED
      BY <1>1, <1>4, <2>1, FillAt, FillKeepsMentions, MentionsKeepPlaced
  <1>5. CASE CorrectSwitch
    <2>1. stage = "search" /\ stage' = "switch" /\ UNCHANGED <<pass, names, frontier>>
      BY <1>5 DEF CorrectSwitch
    <2> QED
      BY <1>1, <1>5, <2>1, CorrectRewrites, CorrectKeepsMentions, MentionsKeepPlaced
  <1>6. CASE Elsewhere
    BY <1>6, ElsewhereKeepsPlaced
  <1> QED
    BY <1>2, <1>3, <1>4, <1>5, <1>6 DEF Construct, Elsewhere

\* Nothing is placed initially.
LEMMA PlacedInvInit == Init => PlacedInv
PROOF
  <1> SUFFICES ASSUME Init PROVE PlacedInv
    OBVIOUS
  <1>1. NamesInv /\ FrontiersRight
    BY NamesInvInit, FrontiersInit
  <1>2. stage = "dominators" /\ pass = "registers"
    BY DEF Init
  <1>3. PlacingRight /\ PhisPlaced
    BY <1>2 DEF PlacingRight, PhisPlaced, PlacingDone
  <1>4. ASSUME NEW b \in Blocks, NEW i \in DOMAIN code[b]
        PROVE  ~ IsPhi(code[b][i])
    <2>1. program.code[b] \in Seq(InstructionsAsLifted)
      BY ProgramsAssumption DEF Blocks, Init
    <2>2. i \in 1 .. Len(program.code[b]) /\ code[b][i] = Lifted(b, i, program.code[b][i])
      BY <2>1 DEF Init
    <2>3. program.code[b][i] \in InstructionsAsLifted
      BY <2>1, <2>2, ElementOfSeq
    <2>4. program.code[b][i].type # "PHI_FUNCTION"
      BY <2>3 DEF InstructionsAsLifted
    <2> QED
      BY <2>2, <2>4 DEF IsPhi, Lifted
  <1>5. PhisHavePreds
    BY <1>4 DEF PhisHavePreds
  <1> QED
    BY <1>1, <1>3, <1>5 DEF PlacedInv

\* A step that leaves the construction alone keeps what it placed.
LEMMA PlacedInvStutters == PlacedInv /\ UNCHANGED vars => PlacedInv'
PROOF
  <1> SUFFICES ASSUME PlacedInv, UNCHANGED vars PROVE PlacedInv'
    OBVIOUS
  <1>1. /\ UNCHANGED <<program, code, pass, stage, handled, frontier, names, original, waiting, sites, placed>>
        /\ Blocks' = Blocks /\ NamesOf(pass)' = NamesOf(pass)
    BY DEF vars, placing, Blocks, NamesOf
  <1>2. DefinedNames' = DefinedNames
    BY <1>1 DEF DefinedNames
  <1>3. NamesInv'
    BY <1>1, <1>2 DEF PlacedInv, NamesInv, AsLifted, NamesKnown, DefinedCollected, UsedCollected
  <1>4. FrontiersRight'
    BY <1>1 DEF PlacedInv, FrontiersRight
  <1>5. PlacingRight'
    BY <1>1, <1>2 DEF PlacedInv, PlacingRight, HasPhi, SitesOf
  <1>6. PhisPlaced'
    BY <1>1 DEF PlacedInv, PhisPlaced, PlacingDone, PlacedFor, HasPhi
  <1>7. PhisHavePreds'
    BY <1>1 DEF PlacedInv, PhisHavePreds
  <1> QED
    BY <1>3, <1>4, <1>5, <1>6, <1>7 DEF PlacedInv

-----------------------------------------------------------------------------
(* The latest write of a name before a place in the code, along the        *)
(* dominators of its block.                                                *)

Before(d, k, b, i) == IF d = b THEN k < i ELSE Dominates(program, d, b)

\* s is the version of the latest write to n before b, i: there is none, or it
\* has s, and it comes after all others.
Latest(n, s, b, i) ==
  \/ /\ s = 0
     /\ \A e \in Blocks : \A j \in DOMAIN code[e] : n \in WrittenBy(code[e][j]) => ~ Before(e, j, b, i)
  \/ \E d \in Blocks : \E k \in DOMAIN code[d] :
       /\ n \in WrittenBy(code[d][k]) /\ <<n, s, code[d][k].id>> \in definitions /\ Before(d, k, b, i)
       /\ \A e \in Blocks : \A j \in DOMAIN code[e] :
            n \in WrittenBy(code[e][j]) /\ Before(e, j, b, i) => Before(e, j, d, k + 1)

\* A place before which the same instructions write the name.
LEMMA SameWritesBefore ==
  ASSUME NEW n, NEW s, NEW b, NEW i, Latest(n, s, b, i), NEW c, NEW l,
         \A e \in Blocks : \A j \in DOMAIN code[e] :
           n \in WrittenBy(code[e][j]) => (Before(e, j, b, i) <=> Before(e, j, c, l))
  PROVE  Latest(n, s, c, l)
PROOF
  <1>1. CASE s = 0 /\ \A e \in Blocks : \A j \in DOMAIN code[e] : n \in WrittenBy(code[e][j]) => ~ Before(e, j, b, i)
    BY <1>1 DEF Latest
  <1>2. CASE \E d \in Blocks : \E k \in DOMAIN code[d] :
       /\ n \in WrittenBy(code[d][k]) /\ <<n, s, code[d][k].id>> \in definitions /\ Before(d, k, b, i)
       /\ \A e \in Blocks : \A j \in DOMAIN code[e] :
            n \in WrittenBy(code[e][j]) /\ Before(e, j, b, i) => Before(e, j, d, k + 1)
    <2>1. PICK d \in Blocks : \E k \in DOMAIN code[d] :
       /\ n \in WrittenBy(code[d][k]) /\ <<n, s, code[d][k].id>> \in definitions /\ Before(d, k, b, i)
       /\ \A e \in Blocks : \A j \in DOMAIN code[e] :
            n \in WrittenBy(code[e][j]) /\ Before(e, j, b, i) => Before(e, j, d, k + 1)
      BY <1>2
    <2>2. PICK k \in DOMAIN code[d] :
       /\ n \in WrittenBy(code[d][k]) /\ <<n, s, code[d][k].id>> \in definitions /\ Before(d, k, b, i)
       /\ \A e \in Blocks : \A j \in DOMAIN code[e] :
            n \in WrittenBy(code[e][j]) /\ Before(e, j, b, i) => Before(e, j, d, k + 1)
      BY <2>1
    <2>3. Before(d, k, c, l)
      BY <2>2
    <2>4. \A e \in Blocks : \A j \in DOMAIN code[e] :
            n \in WrittenBy(code[e][j]) /\ Before(e, j, c, l) => Before(e, j, d, k + 1)
      BY <2>2
    <2> QED
      BY <2>2, <2>3, <2>4 DEF Latest
  <1> QED
    BY <1>1, <1>2 DEF Latest

\* Rewriting moves no write.
LEMMA RewritesKeepLatest ==
  ASSUME Rewrites, definitions \subseteq definitions', NEW n, NEW s, NEW b, NEW i, Latest(n, s, b, i)
  PROVE  Latest(n, s, b, i)'
PROOF
  <1>1. Blocks' = Blocks /\ \A d, k, c, l : Before(d, k, c, l)' <=> Before(d, k, c, l)
    BY DEF Rewrites, Blocks, Before
  <1>2. ASSUME NEW e \in Blocks
        PROVE  DOMAIN code'[e] = DOMAIN code[e]
    BY DEF Rewrites
  <1>3. ASSUME NEW e \in Blocks, NEW j \in DOMAIN code[e]
        PROVE  code'[e][j].id = code[e][j].id /\ WrittenBy(code'[e][j]) = WrittenBy(code[e][j])
    BY SameDefinitions DEF Rewrites, SameInstruction
  <1>4. \A e \in Blocks : \A j \in DOMAIN code[e] : WrittenBy(code[e][j])' = WrittenBy(code'[e][j])
    BY DEF WrittenBy
  <1>5. CASE s = 0 /\ \A e \in Blocks : \A j \in DOMAIN code[e] : n \in WrittenBy(code[e][j]) => ~ Before(e, j, b, i)
    BY <1>1, <1>2, <1>3, <1>4, <1>5 DEF Latest
  <1>6. CASE \E d \in Blocks : \E k \in DOMAIN code[d] :
       /\ n \in WrittenBy(code[d][k]) /\ <<n, s, code[d][k].id>> \in definitions /\ Before(d, k, b, i)
       /\ \A e \in Blocks : \A j \in DOMAIN code[e] :
            n \in WrittenBy(code[e][j]) /\ Before(e, j, b, i) => Before(e, j, d, k + 1)
    <2>1. PICK d \in Blocks : \E k \in DOMAIN code[d] :
       /\ n \in WrittenBy(code[d][k]) /\ <<n, s, code[d][k].id>> \in definitions /\ Before(d, k, b, i)
       /\ \A e \in Blocks : \A j \in DOMAIN code[e] :
            n \in WrittenBy(code[e][j]) /\ Before(e, j, b, i) => Before(e, j, d, k + 1)
      BY <1>6
    <2>2. PICK k \in DOMAIN code[d] :
       /\ n \in WrittenBy(code[d][k]) /\ <<n, s, code[d][k].id>> \in definitions /\ Before(d, k, b, i)
       /\ \A e \in Blocks : \A j \in DOMAIN code[e] :
            n \in WrittenBy(code[e][j]) /\ Before(e, j, b, i) => Before(e, j, d, k + 1)
      BY <2>1
    <2>3. k \in DOMAIN code'[d] /\ n \in WrittenBy(code'[d][k]) /\ <<n, s, code'[d][k].id>> \in definitions'
      BY <1>2, <1>3, <2>2
    <2>4. \A e \in Blocks : \A j \in DOMAIN code'[e] :
            n \in WrittenBy(code'[e][j]) /\ Before(e, j, b, i) => Before(e, j, d, k + 1)
      BY <1>2, <1>3, <2>2
    <2> QED
      BY <1>1, <1>4, <2>2, <2>3, <2>4 DEF Latest
  <1> QED
    BY <1>5, <1>6 DEF Latest

\* All places behind the end of a block are the same.
LEMMA LatestAtEnd ==
  ASSUME NEW n, NEW s, NEW b, NEW i, Latest(n, s, b, i), NEW l,
         \A j \in DOMAIN code[b] : j < i /\ j < l
  PROVE  Latest(n, s, b, l)
PROOF
  <1>1. \A e \in Blocks : \A j \in DOMAIN code[e] : Before(e, j, b, i) <=> Before(e, j, b, l)
    BY DEF Before
  <1> QED
    BY <1>1, SameWritesBefore

\* An instruction that does not write the name does not change which is the latest.
LEMMA LatestGoesOn ==
  ASSUME NEW n, NEW s, NEW b \in Blocks, NEW i \in Nat, i \in DOMAIN code[b], n \notin WrittenBy(code[b][i]),
         \A j \in DOMAIN code[b] : j \in Nat
  PROVE  Latest(n, s, b, i) <=> Latest(n, s, b, i + 1)
PROOF
  <1>1. ASSUME NEW e \in Blocks, NEW j \in DOMAIN code[e], n \in WrittenBy(code[e][j])
        PROVE  Before(e, j, b, i) <=> Before(e, j, b, i + 1)
    <2>1. CASE e # b
      BY <2>1 DEF Before
    <2>2. CASE e = b
      <3>1. j \in Nat /\ j # i
        BY <1>1, <2>2
      <3>2. j < i <=> j < i + 1
        BY <3>1
      <3> QED
        BY <2>2, <3>2 DEF Before
    <2> QED
      BY <2>1, <2>2
  <1>2. Latest(n, s, b, i) => Latest(n, s, b, i + 1)
    BY <1>1, SameWritesBefore
  <1>3. Latest(n, s, b, i + 1) => Latest(n, s, b, i)
    BY <1>1, SameWritesBefore
  <1> QED
    BY <1>2, <1>3

\* An instruction that writes it is the latest behind itself.
LEMMA LatestIsWritten ==
  ASSUME NEW n, NEW s, NEW b \in Blocks, NEW i \in Nat, i \in DOMAIN code[b], n \in WrittenBy(code[b][i]),
         <<n, s, code[b][i].id>> \in definitions
  PROVE  Latest(n, s, b, i + 1)
PROOF
  <1>1. Before(b, i, b, i + 1)
    BY DEF Before
  <1> QED
    BY <1>1 DEF Latest

\* A child in the dominator tree begins with what its parent ends with.
LEMMA ChildBegins ==
  ASSUME CodeOK, NEW b \in Reached(program), NEW c \in ImmediatelyDominated(program, b), NEW n, NEW s, NEW i,
         Latest(n, s, b, i), \A j \in DOMAIN code[b] : j < i, \A j \in DOMAIN code[c] : j \in Nat \ {0}
  PROVE  Latest(n, s, c, 1)
PROOF
  <1>1. IsGraph(program) /\ c # b /\ Dominates(program, b, c) /\ c \in Reached(program) /\ b \in Blocks
    BY ProgramIsGraph DEF ImmediatelyDominated, StrictDominators
  <1>2. ASSUME NEW e \in Blocks, NEW j \in DOMAIN code[e]
        PROVE  Before(e, j, b, i) <=> Before(e, j, c, 1)
    <2>1. CASE e = c
      <3>1. j \in Nat \ {0}
        BY <2>1
      <3>2. ~ Before(e, j, c, 1)
        BY <2>1, <3>1 DEF Before
      <3>3. ~ Dominates(program, c, b)
        BY <1>1, DominatesAntisymmetric
      <3> QED
        BY <1>1, <2>1, <3>2, <3>3 DEF Before
    <2>2. CASE e # c
      <3>1. Before(e, j, c, 1) <=> Dominates(program, e, c)
        BY <2>2 DEF Before
      <3>2. Before(e, j, b, i) <=> Dominates(program, e, b)
        BY DEF Before, Dominates
      <3>3. Dominates(program, e, b) => Dominates(program, e, c)
        BY <1>1, DominatesTransitive
      <3>4. Dominates(program, e, c) => Dominates(program, e, b)
        BY <2>2 DEF ImmediatelyDominated, StrictDominators, Blocks
      <3> QED
        BY <3>1, <3>2, <3>3, <3>4
    <2> QED
      BY <2>1, <2>2
  <1> QED
    BY <1>2, SameWritesBefore

\* A name of the pass gets a new version exactly when the instruction writes it.
LEMMA PushedIfWritten ==
  ASSUME UsesInv, NamesInv, stage = "rename", NEW x, WellFormed(x), Mentioned(x.defs) \subseteq Names,
         Mentioned(x.defs) \cap NamesOf(pass) \subseteq DefinedNames, NEW n \in names
  PROVE  /\ NumberOfPushes(x, n, Len(x.defs)) \in Nat
         /\ NumberOfPushes(x, n, Len(x.defs)) # 0 <=> n \in WrittenBy(x)
PROOF
  <1> DEFINE K == {k \in 1 .. Len(x.defs) : Pushes(x.defs[k].name, n)}
  <1>1. PICK T : x.defs \in Seq(T)
    BY DEF WellFormed
  <1>2. Len(x.defs) \in Nat /\ DOMAIN x.defs = 1 .. Len(x.defs)
    BY <1>1
  <1>3. IsFiniteSet(K)
    <2>1. IsFiniteSet(1 .. Len(x.defs)) /\ K \subseteq 1 .. Len(x.defs)
      BY <1>2, FS_Interval
    <2> QED
      BY <2>1, FS_Subset
  <1>4. Cardinality(K) \in Nat /\ (Cardinality(K) = 0 <=> K = {})
    BY <1>3, FS_EmptySet, FS_CardinalityType
  <1>5. ASSUME NEW k \in K
        PROVE  n \in WrittenBy(x)
    <2>1. x.defs[k].name \in Mentioned(x.defs) /\ (n = x.defs[k].name \/ n \in Related[x.defs[k].name])
      BY <1>2 DEF Mentioned, Pushes
    <2> QED
      BY <2>1, WrittenNames
  <1>6. ASSUME n \in WrittenBy(x)
        PROVE  K # {}
    <2>1. PICK m \in Mentioned(x.defs) : n = m \/ n \in Related[m]
      BY <1>6, WrittenNames
    <2>2. m \in names
      <3>1. CASE n = m
        BY <3>1
      <3>2. CASE n \in Related[m]
        <4>1. m \in Names /\ m \notin Memory /\ n \notin Memory
          BY <2>1, <3>2, NamesAssumption
        <4>2. names \subseteq NamesOf(pass) /\ DefinedNames \subseteq names
          BY DEF UsesInv, IInv, NamesOK, NamesInv, DefinedCollected
        <4>3. m \in NamesOf(pass)
          BY <4>1, <4>2 DEF NamesOf
        <4> QED
          BY <2>1, <4>2, <4>3
      <3> QED
        BY <2>1, <3>1, <3>2
    <2>3. PICK k \in DOMAIN x.defs : m = x.defs[k].name
      BY <2>1 DEF Mentioned
    <2>4. k \in K
      BY <1>2, <2>1, <2>2, <2>3 DEF Pushes
    <2> QED
      BY <2>4
  <1>7. NumberOfPushes(x, n, Len(x.defs)) = Cardinality(K)
    BY DEF NumberOfPushes
  <1> QED
    BY <1>4, <1>5, <1>6, <1>7

\* The instruction that is renamed.
LEMMA CurrentNames ==
  ASSUME UsesInv, NamesInv, RenameInstruction
  PROVE  /\ WellFormed(Current) /\ Mentioned(Current.defs) \subseteq Names
         /\ Mentioned(Current.defs) \cap NamesOf(pass) \subseteq DefinedNames
PROOF
  <1>1. RenamedAt(Top.block, Top.next)
    BY RenameAt
  <1>2. Top.block \in Blocks /\ Top.next \in DOMAIN code[Top.block] /\ WellFormed(Current)
    BY <1>1 DEF RenamedAt, Current
  <1>3. Mentioned(Current.defs) \subseteq Names
    BY <1>2 DEF NamesInv, NamesKnown, Current
  <1>4. \A m \in Mentioned(Current.defs) \cap NamesOf(pass) : m \in DefinedNames
    BY <1>2 DEF DefinedNames, Current
  <1> QED
    BY <1>2, <1>3, <1>4

\* A definition is the version of a name that some instruction writes.
DefinitionsWrite ==
  \A d \in definitions :
    /\ d = <<d[1], d[2], d[3]>> /\ d[2] \in Nat \ {0}
    /\ \E b \in Blocks : \E i \in DOMAIN code[b] : code[b][i].id = d[3] /\ d[1] \in WrittenBy(code[b][i])

\* What keeps the instructions keeps their definitions.
LEMMA InstructionsKeepDefinitions ==
  ASSUME DefinitionsWrite, Blocks' = Blocks,
         \A b \in Blocks : \A i \in DOMAIN code[b] : \E j \in DOMAIN code'[b] :
           code'[b][j].id = code[b][i].id /\ WrittenBy(code'[b][j]) = WrittenBy(code[b][i]),
         \A d \in definitions' \ definitions :
           /\ d = <<d[1], d[2], d[3]>> /\ d[2] \in Nat \ {0}
           /\ \E b \in Blocks : \E i \in DOMAIN code[b] : code[b][i].id = d[3] /\ d[1] \in WrittenBy(code[b][i])
  PROVE  DefinitionsWrite'
PROOF
  <1>1. SUFFICES ASSUME NEW d \in definitions'
                 PROVE  /\ d = <<d[1], d[2], d[3]>> /\ d[2] \in Nat \ {0}
                        /\ \E b \in Blocks : \E i \in DOMAIN code'[b] :
                             code'[b][i].id = d[3] /\ d[1] \in WrittenBy(code'[b][i])
    BY DEF DefinitionsWrite, WrittenBy
  <1>2. /\ d = <<d[1], d[2], d[3]>> /\ d[2] \in Nat \ {0}
        /\ \E b \in Blocks : \E i \in DOMAIN code[b] : code[b][i].id = d[3] /\ d[1] \in WrittenBy(code[b][i])
    BY DEF DefinitionsWrite
  <1>3. PICK b \in Blocks : \E i \in DOMAIN code[b] : code[b][i].id = d[3] /\ d[1] \in WrittenBy(code[b][i])
    BY <1>2
  <1>4. PICK i \in DOMAIN code[b] : code[b][i].id = d[3] /\ d[1] \in WrittenBy(code[b][i])
    BY <1>3
  <1>5. PICK j \in DOMAIN code'[b] : code'[b][j].id = code[b][i].id /\ WrittenBy(code'[b][j]) = WrittenBy(code[b][i])
    OBVIOUS
  <1> QED
    BY <1>2, <1>4, <1>5

\* Rewriting instructions in place keeps which definitions write which names.
LEMMA RewritesKeepDefinitions ==
  ASSUME DefinitionsWrite, Rewrites, definitions' = definitions
  PROVE  DefinitionsWrite'
PROOF
  <1>1. ASSUME NEW b \in Blocks, NEW i \in DOMAIN code[b]
        PROVE  i \in DOMAIN code'[b] /\ code'[b][i].id = code[b][i].id /\ WrittenBy(code'[b][i]) = WrittenBy(code[b][i])
    BY SameDefinitions DEF Rewrites, SameInstruction
  <1>2. Blocks' = Blocks
    BY DEF Rewrites, Blocks
  <1> QED
    BY <1>1, <1>2, InstructionsKeepDefinitions

\* Renaming an instruction defines what it writes.
LEMMA RenameKeepsDefinitions == UsesInv /\ NamesInv /\ DefinitionsWrite /\ RenameInstruction => DefinitionsWrite'
PROOF
  <1> SUFFICES ASSUME UsesInv, NamesInv, DefinitionsWrite, RenameInstruction PROVE DefinitionsWrite'
    OBVIOUS
  <1>1. RenamedAt(Top.block, Top.next) /\ Rewrites
    BY RenameAt
  <1>2. ASSUME NEW b \in Blocks, NEW i \in DOMAIN code[b]
        PROVE  i \in DOMAIN code'[b] /\ code'[b][i].id = code[b][i].id /\ WrittenBy(code'[b][i]) = WrittenBy(code[b][i])
    BY <1>1, SameDefinitions DEF Rewrites, SameInstruction
  <1>3. Blocks' = Blocks
    BY <1>1 DEF Rewrites, Blocks
  <1>4. ASSUME NEW d \in definitions' \ definitions
        PROVE  /\ d = <<d[1], d[2], d[3]>> /\ d[2] \in Nat \ {0}
               /\ \E b \in Blocks : \E i \in DOMAIN code[b] : code[b][i].id = d[3] /\ d[1] \in WrittenBy(code[b][i])
    <2>1. PICK n \in names : d \in {<<n, Given(n) + i, Current.id>> : i \in 1 .. NumberOfPushes(Current, n, Len(Current.defs))}
      BY <1>4 DEF RenameInstruction
    <2>2. PICK i \in 1 .. NumberOfPushes(Current, n, Len(Current.defs)) : d = <<n, Given(n) + i, Current.id>>
      BY <2>1
    <2>3. /\ NumberOfPushes(Current, n, Len(Current.defs)) \in Nat
          /\ NumberOfPushes(Current, n, Len(Current.defs)) # 0 <=> n \in WrittenBy(Current)
      BY CurrentNames, PushedIfWritten DEF RenameInstruction
    <2>4. Given(n) \in Nat
      BY DEF UsesInv, IInv, CountOK, RenameInstruction, Given
    <2>5. PICK p : p = NumberOfPushes(Current, n, Len(Current.defs))
      OBVIOUS
    <2>6. p \in Nat /\ i \in 1 .. p
      BY <2>2, <2>3, <2>5
    <2>7. p # 0 /\ i \in Nat \ {0}
      BY <2>6
    <2>8. n \in WrittenBy(Current)
      BY <2>3, <2>5, <2>7
    <2>9. Given(n) + i \in Nat \ {0}
      BY <2>4, <2>7
    <2>10. Top.block \in Blocks /\ Top.next \in DOMAIN code[Top.block] /\ Current = code[Top.block][Top.next]
      BY <1>1 DEF RenamedAt, Current
    <2> QED
      BY <2>2, <2>8, <2>9, <2>10
  <1> HIDE DEF DefinitionsWrite
  <1> QED
    BY <1>2, <1>3, <1>4, InstructionsKeepDefinitions

\* Phi functions come in, and the instructions stay.
LEMMA PlaceKeepsDefinitions == UsesInv /\ DefinitionsWrite /\ PlacePhis => DefinitionsWrite'
PROOF
  <1> SUFFICES ASSUME UsesInv, DefinitionsWrite, PlacePhis PROVE DefinitionsWrite'
    OBVIOUS
  <1>1. Blocks' = Blocks /\ definitions' = definitions
    BY DEF PlacePhis, Blocks, renaming
  <1>2. \A b \in Blocks : \A i \in DOMAIN code[b] : \E j \in DOMAIN code'[b] : code'[b][j] = code[b][i]
    BY PlacedCode
  <1>3. \A b \in Blocks : \A i \in DOMAIN code[b] : \E j \in DOMAIN code'[b] :
           code'[b][j].id = code[b][i].id /\ WrittenBy(code'[b][j]) = WrittenBy(code[b][i])
    BY <1>2
  <1> QED
    BY <1>1, <1>3, InstructionsKeepDefinitions

\* Every step of the construction does.
LEMMA ConstructKeepsDefinitions == UsesInv /\ NamesInv /\ DefinitionsWrite /\ Construct => DefinitionsWrite'
PROOF
  <1> SUFFICES ASSUME UsesInv, NamesInv, DefinitionsWrite, Construct PROVE DefinitionsWrite'
    OBVIOUS
  <1>1. CASE RenameInstruction
    BY <1>1, RenameKeepsDefinitions
  <1>2. CASE PlacePhis
    BY <1>2, PlaceKeepsDefinitions
  <1>3. CASE FillArguments
    <2>1. Rewrites /\ definitions' = definitions
      BY <1>3, FillAt DEF FillArguments
    <2> QED
      BY <2>1, RewritesKeepDefinitions
  <1>4. CASE CorrectSwitch
    <2>1. Rewrites /\ definitions' = definitions
      BY <1>4, CorrectRewrites DEF CorrectSwitch, renaming
    <2> QED
      BY <2>1, RewritesKeepDefinitions
  <1>5. CASE Elsewhere
    <2>1. Rewrites /\ definitions' = definitions
      BY <1>5, ElsewhereKeepsCode, SameCodeRewrites
    <2> QED
      BY <2>1, RewritesKeepDefinitions
  <1> QED
    BY <1>1, <1>2, <1>3, <1>4, <1>5 DEF Construct, Elsewhere

-----------------------------------------------------------------------------
(* What the stacks hold: the versions that were written latest.            *)

\* height[j] is how much of the stacks call j sees; their tops are the latest
\* versions where it goes on.
SeesLatest(height) ==
  /\ height \in [1 .. Len(frames) -> [names -> Nat \ {0}]]
  /\ \A j \in 1 .. Len(frames), n \in names : \A i \in 1 .. j : height[i][n] <= height[j][n]
  /\ \A j \in 1 .. Len(frames), n \in names : j > 1 => height[j][n] = height[j - 1][n] + frames[j].pushed[n]
  /\ frames # <<>> => \A n \in names : Len(stack[n]) = height[Len(frames)][n]
  /\ \A j \in 1 .. Len(frames), n \in names : Latest(n, stack[n][height[j][n]], frames[j].block, frames[j].next)
StackLatest ==
  stage = "rename" =>
    /\ \E height : SeesLatest(height)
    /\ \A j \in 1 .. Len(frames) : frames[j].filled => \A k \in DOMAIN code[frames[j].block] : k < frames[j].next

\* A list that grows at its end.
LEMMA GrownList ==
  ASSUME NEW T, NEW s \in Seq(T), NEW r \in Seq(T)
  PROVE  /\ Len(s) \in Nat /\ Len(r) \in Nat /\ Len(s \o r) = Len(s) + Len(r)
         /\ \A p \in 1 .. Len(s) : (s \o r)[p] = s[p]
         /\ \A p \in 1 .. Len(r) : (s \o r)[Len(s) + p] = r[p]
PROOF
  <1>1. Len(s) \in Nat /\ Len(r) \in Nat
    OBVIOUS
  <1>2. /\ Len(s \o r) = Len(s) + Len(r)
        /\ \A i \in 1 .. Len(s) + Len(r) : (s \o r)[i] = IF i <= Len(s) THEN s[i] ELSE r[i - Len(s)]
    BY ConcatProperties
  <1>3. \A p \in 1 .. Len(s) : (s \o r)[p] = s[p]
    BY <1>1, <1>2
  <1>4. ASSUME NEW p \in 1 .. Len(r)
        PROVE  (s \o r)[Len(s) + p] = r[p]
    <2>1. Len(s) + p \in 1 .. Len(s) + Len(r) /\ ~ Len(s) + p <= Len(s) /\ Len(s) + p - Len(s) = p
      BY <1>1
    <2> QED
      BY <1>2, <2>1
  <1> QED
    BY <1>1, <1>2, <1>3, <1>4

\* The first elements of a list.
LEMMA CutList ==
  ASSUME NEW T, NEW s \in Seq(T), NEW a \in Nat \ {0}, NEW q \in Nat, Len(s) = a + q
  PROVE  /\ Len(SubSeq(s, 1, Len(s) - q)) = a
         /\ \A p \in 1 .. a : SubSeq(s, 1, Len(s) - q)[p] = s[p]
PROOF
  <1>1. Len(s) - q = a /\ \A p \in 1 .. a : p \in 1 .. Len(s)
    <2>1. a + q - q = a /\ \A p \in 1 .. a : p \in 1 .. a + q
      OBVIOUS
    <2> QED
      BY <2>1
  <1>2. \A p \in 1 .. a : s[p] \in T
    BY <1>1, ElementOfSeq
  <1>3. a \in Int /\ 1 \in Int
    OBVIOUS
  <1>4. /\ Len(SubSeq(s, 1, a)) = IF 1 <= a THEN a - 1 + 1 ELSE 0
        /\ \A p \in 1 .. a - 1 + 1 : SubSeq(s, 1, a)[p] = s[1 + p - 1]
    BY <1>2, <1>3, SubSeqProperties
  <1>5. PICK r : r = SubSeq(s, 1, a)
    OBVIOUS
  <1>6. Len(r) = a /\ \A p \in 1 .. a : r[p] = s[p]
    BY <1>4, <1>5
  <1> QED
    BY <1>1, <1>5, <1>6

\* What was written by the instruction that was renamed is the latest.
LEMMA NowLatest ==
  ASSUME NEW n, NEW s, NEW b \in Blocks', NEW i \in Nat, i \in DOMAIN code'[b], n \in WrittenBy(code'[b][i]),
         <<n, s, code'[b][i].id>> \in definitions'
  PROVE  Latest(n, s, b, i + 1)'
PROOF
  <1>1. Before(b, i, b, i + 1)'
    BY DEF Before
  <1>2. WrittenBy(code[b][i])' = WrittenBy(code'[b][i])
    BY DEF WrittenBy
  <1> QED
    BY <1>1, <1>2 DEF Latest

\* The latest version is the one that the instruction pushes, or the old one.
LEMMA TopIsLatest ==
  ASSUME UsesInv, NamesInv, RenameInstruction, NEW more, StacksGrow(more), NEW n \in names,
         NEW v, v = stack[n][Len(stack[n])], NEW w, w = stack'[n][Len(stack'[n])],
         NEW b, b = Top.block, NEW i, i = Top.next, Latest(n, v, b, i), stack[n] # <<>>
  PROVE  Latest(n, w, b, i + 1)'
PROOF
  <1>1. RenamedAt(Top.block, Top.next) /\ Rewrites /\ stage = "rename" /\ definitions \subseteq definitions'
    BY RenameAt DEF RenameInstruction
  <1>2. CodeOK
    BY DEF UsesInv, IInv
  <1>3. b \in Blocks /\ i \in DOMAIN code[b] /\ i \in Nat /\ Current = code[b][i]
    BY <1>1 DEF RenamedAt, Current
  <1>4. PICK T : stack \in [names -> Seq(T)]
    BY <1>1 DEF UsesInv, StackOK
  <1>5. PICK s : s = stack[n]
    OBVIOUS
  <1>6. PICK r : r = more[n]
    OBVIOUS
  <1>7. stack'[n] = s \o r
    BY <1>5, <1>6 DEF StacksGrow
  <1>8. s \in Seq(T \cup Nat) /\ r \in Seq(T \cup Nat)
    BY <1>4, <1>5, <1>6, SeqMonotonic DEF StacksGrow
  <1>9. PICK S : S = T \cup Nat
    OBVIOUS
  <1>10. s \in Seq(S) /\ r \in Seq(S)
    BY <1>8, <1>9
  <1>11. /\ Len(s) \in Nat /\ Len(r) \in Nat /\ Len(s \o r) = Len(s) + Len(r)
         /\ \A p \in 1 .. Len(s) : (s \o r)[p] = s[p]
         /\ \A p \in 1 .. Len(r) : (s \o r)[Len(s) + p] = r[p]
    BY ONLY <1>10, GrownList
  <1>12. /\ NumberOfPushes(Current, n, Len(Current.defs)) \in Nat
         /\ NumberOfPushes(Current, n, Len(Current.defs)) # 0 <=> n \in WrittenBy(Current)
    BY <1>1, CurrentNames, PushedIfWritten
  <1>13. Len(r) # 0 <=> n \in WrittenBy(Current)
    BY <1>6, <1>12 DEF StacksGrow
  <1>14. CASE n \in WrittenBy(Current)
    <2>1. Len(r) \in 1 .. Len(r)
      BY <1>11, <1>13, <1>14
    <2>2. <<n, r[Len(r)], Current.id>> \in definitions'
      BY <2>1, <1>6 DEF StacksGrow
    <2>3. w = r[Len(r)]
      BY <2>1, <1>7, <1>11
    <2>4. i \in DOMAIN code'[b] /\ code'[b][i].id = Current.id /\ WrittenBy(code'[b][i]) = WrittenBy(Current)
      BY <1>1, <1>3, SameDefinitions DEF Rewrites, SameInstruction
    <2>5. b \in Blocks'
      BY <1>1, <1>3 DEF Rewrites, Blocks
    <2> QED
      BY <1>3, <1>14, <2>2, <2>3, <2>4, <2>5, NowLatest
  <1>15. CASE n \notin WrittenBy(Current)
    <2>1. Len(r) = 0 /\ Len(s) \in 1 .. Len(s)
      BY <1>5, <1>10, <1>11, <1>13, <1>15, EmptySeq
    <2>2. w = v
      BY <2>1, <1>5, <1>7, <1>11
    <2>3. \A j \in DOMAIN code[b] : j \in Nat
      BY <1>2, <1>3 DEF CodeOK
    <2>4. Latest(n, v, b, i + 1)
      BY <1>3, <1>15, <2>3, LatestGoesOn
    <2> QED
      BY <1>1, <2>2, <2>4, RewritesKeepLatest
  <1> QED
    BY <1>14, <1>15

\* Renaming does not fill in.
LEMMA RenameLeavesOpen ==
  ASSUME UsesInv, RenameInstruction
  PROVE  Last(frames').filled = Top.filled
PROOF
  <1>1. PICK f : f = [Top EXCEPT !.next = @ + 1,
                                 !.pushed = [n \in names |-> @[n] + NumberOfPushes(Current, n, Len(Current.defs))]]
    OBVIOUS
  <1>2. frames' = WithTop(f)
    BY <1>1 DEF RenameInstruction
  <1>3. frames \in Seq(FrameType) /\ frames # <<>>
    BY DEF RenameInstruction, UsesInv, IInv, CountOK
  <1>4. Top \in FrameType /\ Front(frames) \in Seq(FrameType)
    BY <1>3, FrontElements DEF Top
  <1>5. f.filled = Top.filled
    BY <1>1, <1>4 DEF FrameType
  <1>6. PICK S : S = FrameType \cup {f}
    OBVIOUS
  <1>7. PICK s : s = Front(frames)
    OBVIOUS
  <1>8. s \in Seq(S) /\ f \in S
    BY <1>4, <1>6, <1>7, SeqMonotonic
  <1>9. Append(s, f) # <<>> /\ Append(s, f)[Len(Append(s, f))] = f
    BY ONLY <1>8
  <1> QED
    BY <1>2, <1>5, <1>7, <1>9 DEF WithTop, Last

\* What a call knows of the stacks when the one above it renames an instruction.
LEMMA RenameKeepsLatest == UsesInv /\ NamesInv /\ StackLatest /\ RenameInstruction => StackLatest'
PROOF
  <1> SUFFICES ASSUME UsesInv, NamesInv, StackLatest, RenameInstruction PROVE StackLatest'
    OBVIOUS
  <1>1. PICK more : StacksGrow(more)
    BY RenameGrows
  <1>2. /\ TopGoesOn /\ Last(frames').next = Top.next + 1
        /\ \A n \in names : Last(frames').pushed[n] = Top.pushed[n] + NumberOfPushes(Current, n, Len(Current.defs))
    BY RenameGoesOn
  <1>3. stage = "rename" /\ stage' = "rename" /\ names' = names /\ definitions \subseteq definitions' /\ CodeOK /\ Rewrites
    BY RenameAt DEF RenameInstruction, UsesInv, IInv
  <1>4. PICK T : stack \in [names -> Seq(T)]
    BY <1>3 DEF UsesInv, StackOK
  <1>5. PICK height : SeesLatest(height)
    BY <1>3 DEF StackLatest
  <1>6. PICK m \in Nat \ {0} : m = Len(frames) /\ m = Len(frames')
    BY FrontElements, <1>2 DEF TopGoesOn
  <1>7. /\ height \in [1 .. m -> [names -> Nat \ {0}]]
        /\ \A j \in 1 .. m, n \in names : \A i \in 1 .. j : height[i][n] <= height[j][n]
        /\ \A j \in 1 .. m, n \in names : j > 1 => height[j][n] = height[j - 1][n] + frames[j].pushed[n]
        /\ \A n \in names : Len(stack[n]) = height[m][n]
        /\ \A j \in 1 .. m, n \in names : Latest(n, stack[n][height[j][n]], frames[j].block, frames[j].next)
    BY <1>2, <1>5, <1>6 DEF SeesLatest, TopGoesOn
  <1>8. m \in 1 .. m /\ Top = frames[m] /\ Last(frames') = frames'[m]
    BY <1>6 DEF Top, Last
  <1>9. ASSUME NEW n \in names
        PROVE  /\ Len(stack[n]) \in Nat /\ Len(more[n]) \in Nat /\ Len(stack'[n]) = Len(stack[n]) + Len(more[n])
               /\ \A p \in 1 .. Len(stack[n]) : stack'[n][p] = stack[n][p]
    <2>1. PICK s : s = stack[n]
      OBVIOUS
    <2>2. PICK r : r = more[n]
      OBVIOUS
    <2>3. stack'[n] = s \o r
      BY <1>1, <2>1, <2>2 DEF StacksGrow
    <2>4. s \in Seq(T \cup Nat) /\ r \in Seq(T \cup Nat)
      BY <1>1, <1>4, <2>1, <2>2, SeqMonotonic DEF StacksGrow
    <2>5. PICK S : S = T \cup Nat
      OBVIOUS
    <2>6. s \in Seq(S) /\ r \in Seq(S)
      BY <2>4, <2>5
    <2>7. /\ Len(s) \in Nat /\ Len(r) \in Nat /\ Len(s \o r) = Len(s) + Len(r)
          /\ \A p \in 1 .. Len(s) : (s \o r)[p] = s[p]
      BY ONLY <2>6, GrownList
    <2> QED
      BY <2>1, <2>2, <2>3, <2>7
  <1>10. PICK h : h = [j \in 1 .. m |-> IF j = m THEN [n \in names |-> height[m][n] + Len(more[n])] ELSE height[j]]
    OBVIOUS
  <1>11. ASSUME NEW n \in names
         PROVE  /\ h[m][n] = height[m][n] + Len(more[n])
                /\ \A j \in 1 .. m : j # m => h[j][n] = height[j][n]
                /\ \A j \in 1 .. m : height[j][n] \in Nat \ {0}
    BY <1>7, <1>8, <1>10
  <1>12. h \in [1 .. m -> [names -> Nat \ {0}]]
    <2>1. \A n \in names : height[m][n] + Len(more[n]) \in Nat \ {0}
      <3>1. ASSUME NEW n \in names PROVE height[m][n] + Len(more[n]) \in Nat \ {0}
        <4>1. height[m][n] \in Nat \ {0} /\ Len(more[n]) \in Nat
          BY <1>8, <1>9, <1>11
        <4> QED
          BY <4>1
      <3> QED
        BY <3>1
    <2> QED
      BY <1>7, <1>10, <2>1
  <1>13. ASSUME NEW j \in 1 .. m, NEW n \in names, NEW i \in 1 .. j
         PROVE  h[i][n] <= h[j][n]
    <2>1. i \in 1 .. m /\ (i = m => j = m)
      OBVIOUS
    <2>2. height[i][n] \in Nat /\ height[j][n] \in Nat /\ height[i][n] <= height[j][n] /\ Len(more[n]) \in Nat
      BY <1>7, <1>9, <1>11, <2>1
    <2>3. h[i][n] = (IF i = m THEN height[i][n] + Len(more[n]) ELSE height[i][n])
      BY <1>11, <2>1
    <2>4. h[j][n] = (IF j = m THEN height[j][n] + Len(more[n]) ELSE height[j][n])
      BY <1>11
    <2> QED
      BY <2>1, <2>2, <2>3, <2>4
  <1>14. ASSUME NEW j \in 1 .. m, NEW n \in names, j > 1
         PROVE  h[j][n] = h[j - 1][n] + frames'[j].pushed[n]
    <2>1. j - 1 \in 1 .. m /\ j - 1 # m
      BY <1>14
    <2>2. height[j][n] = height[j - 1][n] + frames[j].pushed[n] /\ h[j - 1][n] = height[j - 1][n]
      BY <1>7, <1>11, <1>14, <2>1
    <2>3. CASE j = m
      <3>1. frames'[j].pushed[n] = frames[j].pushed[n] + Len(more[n])
        BY <1>1, <1>2, <1>8, <2>3 DEF StacksGrow
      <3>2. frames[j] \in FrameType
        BY <1>2, <1>6, ElementOfSeq DEF TopGoesOn
      <3>3. frames[j].pushed[n] \in Nat /\ height[j - 1][n] \in Nat /\ Len(more[n]) \in Nat
        BY <3>2, <1>9, <1>11, <2>1 DEF FrameType
      <3>4. h[j][n] = height[j][n] + Len(more[n])
        BY <1>11, <2>3
      <3> QED
        BY <2>2, <3>1, <3>3, <3>4
    <2>4. CASE j # m
      <3>1. h[j][n] = height[j][n] /\ frames'[j] = frames[j]
        <4>1. j \in 1 .. m - 1
          BY <2>4
        <4> QED
          BY <4>1, <1>2, <1>6, <1>11, <2>4 DEF TopGoesOn
      <3> QED
        BY <2>2, <3>1
    <2> QED
      BY <2>3, <2>4
  <1>15. ASSUME NEW n \in names
         PROVE  Len(stack'[n]) = h[m][n]
    BY <1>7, <1>9, <1>11
  <1>16. ASSUME NEW j \in 1 .. m, NEW n \in names
         PROVE  Latest(n, stack[n][h[j][n]], frames[j].block, frames[j].next)'
    <2>1. PICK b, i : b = frames[j].block /\ i = frames[j].next
      OBVIOUS
    <2>2. PICK v : v = stack[n][height[j][n]] /\ Latest(n, v, b, i)
      BY <1>7, <2>1
    <2>3. CASE j = m
      <3>1. PICK w : w = stack'[n][Len(stack'[n])]
        OBVIOUS
      <3>2. v = stack[n][Len(stack[n])] /\ b = Top.block /\ i = Top.next
        BY <1>7, <1>8, <2>1, <2>2, <2>3
      <3>3. Len(stack[n]) # 0
        BY <1>7, <1>8, <1>11
      <3>4. stack[n] # <<>>
        BY <3>3
      <3>5. Latest(n, w, b, i + 1)'
        BY <1>1, <2>2, <3>1, <3>2, <3>4, TopIsLatest
      <3>6. w = stack'[n][h[j][n]] /\ frames'[j].block = b /\ frames'[j].next = i + 1
        BY <1>2, <1>6, <1>8, <1>15, <2>1, <2>3, <3>1 DEF TopGoesOn
      <3> QED
        BY <3>5, <3>6
    <2>4. CASE j # m
      <3>1. j \in 1 .. m - 1
        BY <2>4
      <3>2. frames'[j] = frames[j]
        BY <3>1, <1>2, <1>6 DEF TopGoesOn
      <3>3. Latest(n, v, b, i)'
        BY <1>3, <2>2, RewritesKeepLatest
      <3>4. height[j][n] <= height[m][n] /\ height[j][n] \in Nat \ {0} /\ height[m][n] \in Nat /\ Len(stack[n]) = height[m][n]
        BY <1>7, <1>8, <1>11
      <3>5. height[j][n] \in 1 .. Len(stack[n])
        BY <3>4
      <3>6. h[j][n] = height[j][n] /\ stack'[n][height[j][n]] = v
        BY <1>9, <1>11, <2>2, <2>4, <3>5
      <3> QED
        BY <2>1, <3>2, <3>3, <3>6
    <2> QED
      BY <2>3, <2>4
  <1>17. frames' # <<>>
    BY <1>6
  <1>18. SeesLatest(h)'
    BY <1>3, <1>6, <1>12, <1>13, <1>14, <1>15, <1>16 DEF SeesLatest
  <1>19. ASSUME NEW j \in 1 .. m, frames'[j].filled, NEW k \in DOMAIN code'[frames'[j].block]
         PROVE  k < frames'[j].next
    <2>1. frames \in Seq(FrameType) /\ DOMAIN frames = 1 .. m
      BY <1>2, <1>6 DEF TopGoesOn
    <2>2. frames[j] \in FrameType
      BY <2>1, ElementOfSeq
    <2>3. frames[j].block \in Blocks /\ frames'[j].block = frames[j].block
      BY <1>2, <1>6, <2>2 DEF TopGoesOn, FrameType
    <2>4. k \in DOMAIN code[frames[j].block]
      BY <1>3, <2>3 DEF Rewrites
    <2>5. CASE j = m
      <3>1. frames'[j].filled = Top.filled
        BY <1>6, <1>8, <2>5, RenameLeavesOpen
      <3>3. Top.next \in DOMAIN code[frames[j].block]
        BY <1>8, <2>5, RenameAt DEF RenamedAt
      <3>4. ~ Top.filled
        <4>1. Top.filled => Top.next < Top.next /\ Top.next \in Nat
          BY <1>3, <1>6, <1>8, <2>2, <2>5, <3>3 DEF StackLatest, FrameType
        <4> QED
          BY <4>1
      <3> QED
        BY <1>19, <3>1, <3>4
    <2>6. CASE j # m
      <3>1. j \in 1 .. m - 1
        BY <2>6
      <3>2. frames'[j] = frames[j]
        BY <3>1, <1>2, <1>6 DEF TopGoesOn
      <3> QED
        BY <1>3, <1>6, <1>19, <2>4, <3>2 DEF StackLatest
    <2> QED
      BY <2>5, <2>6
  <1> QED
    BY <1>3, <1>6, <1>18, <1>19 DEF StackLatest

\* What the topmost call has renamed when it fills in.
LEMMA FillEnds ==
  ASSUME UsesInv, FillArguments
  PROVE  /\ frames' = WithTop([Top EXCEPT !.filled = TRUE])
         /\ \A k \in DOMAIN code[Top.block] : k < Top.next
PROOF
  <1>1. frames \in Seq(FrameType) /\ frames # <<>> /\ CodeOK
    BY DEF FillArguments, UsesInv, IInv, CountOK
  <1>2. Top \in FrameType
    BY <1>1, FrontElements DEF Top
  <1>3. PICK S : \A b \in Blocks : code[b] \in Seq(S)
    BY <1>1 DEF CodeOK
  <1>4. PICK s : s = code[Top.block]
    OBVIOUS
  <1>5. s \in Seq(S) /\ Top.next \in Nat
    BY <1>2, <1>3, <1>4 DEF FrameType
  <1>6. Len(s) < Top.next
    BY <1>4, <1>5 DEF FillArguments
  <1>7. \A k \in DOMAIN s : k < Top.next
    BY <1>5, <1>6
  <1> QED
    BY <1>4, <1>7 DEF FillArguments

\* Filling in changes no stack and no write.
LEMMA FillKeepsLatest == UsesInv /\ StackLatest /\ FillArguments => StackLatest'
PROOF
  <1> SUFFICES ASSUME UsesInv, StackLatest, FillArguments PROVE StackLatest'
    OBVIOUS
  <1>1. /\ stage = "rename" /\ stage' = "rename" /\ UNCHANGED <<program, names, stack, definitions>> /\ CodeOK
        /\ frames \in Seq(FrameType) /\ frames # <<>>
    BY DEF FillArguments, UsesInv, IInv, CountOK
  <1>2. Rewrites
    BY FillAt
  <1>3. PICK f : f = [Top EXCEPT !.filled = TRUE]
    OBVIOUS
  <1>4. PICK m \in Nat \ {0} : m = Len(frames) /\ DOMAIN frames = 1 .. m /\ Top = frames[m]
    BY <1>1, TopmostCall
  <1>5. Top \in FrameType
    BY <1>1, <1>4, ElementOfSeq
  <1>6. f.block = Top.block /\ f.next = Top.next /\ f.pushed = Top.pushed /\ f.children = Top.children /\ f \in FrameType
    BY <1>3, <1>5 DEF FrameType
  <1>7. frames' = WithTop(f) /\ \A k \in DOMAIN code[Top.block] : k < Top.next
    BY <1>3, FillEnds
  <1>8. Len(frames') = m /\ frames'[m] = f /\ \A j \in 1 .. m - 1 : frames'[j] = frames[j]
    BY <1>1, <1>4, <1>6, <1>7, TopElements
  <1>9. ASSUME NEW j \in 1 .. m
        PROVE  /\ frames'[j].block = frames[j].block /\ frames'[j].next = frames[j].next
               /\ frames'[j].pushed = frames[j].pushed /\ frames[j].block \in Blocks
               /\ frames'[j].filled => \A k \in DOMAIN code[frames[j].block] : k < frames[j].next
    <2>1. frames[j] \in FrameType
      BY <1>1, <1>4, ElementOfSeq
    <2>2. CASE j = m
      BY <1>4, <1>6, <1>7, <1>8, <2>1, <2>2 DEF FrameType
    <2>3. CASE j # m
      <3>1. j \in 1 .. m - 1
        BY <2>3
      <3>2. frames'[j] = frames[j]
        BY <1>8, <3>1
      <3> QED
        BY <1>1, <1>4, <2>1, <3>2 DEF FrameType, StackLatest
    <2> QED
      BY <2>2, <2>3
  <1>10. PICK height : SeesLatest(height)
    BY <1>1 DEF StackLatest
  <1>11. /\ height \in [1 .. m -> [names -> Nat \ {0}]]
         /\ \A j \in 1 .. m, n \in names : \A i \in 1 .. j : height[i][n] <= height[j][n]
         /\ \A j \in 1 .. m, n \in names : j > 1 => height[j][n] = height[j - 1][n] + frames[j].pushed[n]
         /\ \A n \in names : Len(stack[n]) = height[m][n]
         /\ \A j \in 1 .. m, n \in names : Latest(n, stack[n][height[j][n]], frames[j].block, frames[j].next)
    BY <1>1, <1>4, <1>10 DEF SeesLatest
  <1>12. ASSUME NEW j \in 1 .. m, NEW n \in names
         PROVE  Latest(n, stack[n][height[j][n]], frames[j].block, frames[j].next)'
    <2>1. PICK b, i : b = frames[j].block /\ i = frames[j].next
      OBVIOUS
    <2>2. PICK v : v = stack[n][height[j][n]] /\ Latest(n, v, b, i)
      BY <1>11, <2>1
    <2>3. Latest(n, v, b, i)'
      BY <1>1, <1>2, <2>2, RewritesKeepLatest
    <2> QED
      BY <1>1, <1>9, <2>1, <2>2, <2>3
  <1>15. \A j \in 1 .. m, n \in names : j > 1 => height[j][n] = height[j - 1][n] + frames'[j].pushed[n]
    BY <1>9, <1>11
  <1>13. SeesLatest(height)'
    BY <1>1, <1>8, <1>11, <1>12, <1>15 DEF SeesLatest
  <1>14. ASSUME NEW j \in 1 .. m, frames'[j].filled
         PROVE  \A k \in DOMAIN code'[frames'[j].block] : k < frames'[j].next
    BY <1>2, <1>9, <1>14 DEF Rewrites
  <1> QED
    BY <1>8, <1>13, <1>14 DEF StackLatest

\* The call for a child goes on with the stacks of the one that calls it.
LEMMA ChildKeepsLatest == ArgsInv /\ StackLatest /\ RenameChild => StackLatest'
PROOF
  <1> SUFFICES ASSUME ArgsInv, StackLatest, RenameChild PROVE StackLatest'
    OBVIOUS
  <1>1. /\ stage = "rename" /\ stage' = "rename" /\ UNCHANGED <<program, code, names, stack, definitions>> /\ CodeOK
        /\ Top.filled /\ UsesInv
    BY DEF RenameChild, ArgsInv, UsesInv, IInv
  <1>2. Rewrites
    BY <1>1, SameCodeRewrites
  <1>3. PICK c \in Top.children : \E k \in Nat \ {0} :
           /\ k = Len(frames) /\ Len(frames') = k + 1 /\ frames' \in Seq(FrameType) /\ frames \in Seq(FrameType)
           /\ frames'[k + 1] = Frame(c)
           /\ \A j \in 1 .. k : /\ frames'[j].block = frames[j].block /\ frames'[j].next = frames[j].next
                                /\ frames'[j].pushed = frames[j].pushed /\ frames'[j].children \subseteq frames[j].children
                                /\ frames'[j].filled = frames[j].filled
    BY <1>1, ChildCalled
  <1>4. PICK m \in Nat \ {0} :
           /\ m = Len(frames) /\ Len(frames') = m + 1 /\ frames' \in Seq(FrameType) /\ frames \in Seq(FrameType)
           /\ frames'[m + 1] = Frame(c)
           /\ \A j \in 1 .. m : /\ frames'[j].block = frames[j].block /\ frames'[j].next = frames[j].next
                                /\ frames'[j].pushed = frames[j].pushed /\ frames'[j].children \subseteq frames[j].children
                                /\ frames'[j].filled = frames[j].filled
    BY <1>3
  <1>5. frames # <<>> /\ DOMAIN frames = 1 .. m /\ Top = frames[m] /\ m \in 1 .. m
    BY <1>4, TopmostCall
  <1>7. PICK height : SeesLatest(height)
    BY <1>1 DEF StackLatest
  <1>8. /\ height \in [1 .. m -> [names -> Nat \ {0}]]
        /\ \A j \in 1 .. m, n \in names : \A i \in 1 .. j : height[i][n] <= height[j][n]
        /\ \A j \in 1 .. m, n \in names : j > 1 => height[j][n] = height[j - 1][n] + frames[j].pushed[n]
        /\ \A n \in names : Len(stack[n]) = height[m][n]
        /\ \A j \in 1 .. m, n \in names : Latest(n, stack[n][height[j][n]], frames[j].block, frames[j].next)
    BY <1>4, <1>5, <1>7 DEF SeesLatest
  <1>9. PICK h : h = [j \in 1 .. m + 1 |-> IF j = m + 1 THEN height[m] ELSE height[j]]
    OBVIOUS
  <1>10. h \in [1 .. m + 1 -> [names -> Nat \ {0}]] /\ h[m + 1] = height[m] /\ \A j \in 1 .. m : h[j] = height[j]
    BY <1>5, <1>8, <1>9
  <1>11. ASSUME NEW j \in 1 .. m + 1, NEW n \in names, NEW i \in 1 .. j
         PROVE  h[i][n] <= h[j][n]
    <2>1. PICK j0 \in 1 .. m : j0 = IF j = m + 1 THEN m ELSE j
      OBVIOUS
    <2>2. PICK i0 \in 1 .. j0 : i0 = IF i = m + 1 THEN m ELSE i
      BY <2>1
    <2>3. height[i0][n] <= height[j0][n]
      BY <1>8
    <2>4. h[i] = height[i0] /\ h[j] = height[j0]
      <3>1. h[j] = height[j0]
        BY <1>10, <2>1
      <3>2. h[i] = height[i0]
        BY <1>10, <2>1, <2>2
      <3> QED
        BY <3>1, <3>2
    <2> QED
      BY <2>3, <2>4
  <1>12. Frame(c).block = c /\ Frame(c).next = 1 /\ ~ Frame(c).filled /\ \A n \in names : Frame(c).pushed[n] = 0
    BY DEF Frame
  <1>13. ASSUME NEW j \in 1 .. m + 1, NEW n \in names, j > 1
         PROVE  h[j][n] = h[j - 1][n] + frames'[j].pushed[n]
    <2>1. CASE j = m + 1
      <3>1. h[j][n] = height[m][n] /\ h[j - 1][n] = height[m][n] /\ frames'[j].pushed[n] = 0 /\ height[m][n] \in Nat
        BY <1>4, <1>5, <1>8, <1>10, <1>12, <2>1
      <3> QED
        BY <3>1
    <2>2. CASE j # m + 1
      <3>1. j \in 1 .. m /\ j - 1 \in 1 .. m
        BY <1>13, <2>2
      <3>2. frames'[j].pushed[n] = frames[j].pushed[n] /\ h[j] = height[j] /\ h[j - 1] = height[j - 1]
        BY <1>4, <1>10, <3>1
      <3>3. height[j][n] = height[j - 1][n] + frames[j].pushed[n]
        BY <1>8, <1>13, <3>1
      <3> QED
        BY <3>2, <3>3
    <2> QED
      BY <2>1, <2>2
  <1>14. ASSUME NEW n \in names, NEW v, NEW b, NEW i, Latest(n, v, b, i)
         PROVE  Latest(n, v, b, i)'
    BY <1>1, <1>2, <1>14, RewritesKeepLatest
  <1>15. ASSUME NEW j \in 1 .. m + 1, NEW n \in names
         PROVE  Latest(n, stack[n][h[j][n]], frames[j].block, frames[j].next)'
    <2>1. CASE j = m + 1
      <3>1. PICK v, b, i : v = stack[n][height[m][n]] /\ b = Top.block /\ i = Top.next /\ Latest(n, v, b, i)
        BY <1>5, <1>8
      <3>2. b \in Reached(program)
        BY <1>1, <1>5, <3>1 DEF ArgsInv, Rooted
      <3>3. c \in ImmediatelyDominated(program, b)
        BY <1>1, <1>4, <1>5, <3>1 DEF UsesInv, InPath
      <3>4. \A k \in DOMAIN code[b] : k < i
        BY <1>1, <1>4, <1>5, <3>1 DEF StackLatest
      <3>5. \A k \in DOMAIN code[c] : k \in Nat \ {0}
        BY <1>1, <3>3 DEF CodeOK, ImmediatelyDominated, Blocks
      <3>6. Latest(n, v, c, 1)
        BY <1>1, <3>1, <3>2, <3>3, <3>4, <3>5, ChildBegins
      <3> QED
        BY <1>1, <1>4, <1>10, <1>12, <1>14, <2>1, <3>1, <3>6
    <2>2. CASE j # m + 1
      <3>1. j \in 1 .. m
        BY <2>2
      <3>2. PICK v, b, i : v = stack[n][height[j][n]] /\ b = frames[j].block /\ i = frames[j].next /\ Latest(n, v, b, i)
        BY <1>8, <3>1
      <3> QED
        BY <1>1, <1>4, <1>10, <1>14, <3>1, <3>2
    <2> QED
      BY <2>1, <2>2
  <1>16. \A n \in names : Len(stack'[n]) = h[m + 1][n]
    BY <1>1, <1>8, <1>10
  <1>17. SeesLatest(h)'
    BY <1>1, <1>4, <1>10, <1>11, <1>13, <1>15, <1>16 DEF SeesLatest
  <1>18. ASSUME NEW j \in 1 .. m + 1, frames'[j].filled
         PROVE  \A k \in DOMAIN code'[frames'[j].block] : k < frames'[j].next
    <2>1. j # m + 1
      BY <1>4, <1>12, <1>18
    <2>2. j \in 1 .. m
      BY <2>1
    <2> QED
      BY <1>1, <1>4, <1>18, <2>2 DEF StackLatest
  <1> QED
    BY <1>4, <1>17, <1>18 DEF StackLatest

\* A call that returns leaves the stacks as the one that called it sees them.
LEMMA ReturnKeepsLatest == UsesInv /\ StackLatest /\ ReturnFromBlock => StackLatest'
PROOF
  <1> SUFFICES ASSUME UsesInv, StackLatest, ReturnFromBlock PROVE StackLatest'
    OBVIOUS
  <1>1. /\ stage = "rename" /\ stage' = "rename" /\ UNCHANGED <<program, code, names, definitions>>
        /\ stack' = [n \in names |-> Popped(n)]
    BY DEF ReturnFromBlock
  <1>2. Rewrites
    BY <1>1, SameCodeRewrites
  <1>3. PICK m \in Nat \ {0} :
           /\ m = Len(frames) /\ Len(frames') = m - 1 /\ frames' \in Seq(FrameType) /\ frames \in Seq(FrameType)
           /\ Top = frames[m] /\ Top \in FrameType
           /\ \A j \in 1 .. m - 1 : frames'[j] = frames[j]
    BY CallReturned
  <1>4. PICK T : stack \in [names -> Seq(T)]
    BY <1>1 DEF UsesInv, StackOK
  <1>5. PICK height : SeesLatest(height)
    BY <1>1 DEF StackLatest
  <1>6. /\ height \in [1 .. m -> [names -> Nat \ {0}]]
        /\ \A j \in 1 .. m, n \in names : \A i \in 1 .. j : height[i][n] <= height[j][n]
        /\ \A j \in 1 .. m, n \in names : j > 1 => height[j][n] = height[j - 1][n] + frames[j].pushed[n]
        /\ \A n \in names : Len(stack[n]) = height[m][n]
        /\ \A j \in 1 .. m, n \in names : Latest(n, stack[n][height[j][n]], frames[j].block, frames[j].next)
    <2>1. frames # <<>>
      BY <1>3
    <2> QED
      BY <1>3, <1>5, <2>1 DEF SeesLatest
  <1>7. PICK h : h = [j \in 1 .. m - 1 |-> height[j]]
    OBVIOUS
  <1>8. h \in [1 .. m - 1 -> [names -> Nat \ {0}]] /\ \A j \in 1 .. m - 1 : h[j] = height[j]
    BY <1>6, <1>7
  <1>9. ASSUME NEW n \in names, m > 1
        PROVE  /\ Len(stack'[n]) = height[m - 1][n]
               /\ \A p \in 1 .. height[m - 1][n] : stack'[n][p] = stack[n][p]
    <2>1. m - 1 \in 1 .. m /\ m \in 1 .. m
      BY <1>9
    <2>2. PICK a \in Nat \ {0} : a = height[m - 1][n]
      BY <1>6, <2>1
    <2>3. PICK q \in Nat : q = Top.pushed[n]
      BY <1>3 DEF FrameType
    <2>4. Len(stack[n]) = a + q
      BY <1>3, <1>6, <1>9, <2>1, <2>2, <2>3
    <2>5. PICK s : s = stack[n] /\ s \in Seq(T)
      BY <1>4
    <2>6. stack'[n] = SubSeq(s, 1, Len(s) - q)
      BY <1>1, <2>3, <2>5 DEF Popped
    <2>7. s \in Seq(T) /\ a \in Nat \ {0} /\ q \in Nat /\ Len(s) = a + q
      BY <2>4, <2>5
    <2>8. /\ Len(SubSeq(s, 1, Len(s) - q)) = a
          /\ \A p \in 1 .. a : SubSeq(s, 1, Len(s) - q)[p] = s[p]
      BY ONLY <2>7, CutList
    <2> QED
      BY <2>2, <2>5, <2>6, <2>8
  <1>10. ASSUME NEW j \in 1 .. m - 1, NEW n \in names
         PROVE  Latest(n, stack[n][h[j][n]], frames[j].block, frames[j].next)'
    <2>1. j \in 1 .. m /\ m > 1 /\ m - 1 \in 1 .. m /\ j \in 1 .. m - 1
      OBVIOUS
    <2>2. PICK v, b, i : v = stack[n][height[j][n]] /\ b = frames[j].block /\ i = frames[j].next /\ Latest(n, v, b, i)
      BY <1>6, <2>1
    <2>3. height[j][n] <= height[m - 1][n] /\ height[j][n] \in Nat \ {0} /\ height[m - 1][n] \in Nat
      BY <1>6, <2>1
    <2>4. height[j][n] \in 1 .. height[m - 1][n]
      BY <2>3
    <2>5. stack'[n][h[j][n]] = v
      BY <1>8, <1>9, <2>1, <2>2, <2>4
    <2>6. Latest(n, v, b, i)'
      BY <1>1, <1>2, <2>2, RewritesKeepLatest
    <2> QED
      BY <1>3, <2>2, <2>5, <2>6
  <1>11. \A j \in 1 .. m - 1, n \in names : \A i \in 1 .. j : h[i][n] <= h[j][n]
    <2>1. ASSUME NEW j \in 1 .. m - 1, NEW n \in names, NEW i \in 1 .. j
          PROVE  h[i][n] <= h[j][n]
      <3>1. j \in 1 .. m /\ i \in 1 .. m - 1
        OBVIOUS
      <3>2. h[i] = height[i] /\ h[j] = height[j] /\ height[i][n] <= height[j][n]
        BY <1>6, <1>8, <3>1
      <3> QED
        BY <3>2
    <2> QED
      BY <2>1
  <1>12. \A j \in 1 .. m - 1, n \in names : j > 1 => h[j][n] = h[j - 1][n] + frames'[j].pushed[n]
    <2>1. ASSUME NEW j \in 1 .. m - 1, NEW n \in names, j > 1
          PROVE  h[j][n] = h[j - 1][n] + frames'[j].pushed[n]
      <3>1. j \in 1 .. m /\ j - 1 \in 1 .. m - 1
        BY <2>1
      <3>2. h[j - 1] = height[j - 1] /\ h[j] = height[j] /\ frames'[j] = frames[j]
        BY <1>3, <1>8, <3>1
      <3>3. height[j][n] = height[j - 1][n] + frames[j].pushed[n]
        BY <1>6, <2>1, <3>1
      <3> QED
        BY <3>2, <3>3
    <2> QED
      BY <2>1
  <1>13. frames' # <<>> => \A n \in names : Len(stack'[n]) = h[m - 1][n]
    <2>1. frames' # <<>> => m > 1
      <3>1. frames' # <<>> => Len(frames') # 0
        BY <1>3, EmptySeq
      <3> QED
        BY <1>3, <3>1
    <2>2. m > 1 => m - 1 \in 1 .. m - 1
      OBVIOUS
    <2> QED
      BY <1>8, <1>9, <2>1, <2>2
  <1>14. SeesLatest(h)'
    BY <1>1, <1>3, <1>8, <1>10, <1>11, <1>12, <1>13 DEF SeesLatest
  <1>15. ASSUME NEW j \in 1 .. m - 1, frames'[j].filled
         PROVE  \A k \in DOMAIN code'[frames'[j].block] : k < frames'[j].next
    <2>1. j \in 1 .. m
      OBVIOUS
    <2> QED
      BY <1>1, <1>3, <1>15, <2>1 DEF StackLatest
  <1> QED
    BY <1>3, <1>14, <1>15 DEF StackLatest

\* Before the function starts nothing is written.
LEMMA EntryHasNoWrite ==
  ASSUME CodeOK
  PROVE  \A e \in Blocks : \A j \in DOMAIN code[e] : ~ Before(e, j, 0, 1)
PROOF
  <1>1. IsGraph(program) /\ 0 \in Reached(program)
    BY ProgramIsGraph
  <1>2. ASSUME NEW e \in Blocks, NEW j \in DOMAIN code[e], Before(e, j, 0, 1)
        PROVE  FALSE
    <2>1. CASE e = 0
      <3>1. j \in Nat \ {0} /\ j < 1
        BY <1>2, <2>1 DEF Before, CodeOK
      <3> QED
        BY <3>1
    <2>2. CASE e # 0
      <3>1. Dominates(program, e, 0)
        BY <1>2, <2>2 DEF Before
      <3>2. e \in Reached(program)
        BY <1>1, <3>1, DominatorReached
      <3>3. Dominates(program, 0, e)
        BY <1>1, EntryDominates DEF Blocks
      <3> QED
        BY <1>1, <2>2, <3>1, <3>2, <3>3, DominatesAntisymmetric
    <2> QED
      BY <2>1, <2>2
  <1> QED
    BY <1>2

\* So the versions it is called with are the latest.
LEMMA NothingBeforeEntry ==
  ASSUME CodeOK, NEW n
  PROVE  Latest(n, 0, 0, 1)
PROOF
  BY EntryHasNoWrite DEF Latest


\* The stacks hold the versions the function is called with.
LEMMA StartKeepsLatest == UsesInv /\ StartRenaming => StackLatest'
PROOF
  <1> SUFFICES ASSUME UsesInv, StartRenaming PROVE StackLatest'
    OBVIOUS
  <1>1. /\ stack' = [n \in names |-> <<0>>] /\ frames' = <<Frame(0)>> /\ stage' = "rename"
        /\ UNCHANGED <<program, code, names, definitions>> /\ CodeOK
    BY DEF StartRenaming, UsesInv, IInv
  <1>2. Len(frames') = 1 /\ frames'[1] = Frame(0)
    BY <1>1
  <1>3. Frame(0).block = 0 /\ Frame(0).next = 1 /\ ~ Frame(0).filled
    BY DEF Frame
  <1>4. PICK h : h = [j \in 1 .. 1 |-> [n \in names |-> 1]]
    OBVIOUS
  <1>5. h \in [1 .. 1 -> [names -> Nat \ {0}]] /\ \A j \in 1 .. 1, n \in names : h[j][n] = 1
    BY <1>4
  <1>6. \A n \in names : Len(stack'[n]) = 1 /\ stack'[n][1] = 0
    BY <1>1
  <1>7. ASSUME NEW n
        PROVE  Latest(n, 0, 0, 1)'
    <2>1. Latest(n, 0, 0, 1)
      BY <1>1, NothingBeforeEntry
    <2> QED
      BY <1>1, <2>1, SameCodeRewrites, RewritesKeepLatest
  <1>8. \A j \in 1 .. 1, n \in names : \A i \in 1 .. j : h[i][n] <= h[j][n]
    <2>1. ASSUME NEW j \in 1 .. 1, NEW n \in names, NEW i \in 1 .. j
          PROVE  h[i][n] <= h[j][n]
      <3>1. h[i][n] = 1 /\ h[j][n] = 1
        BY <1>5
      <3> QED
        BY <3>1
    <2> QED
      BY <2>1
  <1>9. \A j \in 1 .. 1, n \in names : Latest(n, stack[n][h[j][n]], frames[j].block, frames[j].next)'
    <2>1. ASSUME NEW j \in 1 .. 1, NEW n \in names
          PROVE  Latest(n, stack[n][h[j][n]], frames[j].block, frames[j].next)'
      <3>1. j = 1 /\ stack'[n][h[j][n]] = 0 /\ frames'[j].block = 0 /\ frames'[j].next = 1
        BY <1>2, <1>3, <1>5, <1>6
      <3> QED
        BY <1>7, <3>1
    <2> QED
      BY <2>1
  <1>10. \A j \in 1 .. 1, n \in names : j > 1 => h[j][n] = h[j - 1][n] + frames'[j].pushed[n]
    OBVIOUS
  <1>11. SeesLatest(h)'
    BY <1>1, <1>2, <1>5, <1>6, <1>8, <1>9, <1>10 DEF SeesLatest
  <1>12. \A j \in 1 .. 1 : ~ frames'[j].filled
    BY <1>2, <1>3
  <1> QED
    BY <1>2, <1>11, <1>12 DEF StackLatest

\* Every step of the construction.
LEMMA ConstructKeepsLatest == ArgsInv /\ NamesInv /\ StackLatest /\ Construct => StackLatest'
PROOF
  <1> SUFFICES ASSUME ArgsInv, NamesInv, StackLatest, Construct PROVE StackLatest'
    OBVIOUS
  <1>1. UsesInv
    BY DEF ArgsInv
  <1>2. CASE RenameInstruction
    BY <1>1, <1>2, RenameKeepsLatest
  <1>3. CASE FillArguments
    BY <1>1, <1>3, FillKeepsLatest
  <1>4. CASE RenameChild
    BY <1>4, ChildKeepsLatest
  <1>5. CASE ReturnFromBlock
    BY <1>1, <1>5, ReturnKeepsLatest
  <1>6. CASE StartRenaming
    BY <1>1, <1>6, StartKeepsLatest
  <1>7. CASE ~ (RenameInstruction \/ FillArguments \/ RenameChild \/ ReturnFromBlock \/ StartRenaming)
    <2>1. stage' # "rename"
      BY <1>7 DEF Construct, ComputeDominanceFrontier, Compute_Aorig, AddUsedRelatedToDefinedRegisters, StartPlacing,
                  PlacePhis, NextName, StartSwitches, NextSwitch, SearchBlock, ReturnFromSearch, GiveUp, CorrectSwitch, EndPass
    <2> QED
      BY <2>1 DEF StackLatest
  <1> QED
    BY <1>2, <1>3, <1>4, <1>5, <1>6, <1>7

-----------------------------------------------------------------------------
(* What the versions of uses and arguments are.                            *)

\* A step that places nothing.
PlacesNothing == RenameInstruction \/ FillArguments \/ CorrectSwitch \/ Elsewhere

\* It moves no write.
LEMMA OthersRewrite ==
  ASSUME UsesInv, PlacesNothing
  PROVE  Rewrites /\ definitions \subseteq definitions'
PROOF
  <1>1. CASE RenameInstruction
    BY <1>1, RenameAt DEF RenameInstruction
  <1>2. CASE FillArguments
    BY <1>2, FillAt DEF FillArguments
  <1>3. CASE CorrectSwitch
    BY <1>3, CorrectRewrites DEF CorrectSwitch, renaming
  <1>4. CASE Elsewhere
    BY <1>4, ElsewhereKeepsCode, SameCodeRewrites
  <1> QED
    BY <1>1, <1>2, <1>3, <1>4 DEF PlacesNothing

\* A use has the version it had, or it is renamed.
UseRenamed(v, c, k) ==
  RenameInstruction /\ c = Top.block /\ k = Top.next /\ v.name \in names /\ v.sub = Version(v.name)

\* After a step that places nothing a use is an old one, or the one just given its version.
LEMMA UsesAfter ==
  ASSUME UsesInv, PlacesNothing, NEW c \in Blocks, NEW k \in DOMAIN code[c], code'[c][k].idiom = 0,
         NEW v \in ToSet(code'[c][k].uses)
  PROVE  /\ code[c][k].idiom = 0
         /\ UseRenamed(v, c, k) \/ \E u \in ToSet(code[c][k].uses) : v.name = u.name /\ v.sub = u.sub
PROOF
  <1>1. code[c][k].idiom = 0
    BY OthersRewrite DEF Rewrites, SameInstruction
  <1>2. CASE RenameInstruction
    <2>1. RenamedAt(Top.block, Top.next)
      BY <1>2, RenameAt
    <2>2. WellFormed(code[c][k]) /\ Shape(code[c][k], c)
      BY <2>1 DEF RenamedAt, UsesInv, Shaped
    <2>3. CASE c = Top.block /\ k = Top.next
      <3>1. code'[c][k] = Renamed(code[c][k])
        BY <2>1, <2>3 DEF RenamedAt
      <3>2. PICK u \in ToSet(code[c][k].uses) : v.name = u.name /\ v.sub = IF u.name \in names THEN Version(u.name) ELSE u.sub
        BY <2>2, <3>1, RenamedParts
      <3> QED
        BY <1>1, <1>2, <2>3, <3>2 DEF UseRenamed
    <2>4. CASE ~ (c = Top.block /\ k = Top.next)
      BY <1>1, <2>1, <2>4 DEF RenamedAt
    <2> QED
      BY <2>3, <2>4
  <1>3. CASE FillArguments
    <2>1. FilledBy(Top.block)
      BY <1>3, FillAt
    <2>2. CASE code'[c][k] = code[c][k]
      BY <1>1, <2>2
    <2>3. CASE code'[c][k] # code[c][k]
      <3>1. PICK x, y : x = code[c][k] /\ y = code'[c][k]
        OBVIOUS
      <3>2. WellFormed(x) /\ Shape(x, c) /\ IsPhi(x) /\ y = WithArgument(x, Top.block)
        BY <2>1, <2>3, <3>1 DEF FilledBy
      <3>3. y.uses = x.uses
        BY <3>2, FilledParts
      <3> QED
        BY <1>1, <3>1, <3>3
    <2> QED
      BY <2>2, <2>3
  <1>4. CASE CorrectSwitch
    <2>1. code'[c][k] = code[c][k]
      <3>1. CASE code' = code
        BY <3>1
      <3>2. CASE code' # code
        <4>1. PICK b, i : CorrectedAt(b, i)
          BY <1>4, <3>2, CorrectAt
        <4> QED
          BY <1>1, <4>1 DEF CorrectedAt
      <3> QED
        BY <3>1, <3>2
    <2> QED
      BY <1>1, <2>1
  <1>5. CASE Elsewhere
    BY <1>1, <1>5, ElsewhereKeepsCode
  <1> QED
    BY <1>2, <1>3, <1>4, <1>5 DEF PlacesNothing

\* All uses of the instruction that is renamed have the version on top.
LEMMA AllUsesRenamed ==
  ASSUME UsesInv, RenameInstruction, NEW v \in ToSet(code'[Top.block][Top.next].uses), v.name \in names
  PROVE  v.sub = Version(v.name)
PROOF
  <1>1. RenamedAt(Top.block, Top.next)
    BY RenameAt
  <1>2. PICK x, b : x = code[Top.block][Top.next] /\ b = Top.block
    OBVIOUS
  <1>3. WellFormed(x) /\ Shape(x, b) /\ code'[Top.block][Top.next] = Renamed(x)
    BY <1>1, <1>2 DEF RenamedAt, UsesInv, Shaped
  <1>4. PICK y : y = Renamed(x)
    OBVIOUS
  <1>5. \A w \in ToSet(y.uses) : \E u \in ToSet(x.uses) :
          w.name = u.name /\ w.sub = IF u.name \in names THEN Version(u.name) ELSE u.sub
    BY <1>3, <1>4, RenamedParts
  <1> QED
    BY <1>3, <1>4, <1>5

\* An argument is one that was there, or it is filled in.
ArgumentNew(a, m) == FillArguments /\ m \in names /\ a = [sub |-> Version(m), source |-> Top.block]

\* After a step that places nothing an argument is an old one, or the one just filled.
LEMMA ArgsAfter ==
  ASSUME UsesInv, PlacesNothing, NEW c \in Blocks, NEW k \in DOMAIN code[c], NEW a \in ToSet(code'[c][k].args)
  PROVE  /\ IsPhi(code[c][k]) /\ code'[c][k].defs[1].name = code[c][k].defs[1].name
         /\ ArgumentNew(a, code[c][k].defs[1].name) \/ a \in ToSet(code[c][k].args)
PROOF
  <1>1. SameInstruction(code'[c][k], code[c][k]) /\ Shape(code[c][k], c)
    BY OthersRewrite DEF Rewrites, UsesInv, Shaped
  <1>2. ASSUME a \in ToSet(code[c][k].args)
        PROVE  IsPhi(code[c][k])
    BY <1>1, <1>2 DEF Shape, ToSet
  <1>3. IsPhi(code[c][k]) => code'[c][k].defs[1].name = code[c][k].defs[1].name
    BY <1>1 DEF Shape, SameInstruction
  <1>4. CASE RenameInstruction
    <2>1. RenamedAt(Top.block, Top.next)
      BY <1>4, RenameAt
    <2>2. code'[c][k].args = code[c][k].args
      <3>1. WellFormed(code[c][k])
        BY <2>1 DEF RenamedAt
      <3>2. code'[c][k] = code[c][k] \/ code'[c][k] = Renamed(code[c][k])
        BY <2>1 DEF RenamedAt
      <3> QED
        BY <1>1, <3>1, <3>2, RenamedParts
    <2> QED
      BY <1>2, <1>3, <2>2
  <1>5. CASE FillArguments
    <2>1. FilledBy(Top.block)
      BY <1>5, FillAt
    <2>2. CASE code'[c][k] = code[c][k]
      BY <1>2, <1>3, <2>2
    <2>3. CASE code'[c][k] # code[c][k]
      <3>1. PICK x, y : x = code[c][k] /\ y = code'[c][k]
        OBVIOUS
      <3>2. WellFormed(x) /\ Shape(x, c) /\ IsPhi(x) /\ y = WithArgument(x, Top.block) /\ x.defs[1].name \in names
        BY <2>1, <2>3, <3>1 DEF FilledBy
      <3>3. \A e \in ToSet(y.args) : e \in ToSet(x.args) \/ e = [sub |-> Version(x.defs[1].name), source |-> Top.block]
        BY <3>2, FilledParts
      <3> QED
        BY <1>3, <1>5, <3>1, <3>2, <3>3 DEF ArgumentNew
    <2> QED
      BY <2>2, <2>3
  <1>6. CASE CorrectSwitch
    <2>1. code'[c][k].args = code[c][k].args
      <3>1. CASE code' = code
        BY <3>1
      <3>2. CASE code' # code
        <4>1. PICK b, i : CorrectedAt(b, i)
          BY <1>6, <3>2, CorrectAt
        <4>2. CASE c = b /\ k = i
          BY <4>1, <4>2 DEF CorrectedAt
        <4>3. CASE ~ (c = b /\ k = i)
          BY <4>1, <4>3 DEF CorrectedAt
        <4> QED
          BY <4>2, <4>3
      <3> QED
        BY <3>1, <3>2
    <2> QED
      BY <1>2, <1>3, <2>1
  <1>7. CASE Elsewhere
    <2>1. code' = code
      BY <1>7, ElsewhereKeepsCode
    <2> QED
      BY <1>2, <1>3, <2>1
  <1> QED
    BY <1>4, <1>5, <1>6, <1>7 DEF PlacesNothing

\* What has a version is a name of a pass that has renamed.
Early == stage \in {"dominators", "collect", "related", "place"}
UsesOfPass ==
  \A b \in Blocks : \A i \in DOMAIN code[b] : code[b][i].idiom = 0 =>
    \A u \in ToSet(code[b][i].uses) : u.sub # NO_SUBSCRIPT =>
      (pass = "registers" => u.name \notin Memory) /\ (Early => u.name \notin NamesOf(pass))

\* The instructions of a block when phi functions come in.
LEMMA PlacedUses ==
  ASSUME UsesInv, PlacePhis, NEW b \in Blocks, NEW j \in DOMAIN code'[b], NEW u \in ToSet(code'[b][j].uses)
  PROVE  \E i \in DOMAIN code[b] : code'[b][j] = code[b][i]
PROOF
  <1>1. ~ NewPhi(code'[b][j], b, Least(waiting))
    BY DEF NewPhi, ToSet
  <1> QED
    BY <1>1, PlacedCode

\* A use has a version only when its name belongs to a pass that has begun.
LEMMA ConstructKeepsUsesOfPass == UsesInv /\ UsesOfPass /\ Construct => UsesOfPass'
PROOF
  <1> SUFFICES ASSUME UsesInv, UsesOfPass, Construct PROVE UsesOfPass'
    OBVIOUS
  <1>1. Blocks' = Blocks
    <2>1. program' = program
      BY DEF Construct, ComputeDominanceFrontier, Compute_Aorig, AddUsedRelatedToDefinedRegisters, StartPlacing,
             PlacePhis, NextName, StartRenaming, RenameInstruction, FillArguments, RenameChild, ReturnFromBlock,
             StartSwitches, NextSwitch, SearchBlock, ReturnFromSearch, GiveUp, CorrectSwitch, EndPass
    <2> QED
      BY <2>1 DEF Blocks
  <1>2. ASSUME NEW m, pass = "registers" => m \notin Memory, Early => m \notin NamesOf(pass)
        PROVE  (pass' = "registers" => m \notin Memory) /\ (Early' => m \notin NamesOf(pass'))
    <2>1. CASE EndPass
      <3>1. pass \in {"registers", "memory"} /\ pass' = "memory" /\ stage' = IF pass = "registers" THEN "collect" ELSE "done"
        BY <2>1 DEF EndPass, UsesInv, IInv, NamesOK
      <3> QED
        BY <1>2, <3>1 DEF NamesOf, Early
    <2>2. CASE ~ EndPass
      <3>1. pass' = pass /\ (Early' => Early)
        BY <2>2 DEF Construct, ComputeDominanceFrontier, Compute_Aorig, AddUsedRelatedToDefinedRegisters, StartPlacing,
             PlacePhis, NextName, StartRenaming, RenameInstruction, FillArguments, RenameChild, ReturnFromBlock,
             StartSwitches, NextSwitch, SearchBlock, ReturnFromSearch, GiveUp, CorrectSwitch, Early
      <3> QED
        BY <1>2, <3>1
    <2> QED
      BY <2>1, <2>2
  <1>3. ASSUME NEW b \in Blocks, NEW i \in DOMAIN code'[b], code'[b][i].idiom = 0,
               NEW v \in ToSet(code'[b][i].uses), v.sub # NO_SUBSCRIPT
        PROVE  (pass' = "registers" => v.name \notin Memory) /\ (Early' => v.name \notin NamesOf(pass'))
    <2>1. CASE PlacePhis
      <3>1. PICK j \in DOMAIN code[b] : code'[b][i] = code[b][j]
        BY <2>1, PlacedUses
      <3>2. (pass = "registers" => v.name \notin Memory) /\ (Early => v.name \notin NamesOf(pass))
        BY <1>3, <3>1 DEF UsesOfPass
      <3> QED
        BY <1>2, <3>2
    <2>2. CASE ~ PlacePhis
      <3>1. PlacesNothing
        BY <2>2 DEF PlacesNothing, Elsewhere, Construct
      <3>2. i \in DOMAIN code[b]
        BY <3>1, OthersRewrite DEF Rewrites
      <3>3. /\ code[b][i].idiom = 0
            /\ UseRenamed(v, b, i) \/ \E u \in ToSet(code[b][i].uses) : v.name = u.name /\ v.sub = u.sub
        BY <1>3, <3>1, <3>2, UsesAfter
      <3>4. CASE UseRenamed(v, b, i)
        <4>1. stage' = "rename" /\ pass' = pass /\ v.name \in NamesOf(pass)
          BY <3>4 DEF UseRenamed, RenameInstruction, UsesInv, IInv, NamesOK
        <4> QED
          BY <4>1 DEF Early, NamesOf
      <3>5. CASE \E u \in ToSet(code[b][i].uses) : v.name = u.name /\ v.sub = u.sub
        <4>1. (pass = "registers" => v.name \notin Memory) /\ (Early => v.name \notin NamesOf(pass))
          BY <1>3, <3>2, <3>3, <3>5 DEF UsesOfPass
        <4> QED
          BY <1>2, <4>1
      <3> QED
        BY <3>3, <3>4, <3>5
    <2> QED
      BY <2>1, <2>2
  <1>4. NamesOf(pass)' = NamesOf(pass')
    BY DEF NamesOf
  <1> QED
    BY <1>1, <1>3, <1>4 DEF UsesOfPass

\* A place behind the end of a block.
AtEnd(b, i) == i \in Nat /\ \A k \in DOMAIN code[b] : k < i

\* A use has the latest version, and an argument that of the end of its source.
UsesLatest ==
  \A b \in Blocks : \A i \in DOMAIN code[b] : code[b][i].idiom = 0 =>
    \A u \in ToSet(code[b][i].uses) : u.sub # NO_SUBSCRIPT => Latest(u.name, u.sub, b, i)
ArgsLatest ==
  \A b \in Blocks : \A i \in DOMAIN code[b] : \A a \in ToSet(code[b][i].args) :
    a.sub # NO_SUBSCRIPT => \A e \in Nat : AtEnd(a.source, e) => Latest(code[b][i].defs[1].name, a.sub, a.source, e)
ReadsInv == UsesOfPass /\ StackLatest /\ UsesLatest /\ ArgsLatest

\* The version on top of a stack is the latest.
LEMMA VersionLatest ==
  ASSUME StackLatest, CodeOK, CountOK, stage = "rename", frames # <<>>, NEW n \in names
  PROVE  Latest(n, Version(n), Top.block, Top.next)
PROOF
  <1>1. frames \in Seq(FrameType)
    BY DEF CountOK
  <1>2. PICK m \in Nat \ {0} : m = Len(frames) /\ DOMAIN frames = 1 .. m /\ Top = frames[m]
    BY <1>1, TopmostCall
  <1>3. PICK height : SeesLatest(height)
    BY DEF StackLatest
  <1>4. m \in 1 .. m
    OBVIOUS
  <1>5. Latest(n, stack[n][height[m][n]], frames[m].block, frames[m].next) /\ Len(stack[n]) = height[m][n]
    BY <1>2, <1>3, <1>4 DEF SeesLatest
  <1> QED
    BY <1>2, <1>5 DEF Version, Last

\* Renaming, filling in and all that places nothing.
LEMMA OthersKeepUsesLatest ==
  ASSUME UsesInv, StackLatest, UsesLatest, PlacesNothing
  PROVE  UsesLatest'
PROOF
  <1>1. Rewrites /\ definitions \subseteq definitions' /\ CodeOK /\ CountOK
    BY OthersRewrite DEF UsesInv, IInv
  <1>2. Blocks' = Blocks
    BY <1>1 DEF Rewrites, Blocks
  <1>3. ASSUME NEW b \in Blocks, NEW i \in DOMAIN code'[b], code'[b][i].idiom = 0,
               NEW v \in ToSet(code'[b][i].uses), v.sub # NO_SUBSCRIPT
        PROVE  Latest(v.name, v.sub, b, i)'
    <2>1. i \in DOMAIN code[b]
      BY <1>1 DEF Rewrites
    <2>2. /\ code[b][i].idiom = 0
          /\ UseRenamed(v, b, i) \/ \E u \in ToSet(code[b][i].uses) : v.name = u.name /\ v.sub = u.sub
      BY <1>3, <2>1, UsesAfter
    <2>3. PICK n, s : n = v.name /\ s = v.sub
      OBVIOUS
    <2>4. Latest(n, s, b, i)
      <3>1. CASE UseRenamed(v, b, i)
        BY <1>1, <2>3, <3>1, VersionLatest DEF UseRenamed, RenameInstruction
      <3>2. CASE \E u \in ToSet(code[b][i].uses) : v.name = u.name /\ v.sub = u.sub
        BY <1>3, <2>1, <2>2, <2>3, <3>2 DEF UsesLatest
      <3> QED
        BY <2>2, <3>1, <3>2
    <2>5. Latest(n, s, b, i)'
      BY <1>1, <2>4, RewritesKeepLatest
    <2> QED
      BY <2>3, <2>5
  <1> QED
    BY <1>2, <1>3 DEF UsesLatest

\* A step that places nothing keeps the arguments of earlier steps the latest writes.
LEMMA OthersKeepArgsLatest ==
  ASSUME UsesInv, StackLatest, ArgsLatest, FilledSoFar, FilledSoFar', PlacesNothing
  PROVE  ArgsLatest'
PROOF
  <1>1. Rewrites /\ definitions \subseteq definitions' /\ CodeOK /\ CountOK
    BY OthersRewrite DEF UsesInv, IInv
  <1>2. Blocks' = Blocks /\ program' = program
    BY <1>1 DEF Rewrites, Blocks
  <1>3. ASSUME NEW b \in Blocks, NEW i \in DOMAIN code'[b], NEW a \in ToSet(code'[b][i].args), a.sub # NO_SUBSCRIPT,
               NEW e \in Nat, AtEnd(a.source, e)'
        PROVE  Latest(code[b][i].defs[1].name, a.sub, a.source, e)'
    <2>1. i \in DOMAIN code[b] /\ SameInstruction(code'[b][i], code[b][i])
      BY <1>1 DEF Rewrites
    <2>2. /\ IsPhi(code[b][i]) /\ code'[b][i].defs[1].name = code[b][i].defs[1].name
          /\ ArgumentNew(a, code[b][i].defs[1].name) \/ a \in ToSet(code[b][i].args)
      BY <2>1, ArgsAfter
    <2>3. PICK n, s, d : n = code[b][i].defs[1].name /\ s = a.sub /\ d = a.source
      OBVIOUS
    <2>4. d \in Blocks
      <3>1. PhiFilled(code[b][i], b)'
        <4>1. IsPhi(code[b][i])'
          BY <2>1, <2>2 DEF IsPhi, SameInstruction
        <4> QED
          BY <1>2, <4>1 DEF FilledSoFar
      <3>2. PICK k \in DOMAIN code'[b][i].args : a = code'[b][i].args[k]
        BY DEF ToSet
      <3>3. a.source \in Sources(b, code[b][i].defs[1].name)'
        BY <1>3, <3>1, <3>2 DEF PhiFilled, HasSources, IsFilled
      <3>4. Sources(b, code[b][i].defs[1].name)' \subseteq Preds(program', b)
        BY DEF Sources, PredsReached
      <3> QED
        BY <1>2, <2>3, <3>3, <3>4 DEF Preds, Blocks
    <2>5. AtEnd(d, e)
      BY <1>1, <1>3, <2>3, <2>4 DEF AtEnd, Rewrites
    <2>6. Latest(n, s, d, e)
      <3>1. CASE ArgumentNew(a, n)
        <4>1. stage = "rename" /\ frames # <<>> /\ n \in names /\ s = Version(n) /\ d = Top.block /\ FillArguments
          BY <2>3, <3>1 DEF ArgumentNew, FillArguments
        <4>2. Latest(n, s, d, Top.next)
          BY <1>1, <4>1, VersionLatest
        <4>3. \A k \in DOMAIN code[d] : k < Top.next
          BY <4>1, FillEnds
        <4> QED
          BY <2>5, <4>2, <4>3, LatestAtEnd DEF AtEnd
      <3>2. CASE a \in ToSet(code[b][i].args)
        BY <1>3, <2>1, <2>3, <2>5, <3>2 DEF ArgsLatest
      <3> QED
        BY <2>2, <2>3, <3>1, <3>2
    <2>7. Latest(n, s, d, e)'
      BY <1>1, <2>6, RewritesKeepLatest
    <2> QED
      BY <2>2, <2>3, <2>7
  <1> QED
    BY <1>2, <1>3 DEF ArgsLatest

\* Phi functions that come in write only their name and what is related to it.
LEMMA PlaceKeepsLatest ==
  ASSUME UsesInv, PlacePhis, NEW n, n # Least(waiting), n \notin Related[Least(waiting)], NEW s, NEW b \in Blocks, NEW i,
         NEW l, NEW moved, PlacedIn(b, Least(waiting), moved), \A x \in DOMAIN code[b] : x < i <=> moved[x] < l,
         Latest(n, s, b, i)
  PROVE  Latest(n, s, b, l)'
PROOF
  <1>1. Blocks' = Blocks /\ definitions' = definitions /\ program' = program /\ CodeOK
    BY DEF PlacePhis, Blocks, renaming, UsesInv, IInv
  <1>2. PICK n0 : n0 = Least(waiting)
    OBVIOUS
  <1>3. ASSUME NEW e \in Blocks
        PROVE  \E M : PlacedIn(e, n0, M) /\ (e = b => M = moved)
    BY <1>2, PlaceAt
  <1>4. PICK P : \A e \in Blocks : PlacedIn(e, n0, P[e]) /\ (e = b => P[e] = moved)
    <2>1. \A e \in Blocks : LET M == CHOOSE M : PlacedIn(e, n0, M) /\ (e = b => M = moved)
                            IN  PlacedIn(e, n0, M) /\ (e = b => M = moved)
      BY <1>3
    <2>2. PICK P : P = [e \in Blocks |-> CHOOSE M : PlacedIn(e, n0, M) /\ (e = b => M = moved)]
      OBVIOUS
    <2> QED
      BY <2>1, <2>2
  <1>5. ASSUME NEW e \in Blocks, NEW j \in DOMAIN code'[e], n \in WrittenBy(code'[e][j])
        PROVE  \E x \in DOMAIN code[e] : P[e][x] = j /\ code'[e][j] = code[e][x]
    <2>1. CASE \E x \in DOMAIN code[e] : P[e][x] = j
      BY <1>4, <2>1 DEF PlacedIn
    <2>2. CASE NewPhi(code'[e][j], e, n0)
      <3>1. PICK y : y = code'[e][j]
        OBVIOUS
      <3>2. Mentioned(y.defs) = {n0} /\ n \in WrittenBy(y)
        BY <1>5, <2>2, <3>1, PhiMentions
      <3> QED
        BY <1>2, <3>2, WrittenNames
    <2> QED
      BY <1>4, <2>1, <2>2 DEF PlacedIn
  <1>6. ASSUME NEW e \in Blocks, NEW x \in DOMAIN code[e]
        PROVE  P[e][x] \in DOMAIN code'[e] /\ code'[e][P[e][x]] = code[e][x]
    BY <1>4 DEF PlacedIn
  <1>7. ASSUME NEW e \in Blocks, NEW x \in DOMAIN code[e]
        PROVE  Before(e, x, b, i) <=> Before(e, P[e][x], b, l)'
    <2>1. Before(e, P[e][x], b, l)' <=> IF e = b THEN P[e][x] < l ELSE Dominates(program, e, b)
      BY <1>1 DEF Before
    <2>2. e = b => (x < i <=> P[e][x] < l)
      BY <1>4
    <2> QED
      BY <2>1, <2>2 DEF Before
  <1>8. CodeOK'
    BY PlacePhisKeepsCode, <1>1
  <1>9. ASSUME NEW e \in Blocks, NEW x \in DOMAIN code[e], NEW d \in Blocks, NEW k \in DOMAIN code[d]
        PROVE  Before(e, x, d, k + 1) <=> Before(e, P[e][x], d, P[d][k] + 1)'
    <2>1. Before(e, P[e][x], d, P[d][k] + 1)' <=> IF e = d THEN P[e][x] < P[d][k] + 1 ELSE Dominates(program, e, d)
      BY <1>1 DEF Before
    <2>2. e = d => (x < k + 1 <=> P[e][x] < P[d][k] + 1)
      <3>1. SUFFICES ASSUME e = d PROVE x < k + 1 <=> P[d][x] < P[d][k] + 1
        OBVIOUS
      <3>2. x \in Nat /\ k \in Nat
        BY <1>1, <3>1 DEF CodeOK
      <3>3. P[d][x] \in Nat /\ P[d][k] \in Nat
        BY <1>1, <1>6, <1>8, <3>1 DEF CodeOK
      <3>4. (x < k => P[d][x] < P[d][k]) /\ (k < x => P[d][k] < P[d][x])
        BY <1>4, <3>1 DEF PlacedIn
      <3>5. x = k => P[d][x] = P[d][k]
        OBVIOUS
      <3> QED
        BY <3>2, <3>3, <3>4, <3>5
    <2> QED
      BY <2>1, <2>2 DEF Before
  <1>10. CASE s = 0 /\ \A e \in Blocks : \A j \in DOMAIN code[e] : n \in WrittenBy(code[e][j]) => ~ Before(e, j, b, i)
    <2>1. \A e \in Blocks : \A j \in DOMAIN code'[e] : n \in WrittenBy(code'[e][j]) => ~ Before(e, j, b, l)'
      BY <1>5, <1>7, <1>10
    <2> QED
      BY <1>1, <1>10, <2>1 DEF Latest, WrittenBy
  <1>11. CASE \E d \in Blocks : \E k \in DOMAIN code[d] :
       /\ n \in WrittenBy(code[d][k]) /\ <<n, s, code[d][k].id>> \in definitions /\ Before(d, k, b, i)
       /\ \A e \in Blocks : \A j \in DOMAIN code[e] :
            n \in WrittenBy(code[e][j]) /\ Before(e, j, b, i) => Before(e, j, d, k + 1)
    <2>1. PICK d \in Blocks : \E k \in DOMAIN code[d] :
       /\ n \in WrittenBy(code[d][k]) /\ <<n, s, code[d][k].id>> \in definitions /\ Before(d, k, b, i)
       /\ \A e \in Blocks : \A j \in DOMAIN code[e] :
            n \in WrittenBy(code[e][j]) /\ Before(e, j, b, i) => Before(e, j, d, k + 1)
      BY <1>11
    <2>2. PICK k \in DOMAIN code[d] :
       /\ n \in WrittenBy(code[d][k]) /\ <<n, s, code[d][k].id>> \in definitions /\ Before(d, k, b, i)
       /\ \A e \in Blocks : \A j \in DOMAIN code[e] :
            n \in WrittenBy(code[e][j]) /\ Before(e, j, b, i) => Before(e, j, d, k + 1)
      BY <2>1
    <2>3. PICK q : q = P[d][k]
      OBVIOUS
    <2>4. q \in DOMAIN code'[d] /\ code'[d][q] = code[d][k] /\ Before(d, q, b, l)'
      BY <1>6, <1>7, <2>2, <2>3
    <2>5. ASSUME NEW e \in Blocks, NEW j \in DOMAIN code'[e], n \in WrittenBy(code'[e][j]), Before(e, j, b, l)'
          PROVE  Before(e, j, d, q + 1)'
      <3>1. PICK x \in DOMAIN code[e] : P[e][x] = j /\ code'[e][j] = code[e][x]
        BY <1>5, <2>5
      <3>2. Before(e, x, b, i) /\ n \in WrittenBy(code[e][x])
        BY <1>7, <2>5, <3>1
      <3>3. Before(e, x, d, k + 1)
        BY <2>2, <3>2
      <3> QED
        BY <1>9, <2>3, <3>1, <3>3
    <2>6. n \in WrittenBy(code'[d][q]) /\ <<n, s, code'[d][q].id>> \in definitions'
      BY <1>1, <2>2, <2>4
    <2>7. \A x : WrittenBy(x)' = WrittenBy(x)
      BY DEF WrittenBy
    <2> QED
      BY <1>1, <2>4, <2>5, <2>6 DEF Latest, WrittenBy
  <1> QED
    BY <1>10, <1>11 DEF Latest

\* The name of a use that has a version is not that of the phi functions that
\* are placed, nor related to it.
LEMMA PlaceKeepsReads ==
  UsesInv /\ NamesKnown /\ FilledSoFar /\ FilledSoFar' /\ UsesOfPass /\ UsesLatest /\ ArgsLatest /\ PlacePhis =>
    UsesLatest' /\ ArgsLatest'
PROOF
  <1> SUFFICES ASSUME UsesInv, NamesKnown, FilledSoFar, FilledSoFar', UsesOfPass, UsesLatest, ArgsLatest, PlacePhis
               PROVE  UsesLatest' /\ ArgsLatest'
    OBVIOUS
  <1>1. /\ Blocks' = Blocks /\ definitions' = definitions /\ program' = program /\ CodeOK
        /\ stage = "place" /\ stage' = "place" /\ pass' = pass /\ pass \in {"registers", "memory"}
    BY DEF PlacePhis, Blocks, renaming, UsesInv, IInv, NamesOK
  <1>2. CodeOK'
    BY <1>1, PlacePhisKeepsCode
  <1>3. PICK n0 : n0 = Least(waiting) /\ n0 \in NamesOf(pass) /\ n0 \in Names
    BY NamePlaced, NamesAssumption DEF NamesOf
  <1>4. ASSUME NEW n \in Names, n \notin NamesOf(pass), pass = "registers" => n \notin Memory
        PROVE  n # n0 /\ n \notin Related[n0]
    <2>1. pass = "memory"
      BY <1>1, <1>4 DEF NamesOf
    <2> QED
      BY <1>3, <1>4, <2>1, NamesAssumption DEF NamesOf
  <1>5. ASSUME NEW b \in Blocks, NEW j \in DOMAIN code'[b], code'[b][j].idiom = 0,
               NEW u \in ToSet(code'[b][j].uses), u.sub # NO_SUBSCRIPT
        PROVE  Latest(u.name, u.sub, b, j)'
    <2>1. PICK moved : PlacedIn(b, n0, moved)
      BY <1>3, PlaceAt
    <2>2. PICK i \in DOMAIN code[b] : moved[i] = j /\ code'[b][j] = code[b][i]
      <3>1. ~ NewPhi(code'[b][j], b, n0)
        BY DEF NewPhi, ToSet
      <3> QED
        BY <2>1, <3>1 DEF PlacedIn
    <2>3. PICK n, s : n = u.name /\ s = u.sub
      OBVIOUS
    <2>4. Latest(n, s, b, i) /\ (pass = "registers" => n \notin Memory) /\ n \notin NamesOf(pass)
      BY <1>1, <1>5, <2>2, <2>3 DEF UsesLatest, UsesOfPass, Early
    <2>5. n \in Names
      <3>1. n \in Mentioned(code[b][i].uses)
        BY <2>2, <2>3, MentionedNames
      <3> QED
        BY <3>1 DEF NamesKnown
    <2>6. n # n0 /\ n \notin Related[n0]
      BY <1>4, <2>4, <2>5
    <2>7. \A x \in DOMAIN code[b] : x < i <=> moved[x] < j
      <3>1. ASSUME NEW x \in DOMAIN code[b] PROVE x < i <=> moved[x] < j
        <4>1. x \in Nat /\ i \in Nat
          BY <1>1 DEF CodeOK
        <4>2. moved[x] \in Nat /\ moved[i] \in Nat
          <5>1. moved[x] \in DOMAIN code'[b] /\ moved[i] \in DOMAIN code'[b]
            BY <2>1 DEF PlacedIn
          <5> QED
            BY <1>1, <1>2, <5>1 DEF CodeOK
        <4>3. (x < i => moved[x] < moved[i]) /\ (i < x => moved[i] < moved[x])
          BY <2>1 DEF PlacedIn
        <4>4. x = i => moved[x] = moved[i]
          OBVIOUS
        <4> QED
          BY <2>2, <4>1, <4>2, <4>3, <4>4
      <3> QED
        BY <3>1
    <2>8. Latest(n, s, b, j)'
      BY <1>3, <2>1, <2>4, <2>6, <2>7, PlaceKeepsLatest
    <2> QED
      BY <2>3, <2>8
  <1>6. ASSUME NEW b \in Blocks, NEW j \in DOMAIN code'[b], NEW a \in ToSet(code'[b][j].args), a.sub # NO_SUBSCRIPT,
               NEW e \in Nat, AtEnd(a.source, e)'
        PROVE  Latest(code[b][j].defs[1].name, a.sub, a.source, e)'
    <2>1. PICK moved : PlacedIn(b, n0, moved)
      BY <1>3, PlaceAt
    <2>2. PICK i \in DOMAIN code[b] : moved[i] = j /\ code'[b][j] = code[b][i]
      <3>1. ~ NewPhi(code'[b][j], b, n0)
        BY <1>6 DEF NewPhi
      <3> QED
        BY <2>1, <3>1 DEF PlacedIn
    <2>3. PICK n, s, d : n = code[b][i].defs[1].name /\ s = a.sub /\ d = a.source
      OBVIOUS
    <2>4. Shape(code[b][i], b) /\ IsPhi(code[b][i])
      <3>1. Shape(code[b][i], b)
        BY DEF UsesInv, Shaped
      <3>2. ToSet(code[b][i].args) # {}
        BY <1>6, <2>2
      <3> QED
        BY <3>1, <3>2 DEF Shape, ToSet
    <2>5. n \in Names
      <3>1. n \in Mentioned(code[b][i].defs)
        BY <2>3, <2>4 DEF Mentioned, Shape
      <3> QED
        BY <3>1 DEF NamesKnown
    <2>6. PhiFilled(code[b][i], b)
      BY <2>4 DEF FilledSoFar
    <2>7. d \in Sources(b, n)
      <3>1. PICK k \in DOMAIN code[b][i].args : a = code[b][i].args[k]
        BY <2>2 DEF ToSet
      <3> QED
        BY <1>6, <2>3, <2>6, <3>1 DEF PhiFilled, HasSources, IsFilled
    <2>8. d \in Blocks /\ n \notin NamesOf(pass)
      BY <1>1, <2>7 DEF Sources, PredsReached, Preds, Blocks
    <2>9. pass = "registers" => n \notin Memory
      BY <2>3, <2>4 DEF UsesInv, PhisNamed, PhiNamed
    <2>10. n # n0 /\ n \notin Related[n0]
      BY <1>4, <2>5, <2>8, <2>9
    <2>11. PICK l \in Nat : AtEnd(d, l)
      <3>1. Len(code[d]) + 1 \in Nat /\ \A k \in DOMAIN code[d] : k < Len(code[d]) + 1
        BY <1>1, <2>8 DEF CodeOK
      <3> QED
        BY <3>1 DEF AtEnd
    <2>12. Latest(n, s, d, l)
      BY <1>6, <2>2, <2>3, <2>11 DEF ArgsLatest
    <2>13. PICK M : PlacedIn(d, n0, M)
      BY <1>3, <2>8, PlaceAt
    <2>14. \A x \in DOMAIN code[d] : x < l <=> M[x] < e
      <3>1. \A x \in DOMAIN code[d] : M[x] \in DOMAIN code'[d]
        BY <2>13 DEF PlacedIn
      <3> QED
        BY <1>6, <2>3, <2>11, <3>1 DEF AtEnd
    <2>15. Latest(n, s, d, e)'
      BY <1>3, <2>8, <2>10, <2>12, <2>13, <2>14, PlaceKeepsLatest
    <2> QED
      BY <2>2, <2>3, <2>15
  <1> QED
    BY <1>1, <1>5, <1>6 DEF UsesLatest, ArgsLatest

\* Every step of the construction.
LEMMA ConstructKeepsReads == ArgsInv /\ NamesInv /\ ReadsInv /\ Construct => ReadsInv'
PROOF
  <1> SUFFICES ASSUME ArgsInv, NamesInv, ReadsInv, Construct PROVE ReadsInv'
    OBVIOUS
  <1>1. ArgsInv' /\ UsesInv /\ FilledSoFar /\ FilledSoFar'
    BY ConstructKeepsArgs DEF ArgsInv
  <1>2. UsesOfPass' /\ StackLatest'
    BY <1>1, ConstructKeepsUsesOfPass, ConstructKeepsLatest DEF ReadsInv
  <1>3. UsesLatest' /\ ArgsLatest'
    <2>1. CASE PlacePhis
      BY <1>1, <2>1, PlaceKeepsReads DEF NamesInv, ReadsInv
    <2>2. CASE ~ PlacePhis
      <3>1. PlacesNothing
        BY <2>2 DEF PlacesNothing, Elsewhere, Construct
      <3> QED
        BY <1>1, <3>1, OthersKeepUsesLatest, OthersKeepArgsLatest DEF ReadsInv
    <2> QED
      BY <2>1, <2>2
  <1> QED
    BY <1>2, <1>3 DEF ReadsInv

\* As it was lifted, nothing has a version.
LEMMA ReadsInvInit == Init => ReadsInv
PROOF
  <1> SUFFICES ASSUME Init PROVE ReadsInv
    OBVIOUS
  <1>1. stage # "rename"
    BY DEF Init
  <1>2. ASSUME NEW b \in Blocks, NEW i \in DOMAIN code[b]
        PROVE  /\ \A u \in ToSet(code[b][i].uses) : u.sub = NO_SUBSCRIPT
               /\ ToSet(code[b][i].args) = {}
    <2>1. code[b][i] = Lifted(b, i, program.code[b][i])
      BY DEF Init
    <2>2. PICK x : x = program.code[b][i]
      OBVIOUS
    <2>3. \A u \in ToSet(Lifted(b, i, x).uses) : u.sub = NO_SUBSCRIPT
      <3>1. Lifted(b, i, x).uses = [k \in DOMAIN x.uses |-> [name |-> x.uses[k], sub |-> NO_SUBSCRIPT]]
        BY DEF Lifted
      <3> QED
        BY <3>1 DEF ToSet
    <2>4. ToSet(Lifted(b, i, x).args) = {}
      BY DEF Lifted, ToSet
    <2> QED
      BY <2>1, <2>2, <2>3, <2>4
  <1> QED
    BY <1>1, <1>2 DEF ReadsInv, UsesOfPass, StackLatest, UsesLatest, ArgsLatest

-----------------------------------------------------------------------------
(* All uses get their versions.                                            *)

\* The calls of renameVariables have passed the instruction.
Passed(b, i) == b \notin Remaining \/ \E j \in DOMAIN frames : frames[j].block = b /\ i < frames[j].next

RenamedSoFar ==
  stage = "rename" =>
    \A b \in Reached(program) : \A i \in DOMAIN code[b] : Passed(b, i) /\ code[b][i].idiom = 0 =>
      \A u \in ToSet(code[b][i].uses) : u.name \in names => u.sub # NO_SUBSCRIPT

\* The names whose pass has renamed; no instruction writes the name.
RenamingDone(n) ==
  \/ pass = "memory" /\ n \notin Memory
  \/ stage = "done"
  \/ stage \in {"switch", "search"} /\ n \in NamesOf(pass)
Unwritten(n) == \A b \in Blocks : \A i \in DOMAIN code[b] : n \notin WrittenBy(code[b][i])

UsesGiven ==
  \A b \in Reached(program) : \A i \in DOMAIN code[b] : code[b][i].idiom = 0 =>
    \A u \in ToSet(code[b][i].uses) : RenamingDone(u.name) /\ u.sub = NO_SUBSCRIPT => Unwritten(u.name)

\* A step that passes nothing but the instruction it renames.
LEMMA PassesRenamed ==
  ASSUME ArgsInv, RenamedSoFar, PlacesNothing, stage = "rename", UNCHANGED names,
         \A b \in Reached(program) : \A i \in DOMAIN code[b] :
           Passed(b, i)' => Passed(b, i) \/ (RenameInstruction /\ b = Top.block /\ i = Top.next)
  PROVE  RenamedSoFar'
PROOF
  <1>1. UsesInv /\ Rewrites /\ CodeOK
    BY OthersRewrite DEF ArgsInv, UsesInv, IInv
  <1>2. Reached(program)' = Reached(program) /\ Reached(program) \subseteq Blocks
    BY <1>1, ProgramIsGraph DEF Rewrites
  <1>3. ASSUME NEW b \in Reached(program), NEW i \in DOMAIN code'[b], Passed(b, i)', code'[b][i].idiom = 0,
               NEW v \in ToSet(code'[b][i].uses), v.name \in names
        PROVE  v.sub # NO_SUBSCRIPT
    <2>1. b \in Blocks /\ i \in DOMAIN code[b]
      BY <1>1, <1>2 DEF Rewrites
    <2>2. /\ code[b][i].idiom = 0
          /\ UseRenamed(v, b, i) \/ \E u \in ToSet(code[b][i].uses) : v.name = u.name /\ v.sub = u.sub
      BY <1>1, <1>3, <2>1, UsesAfter
    <2>3. CASE UseRenamed(v, b, i) \/ (RenameInstruction /\ b = Top.block /\ i = Top.next)
      <3>1. v.sub = Version(v.name)
        BY <1>1, <1>3, <2>3, AllUsesRenamed DEF UseRenamed
      <3> QED
        BY <1>1, <1>3, <3>1, VersionIsFilled
    <2>4. CASE ~ (UseRenamed(v, b, i) \/ (RenameInstruction /\ b = Top.block /\ i = Top.next))
      <3>1. Passed(b, i)
        BY <1>3, <2>1, <2>4
      <3>2. PICK u \in ToSet(code[b][i].uses) : v.name = u.name /\ v.sub = u.sub
        BY <2>2, <2>4
      <3> QED
        BY <1>3, <2>1, <2>2, <3>1, <3>2 DEF RenamedSoFar
    <2> QED
      BY <2>3, <2>4
  <1> QED
    BY <1>2, <1>3 DEF RenamedSoFar

\* The calls pass what they rename, and what is passed stays so.
LEMMA ConstructKeepsRenamed == ArgsInv /\ RenamedSoFar /\ Construct => RenamedSoFar'
PROOF
  <1> SUFFICES ASSUME ArgsInv, RenamedSoFar, Construct PROVE RenamedSoFar'
    OBVIOUS
  <1>1. UsesInv /\ CodeOK
    BY DEF ArgsInv, UsesInv, IInv
  <1>2. CASE RenameInstruction
    <2>1. TopGoesOn /\ Last(frames').next = Top.next + 1 /\ frames # <<>>
      BY <1>1, <1>2, RenameGoesOn DEF RenameInstruction
    <2>2. Remaining' = Remaining
      BY <1>2, RenameKeepsRemaining
    <2>3. PICK m \in Nat \ {0} : m = Len(frames) /\ DOMAIN frames = 1 .. m /\ Top = frames[m]
      BY <2>1, TopmostCall DEF TopGoesOn
    <2>4. Len(frames') = m /\ DOMAIN frames' = 1 .. m
      BY <2>1, <2>3 DEF TopGoesOn
    <2>5. Last(frames') = frames'[m]
      BY <2>4 DEF Last
    <2>6. ASSUME NEW b \in Reached(program), NEW i \in DOMAIN code[b], Passed(b, i)'
          PROVE  Passed(b, i) \/ (RenameInstruction /\ b = Top.block /\ i = Top.next)
      <3>1. CASE b \notin Remaining'
        BY <2>2, <3>1 DEF Passed
      <3>2. CASE \E j \in DOMAIN frames' : frames'[j].block = b /\ i < frames'[j].next
        <4>1. PICK j \in 1 .. m : frames'[j].block = b /\ i < frames'[j].next
          BY <2>4, <3>2
        <4>2. frames[j].block = b
          BY <2>1, <2>3, <4>1 DEF TopGoesOn
        <4>3. CASE j = m
          <5>1. i < Top.next + 1 /\ b = Top.block
            BY <2>1, <2>3, <2>5, <4>1, <4>2, <4>3
          <5>2. i \in Nat
            BY <1>1, ProgramIsGraph DEF CodeOK
          <5>3. Top.next \in Nat
            BY <1>1, <1>2, RenameAt DEF RenamedAt
          <5>4. i < Top.next \/ i = Top.next
            BY <5>1, <5>2, <5>3
          <5> QED
            BY <1>2, <2>3, <4>2, <4>3, <5>1, <5>4 DEF Passed
        <4>4. CASE j # m
          <5>1. j \in 1 .. m - 1
            BY <4>4
          <5>2. frames'[j] = frames[j]
            BY <2>1, <2>3, <5>1 DEF TopGoesOn
          <5> QED
            BY <2>3, <4>1, <5>2 DEF Passed
        <4> QED
          BY <4>3, <4>4
      <3> QED
        BY <2>6, <3>1, <3>2 DEF Passed
    <2> QED
      BY <1>2, <2>6, PassesRenamed DEF RenameInstruction, PlacesNothing
  <1>3. CASE FillArguments
    <2>1. Top.block \in Remaining /\ Remaining' = Remaining \ {Top.block}
      BY <1>3, FilledOnce
    <2>2. frames' = WithTop([Top EXCEPT !.filled = TRUE]) /\ \A k \in DOMAIN code[Top.block] : k < Top.next
      BY <1>1, <1>3, FillEnds
    <2>3. frames \in Seq(FrameType) /\ frames # <<>>
      BY <1>1, <1>3 DEF FillArguments, UsesInv, IInv, CountOK
    <2>4. PICK m \in Nat \ {0} : m = Len(frames) /\ DOMAIN frames = 1 .. m /\ Top = frames[m]
      BY <2>3, TopmostCall
    <2>5. PICK f : f = [Top EXCEPT !.filled = TRUE]
      OBVIOUS
    <2>6. m \in 1 .. m /\ Top \in FrameType
      BY <2>3, <2>4, ElementOfSeq
    <2>7. f \in FrameType /\ f.block = Top.block /\ f.next = Top.next
      BY <2>5, <2>6 DEF FrameType
    <2>8. Len(frames') = m /\ frames'[m] = f /\ \A j \in 1 .. m - 1 : frames'[j] = frames[j]
      <3>1. frames' = WithTop(f)
        BY <2>2, <2>5
      <3> QED
        BY <2>3, <2>4, <2>7, <3>1, TopElements
    <2>9. frames' \in Seq(FrameType)
      BY <2>2, <2>3, <2>5, <2>7, TopReplaced
    <2>10. DOMAIN frames' = 1 .. m
      BY <2>8, <2>9
    <2>11. \A j \in 1 .. m : frames'[j].block = frames[j].block /\ frames'[j].next = frames[j].next
      <3>1. ASSUME NEW j \in 1 .. m PROVE frames'[j].block = frames[j].block /\ frames'[j].next = frames[j].next
        <4>1. j = m \/ j \in 1 .. m - 1
          OBVIOUS
        <4> QED
          BY <2>4, <2>7, <2>8, <4>1
      <3> QED
        BY <3>1
    <2>12. ASSUME NEW b \in Reached(program), NEW i \in DOMAIN code[b], Passed(b, i)'
           PROVE  Passed(b, i)
      BY <2>1, <2>2, <2>4, <2>6, <2>10, <2>11, <2>12 DEF Passed
    <2> QED
      BY <1>3, <2>12, PassesRenamed DEF FillArguments, PlacesNothing
  <1>4. CASE RenameChild
    <2>1. Remaining' = Remaining
      BY <1>4, ChildKeepsRemaining
    <2>2. PICK c \in Top.children : \E k \in Nat \ {0} :
           /\ k = Len(frames) /\ Len(frames') = k + 1 /\ frames' \in Seq(FrameType) /\ frames \in Seq(FrameType)
           /\ frames'[k + 1] = Frame(c)
           /\ \A j \in 1 .. k : /\ frames'[j].block = frames[j].block /\ frames'[j].next = frames[j].next
      BY <1>1, <1>4, ChildCalled
    <2>3. PICK m \in Nat \ {0} :
           /\ m = Len(frames) /\ Len(frames') = m + 1 /\ frames' \in Seq(FrameType) /\ frames \in Seq(FrameType)
           /\ frames'[m + 1] = Frame(c)
           /\ \A j \in 1 .. m : /\ frames'[j].block = frames[j].block /\ frames'[j].next = frames[j].next
      BY <2>2
    <2>4. DOMAIN frames' = 1 .. m + 1 /\ DOMAIN frames = 1 .. m /\ Frame(c).next = 1
      BY <2>3 DEF Frame
    <2>5. ASSUME NEW b \in Reached(program), NEW i \in DOMAIN code[b], Passed(b, i)'
          PROVE  Passed(b, i)
      <3>1. CASE b \notin Remaining'
        BY <2>1, <3>1 DEF Passed
      <3>2. CASE \E j \in DOMAIN frames' : frames'[j].block = b /\ i < frames'[j].next
        <4>1. PICK j \in 1 .. m + 1 : frames'[j].block = b /\ i < frames'[j].next
          BY <2>4, <3>2
        <4>2. i \in Nat \ {0}
          BY <1>1, ProgramIsGraph DEF CodeOK
        <4>3. j # m + 1
          BY <2>3, <2>4, <4>1, <4>2
        <4>4. j \in 1 .. m
          BY <4>3
        <4> QED
          BY <2>3, <2>4, <4>1, <4>4 DEF Passed
      <3> QED
        BY <2>5, <3>1, <3>2 DEF Passed
    <2> QED
      BY <1>4, <2>5, PassesRenamed DEF RenameChild, PlacesNothing, Elsewhere
  <1>5. CASE ReturnFromBlock
    <2>1. Remaining' = Remaining
      BY <1>5, ReturnKeepsRemaining
    <2>2. PICK m \in Nat \ {0} :
           /\ m = Len(frames) /\ Len(frames') = m - 1 /\ frames' \in Seq(FrameType) /\ frames \in Seq(FrameType)
           /\ \A j \in 1 .. m - 1 : frames'[j] = frames[j]
      BY <1>1, <1>5, CallReturned
    <2>3. DOMAIN frames' = 1 .. m - 1 /\ DOMAIN frames = 1 .. m /\ 1 .. m - 1 \subseteq 1 .. m
      BY <2>2
    <2>4. ASSUME NEW b \in Reached(program), NEW i \in DOMAIN code[b], Passed(b, i)'
          PROVE  Passed(b, i)
      BY <2>1, <2>2, <2>3, <2>4 DEF Passed
    <2> QED
      BY <1>5, <2>4, PassesRenamed DEF ReturnFromBlock, PlacesNothing, Elsewhere
  <1>6. CASE StartRenaming
    <2>1. Remaining' = Reached(program) /\ Reached(program)' = Reached(program) /\ code' = code
      BY <1>1, <1>6, AllRemainAtStart DEF StartRenaming
    <2>2. DOMAIN frames' = {1} /\ frames'[1].next = 1
      BY <1>6 DEF StartRenaming, Frame
    <2>3. ASSUME NEW b \in Reached(program), NEW i \in DOMAIN code[b]
          PROVE  ~ Passed(b, i)'
      <3>1. i \in Nat \ {0}
        BY <1>1, ProgramIsGraph DEF CodeOK
      <3>2. ~ i < 1
        BY <3>1
      <3> QED
        BY <2>1, <2>2, <3>2 DEF Passed
    <2> QED
      BY <2>1, <2>3 DEF RenamedSoFar
  <1>7. CASE ~ (RenameInstruction \/ FillArguments \/ RenameChild \/ ReturnFromBlock \/ StartRenaming)
    <2>1. stage' # "rename"
      BY <1>7 DEF Construct, ComputeDominanceFrontier, Compute_Aorig, AddUsedRelatedToDefinedRegisters, StartPlacing,
                  PlacePhis, NextName, StartSwitches, NextSwitch, SearchBlock, ReturnFromSearch, GiveUp, CorrectSwitch, EndPass
    <2> QED
      BY <2>1 DEF RenamedSoFar
  <1> QED
    BY <1>2, <1>3, <1>4, <1>5, <1>6, <1>7

\* What keeps the writes keeps a name unwritten.
LEMMA RewritesKeepUnwritten ==
  ASSUME Rewrites, NEW n, Unwritten(n)
  PROVE  Unwritten(n)'
PROOF
  <1>1. Blocks' = Blocks /\ \A b \in Blocks : DOMAIN code'[b] = DOMAIN code[b]
    BY DEF Rewrites, Blocks
  <1>2. \A b \in Blocks : \A i \in DOMAIN code[b] : WrittenBy(code'[b][i]) = WrittenBy(code[b][i])
    BY SameDefinitions DEF Rewrites
  <1>3. \A x : WrittenBy(x)' = WrittenBy(x)
    BY DEF WrittenBy
  <1> QED
    BY <1>1, <1>2, <1>3 DEF Unwritten, WrittenBy

\* A used name of the pass that is not renamed is not written.
LEMMA UnrenamedUnwritten ==
  ASSUME UsesInv, NamesInv, stage = "rename", NEW b \in Blocks, NEW i \in DOMAIN code[b],
         NEW n \in Mentioned(code[b][i].uses), n \in NamesOf(pass), n \notin names
  PROVE  Unwritten(n)
PROOF
  <1>1. SUFFICES ASSUME NEW c \in Blocks, NEW k \in DOMAIN code[c], n \in WrittenBy(code[c][k])
                 PROVE  FALSE
    BY DEF Unwritten
  <1>2. PICK m \in Mentioned(code[c][k].defs) : n = m \/ n \in Related[m]
    BY <1>1, WrittenNames
  <1>3. m \in Names
    BY <1>2 DEF NamesInv, NamesKnown
  <1>4. DefinedNames \subseteq names
    BY DEF NamesInv, DefinedCollected
  <1>5. CASE n = m
    <2>1. n \in DefinedNames
      BY <1>2, <1>5 DEF DefinedNames
    <2> QED
      BY <1>4, <2>1
  <1>6. CASE n \in Related[m]
    <2>1. m \in Related[n] /\ m \notin Memory /\ n \notin Memory
      BY <1>3, <1>6, NamesAssumption
    <2>2. m \in NamesOf(pass)
      BY <1>3, <2>1 DEF NamesOf
    <2>3. m \in DefinedNames
      BY <1>2, <2>2 DEF DefinedNames
    <2> QED
      BY <2>1, <2>3 DEF NamesInv, UsedCollected
  <1> QED
    BY <1>2, <1>5, <1>6

\* When the calls are over all uses are renamed whose names are written.
LEMMA ConstructKeepsGiven == ArgsInv /\ NamesInv /\ RenamedSoFar /\ UsesGiven /\ Construct => UsesGiven'
PROOF
  <1> SUFFICES ASSUME ArgsInv, NamesInv, RenamedSoFar, UsesGiven, Construct PROVE UsesGiven'
    OBVIOUS
  <1>1. UsesInv /\ CodeOK /\ pass \in {"registers", "memory"}
    BY DEF ArgsInv, UsesInv, IInv, NamesOK
  <1>2. Reached(program) \subseteq Blocks
    BY <1>1, ProgramIsGraph
  <1>3. CASE PlacePhis
    <2>1. stage' = "place" /\ stage = "place" /\ pass' = pass /\ program' = program
      BY <1>3 DEF PlacePhis
    <2>2. ASSUME NEW b \in Reached(program), NEW j \in DOMAIN code'[b], code'[b][j].idiom = 0,
                 NEW u \in ToSet(code'[b][j].uses), RenamingDone(u.name)', u.sub = NO_SUBSCRIPT
          PROVE  Unwritten(u.name)'
      <3>1. PICK i \in DOMAIN code[b] : code'[b][j] = code[b][i]
        BY <1>1, <1>2, <1>3, PlacedUses
      <3>2. PICK n : n = u.name
        OBVIOUS
      <3>3. pass = "memory" /\ n \notin Memory
        BY <2>1, <2>2, <3>2 DEF RenamingDone
      <3>4. RenamingDone(n)
        BY <3>3 DEF RenamingDone
      <3>5. Unwritten(n)
        BY <2>2, <3>1, <3>2, <3>4 DEF UsesGiven
      <3>6. PICK n0 : n0 = Least(waiting) /\ n0 \in Memory
        BY <1>1, <1>3, <3>3, NamePlaced DEF NamesOf
      <3>7. ASSUME NEW c \in Blocks, NEW k \in DOMAIN code'[c], n \in WrittenBy(code'[c][k])
            PROVE  FALSE
        <4>1. CASE \E x \in DOMAIN code[c] : code'[c][k] = code[c][x]
          BY <3>5, <3>7, <4>1 DEF Unwritten
        <4>2. CASE NewPhi(code'[c][k], c, n0)
          <5>1. PICK y : y = code'[c][k]
            OBVIOUS
          <5>2. Mentioned(y.defs) = {n0} /\ n \in WrittenBy(y)
            BY <3>7, <4>2, <5>1, PhiMentions
          <5>3. n = n0 \/ n \in Related[n0]
            BY <5>2, WrittenNames
          <5> QED
            BY <3>3, <3>6, <5>3, NamesAssumption
        <4> QED
          BY <1>1, <1>3, <3>6, <4>1, <4>2, PlacedCode
      <3>8. Blocks' = Blocks
        BY <2>1 DEF Blocks
      <3> QED
        BY <3>2, <3>7, <3>8 DEF Unwritten, WrittenBy
    <2> QED
      BY <2>1, <2>2 DEF UsesGiven
  <1>4. CASE ~ PlacePhis
    <2>1. PlacesNothing
      BY <1>4 DEF PlacesNothing, Elsewhere, Construct
    <2>2. Rewrites
      BY <1>1, <2>1, OthersRewrite
    <2>3. Reached(program)' = Reached(program)
      BY <2>2 DEF Rewrites
    <2>4. ASSUME NEW n \in Names, RenamingDone(n)'
          PROVE  RenamingDone(n) \/ (StartSwitches /\ n \in NamesOf(pass))
      <3>1. CASE EndPass
        <4>1. stage = "switch" /\ pass' = "memory" /\ stage' = IF pass = "registers" THEN "collect" ELSE "done"
          BY <3>1 DEF EndPass
        <4> QED
          BY <1>1, <2>4, <4>1 DEF RenamingDone, NamesOf
      <3>2. CASE StartSwitches
        <4>1. stage' = "switch" /\ pass' = pass
          BY <3>2 DEF StartSwitches
        <4> QED
          BY <2>4, <3>2, <4>1 DEF RenamingDone, NamesOf
      <3>3. CASE ~ EndPass /\ ~ StartSwitches
        <4>1. /\ pass' = pass /\ stage' # "done" /\ (stage' \in {"switch", "search"} => stage \in {"switch", "search"})
          BY <1>4, <3>3 DEF Construct, ComputeDominanceFrontier, Compute_Aorig, AddUsedRelatedToDefinedRegisters, StartPlacing,
             NextName, StartRenaming, RenameInstruction, FillArguments, RenameChild, ReturnFromBlock,
             NextSwitch, SearchBlock, ReturnFromSearch, GiveUp, CorrectSwitch
        <4> QED
          BY <2>4, <4>1 DEF RenamingDone, NamesOf
      <3> QED
        BY <3>1, <3>2, <3>3
    <2>5. ASSUME NEW b \in Reached(program), NEW i \in DOMAIN code'[b], code'[b][i].idiom = 0,
                 NEW v \in ToSet(code'[b][i].uses), RenamingDone(v.name)', v.sub = NO_SUBSCRIPT
          PROVE  Unwritten(v.name)'
      <3>1. b \in Blocks /\ i \in DOMAIN code[b]
        BY <1>2, <2>2 DEF Rewrites
      <3>2. /\ code[b][i].idiom = 0
            /\ UseRenamed(v, b, i) \/ \E u \in ToSet(code[b][i].uses) : v.name = u.name /\ v.sub = u.sub
        BY <1>1, <2>1, <2>5, <3>1, UsesAfter
      <3>3. ~ UseRenamed(v, b, i)
        <4>1. UseRenamed(v, b, i) => stage = "rename" /\ v.name \in names /\ v.sub = Version(v.name)
          BY DEF UseRenamed, RenameInstruction
        <4> QED
          BY <1>1, <2>5, <4>1, VersionIsFilled
      <3>4. PICK u \in ToSet(code[b][i].uses) : v.name = u.name /\ v.sub = u.sub
        BY <3>2, <3>3
      <3>5. PICK n : n = v.name
        OBVIOUS
      <3>6. n \in Mentioned(code[b][i].uses)
        BY <3>4, <3>5, MentionedNames
      <3>7. n \in Names
        BY <3>1, <3>6 DEF NamesInv, NamesKnown
      <3>8. Unwritten(n)
        <4>1. CASE RenamingDone(n)
          BY <2>5, <3>1, <3>2, <3>4, <3>5, <4>1 DEF UsesGiven
        <4>2. CASE StartSwitches /\ n \in NamesOf(pass)
          <5>1. stage = "rename" /\ frames = <<>>
            BY <4>2 DEF StartSwitches
          <5>2. Passed(b, i)
            BY <5>1 DEF Passed, Remaining
          <5>3. n \notin names
            BY <2>5, <3>1, <3>2, <3>4, <3>5, <5>1, <5>2 DEF RenamedSoFar
          <5> QED
            BY <1>1, <3>1, <3>6, <4>2, <5>1, <5>3, UnrenamedUnwritten
        <4> QED
          BY <2>4, <2>5, <3>5, <3>7, <4>1, <4>2
      <3>9. Unwritten(n)'
        BY <2>2, <3>8, RewritesKeepUnwritten
      <3> QED
        BY <3>5, <3>9
    <2> QED
      BY <2>3, <2>5 DEF UsesGiven
  <1> QED
    BY <1>3, <1>4

\* As it was lifted no pass has renamed.
LEMMA GivenInit == Init => RenamedSoFar /\ UsesGiven
BY DEF Init, RenamedSoFar, UsesGiven, RenamingDone

-----------------------------------------------------------------------------
(* The construction as a whole.                                            *)

\* An argument that is not filled comes from no block.
EmptyArguments ==
  \A b \in Blocks : \A i \in DOMAIN code[b] : \A a \in ToSet(code[b][i].args) : a.sub = NO_SUBSCRIPT => a.source = -1

\* All that is known of the construction.
ConstructionInv ==
  ArgsInv /\ PlacedInv /\ DefinitionsWrite /\ ReadsInv /\ RenamedSoFar /\ UsesGiven /\ EmptyArguments

\* What fills in an argument gives it a version.
LEMMA ConstructKeepsEmpty == UsesInv /\ EmptyArguments /\ Construct => EmptyArguments'
PROOF
  <1> SUFFICES ASSUME UsesInv, EmptyArguments, Construct PROVE EmptyArguments'
    OBVIOUS
  <1>1. CASE PlacePhis
    <2>1. Blocks' = Blocks
      BY <1>1 DEF PlacePhis, Blocks
    <2>2. ASSUME NEW b \in Blocks, NEW j \in DOMAIN code'[b], NEW a \in ToSet(code'[b][j].args), a.sub = NO_SUBSCRIPT
          PROVE  a.source = -1
      <3>1. CASE \E i \in DOMAIN code[b] : code'[b][j] = code[b][i]
        BY <2>2, <3>1 DEF EmptyArguments
      <3>2. CASE NewPhi(code'[b][j], b, Least(waiting))
        BY <2>2, <3>2 DEF NewPhi
      <3> QED
        BY <1>1, <3>1, <3>2, PlacedCode
    <2> QED
      BY <2>1, <2>2 DEF EmptyArguments
  <1>2. CASE ~ PlacePhis
    <2>1. PlacesNothing
      BY <1>2 DEF PlacesNothing, Elsewhere, Construct
    <2>2. Rewrites
      BY <2>1, OthersRewrite
    <2>3. Blocks' = Blocks
      BY <2>2 DEF Rewrites, Blocks
    <2>4. ASSUME NEW b \in Blocks, NEW i \in DOMAIN code'[b], NEW a \in ToSet(code'[b][i].args), a.sub = NO_SUBSCRIPT
          PROVE  a.source = -1
      <3>1. i \in DOMAIN code[b]
        BY <2>2 DEF Rewrites
      <3>2. ArgumentNew(a, code[b][i].defs[1].name) \/ a \in ToSet(code[b][i].args)
        BY <2>1, <2>4, <3>1, ArgsAfter
      <3>3. ~ ArgumentNew(a, code[b][i].defs[1].name)
        <4>1. PICK m : m = code[b][i].defs[1].name
          OBVIOUS
        <4>2. ArgumentNew(a, m) => stage = "rename" /\ m \in names /\ a.sub = Version(m)
          BY DEF ArgumentNew, FillArguments
        <4> QED
          BY <2>4, <4>1, <4>2, VersionIsFilled
      <3> QED
        BY <2>4, <3>1, <3>2, <3>3 DEF EmptyArguments
    <2> QED
      BY <2>3, <2>4 DEF EmptyArguments
  <1> QED
    BY <1>1, <1>2

\* What the function is lifted to.
LEMMA ConstructionInvInit == Init => ConstructionInv
PROOF
  <1> SUFFICES ASSUME Init PROVE ConstructionInv
    OBVIOUS
  <1>1. DefinitionsWrite
    BY DEF Init, DefinitionsWrite
  <1>2. EmptyArguments
    <2>1. ASSUME NEW b \in Blocks, NEW i \in DOMAIN code[b]
          PROVE  ToSet(code[b][i].args) = {}
      <3>1. code[b][i] = Lifted(b, i, program.code[b][i])
        BY <2>1 DEF Init
      <3> QED
        BY <3>1 DEF Lifted, ToSet
    <2> QED
      BY <2>1 DEF EmptyArguments
  <1> QED
    BY <1>1, <1>2, ArgsInvInit, PlacedInvInit, ReadsInvInit, GivenInit DEF ConstructionInv

\* Steps of the run, and those that change nothing.
LEMMA ConstructionInvStutters == ConstructionInv /\ UNCHANGED vars => ConstructionInv'
PROOF
  <1> SUFFICES ASSUME ConstructionInv, UNCHANGED vars PROVE ConstructionInv'
    OBVIOUS
  <1>1. UNCHANGED <<program, code, pass, stage, names, stack, frames, definitions>>
    BY DEF vars, renaming
  <1>2. Blocks' = Blocks /\ (\A n : NamesOf(n)' = NamesOf(n)) /\ (\A x : WrittenBy(x)' = WrittenBy(x)) /\ (Early' <=> Early)
    BY <1>1 DEF Blocks, NamesOf, WrittenBy, Early
  <1>3. \A n, s, b, i : Latest(n, s, b, i)' <=> Latest(n, s, b, i)
    BY <1>1, <1>2 DEF Latest, Before, WrittenBy
  <1>4. ArgsInv'
    <2>1. UsesInv'
      BY UsesInvStutters DEF ConstructionInv, ArgsInv
    <2>2. \A b, n : Sources(b, n)' = Sources(b, n)
      BY <1>1 DEF Sources, PredsReached, NamesOf, Remaining, WaitsIn
    <2>3. FilledSoFar'
      BY <1>1, <2>1, <2>2, SameCodeRewrites, ArgumentsKept DEF ConstructionInv, ArgsInv
    <2>4. PhisLead' /\ Rooted'
      BY <1>1 DEF ConstructionInv, ArgsInv, PhisLead, LedByPhis, Rooted, Blocks
    <2> QED
      BY <2>1, <2>3, <2>4 DEF ArgsInv
  <1>5. PlacedInv'
    BY PlacedInvStutters DEF ConstructionInv
  <1>6. DefinitionsWrite'
    BY <1>1, <1>2 DEF ConstructionInv, DefinitionsWrite, WrittenBy
  <1>7. UsesOfPass' /\ UsesLatest'
    <2>1. UsesOfPass /\ UsesLatest
      BY DEF ConstructionInv, ReadsInv
    <2>2. UsesOfPass'
      BY <1>1, <2>1 DEF UsesOfPass, Blocks, Early, NamesOf
    <2>3. ASSUME NEW b \in Blocks, NEW i \in DOMAIN code[b], code[b][i].idiom = 0,
                 NEW u \in ToSet(code[b][i].uses), u.sub # NO_SUBSCRIPT
          PROVE  Latest(u.name, u.sub, b, i)'
      <3>1. PICK n, s : n = u.name /\ s = u.sub
        OBVIOUS
      <3>2. Latest(n, s, b, i)
        BY <2>1, <2>3, <3>1 DEF UsesLatest
      <3>3. Latest(n, s, b, i)'
        BY <1>3, <3>2
      <3> QED
        BY <3>1, <3>3
    <2> QED
      BY <1>1, <1>2, <2>2, <2>3 DEF UsesLatest
  <1>8. ArgsLatest'
    <2>1. ArgsLatest
      BY DEF ConstructionInv, ReadsInv
    <2>2. ASSUME NEW b \in Blocks, NEW i \in DOMAIN code[b], NEW a \in ToSet(code[b][i].args), a.sub # NO_SUBSCRIPT,
                 NEW e \in Nat, AtEnd(a.source, e)'
          PROVE  Latest(code[b][i].defs[1].name, a.sub, a.source, e)'
      <3>1. PICK n, s, c : n = code[b][i].defs[1].name /\ s = a.sub /\ c = a.source
        OBVIOUS
      <3>2. AtEnd(a.source, e)
        BY <1>1, <2>2 DEF AtEnd
      <3>3. Latest(n, s, c, e)
        BY <2>1, <2>2, <3>1, <3>2 DEF ArgsLatest
      <3>4. Latest(n, s, c, e)'
        BY <1>3, <3>3
      <3>5. code'[b][i].defs[1].name = n
        BY <1>1, <3>1
      <3> QED
        BY <3>1, <3>4, <3>5
    <2> QED
      BY <1>1, <1>2, <2>2 DEF ArgsLatest
  <1>9. StackLatest'
    <2>1. StackLatest
      BY DEF ConstructionInv, ReadsInv
    <2>2. SUFFICES ASSUME stage = "rename"
                   PROVE  /\ (\E height : SeesLatest(height))'
                          /\ \A j \in 1 .. Len(frames) : frames[j].filled =>
                               \A k \in DOMAIN code[frames[j].block] : k < frames[j].next
      BY <1>1 DEF StackLatest
    <2>3. PICK height : SeesLatest(height)
      BY <2>1, <2>2 DEF StackLatest
    <2>4. ASSUME NEW j \in 1 .. Len(frames), NEW n \in names
          PROVE  Latest(n, stack[n][height[j][n]], frames[j].block, frames[j].next)'
      <3>1. PICK s, b, i : s = stack[n][height[j][n]] /\ b = frames[j].block /\ i = frames[j].next
        OBVIOUS
      <3>2. Latest(n, s, b, i)
        BY <2>3, <3>1 DEF SeesLatest
      <3>3. Latest(n, s, b, i)'
        BY <1>3, <3>2
      <3>4. s = stack'[n][height[j][n]] /\ b = frames'[j].block /\ i = frames'[j].next
        BY <1>1, <3>1
      <3> QED
        BY <3>3, <3>4
    <2>5. SeesLatest(height)'
      BY <1>1, <2>3, <2>4 DEF SeesLatest
    <2> QED
      BY <2>1, <2>2, <2>5 DEF StackLatest
  <1>10. RenamedSoFar' /\ UsesGiven'
    BY <1>1 DEF ConstructionInv, RenamedSoFar, UsesGiven, Passed, Remaining, WaitsIn, RenamingDone, NamesOf, Unwritten,
                WrittenBy, Blocks
  <1>11. EmptyArguments'
    BY <1>1, <1>2 DEF ConstructionInv, EmptyArguments
  <1> QED
    BY <1>4, <1>5, <1>6, <1>7, <1>8, <1>9, <1>10, <1>11 DEF ConstructionInv, ReadsInv

\* Every step keeps all of it.
LEMMA NextKeepsConstruction == ConstructionInv /\ [Next]_<<vars, machine>> => ConstructionInv'
PROOF
  <1> SUFFICES ASSUME ConstructionInv, [Next]_<<vars, machine>> PROVE ConstructionInv'
    OBVIOUS
  <1>1. CASE Construct
    <2>1. UsesInv /\ NamesInv
      BY DEF ConstructionInv, ArgsInv, PlacedInv
    <2> QED
      BY <1>1, <2>1, ConstructKeepsArgs, ConstructKeepsPlaced, ConstructKeepsDefinitions, ConstructKeepsReads,
         ConstructKeepsRenamed, ConstructKeepsGiven, ConstructKeepsEmpty DEF ConstructionInv
  <1>2. CASE UNCHANGED vars
    BY <1>2, ConstructionInvStutters
  <1> QED
    BY <1>1, <1>2 DEF Next

-----------------------------------------------------------------------------
(* The run, when the construction is over.                                 *)

AllMentioned == UNION {Mentioned(inst.uses) \cup Mentioned(inst.defs) : inst \in Instructions}

\* Before a, i a name is marked if its latest version is; one that nothing
\* writes if it is without a subscript; names that are related if one is.
MarksRight(a, i, M, V) ==
  /\ \A n \in AllMentioned : \A s \in Nat : Latest(n, s, a, i) => (n \in M <=> <<n, s>> \in V)
  /\ \A n \in Names : Unwritten(n) => (n \in M <=> <<n, NO_SUBSCRIPT>> \in V)
  /\ \A n \in AllMentioned : \A inst \in Instructions : \A m \in Mentioned(inst.defs) \cap Related[n] :
       m \in M <=> n \in M

\* An instruction of a block.
LEMMA InstructionAt ==
  ASSUME NEW inst
  PROVE  inst \in Instructions <=> \E b \in Blocks : \E i \in DOMAIN code[b] : inst = code[b][i]
PROOF
  BY DEF Instructions, ToSet

\* What is mentioned is a name.
LEMMA AllAreNames == NamesKnown => AllMentioned \subseteq Names
PROOF
  <1> SUFFICES ASSUME NamesKnown, NEW inst \in Instructions
               PROVE  Mentioned(inst.uses) \cup Mentioned(inst.defs) \subseteq Names
    BY DEF AllMentioned
  <1>1. PICK b \in Blocks : \E i \in DOMAIN code[b] : inst = code[b][i]
    BY InstructionAt
  <1> QED
    BY <1>1 DEF NamesKnown

\* The versions of an instruction are those of the names it writes.
LEMMA VersionsWritten ==
  ASSUME UsesInv, DefinitionsWrite, NEW b \in Blocks, NEW i \in DOMAIN code[b], NEW n, NEW s,
         <<n, s>> \in VersionsOf(code[b][i])
  PROVE  n \in WrittenBy(code[b][i]) /\ s \in Nat \ {0}
PROOF
  <1>1. PICK d \in definitions : d[3] = code[b][i].id /\ n = d[1] /\ s = d[2]
    BY DEF VersionsOf
  <1>2. d[2] \in Nat \ {0}
    BY <1>1 DEF DefinitionsWrite
  <1>3. PICK c \in Blocks : \E k \in DOMAIN code[c] : code[c][k].id = d[3] /\ d[1] \in WrittenBy(code[c][k])
    BY <1>1 DEF DefinitionsWrite
  <1>4. PICK k \in DOMAIN code[c] : code[c][k].id = d[3] /\ d[1] \in WrittenBy(code[c][k])
    BY <1>3
  <1>5. code[c][k].id[1] = c /\ code[b][i].id[1] = b
    BY DEF UsesInv, Shaped, Shape
  <1>6. c = b
    BY <1>1, <1>4, <1>5
  <1>7. k = i
    BY <1>1, <1>4, <1>6 DEF UsesInv, IdsDiffer
  <1> QED
    BY <1>1, <1>2, <1>4, <1>6, <1>7

\* A version of an instruction is the version of no other.
LEMMA VersionsDiffer ==
  ASSUME UsesInv, NEW b \in Blocks, NEW i \in DOMAIN code[b], NEW j \in DOMAIN code[b], NEW n, NEW s,
         <<n, s>> \in VersionsOf(code[b][j]), <<n, s, code[b][i].id>> \in definitions
  PROVE  i = j
PROOF
  <1>1. PICK d \in definitions : d[3] = code[b][j].id /\ n = d[1] /\ s = d[2]
    BY DEF VersionsOf
  <1>2. PICK e \in definitions : e = <<n, s, code[b][i].id>>
    OBVIOUS
  <1>3. e[1] = d[1] /\ e[2] = d[2] /\ e[3] = code[b][i].id
    BY <1>1, <1>2
  <1>4. d[3] = e[3]
    BY <1>3 DEF UsesInv, IInv, SingleAssignment
  <1> QED
    BY <1>1, <1>3, <1>4 DEF UsesInv, IdsDiffer

\* A definition is a version of its instruction.
LEMMA DefinitionIsVersion ==
  ASSUME NEW inst, NEW n, NEW s, <<n, s, inst.id>> \in definitions
  PROVE  <<n, s>> \in VersionsOf(inst)
PROOF
  <1>1. PICK d \in definitions : d = <<n, s, inst.id>>
    OBVIOUS
  <1>2. d[1] = n /\ d[2] = s /\ d[3] = inst.id
    BY <1>1
  <1> QED
    BY <1>2 DEF VersionsOf

\* Behind an instruction of its block that writes the name, the latest version is
\* of that instruction or of one after it.
LEMMA LatestIsLast ==
  ASSUME CodeOK, NEW n, NEW s, NEW b \in Reached(program), NEW i, Latest(n, s, b, i),
         NEW j \in DOMAIN code[b], j < i, n \in WrittenBy(code[b][j])
  PROVE  \E k \in DOMAIN code[b] : k < i /\ j < k + 1 /\ <<n, s, code[b][k].id>> \in definitions
PROOF
  <1>1. IsGraph(program) /\ b \in Blocks /\ Before(b, j, b, i)
    BY ProgramIsGraph DEF Before
  <1>2. PICK d \in Blocks : \E k \in DOMAIN code[d] :
       /\ n \in WrittenBy(code[d][k]) /\ <<n, s, code[d][k].id>> \in definitions /\ Before(d, k, b, i)
       /\ \A e \in Blocks : \A l \in DOMAIN code[e] :
            n \in WrittenBy(code[e][l]) /\ Before(e, l, b, i) => Before(e, l, d, k + 1)
    BY <1>1 DEF Latest
  <1>3. PICK k \in DOMAIN code[d] :
       /\ n \in WrittenBy(code[d][k]) /\ <<n, s, code[d][k].id>> \in definitions /\ Before(d, k, b, i)
       /\ \A e \in Blocks : \A l \in DOMAIN code[e] :
            n \in WrittenBy(code[e][l]) /\ Before(e, l, b, i) => Before(e, l, d, k + 1)
    BY <1>2
  <1>4. Before(b, j, d, k + 1)
    BY <1>1, <1>3
  <1>5. d = b
    <2>1. SUFFICES ASSUME d # b PROVE FALSE
      OBVIOUS
    <2>2. Dominates(program, d, b) /\ Dominates(program, b, d)
      BY <1>3, <1>4, <2>1 DEF Before
    <2> QED
      BY <1>1, <2>1, <2>2, DominatesAntisymmetric
  <1> QED
    BY <1>3, <1>4, <1>5 DEF Before

\* The run of an instruction.
LEMMA InstructionKeepsMarks ==
  ASSUME ConstructionInv, WrittenTogether, NEW a \in Reached(program), NEW i \in DOMAIN code[a], NEW M, NEW V,
         MarksRight(a, i, M, V), NEW mark \in BOOLEAN, NEW N, NEW U,
         N = (M \ WrittenBy(code[a][i])) \cup (IF mark THEN WrittenBy(code[a][i]) ELSE {}),
         U = (V \ VersionsOf(code[a][i])) \cup (IF mark THEN VersionsOf(code[a][i]) ELSE {})
  PROVE  MarksRight(a, i + 1, N, U)
PROOF
  <1>1. UsesInv /\ CodeOK /\ DefinitionsWrite /\ a \in Blocks
    BY ProgramIsGraph DEF ConstructionInv, ArgsInv, UsesInv, IInv
  <1>2. (\A j \in DOMAIN code[a] : j \in Nat) /\ i \in Nat
    BY <1>1 DEF CodeOK
  <1>3. PICK x : x = code[a][i]
    OBVIOUS
  <1>4. x \in Instructions
    BY <1>1, <1>3, InstructionAt
  <1>5. \A n : n \in N <=> IF n \in WrittenBy(x) THEN mark ELSE n \in M
    BY <1>3
  <1>6. \A v : v \in U <=> IF v \in VersionsOf(x) THEN mark ELSE v \in V
    BY <1>3
  <1>7. ASSUME NEW n \in AllMentioned, NEW s \in Nat, Latest(n, s, a, i + 1)
        PROVE  n \in N <=> <<n, s>> \in U
    <2>1. CASE n \in WrittenBy(x)
      <3>1. PICK k \in DOMAIN code[a] : k < i + 1 /\ i < k + 1 /\ <<n, s, code[a][k].id>> \in definitions
        <4>1. i < i + 1 /\ n \in WrittenBy(code[a][i])
          BY <1>2, <1>3, <2>1
        <4> QED
          BY <1>1, <1>7, <4>1, LatestIsLast
      <3>2. k = i
        BY <1>2, <3>1
      <3>3. <<n, s>> \in VersionsOf(x)
        BY <1>3, <3>1, <3>2, DefinitionIsVersion
      <3> QED
        BY <1>5, <1>6, <2>1, <3>3
    <2>2. CASE n \notin WrittenBy(x)
      <3>1. Latest(n, s, a, i)
        BY <1>1, <1>2, <1>3, <1>7, <2>2, LatestGoesOn
      <3>2. <<n, s>> \notin VersionsOf(x)
        BY <1>1, <1>3, <2>2, VersionsWritten
      <3>3. n \in M <=> <<n, s>> \in V
        BY <3>1 DEF MarksRight
      <3> QED
        BY <1>5, <1>6, <2>2, <3>2, <3>3
    <2> QED
      BY <2>1, <2>2
  <1>8. ASSUME NEW n \in Names, Unwritten(n)
        PROVE  n \in N <=> <<n, NO_SUBSCRIPT>> \in U
    <2>1. n \notin WrittenBy(x)
      BY <1>1, <1>3, <1>8 DEF Unwritten
    <2>2. <<n, NO_SUBSCRIPT>> \notin VersionsOf(x)
      BY <1>1, <1>3, <2>1, VersionsWritten
    <2>3. n \in M <=> <<n, NO_SUBSCRIPT>> \in V
      BY <1>8 DEF MarksRight
    <2> QED
      BY <1>5, <1>6, <2>1, <2>2, <2>3
  <1>9. ASSUME NEW n \in AllMentioned, NEW inst \in Instructions, NEW m \in Mentioned(inst.defs) \cap Related[n]
        PROVE  m \in N <=> n \in N
    <2>1. m \in M <=> n \in M
      BY DEF MarksRight
    <2>2. m \in WrittenBy(x) <=> n \in WrittenBy(x)
      <3>1. PICK user \in Instructions : n \in Mentioned(user.uses) \cup Mentioned(user.defs)
        BY DEF AllMentioned
      <3> QED
        BY <1>4, <3>1 DEF WrittenTogether
    <2> QED
      BY <1>5, <2>1, <2>2
  <1> QED
    BY <1>7, <1>8, <1>9 DEF MarksRight

\* Behind the end of a block is what its dominators write.
LEMMA EndOfBlock ==
  ASSUME NEW a, NEW i, AtEnd(a, i), NEW e, NEW j \in DOMAIN code[e]
  PROVE  Before(e, j, a, i) <=> Dominates(program, e, a)
PROOF
  <1>1. CASE e = a
    <2>1. Dominates(program, e, a)
      BY <1>1 DEF Dominates
    <2> QED
      BY <1>1, <2>1 DEF AtEnd, Before
  <1>2. CASE e # a
    BY <1>2 DEF Before
  <1> QED
    BY <1>1, <1>2

\* The frontier of a block that writes a name has a phi function that writes it.
LEMMA FrontierHasPhi ==
  ASSUME ConstructionInv, stage = "done", NEW e \in Reached(program), NEW j \in DOMAIN code[e],
         NEW n \in WrittenBy(code[e][j]), NEW y \in FrontierOf(program, e)
  PROVE  \E k \in DOMAIN code[y] : IsPhi(code[y][k]) /\ n \in WrittenBy(code[y][k])
PROOF
  <1>1. UsesInv /\ CodeOK /\ e \in Blocks
    BY ProgramIsGraph DEF ConstructionInv, ArgsInv, UsesInv, IInv
  <1>2. PICK m \in Mentioned(code[e][j].defs) : n = m \/ n \in Related[m]
    BY WrittenNames
  <1>3. m \in Names
    BY <1>1 DEF ConstructionInv, PlacedInv, NamesInv, NamesKnown
  <1>4. y \in frontier[e] /\ y \in Blocks
    BY <1>1 DEF ConstructionInv, PlacedInv, FrontiersRight, FrontierOf, Blocks
  <1>5. HasPhi(m, y)
    BY <1>1, <1>3, <1>4 DEF ConstructionInv, PlacedInv, PhisPlaced, PlacingDone, PlacedFor
  <1>6. PICK k \in DOMAIN code[y] : IsPhi(code[y][k]) /\ code[y][k].defs[1].name = m
    BY <1>5 DEF HasPhi
  <1>7. m \in Mentioned(code[y][k].defs)
    BY <1>1, <1>4, <1>6 DEF UsesInv, Shaped, Shape, Mentioned
  <1>8. n \in WrittenBy(code[y][k])
    BY <1>2, <1>7, WrittenNames
  <1> QED
    BY <1>6, <1>8

\* The phi functions of a block are those before the rest of it.
LEMMA PhisLeadBlock ==
  ASSUME CodeOK, PhisLead, NEW b \in Blocks, NEW j \in DOMAIN code[b]
  PROVE  /\ IsPhi(code[b][j]) <=> j < LeadingPhis(code[b]) + 1
         /\ LeadingPhis(code[b]) \in Nat /\ j \in Nat \ {0}
PROOF
  <1>1. PICK S : code[b] \in Seq(S)
    BY DEF CodeOK
  <1>2. PICK s : s = code[b] /\ s \in Seq(S)
    BY <1>1
  <1>3. PICK l \in Nat : l = LeadingPhis(s)
    BY <1>2, LeadingPhisInRange
  <1>4. j \in Nat \ {0}
    BY <1>2
  <1>5. IsPhi(s[j]) => j \in 1 .. l
    <2>1. LedByPhis(s)
      BY <1>2 DEF PhisLead
    <2> QED
      BY <1>2, <1>3, <2>1, AllLead
  <1>6. j \in 1 .. l => IsPhi(s[j])
    BY <1>2, <1>3, LeadingPhisArePhis
  <1>7. j \in 1 .. l <=> j < l + 1
    BY <1>3, <1>4
  <1> QED
    BY <1>2, <1>3, <1>4, <1>5, <1>6, <1>7

\* A name that no phi function of a block writes has behind them the version it
\* has at the end of each predecessor.
LEMMA NothingMerges ==
  ASSUME ConstructionInv, stage = "done", NEW a \in Reached(program), NEW i, AtEnd(a, i), NEW b \in Succs(program, a),
         NEW n, NEW s, Latest(n, s, b, LeadingPhis(code[b]) + 1),
         \A k \in DOMAIN code[b] : IsPhi(code[b][k]) => n \notin WrittenBy(code[b][k])
  PROVE  Latest(n, s, a, i)
PROOF
  <1>1. CodeOK /\ PhisLead /\ IsGraph(program) /\ Reached(program) \subseteq Blocks
    BY ProgramIsGraph DEF ConstructionInv, ArgsInv, UsesInv, IInv
  <1>2. <<a, b>> \in program.edges /\ a \in Blocks /\ b \in Blocks /\ a \in Preds(program, b)
    BY <1>1 DEF Succs, Preds, Blocks
  <1>3. PICK l : l = LeadingPhis(code[b]) + 1
    OBVIOUS
  <1>4. ASSUME NEW e \in Blocks, NEW j \in DOMAIN code[e], n \in WrittenBy(code[e][j])
        PROVE  Before(e, j, b, l) <=> Before(e, j, a, i)
    <2>1. Before(e, j, a, i) <=> Dominates(program, e, a)
      BY EndOfBlock
    <2>2. Before(e, j, b, l) <=> e # b /\ Dominates(program, e, b)
      <3>1. e = b => ~ j < l
        BY <1>1, <1>2, <1>3, <1>4, PhisLeadBlock
      <3> QED
        BY <3>1 DEF Before
    <2>3. Dominates(program, e, a) => e # b /\ Dominates(program, e, b)
      <3>1. SUFFICES ASSUME Dominates(program, e, a), ~ (e # b /\ Dominates(program, e, b)) PROVE FALSE
        OBVIOUS
      <3>2. e \in Reached(program)
        BY <1>1, <3>1, DominatorReached
      <3>3. b \in FrontierOf(program, e)
        BY <1>2, <3>1 DEF FrontierOf, Blocks
      <3> QED
        BY <1>4, <3>2, <3>3, FrontierHasPhi
    <2>4. e # b /\ Dominates(program, e, b) => Dominates(program, e, a)
      BY <1>1, <1>2, DominatesPredecessors
    <2> QED
      BY <2>1, <2>2, <2>3, <2>4
  <1>5. Latest(n, s, b, l)
    BY <1>3
  <1> QED
    BY <1>4, <1>5, SameWritesBefore

\* The argument of a phi function for a predecessor.
LEMMA OneArgument ==
  ASSUME ConstructionInv, stage = "done", NEW a \in Reached(program), NEW b \in Succs(program, a),
         NEW k \in DOMAIN code[b], IsPhi(code[b][k])
  PROVE  \E x \in ToSet(code[b][k].args) :
           /\ x.source = a /\ x.sub # NO_SUBSCRIPT
           /\ \A y \in ToSet(code[b][k].args) : y.source = a => y = x
PROOF
  <1>1. CodeOK /\ Reached(program) \subseteq Blocks /\ FilledSoFar
    BY ProgramIsGraph DEF ConstructionInv, ArgsInv, UsesInv, IInv
  <1>2. b \in Blocks /\ a \in PredsReached(b) /\ a # -1
    BY <1>1 DEF Succs, Preds, PredsReached, Blocks, Vertices
  <1>3. PICK phi : phi = code[b][k] /\ PhiFilled(phi, b)
    BY <1>1, <1>2 DEF FilledSoFar
  <1>4. Sources(b, phi.defs[1].name) = PredsReached(b)
    BY DEF Sources
  <1>5. PICK l \in DOMAIN phi.args : IsFilled(phi.args[l]) /\ phi.args[l].source = a
    BY <1>2, <1>3, <1>4 DEF PhiFilled, HasSources
  <1>6. ASSUME NEW y \in ToSet(phi.args), y.source = a
        PROVE  y = phi.args[l]
    <2>1. PICK q \in DOMAIN phi.args : y = phi.args[q]
      BY DEF ToSet
    <2>2. IsFilled(y)
      BY <1>2, <1>3, <1>6 DEF ConstructionInv, EmptyArguments, IsFilled
    <2>3. q = l
      BY <1>3, <1>5, <1>6, <2>1, <2>2 DEF PhiFilled, HasSources
    <2> QED
      BY <2>1, <2>3
  <1>7. phi.args[l] \in ToSet(phi.args)
    BY DEF ToSet
  <1> QED
    BY <1>3, <1>5, <1>6, <1>7 DEF IsFilled

\* A version is a number.
LEMMA LatestNumber ==
  ASSUME DefinitionsWrite, NEW n, NEW s, NEW b, NEW i, Latest(n, s, b, i)
  PROVE  s \in Nat
PROOF
  <1>1. s = 0 \/ \E id : <<n, s, id>> \in definitions
    BY DEF Latest
  <1>2. ASSUME NEW id, <<n, s, id>> \in definitions
        PROVE  s \in Nat
    <2>1. PICK d \in definitions : d = <<n, s, id>>
      BY <1>2
    <2>2. d[2] = s /\ d[2] \in Nat
      BY <2>1 DEF DefinitionsWrite
    <2> QED
      BY <2>2
  <1>3. CASE s = 0
    BY <1>3
  <1>4. CASE \E id : <<n, s, id>> \in definitions
    BY <1>2, <1>4
  <1> QED
    BY <1>1, <1>3, <1>4

\* Where a phi function writes a name, its argument for the predecessor has the
\* version of its own name there.
LEMMA PhiMerges ==
  ASSUME ConstructionInv, stage = "done", NEW a \in Reached(program), NEW i \in Nat, AtEnd(a, i),
         NEW b \in Succs(program, a), NEW M, NEW V, MarksRight(a, i, M, V),
         NEW k \in DOMAIN code[b], IsPhi(code[b][k]), NEW n \in AllMentioned, n \in WrittenBy(code[b][k])
  PROVE  n \in M <=> Argument(code[b][k], a) \cap V # {}
PROOF
  <1>1. UsesInv /\ DefinitionsWrite /\ b \in Blocks
    BY DEF ConstructionInv, ArgsInv, Succs, Blocks
  <1>2. PICK phi : phi = code[b][k]
    OBVIOUS
  <1>3. PICK m : m = phi.defs[1].name
    OBVIOUS
  <1>4. DOMAIN phi.defs = {1}
    BY <1>1, <1>2 DEF UsesInv, Shaped, Shape
  <1>5. Mentioned(phi.defs) = {m} /\ phi \in Instructions
    BY <1>1, <1>2, <1>3, <1>4, InstructionAt DEF Mentioned
  <1>6. m \in AllMentioned
    BY <1>5 DEF AllMentioned
  <1>7. m \in Names /\ n \in Names
    BY <1>6, AllAreNames DEF ConstructionInv, PlacedInv, NamesInv
  <1>8. n = m \/ n \in Related[m]
    BY <1>2, <1>5, WrittenNames
  <1>9. n \in M <=> m \in M
    <2>1. CASE n \in Related[m]
      <3>1. m \in Related[n]
        BY <1>7, <2>1, NamesAssumption
      <3> QED
        BY <1>5, <3>1 DEF MarksRight
    <2> QED
      BY <1>8, <2>1
  <1>10. PICK x \in ToSet(phi.args) :
           /\ x.source = a /\ x.sub # NO_SUBSCRIPT
           /\ \A y \in ToSet(phi.args) : y.source = a => y = x
    BY <1>2, OneArgument
  <1>11. Argument(phi, a) = {<<m, x.sub>>}
    BY <1>3, <1>10 DEF Argument
  <1>12. PICK s : s = x.sub
    OBVIOUS
  <1>13. Latest(m, s, a, i)
    BY <1>1, <1>2, <1>3, <1>10, <1>12 DEF ConstructionInv, ReadsInv, ArgsLatest
  <1>14. s \in Nat
    BY <1>1, <1>13, LatestNumber
  <1>15. m \in M <=> <<m, s>> \in V
    BY <1>6, <1>13, <1>14 DEF MarksRight
  <1> QED
    BY <1>2, <1>9, <1>11, <1>12, <1>15

\* What has the marked write when the phi functions of b have read their
\* arguments for a.
Entered(b, a, V) ==
  (V \ UNION {VersionsOf(phi) : phi \in Phis(b)})
     \cup UNION {VersionsOf(phi) : phi \in {p \in Phis(b) : Argument(p, a) \cap V # {}}}

\* A branch to a block, whose phi functions read the arguments for it.
LEMMA JumpKeepsMarks ==
  ASSUME ConstructionInv, stage = "done", NEW a \in Reached(program), NEW i \in Nat, AtEnd(a, i),
         NEW b \in Succs(program, a), NEW M, NEW V, MarksRight(a, i, M, V)
  PROVE  b \in Reached(program) /\ MarksRight(b, LeadingPhis(code[b]) + 1, M, Entered(b, a, V))
PROOF
  <1>0. PICK U : U = Entered(b, a, V)
    OBVIOUS
  <1>1. /\ UsesInv /\ CodeOK /\ DefinitionsWrite /\ PhisLead /\ IsGraph(program)
        /\ Reached(program) \subseteq Blocks
    BY ProgramIsGraph DEF ConstructionInv, ArgsInv, UsesInv, IInv
  <1>2. b \in Reached(program) /\ b \in Blocks
    <2>1. Closed(program, Reached(program))
      BY <1>1, ReachedClosed
    <2>2. <<a, b>> \in program.edges
      BY DEF Succs
    <2>3. PICK e \in program.edges : e = <<a, b>>
      BY <2>2
    <2> QED
      BY <1>1, <2>1, <2>3 DEF Closed
  <1>3. PICK l : l = LeadingPhis(code[b]) + 1
    OBVIOUS
  <1>4. \A p : p \in Phis(b) <=> \E k \in DOMAIN code[b] : p = code[b][k] /\ IsPhi(code[b][k])
    BY DEF Phis, ToSet
  <1>5. \A v : v \in U <=> \/ v \in V /\ \A p \in Phis(b) : v \notin VersionsOf(p)
                           \/ \E p \in Phis(b) : v \in VersionsOf(p) /\ Argument(p, a) \cap V # {}
    BY <1>0 DEF Entered
  <1>6. ASSUME NEW n, NEW s, \A p \in Phis(b) : <<n, s>> \notin VersionsOf(p)
        PROVE  <<n, s>> \in U <=> <<n, s>> \in V
    BY <1>5, <1>6
  <1>7. ASSUME NEW n \in AllMentioned, NEW s \in Nat, Latest(n, s, b, l)
        PROVE  n \in M <=> <<n, s>> \in U
    <2>1. CASE \A k \in DOMAIN code[b] : IsPhi(code[b][k]) => n \notin WrittenBy(code[b][k])
      <3>1. Latest(n, s, a, i)
        BY <1>3, <1>7, <2>1, NothingMerges
      <3>2. \A p \in Phis(b) : <<n, s>> \notin VersionsOf(p)
        BY <1>1, <1>2, <1>4, <2>1, VersionsWritten
      <3> QED
        BY <1>6, <3>1, <3>2 DEF MarksRight
    <2>2. CASE \E k \in DOMAIN code[b] : IsPhi(code[b][k]) /\ n \in WrittenBy(code[b][k])
      <3>1. PICK j \in DOMAIN code[b] : IsPhi(code[b][j]) /\ n \in WrittenBy(code[b][j])
        BY <2>2
      <3>2. j < l
        BY <1>1, <1>2, <1>3, <3>1, PhisLeadBlock
      <3>3. PICK k \in DOMAIN code[b] : k < l /\ j < k + 1 /\ <<n, s, code[b][k].id>> \in definitions
        BY <1>1, <1>2, <1>7, <3>1, <3>2, LatestIsLast
      <3>4. IsPhi(code[b][k])
        BY <1>1, <1>2, <1>3, <3>3, PhisLeadBlock
      <3>5. <<n, s>> \in VersionsOf(code[b][k])
        BY <3>3, DefinitionIsVersion
      <3>6. n \in WrittenBy(code[b][k])
        BY <1>1, <1>2, <3>5, VersionsWritten
      <3>7. n \in M <=> Argument(code[b][k], a) \cap V # {}
        BY <3>4, <3>6, PhiMerges
      <3>8. PICK phi : phi = code[b][k] /\ phi \in Phis(b) /\ <<n, s>> \in VersionsOf(phi)
        BY <1>4, <3>4, <3>5
      <3>9. ASSUME NEW p \in Phis(b), <<n, s>> \in VersionsOf(p)
            PROVE  p = phi
        <4>1. PICK q \in DOMAIN code[b] : p = code[b][q]
          BY <1>4
        <4>2. k = q
          BY <1>1, <1>2, <3>3, <3>9, <4>1, VersionsDiffer
        <4> QED
          BY <3>8, <4>1, <4>2
      <3> QED
        BY <1>5, <3>7, <3>8, <3>9
    <2> QED
      BY <2>1, <2>2
  <1>8. ASSUME NEW n \in Names, Unwritten(n)
        PROVE  n \in M <=> <<n, NO_SUBSCRIPT>> \in U
    <2>1. \A p \in Phis(b) : <<n, NO_SUBSCRIPT>> \notin VersionsOf(p)
      BY <1>1, <1>2, <1>4, <1>8, VersionsWritten DEF Unwritten
    <2> QED
      BY <1>6, <1>8, <2>1 DEF MarksRight
  <1>9. \A n \in AllMentioned : \A inst \in Instructions : \A m \in Mentioned(inst.defs) \cap Related[n] :
          m \in M <=> n \in M
    BY DEF MarksRight
  <1> QED
    BY <1>0, <1>2, <1>3, <1>7, <1>8, <1>9 DEF MarksRight

\* The call of the function, which writes every name.
LEMMA StartSetsMarks ==
  ASSUME ConstructionInv, EntryNotTarget(program), NEW mark \in BOOLEAN, NEW M, NEW V,
         M = (IF mark THEN Names ELSE {}), V = (IF mark THEN Names \X {0, NO_SUBSCRIPT} ELSE {})
  PROVE  Phis(0) = {} /\ MarksRight(0, LeadingPhis(code[0]) + 1, M, V)
PROOF
  <1>1. CodeOK /\ PhisLead /\ 0 \in Blocks
    BY ProgramIsGraph DEF ConstructionInv, ArgsInv, UsesInv, IInv
  <1>2. \A k \in DOMAIN code[0] : ~ IsPhi(code[0][k])
    BY <1>1 DEF ConstructionInv, PlacedInv, PhisHavePreds, EntryNotTarget
  <1>3. Phis(0) = {}
    BY <1>2 DEF Phis, ToSet
  <1>4. PICK l : l = LeadingPhis(code[0]) + 1
    OBVIOUS
  <1>5. ASSUME NEW n \in AllMentioned, NEW s, Latest(n, s, 0, l)
        PROVE  s = 0
    <2>1. ASSUME NEW d \in Blocks, NEW k \in DOMAIN code[d], Before(d, k, 0, l)
          PROVE  Before(d, k, 0, 1)
      <3>1. d # 0
        BY <1>1, <1>2, <1>4, <2>1, PhisLeadBlock DEF Before
      <3> QED
        BY <2>1, <3>1 DEF Before
    <2>2. \A d \in Blocks : \A k \in DOMAIN code[d] : ~ Before(d, k, 0, 1)
      BY <1>1, EntryHasNoWrite
    <2> QED
      BY <1>5, <2>1, <2>2 DEF Latest
  <1>6. AllMentioned \subseteq Names
    BY AllAreNames DEF ConstructionInv, PlacedInv, NamesInv
  <1>7. ASSUME NEW n \in AllMentioned, NEW s \in Nat, Latest(n, s, 0, l)
        PROVE  n \in M <=> <<n, s>> \in V
    BY <1>5, <1>6, <1>7
  <1>8. \A n \in Names : n \in M <=> <<n, NO_SUBSCRIPT>> \in V
    OBVIOUS
  <1>9. ASSUME NEW n \in AllMentioned, NEW inst \in Instructions, NEW m \in Mentioned(inst.defs) \cap Related[n]
        PROVE  m \in M <=> n \in M
    <2>1. m \in Names /\ n \in Names
      BY <1>6 DEF AllMentioned
    <2> QED
      BY <2>1
  <1> QED
    BY <1>3, <1>4, <1>7, <1>8, <1>9 DEF MarksRight

\* The function runs when the construction is over, and the marks are right.
RunInv ==
  at # -1 =>
    /\ stage = "done" /\ at \in Reached(program) /\ next \in Nat \ {0}
    /\ EntryNotTarget(program) /\ WrittenTogether => MarksRight(at, next, marks, versions)

\* A step of the run changes nothing of the construction.
LEMMA MarksKept ==
  ASSUME UNCHANGED vars
  PROVE  MarksRight(at, next, marks, versions)' <=> MarksRight(at', next', marks', versions')
PROOF
  <1>1. UNCHANGED <<program, code, stage, definitions>>
    BY DEF vars, renaming
  <1>2. PICK a, i, M, V : a = at' /\ i = next' /\ M = marks' /\ V = versions'
    OBVIOUS
  <1>3. Blocks' = Blocks /\ (\A x : WrittenBy(x)' = WrittenBy(x)) /\ Instructions' = Instructions
    BY <1>1 DEF Blocks, WrittenBy, Instructions
  <1>4. \A n, s : Latest(n, s, at, next)' <=> Latest(n, s, a, i)
    BY <1>1, <1>2, <1>3 DEF Latest, Before, WrittenBy
  <1>5. AllMentioned' = AllMentioned /\ \A n : Unwritten(n)' <=> Unwritten(n)
    BY <1>1, <1>3 DEF AllMentioned, Unwritten, WrittenBy
  <1>6. MarksRight(at, next, marks, versions)' <=> MarksRight(a, i, M, V)
    BY <1>2, <1>3, <1>4, <1>5 DEF MarksRight
  <1> QED
    BY <1>2, <1>6

\* What is asked of the function, and where it runs, is kept.
LEMMA RunKept ==
  ASSUME UNCHANGED vars, stage = "done", at' \in Reached(program), next' \in Nat \ {0},
         EntryNotTarget(program) /\ WrittenTogether => MarksRight(at', next', marks', versions')
  PROVE  RunInv'
PROOF
  <1>1. UNCHANGED <<program, code, stage, definitions>>
    BY DEF vars, renaming
  <1>2. WrittenTogether' <=> WrittenTogether
    BY <1>1 DEF WrittenTogether, Instructions, Blocks, WrittenBy
  <1>3. MarksRight(at, next, marks, versions)' <=> MarksRight(at', next', marks', versions')
    BY MarksKept
  <1> HIDE DEF MarksRight
  <1> QED
    BY <1>1, <1>2, <1>3 DEF RunInv

\* Each step of the run.
LEMMA StepsKeepRun ==
  ConstructionInv /\ RunInv /\ (Jump \/ \E mark \in BOOLEAN : Start(mark) \/ RunInstruction(mark)) /\ UNCHANGED vars => RunInv'
PROOF
  <1> SUFFICES ASSUME ConstructionInv, RunInv, Jump \/ \E mark \in BOOLEAN : Start(mark) \/ RunInstruction(mark),
                      UNCHANGED vars
               PROVE  RunInv'
    OBVIOUS
  <1>1. CodeOK /\ IsGraph(program) /\ 0 \in Reached(program) /\ Reached(program) \subseteq Blocks
    BY ProgramIsGraph DEF ConstructionInv, ArgsInv, UsesInv, IInv
  <1>2. ASSUME NEW b \in Blocks
        PROVE  LeadingPhis(code[b]) + 1 \in Nat \ {0}
    <2>1. PICK S : code[b] \in Seq(S)
      BY <1>1 DEF CodeOK
    <2>2. PICK l \in Nat : l = LeadingPhis(code[b])
      BY <2>1, LeadingPhisInRange
    <2> QED
      BY <2>2
  <1>3. CASE Jump
    <2>1. stage = "done" /\ at # -1 /\ next > Len(code[at]) /\ marks' = marks
      BY <1>3 DEF Jump
    <2>2. at \in Reached(program) /\ next \in Nat \ {0} /\ at \in Blocks
      BY <1>1, <2>1 DEF RunInv
    <2>3. PICK b \in Succs(program, at) : Enter(b, versions)
      BY <1>3 DEF Jump
    <2>4. at' = b /\ next' = LeadingPhis(code[b]) + 1 /\ b \in Blocks
      BY <2>3 DEF Enter, Succs, Blocks
    <2>5. PICK a, i, M, V : a = at /\ i = next /\ M = marks /\ V = versions
      OBVIOUS
    <2>6. AtEnd(a, i)
      <3>1. DOMAIN code[a] = 1 .. Len(code[a]) /\ Len(code[a]) \in Nat
        BY <1>1, <2>2, <2>5 DEF CodeOK
      <3> QED
        BY <2>1, <2>2, <2>5, <3>1 DEF AtEnd
    <2>7. b \in Reached(program)
      <3>1. Closed(program, Reached(program))
        BY <1>1, ReachedClosed
      <3>2. PICK e \in program.edges : e = <<at, b>>
        BY <2>3 DEF Succs
      <3> QED
        BY <1>1, <2>2, <3>2, <3>1 DEF Closed
    <2>8. ASSUME EntryNotTarget(program), WrittenTogether
          PROVE  MarksRight(at', next', marks', versions')
      <3>1. MarksRight(a, i, M, V)
        BY <2>1, <2>5, <2>8 DEF RunInv
      <3>2. a \in Reached(program) /\ i \in Nat /\ b \in Succs(program, a)
        BY <2>2, <2>3, <2>5
      <3>3. MarksRight(b, LeadingPhis(code[b]) + 1, M, Entered(b, a, V))
        BY <2>1, <2>6, <3>1, <3>2, JumpKeepsMarks
      <3>4. versions' = Entered(b, a, V)
        BY <2>3, <2>5 DEF Enter, Entered
      <3> QED
        BY <2>1, <2>4, <2>5, <3>3, <3>4
    <2> QED
      BY <1>2, <2>1, <2>4, <2>7, <2>8, RunKept
  <1>4. ASSUME NEW mark \in BOOLEAN, Start(mark)
        PROVE  RunInv'
    <2>1. /\ stage = "done" /\ Enter(0, IF mark THEN Names \X {0, NO_SUBSCRIPT} ELSE {})
          /\ marks' = IF mark THEN Names ELSE {}
      BY <1>4 DEF Start
    <2>2. at' = 0 /\ next' = LeadingPhis(code[0]) + 1
      BY <2>1 DEF Enter
    <2>3. PICK M, V : M = (IF mark THEN Names ELSE {}) /\ V = (IF mark THEN Names \X {0, NO_SUBSCRIPT} ELSE {})
      OBVIOUS
    <2>4. ASSUME EntryNotTarget(program)
          PROVE  MarksRight(at', next', marks', versions')
      <3>1. Phis(0) = {} /\ MarksRight(0, LeadingPhis(code[0]) + 1, M, V)
        BY <2>3, <2>4, StartSetsMarks
      <3>2. versions' = V
        BY <2>1, <2>3, <3>1 DEF Enter
      <3> QED
        BY <2>1, <2>2, <2>3, <3>1, <3>2
    <2> QED
      BY <1>1, <1>2, <2>1, <2>2, <2>4, RunKept
  <1>5. ASSUME NEW mark \in BOOLEAN, RunInstruction(mark)
        PROVE  RunInv'
    <2>1. stage = "done" /\ at # -1 /\ next <= Len(code[at]) /\ at' = at /\ next' = next + 1
      BY <1>5 DEF RunInstruction, Running
    <2>2. /\ marks' = (marks \ WrittenBy(Instruction)) \cup (IF mark THEN WrittenBy(Instruction) ELSE {})
          /\ versions' = (versions \ VersionsOf(Instruction)) \cup (IF mark THEN VersionsOf(Instruction) ELSE {})
      BY <1>5 DEF RunInstruction
    <2>3. at \in Reached(program) /\ next \in Nat \ {0} /\ at \in Blocks
      BY <1>1, <2>1 DEF RunInv
    <2>4. PICK a, i, M, V, N, U : a = at /\ i = next /\ M = marks /\ V = versions /\ N = marks' /\ U = versions'
      OBVIOUS
    <2>5. ASSUME EntryNotTarget(program), WrittenTogether
          PROVE  MarksRight(at', next', marks', versions')
      <3>1. MarksRight(a, i, M, V)
        BY <2>1, <2>4, <2>5 DEF RunInv
      <3>2. a \in Reached(program) /\ i \in DOMAIN code[a]
        <4>1. DOMAIN code[a] = 1 .. Len(code[a]) /\ Len(code[a]) \in Nat
          BY <1>1, <2>3, <2>4 DEF CodeOK
        <4>2. i \in Nat \ {0}
          BY <2>3, <2>4
        <4> QED
          BY <2>1, <2>3, <2>4, <4>1, <4>2
      <3>3. /\ N = (M \ WrittenBy(code[a][i])) \cup (IF mark THEN WrittenBy(code[a][i]) ELSE {})
            /\ U = (V \ VersionsOf(code[a][i])) \cup (IF mark THEN VersionsOf(code[a][i]) ELSE {})
        BY <2>2, <2>4 DEF Instruction
      <3>4. MarksRight(a, i + 1, N, U)
        BY <2>5, <3>1, <3>2, <3>3, InstructionKeepsMarks
      <3> QED
        BY <2>1, <2>4, <3>4
    <2> QED
      BY <2>1, <2>3, <2>5, RunKept
  <1> QED
    BY <1>3, <1>4, <1>5

\* All that is known of the construction and of the run.
ExecutionInv == ConstructionInv /\ RunInv

\* Before the function runs only the construction changes.
LEMMA NextKeepsExecution == ExecutionInv /\ [Next]_<<vars, machine>> => ExecutionInv'
PROOF
  <1> SUFFICES ASSUME ExecutionInv, [Next]_<<vars, machine>> PROVE ExecutionInv'
    OBVIOUS
  <1>1. ConstructionInv /\ ConstructionInv' /\ RunInv
    BY NextKeepsConstruction DEF ExecutionInv
  <1>2. CASE Construct /\ UNCHANGED machine
    <2>1. stage # "done"
      BY <1>2 DEF Construct, ComputeDominanceFrontier, Compute_Aorig, AddUsedRelatedToDefinedRegisters, StartPlacing,
           PlacePhis, NextName, StartRenaming, RenameInstruction, FillArguments, RenameChild, ReturnFromBlock,
           StartSwitches, NextSwitch, SearchBlock, ReturnFromSearch, GiveUp, CorrectSwitch, EndPass
    <2>2. at' = -1
      BY <1>1, <1>2, <2>1 DEF machine, RunInv
    <2>3. RunInv'
      BY <2>2 DEF RunInv
    <2> QED
      BY <1>1, <2>3 DEF ExecutionInv
  <1>3. CASE (Jump \/ \E mark \in BOOLEAN : Start(mark) \/ RunInstruction(mark)) /\ UNCHANGED vars
    BY <1>1, <1>3, StepsKeepRun DEF ExecutionInv
  <1>4. CASE UNCHANGED <<vars, machine>>
    <2>1. UNCHANGED vars /\ UNCHANGED <<at, next, marks, versions>>
      BY <1>4 DEF machine
    <2>2. at = -1 => RunInv'
      BY <2>1 DEF RunInv
    <2>3. at # -1 => RunInv'
      BY <1>1, <2>1, RunKept DEF RunInv, vars
    <2> QED
      BY <1>1, <2>2, <2>3 DEF ExecutionInv
  <1> QED
    BY <1>2, <1>3, <1>4 DEF Next

\* A use that has a version reads the latest write, and one that has none reads
\* what nothing writes.
LEMMA InvUsesAgree == ExecutionInv => UsesAgree
PROOF
  <1> SUFFICES ASSUME ExecutionInv, Running, EntryNotTarget(program), WrittenTogether,
                      NEW u \in ToSet(Instruction.uses), Instruction.idiom = 0
               PROVE  u.name \in marks <=> <<u.name, u.sub>> \in versions
    BY DEF UsesAgree
  <1>1. ConstructionInv /\ CodeOK /\ Reached(program) \subseteq Blocks
    BY ProgramIsGraph DEF ExecutionInv, ConstructionInv, ArgsInv, UsesInv, IInv
  <1>2. PICK a, i, M, V, n, s : a = at /\ i = next /\ M = marks /\ V = versions /\ n = u.name /\ s = u.sub
    OBVIOUS
  <1>3. stage = "done" /\ a \in Reached(program) /\ i \in Nat \ {0} /\ i <= Len(code[a]) /\ MarksRight(a, i, M, V)
    BY <1>2 DEF ExecutionInv, RunInv, Running
  <1>4. a \in Blocks /\ i \in DOMAIN code[a] /\ Instruction = code[a][i]
    <2>1. a \in Blocks
      BY <1>1, <1>3
    <2>2. DOMAIN code[a] = 1 .. Len(code[a]) /\ Len(code[a]) \in Nat
      BY <1>1, <2>1 DEF CodeOK
    <2> QED
      BY <1>2, <1>3, <2>1, <2>2 DEF Instruction
  <1>5. code[a][i] \in Instructions /\ n \in Mentioned(code[a][i].uses)
    BY <1>2, <1>4, InstructionAt, MentionedNames
  <1>6. n \in AllMentioned /\ n \in Names
    <2>1. n \in AllMentioned
      BY <1>5 DEF AllMentioned
    <2> QED
      BY <1>1, <2>1, AllAreNames DEF ConstructionInv, PlacedInv, NamesInv
  <1>7. CASE s = NO_SUBSCRIPT
    <2>1. Unwritten(n)
      BY <1>1, <1>2, <1>3, <1>4, <1>7 DEF ConstructionInv, UsesGiven, RenamingDone
    <2>2. n \in M <=> <<n, s>> \in V
      BY <1>3, <1>6, <1>7, <2>1 DEF MarksRight
    <2> QED
      BY <1>2, <2>2
  <1>8. CASE s # NO_SUBSCRIPT
    <2>1. Latest(n, s, a, i)
      BY <1>1, <1>2, <1>4, <1>8 DEF ConstructionInv, ReadsInv, UsesLatest
    <2>2. s \in Nat
      BY <1>1, <2>1, LatestNumber DEF ConstructionInv
    <2>3. n \in M <=> <<n, s>> \in V
      BY <1>3, <1>6, <2>1, <2>2 DEF MarksRight
    <2> QED
      BY <1>2, <2>3
  <1> QED
    BY <1>7, <1>8

\* The construction keeps what the function computes: wherever it runs, a use
\* reads with its subscript what it read without, on every path and however the
\* phi functions and the versions of related registers come about.
THEOREM UsesReadTheSame == Spec => []UsesAgree
PROOF
  <1>1. ExecutionInit => ExecutionInv
    <2>1. at = -1 => RunInv
      BY DEF RunInv
    <2> QED
      BY <2>1, ConstructionInvInit DEF ExecutionInit, ExecutionInv
  <1> QED
    BY <1>1, NextKeepsExecution, InvUsesAgree, PTL DEF Spec

\* The passes have placed a phi function of a name in every block of the frontier
\* of a definition of it.
PhisOnFrontiers ==
  stage = "done" =>
    \A b \in Reached(program) : \A i \in DOMAIN code[b] : \A m \in Mentioned(code[b][i].defs) :
      \A y \in FrontierOf(program, b) : HasPhi(m, y)

\* When the construction is done every name a reached block defines has a phi function in each
\* block of the frontier, iterated because the phi function is a definition itself.
THEOREM EveryFrontierHasPhis == Spec => []PhisOnFrontiers
PROOF
  <1>1. ExecutionInit => ConstructionInv
    BY ConstructionInvInit DEF ExecutionInit
  <1>2. ConstructionInv => PhisOnFrontiers
    <2> SUFFICES ASSUME ConstructionInv, stage = "done", NEW b \in Reached(program), NEW i \in DOMAIN code[b],
                        NEW m \in Mentioned(code[b][i].defs), NEW y \in FrontierOf(program, b)
                 PROVE  HasPhi(m, y)
      BY DEF PhisOnFrontiers
    <2>1. b \in Blocks
      BY ProgramIsGraph DEF ConstructionInv, ArgsInv, UsesInv, IInv
    <2>2. m \in Names
      BY <2>1 DEF ConstructionInv, PlacedInv, NamesInv, NamesKnown
    <2>3. y \in frontier[b]
      BY <2>1 DEF ConstructionInv, PlacedInv, FrontiersRight
    <2> QED
      BY <2>1, <2>2, <2>3 DEF ConstructionInv, PlacedInv, PhisPlaced, PlacingDone, PlacedFor
  <1> QED
    BY <1>1, <1>2, NextKeepsConstruction, PTL DEF Spec

=============================================================================
