------------------------- MODULE Structuring_proofs -------------------------
(***************************************************************************)
(* Proofs about LoopStructuring, BranchStructuring and CodeGeneration, for *)
(* every set of functions and sequences of derived graphs of any length:   *)
(* the recursion of NWayStructurer ends, every loop of LoopStructurer is   *)
(* the natural loop of its header, no loop of a reducible function is      *)
(* missed, loops are left to their follow blocks, every branch is          *)
(* structured, and the text of the function decides it in one place.       *)
(***************************************************************************)
EXTENDS CodeGeneration, DerivedGraphs_proofs

-----------------------------------------------------------------------------
(* The recursion of findFollowNodeId                                       *)

\* One call of findFollowNodeId: up to the only predecessor, or no further.
Up(x) == IF GoesUp(x) THEN CHOOSE p \in Preds(cfg, x) : TRUE ELSE x
\* The blocks that 0 .. n calls come to, from block h.
ClimbsTo(h, n, w) == w = [k \in 0 .. n |-> IF k = 0 THEN h ELSE Up(w[k - 1])]

(* The blocks that findFollowNodeId comes to, in any number of calls.      *)
LEMMA ClimbExists ==
  ASSUME NEW h, NEW n \in Nat
  PROVE  \E w : ClimbsTo(h, n, w)
PROOF
  <1> DEFINE Bad == {m \in Nat : ~ \E w : ClimbsTo(h, m, w)}
  <1> SUFFICES ASSUME Bad # {}
               PROVE  FALSE
    OBVIOUS
  <1>1. PICK m \in Bad : \A y \in Bad : m <= y
    BY SmallestNumber
  <1>2. m # 0
    <2> DEFINE w == [k \in 0 .. 0 |-> h]
    <2>1. ClimbsTo(h, 0, w)
      BY DEF ClimbsTo
    <2> QED
      BY <2>1
  <1>3. m - 1 \in Nat /\ m - 1 \notin Bad
    BY <1>1, <1>2
  <1>4. PICK w : ClimbsTo(h, m - 1, w)
    BY <1>3
  <1> DEFINE x == [k \in 0 .. m |-> IF k = m THEN Up(w[m - 1]) ELSE w[k]]
  <1>5. \A k \in 0 .. m - 1 : w[k] = IF k = 0 THEN h ELSE Up(w[k - 1])
    BY <1>4 DEF ClimbsTo
  <1>6. \A k \in 0 .. m : x[k] = IF k = 0 THEN h ELSE Up(x[k - 1])
    BY <1>2, <1>3, <1>5
  <1>7. ClimbsTo(h, m, x)
    <2>1. x = [k \in 0 .. m |-> x[k]]
      OBVIOUS
    <2> HIDE DEF x
    <2> QED
      BY <2>1, <1>6 DEF ClimbsTo
  <1> QED
    BY <1>1, <1>7

(* Ancestor is the block that as many calls as there are blocks come to.   *)
LEMMA AncestorClimbs ==
  ASSUME IsGraph(cfg), NEW h
  PROVE  \E w : ClimbsTo(h, cfg.size, w) /\ Ancestor(h) = w[cfg.size]
PROOF
  <1>1. PICK w : ClimbsTo(h, cfg.size, w)
    BY ClimbExists DEF IsGraph
  <1>2. ClimbsTo(h, cfg.size, CHOOSE x : ClimbsTo(h, cfg.size, x))
    BY <1>1
  <1>3. Ancestor(h) = (CHOOSE x : ClimbsTo(h, cfg.size, x))[cfg.size]
    BY Zenon DEF Ancestor, ClimbsTo, Up
  <1> QED
    BY <1>2, <1>3

(* A block that one goes up from has one predecessor.                      *)
LEMMA GoesUpToPredecessor ==
  ASSUME IsGraph(cfg), NEW x, GoesUp(x)
  PROVE  Preds(cfg, x) = {Up(x)} /\ x \in Vertices(cfg) /\ Up(x) \in Vertices(cfg)
PROOF
  <1>1. Cardinality(Preds(cfg, x)) = 1 /\ IsFiniteSet(Vertices(cfg))
    BY EntryVertex DEF GoesUp, NumberOfPreds
  <1>2. Preds(cfg, x) \in SUBSET Vertices(cfg)
    BY DEF Preds
  <1>3. IsFiniteSet(Preds(cfg, x))
    BY <1>1, <1>2, FS_Subset
  <1>4. PICK p : Preds(cfg, x) = {p}
    BY <1>1, <1>3, FS_Singleton
  <1>5. Up(x) = p
    BY <1>4 DEF Up
  <1>6. <<p, x>> \in cfg.edges
    BY <1>4 DEF Preds
  <1> QED
    BY <1>2, <1>4, <1>5, <1>6 DEF IsGraph

(* Climbing stops: as many steps up as there are blocks would go round in  *)
(* a circle of blocks that have no other predecessors, which nothing       *)
(* reaches.                                                                *)
LEMMA ClimbStops ==
  ASSUME IsGraph(cfg), Proper(cfg), NEW h
  PROVE  ~ GoesUp(Ancestor(h))
PROOF
  <1> SUFFICES ASSUME GoesUp(Ancestor(h))
               PROVE  FALSE
    OBVIOUS
  <1> DEFINE n == cfg.size
  <1>1. n \in Nat \ {0}
    BY DEF IsGraph
  <1>2. PICK w : ClimbsTo(h, n, w) /\ Ancestor(h) = w[n]
    BY AncestorClimbs
  <1> HIDE DEF n
  <1>3. \A k \in 1 .. n : w[k] = Up(w[k - 1])
    <2>1. \A k \in 0 .. n : w[k] = IF k = 0 THEN h ELSE Up(w[k - 1])
      BY <1>2 DEF ClimbsTo
    <2> QED
      BY <1>1, <2>1
  <1>4. \A k \in 0 .. n : GoesUp(w[k])
    <2> DEFINE Stopped == {j \in 0 .. n : ~ GoesUp(w[n - j])}
    <2> SUFFICES ASSUME Stopped # {}
                 PROVE  FALSE
      <3> SUFFICES ASSUME NEW k \in 0 .. n, ~ GoesUp(w[k])
                   PROVE  FALSE
        OBVIOUS
      <3>1. n - k \in 0 .. n /\ n - (n - k) = k
        BY <1>1
      <3>2. n - k \in Stopped
        BY <3>1
      <3> QED
        BY <3>2
    <2>1. Stopped \subseteq Nat
      BY <1>1
    <2>2. PICK j \in Stopped : \A i \in Stopped : j <= i
      <3> HIDE DEF Stopped
      <3> QED
        BY <2>1, SmallestNumber
    <2>3. j \in 0 .. n /\ ~ GoesUp(w[n - j])
      BY <2>2
    <2>4. j # 0
      <3> SUFFICES ASSUME j = 0
                   PROVE  FALSE
        OBVIOUS
      <3>1. n - j = n
        BY <1>1
      <3> QED
        BY <1>2, <2>3, <3>1
    <2>5. n - (j - 1) \in 1 .. n /\ (n - (j - 1)) - 1 = n - j /\ j - 1 \in 0 .. n /\ ~ j <= j - 1
      BY <1>1, <2>3, <2>4
    <2>6. w[n - (j - 1)] = w[n - j]
      BY <1>3, <2>3, <2>5 DEF Up
    <2>7. j - 1 \in Stopped
      BY <2>3, <2>5, <2>6
    <2> QED
      BY <2>2, <2>5, <2>7
  <1>5. \A k \in 0 .. n : w[k] \in Vertices(cfg)
    BY <1>4, GoesUpToPredecessor
  <1>6. PICK i \in 0 .. n, j \in 0 .. n : i < j /\ w[i] = w[j]
    <2> DEFINE f == [k \in 0 .. n |-> w[k]]
    <2>1. IsFiniteSet(Vertices(cfg)) /\ Cardinality(Vertices(cfg)) = n
      BY EntryVertex DEF n
    <2>2. IsFiniteSet(0 .. n) /\ Cardinality(0 .. n) = n + 1
      <3>1. 0 \in Int /\ n \in Int /\ ~ 0 > n /\ n - 0 + 1 = n + 1
        BY <1>1
      <3> QED
        BY <3>1, FS_Interval
    <2>3. Cardinality(Vertices(cfg)) < Cardinality(0 .. n)
      BY <1>1, <2>1, <2>2
    <2>4. f \in [0 .. n -> Vertices(cfg)]
      BY <1>5
    <2> HIDE DEF f
    <2>5. PICK i \in 0 .. n, j \in 0 .. n : i # j /\ f[i] = f[j]
      BY <2>1, <2>2, <2>3, <2>4, FS_PigeonHole, ZenonT(40)
    <2>6. w[i] = w[j]
      BY <2>5 DEF f
    <2>7. i < j \/ j < i
      BY <1>1, <2>5
    <2> QED
      BY <2>6, <2>7
  <1> DEFINE D == {w[k] : k \in i .. j - 1}
             S == Vertices(cfg) \ D
  <1>7. \A v \in D : GoesUp(v) /\ Up(v) \in D
    <2> SUFFICES ASSUME NEW k \in i .. j - 1
                 PROVE  GoesUp(w[k]) /\ Up(w[k]) \in D
      OBVIOUS
    <2>1. k \in 0 .. n /\ k + 1 \in 1 .. n /\ (k + 1) - 1 = k
      BY <1>1, <1>6
    <2>2. w[k + 1] = Up(w[k])
      BY <1>3, <2>1
    <2>3. CASE k + 1 = j
      <3>1. i \in i .. j - 1
        BY <1>1, <1>6
      <3> QED
        BY <1>4, <1>6, <2>1, <2>2, <2>3, <3>1
    <2>4. CASE k + 1 # j
      <3>1. k + 1 \in i .. j - 1
        BY <1>1, <1>6, <2>4
      <3> QED
        BY <1>4, <2>1, <2>2, <3>1
    <2> QED
      BY <2>3, <2>4
  <1>8. D # {} /\ w[i] \in D /\ w[i] \in Vertices(cfg)
    <2>1. i \in i .. j - 1
      BY <1>1, <1>6
    <2> QED
      BY <1>5, <1>6, <2>1
  <1> HIDE DEF D
  <1>9. 0 \in S
    <2>1. Preds(cfg, 0) = {}
      BY DEF Proper, EntryNotTarget
    <2>2. 0 \notin D
      BY <1>7, <2>1, GoesUpToPredecessor
    <2> QED
      BY <2>2, EntryVertex
  <1>10. ASSUME NEW e \in cfg.edges, e[1] \in S
         PROVE  e[2] \in S
    <2>1. e = <<e[1], e[2]>> /\ e[2] \in Vertices(cfg)
      BY DEF IsGraph
    <2> SUFFICES ASSUME e[2] \in D
                 PROVE  FALSE
      BY <2>1
    <2>2. e[1] \in Preds(cfg, e[2])
      BY <1>10, <2>1 DEF Preds
    <2>3. e[1] = Up(e[2])
      BY <1>7, <2>2, GoesUpToPredecessor
    <2> QED
      BY <1>7, <1>10, <2>3
  <1>11. S = Vertices(cfg)
    BY <1>9, <1>10 DEF Proper, AllReachable
  <1> QED
    BY <1>8, <1>11

\* The function stays the same, and climbing has an end.
SwitchInv == cfg \in FlowGraphs /\ SwitchesTerminate

(* No step changes the graph of the function.                              *)
LEMMA FunctionStays == [LoopNext]_allVars => cfg' = cfg
PROOF
  <1>1. Next => cfg' = cfg
    BY DEF Next, TakeNewHeaders, OpenInterval, AddNodesToInterval, CloseInterval, EndSequence, GetNextDerivedGraph,
           LoseInterval
  <1> QED
    BY <1>1 DEF LoopNext, StructureLoop, PassInterval, NextLevel, allVars, vars

(* The recursion of findFollowNodeId ends, in every function the entry of  *)
(* which is no branch target and reaches all blocks.                       *)
THEOREM SwitchesEnd == StructureSpec => []SwitchesTerminate
PROOF
  <1>1. StructureInit => SwitchInv
    BY DEF StructureInit, LoopInit, Init, SwitchInv, SwitchesTerminate
  <1>2. SwitchInv /\ [StructureNext]_structureVars => SwitchInv'
    <2> SUFFICES ASSUME SwitchInv, [StructureNext]_structureVars
                 PROVE  SwitchInv'
      OBVIOUS
    <2>1. IsGraph(cfg)
      BY FlowGraphsAssumption DEF SwitchInv
    <2>2. cfg' = cfg
      BY FunctionStays
      DEF StructureNext, VisitSwitch, VisitOtherBlock, Overflow, EndSwitches, StructureLoops, EndLoops, VisitConditional,
          PassBlock, EndConditionals, ResolveInLoop, EndUnresolved, structureVars, allVars, vars
    <2>3. ASSUME Proper(cfg), pass' = "overflow"
          PROVE  pass = "overflow"
      <3>1. ~ Overflow
        BY <2>1, <2>3, ClimbStops DEF Overflow
      <3> QED
        BY <2>3, <3>1
        DEF StructureNext, VisitSwitch, VisitOtherBlock, EndSwitches, StructureLoops, EndLoops, VisitConditional,
            PassBlock, EndConditionals, ResolveInLoop, EndUnresolved, structureVars, branchVars
    <2> QED
      BY <2>2, <2>3 DEF SwitchInv, SwitchesTerminate
  <1>3. SwitchInv => SwitchesTerminate
    BY DEF SwitchInv
  <1> QED
    BY <1>1, <1>2, <1>3, PTL DEF StructureSpec

-----------------------------------------------------------------------------
(* The levels of the sequence                                              *)

\* In function f, control comes to the blocks O from outside at block b only.
IsEntryBlock(f, O, b) ==
  /\ b \in O
  /\ 0 \in O => b = 0
  /\ \A e \in f.edges : e[1] \notin O /\ e[2] \in O => e[2] = b

\* Every vertex of the level has an entry block.
HasEntries(f, item) == \A v \in Vertices(item.graph) : \E b : IsEntryBlock(f, item.originals[v], b)

\* I is an interval with header h: the predecessors of its other vertices are
\* inside, and no circle avoids the header.
IsInterval(g, I, h) ==
  /\ h \in I /\ I \subseteq Vertices(g)
  /\ \A v \in I \ {h} : Preds(g, v) # {} /\ Preds(g, v) \subseteq I
  /\ \A S \in SUBSET (I \ {h}) : S # {} => \E v \in S : Preds(g, v) \cap S = {}

\* The graph of the level is f with blocks collapsed.
StandsForBlocks(f, item) ==
  /\ \A u, v \in Vertices(item.graph) : u # v =>
       /\ item.originals[u] \cap item.originals[v] = {}
       /\ <<u, v>> \in item.graph.edges <=>
            \E e \in f.edges : e[1] \in item.originals[u] /\ e[2] \in item.originals[v]
  /\ UNION {item.originals[v] : v \in Vertices(item.graph)} = Vertices(f)

\* What a level is like when it is complete.
Level(f, item) ==
  /\ IsGraph(item.graph)
  /\ DOMAIN item.intervals \subseteq Vertices(item.graph)
  /\ \A h \in DOMAIN item.intervals : IsInterval(item.graph, item.intervals[h], h)
  /\ UNION {item.intervals[h] : h \in DOMAIN item.intervals} = Vertices(item.graph)
  /\ StandsForBlocks(f, item)
  /\ HasEntries(f, item)

\* The first level is the function; the vertices of the others are the intervals
\* of the one before.
LevelFits(f, levels, i, item) ==
  IF i = 1 THEN item.graph = f /\ \A v \in Vertices(item.graph) : item.originals[v] = {v}
  ELSE /\ i - 1 \in DOMAIN levels
       /\ NoSelfLoops(item.graph)
       /\ \A v \in Vertices(item.graph) : \E h \in DOMAIN levels[i - 1].intervals :
            item.originals[v] = IntervalOriginalNodes(levels[i - 1], h)

\* The level that constructIntervals works on.
ThisLevel == [graph |-> graph, intervals |-> intervals, originals |-> originals]

\* The levels so far, and the one that is not complete.
Levels ==
  /\ \A i \in DOMAIN sequence : Level(cfg, sequence[i]) /\ LevelFits(cfg, sequence, i, sequence[i])
  /\ HasEntries(cfg, ThisLevel)
  /\ phase = "intervals" => LevelFits(cfg, sequence, Len(sequence) + 1, ThisLevel)
  /\ phase = "done" => Len(sequence) \in DOMAIN sequence /\ sequence[Len(sequence)].graph = graph

\* The inductive invariant of the sequence of levels.
SequenceInv == RInv /\ (Proper(cfg) => Levels)

(* Control comes to the blocks of an interval at the entry block of its    *)
(* header.                                                                 *)
LEMMA RegionEntry ==
  ASSUME IsGraph(cfg), Proper(cfg), NEW item, Level(cfg, item), NEW h \in DOMAIN item.intervals, NEW b,
         IsEntryBlock(cfg, item.originals[h], b)
  PROVE  IsEntryBlock(cfg, IntervalOriginalNodes(item, h), b)
PROOF
  <1> DEFINE g == item.graph
             I == item.intervals[h]
             R == IntervalOriginalNodes(item, h)
  <1>1. h \in I /\ I \subseteq Vertices(g) /\ IsGraph(g)
        /\ \A v \in I \ {h} : Preds(g, v) # {} /\ Preds(g, v) \subseteq I
    BY DEF Level, IsInterval
  <1>2. \A x : x \in R <=> \E v \in I : x \in item.originals[v]
    BY DEF IntervalOriginalNodes
  <1>3. \A u, v \in Vertices(g) : u # v =>
       /\ item.originals[u] \cap item.originals[v] = {}
       /\ <<u, v>> \in g.edges <=> \E e \in cfg.edges : e[1] \in item.originals[u] /\ e[2] \in item.originals[v]
    BY DEF Level, StandsForBlocks
  <1>4. b \in R
    BY <1>1, <1>2 DEF IsEntryBlock
  <1>5. \A e \in cfg.edges : e = <<e[1], e[2]>> /\ e[1] \in Vertices(cfg) /\ e[2] \in Vertices(cfg)
    BY DEF IsGraph
  <1>6. ASSUME 0 \in R
        PROVE  b = 0
    <2>1. PICK v \in I : 0 \in item.originals[v]
      BY <1>2, <1>6
    <2>2. CASE v = h
      BY <2>1, <2>2 DEF IsEntryBlock
    <2>3. CASE v # h
      <3>1. PICK u \in Preds(g, v) : TRUE
        BY <1>1, <2>3
      <3>2. u \in Vertices(g) /\ <<u, v>> \in g.edges
        BY DEF Preds
      <3>3. u # v
        <4> SUFFICES ASSUME u = v
                     PROVE  FALSE
          OBVIOUS
        <4>1. \A S \in SUBSET (I \ {h}) : S # {} => \E x \in S : Preds(g, x) \cap S = {}
          BY DEF Level, IsInterval
        <4>2. {v} \in SUBSET (I \ {h})
          BY <2>3
        <4>3. Preds(g, v) \cap {v} = {}
          BY <4>1, <4>2
        <4> QED
          BY <4>3
      <3>4. PICK e \in cfg.edges : e[1] \in item.originals[u] /\ e[2] \in item.originals[v]
        BY <1>1, <1>3, <3>2, <3>3
      <3>5. e[1] \notin item.originals[v]
        BY <1>1, <1>3, <3>2, <3>3, <3>4
      <3>6. PICK c : IsEntryBlock(cfg, item.originals[v], c)
        BY <1>1 DEF Level, HasEntries
      <3>7. e[2] = 0
        BY <2>1, <3>4, <3>5, <3>6 DEF IsEntryBlock
      <3>8. e[1] \in Preds(cfg, 0)
        BY <1>5, <3>7 DEF Preds
      <3> QED
        BY <3>8 DEF Proper, EntryNotTarget
    <2> QED
      BY <2>2, <2>3
  <1>7. ASSUME NEW e \in cfg.edges, e[1] \notin R, e[2] \in R
        PROVE  e[2] = b
    <2>1. PICK v \in I : e[2] \in item.originals[v]
      BY <1>2, <1>7
    <2>2. PICK u \in Vertices(g) : e[1] \in item.originals[u]
      BY <1>5 DEF Level, StandsForBlocks
    <2>3. u \notin I
      BY <1>2, <1>7, <2>2
    <2>4. <<u, v>> \in g.edges
      BY <1>1, <1>3, <2>1, <2>2, <2>3
    <2>5. v = h
      BY <1>1, <2>2, <2>3, <2>4 DEF Preds
    <2>6. e[1] \notin item.originals[h]
      BY <1>1, <1>2, <1>7
    <2> QED
      BY <2>1, <2>5, <2>6 DEF IsEntryBlock
  <1> QED
    BY <1>4, <1>6, <1>7 DEF IsEntryBlock

(* When constructIntervals is done, its intervals make a complete level.   *)
LEMMA ThisLevelComplete ==
  ASSUME RInv, LevelComplete, Proper(cfg), HasEntries(cfg, ThisLevel)
  PROVE  Level(cfg, ThisLevel)
PROOF
  <1> USE DEF RInv, Proper
  <1>1. ThisLevel.graph = graph /\ ThisLevel.intervals = intervals /\ ThisLevel.originals = originals
    BY DEF ThisLevel
  <1>2. IsGraph(graph) /\ DOMAIN intervals \subseteq Vertices(graph)
        /\ \A h \in DOMAIN intervals : h \in intervals[h] /\ intervals[h] \subseteq Vertices(graph)
    BY DEF IInv, Types
  <1>3. \A h \in DOMAIN intervals : IsInterval(graph, intervals[h], h)
    BY <1>2 DEF IInv, AllEnclosed, Enclosed, NoCircles, NoCircleBeside, IsInterval
  <1>4. UNION {intervals[h] : h \in DOMAIN intervals} = Vertices(graph)
    BY EveryVertexHasInterval DEF IInv, Complete
  <1>5. StandsForBlocks(cfg, ThisLevel)
    BY <1>1 DEF IInv, Complete, Collapsed, StandsForBlocks
  <1> HIDE DEF Proper
  <1> QED
    BY <1>1, <1>2, <1>3, <1>4, <1>5 DEF Level

-----------------------------------------------------------------------------
(* The steps of DerivedGraphSequence                                       *)

(* derivedGraphSequence with one more level.                               *)
LEMMA OneMoreLevel ==
  ASSUME NEW s, NEW x, IsSequence(s)
  PROVE  /\ Len(s) \in Nat /\ DOMAIN s = 1 .. Len(s)
         /\ DOMAIN Append(s, x) = DOMAIN s \cup {Len(s) + 1} /\ Len(Append(s, x)) = Len(s) + 1
         /\ Append(s, x)[Len(s) + 1] = x
         /\ \A i \in DOMAIN s : Append(s, x)[i] = s[i]
PROOF
  <1>1. PICK S : s \in Seq(S)
    BY DEF IsSequence
  <1>2. s \in Seq(S \cup {x})
    BY <1>1
  <1> QED
    BY <1>2

(* What holds of the levels so far holds with the one that is complete.    *)
LEMMA LevelsGrow ==
  ASSUME IsGraph(cfg), RInv, LevelComplete, Proper(cfg), Levels, cfg' = cfg, sequence' = CompletedLevels
  PROVE  /\ \A i \in DOMAIN sequence' : Level(cfg, sequence'[i]) /\ LevelFits(cfg, sequence', i, sequence'[i])
         /\ Len(sequence') \in DOMAIN sequence' /\ sequence'[Len(sequence')] = ThisLevel
         /\ Level(cfg, ThisLevel)
PROOF
  <1>1. Level(cfg, ThisLevel)
    BY ThisLevelComplete DEF Levels
  <1>2. sequence' = Append(sequence, ThisLevel) /\ IsSequence(sequence)
    BY DEF CompletedLevels, ThisLevel, RInv, IInv, Types
  <1> DEFINE n == Len(sequence)
             t == ThisLevel
  <1> HIDE DEF t
  <1>3. /\ n \in Nat /\ DOMAIN sequence = 1 .. n
        /\ DOMAIN sequence' = DOMAIN sequence \cup {n + 1} /\ Len(sequence') = n + 1
        /\ sequence'[n + 1] = t
        /\ \A i \in DOMAIN sequence : sequence'[i] = sequence[i]
    BY <1>2, OneMoreLevel DEF t
  <1>4. LevelFits(cfg, sequence, n + 1, t)
    BY DEF Levels, LevelComplete, t
  <1>5. \A i \in DOMAIN sequence : LevelFits(cfg, sequence, i, sequence[i])
    BY DEF Levels
  <1>6. \A i \in 1 .. n + 1 : \A x : LevelFits(cfg, sequence, i, x) => LevelFits(cfg, sequence', i, x)
    <2> SUFFICES ASSUME NEW i \in 1 .. n + 1, NEW x, LevelFits(cfg, sequence, i, x)
                 PROVE  LevelFits(cfg, sequence', i, x)
      OBVIOUS
    <2>1. CASE i = 1
      BY <2>1 DEF LevelFits
    <2>2. CASE i # 1
      <3>1. i - 1 \in DOMAIN sequence /\ i - 1 \in DOMAIN sequence' /\ sequence'[i - 1] = sequence[i - 1]
        BY <1>3, <2>2
      <3> QED
        BY <2>2, <3>1 DEF LevelFits
    <2> QED
      BY <2>1, <2>2
  <1>7. ASSUME NEW i \in DOMAIN sequence'
        PROVE  Level(cfg, sequence'[i]) /\ LevelFits(cfg, sequence', i, sequence'[i])
    <2>1. CASE i \in DOMAIN sequence
      <3>1. i \in 1 .. n + 1
        BY <1>3, <2>1
      <3> QED
        BY <1>3, <1>5, <1>6, <2>1, <3>1 DEF Levels
    <2>2. CASE i = n + 1
      <3>1. n + 1 \in 1 .. n + 1
        BY <1>3
      <3> QED
        BY <1>1, <1>3, <1>4, <1>6, <2>2, <3>1 DEF t
    <2> QED
      BY <1>3, <2>1, <2>2
  <1> QED
    BY <1>1, <1>3, <1>7 DEF t

(* The first level is the function; each block stands for itself.          *)
LEMMA InitLevels == Init => SequenceInv
PROOF
  <1> SUFFICES ASSUME Init
               PROVE  SequenceInv
    OBVIOUS
  <1>1. RInv
    BY InitReduces
  <1>2. ThisLevel.graph = cfg /\ ThisLevel.originals = [v \in Vertices(cfg) |-> {v}]
    BY DEF Init, ThisLevel
  <1>3. \A v \in Vertices(cfg) : ThisLevel.originals[v] = {v}
    BY <1>2
  <1>4. HasEntries(cfg, ThisLevel)
    <2> SUFFICES ASSUME NEW v \in Vertices(cfg)
                 PROVE  IsEntryBlock(cfg, {v}, v)
      BY <1>2, <1>3 DEF HasEntries
    <2> QED
      BY DEF IsEntryBlock
  <1>5. DOMAIN sequence = {} /\ Len(sequence) + 1 = 1 /\ phase = "intervals"
    BY DEF Init
  <1>6. LevelFits(cfg, sequence, Len(sequence) + 1, ThisLevel)
    BY <1>2, <1>3, <1>5 DEF LevelFits
  <1> QED
    BY <1>1, <1>4, <1>5, <1>6 DEF SequenceInv, Levels

\* Building intervals touches no level.
LEMMA LevelsStay ==
  ASSUME Levels, UNCHANGED <<cfg, graph, originals, sequence>>, phase' \in {phase, "undefined"}
  PROVE  Levels'
PROOF
  <1>1. ThisLevel'.graph = ThisLevel.graph /\ ThisLevel'.originals = ThisLevel.originals
    BY DEF ThisLevel
  <1> DEFINE t == ThisLevel
             u == ThisLevel'
  <1>2. u.graph = t.graph /\ u.originals = t.originals
    BY <1>1
  <1>3. HasEntries(cfg, t) /\ (phase = "intervals" => LevelFits(cfg, sequence, Len(sequence) + 1, t))
    BY DEF Levels
  <1> HIDE DEF t, u
  <1>4. HasEntries(cfg, u) /\ (phase = "intervals" => LevelFits(cfg, sequence, Len(sequence) + 1, u))
    BY <1>2, <1>3 DEF HasEntries, LevelFits
  <1>5. phase' = "intervals" => phase = "intervals"
    OBVIOUS
  <1>6. phase' = "done" => phase = "done"
    OBVIOUS
  <1> QED
    BY <1>4, <1>5, <1>6 DEF Levels, u

(* The limit graph is the last level.                                      *)
LEMMA EndSequenceLevels ==
  ASSUME SequenceInv, EndSequence, Proper(cfg)
  PROVE  Levels'
PROOF
  <1>1. LevelComplete /\ UNCHANGED <<cfg, graph, originals, intervals>> /\ sequence' = CompletedLevels /\ phase' = "done"
    BY DEF EndSequence
  <1>2. RInv /\ Levels /\ IsGraph(cfg)
    BY DEF SequenceInv, RInv, IInv, Types
  <1>3. ThisLevel' = ThisLevel /\ ThisLevel.graph = graph
    BY <1>1 DEF ThisLevel
  <1>4. /\ \A i \in DOMAIN sequence' : Level(cfg, sequence'[i]) /\ LevelFits(cfg, sequence', i, sequence'[i])
        /\ Len(sequence') \in DOMAIN sequence' /\ sequence'[Len(sequence')] = ThisLevel
    BY <1>1, <1>2, LevelsGrow
  <1> QED
    BY <1>1, <1>2, <1>3, <1>4 DEF Levels

(* The vertices of the next graph are the intervals of this one, so control*)
(* comes to the blocks of each at one entry block, and none branches to    *)
(* itself.                                                                 *)
LEMMA GetNextDerivedGraphLevels ==
  ASSUME SequenceInv, GetNextDerivedGraph, Proper(cfg)
  PROVE  Levels'
PROOF
  <1> DEFINE next == [graph |-> NextGraph, intervals |-> intervals', originals |-> NextOriginals]
             t == ThisLevel
  <1>1. /\ LevelComplete /\ cfg' = cfg /\ sequence' = CompletedLevels /\ phase' = "intervals"
        /\ graph' = NextGraph /\ originals' = NextOriginals /\ \A v \in AskedFor : HeadersOf(v) # {}
    BY DEF GetNextDerivedGraph, LevelComplete
  <1>2. RInv /\ IInv /\ Levels /\ IsGraph(cfg) /\ Separate
    BY DEF SequenceInv, RInv, IInv, Types, SingleEntry, Proper
  <1>3. /\ \A i \in DOMAIN sequence' : Level(cfg, sequence'[i]) /\ LevelFits(cfg, sequence', i, sequence'[i])
        /\ Len(sequence') \in DOMAIN sequence' /\ sequence'[Len(sequence')] = t
        /\ Level(cfg, t)
    BY <1>1, <1>2, LevelsGrow
  <1>4. \A h \in DOMAIN intervals : NextOriginals[VertexOf(h)] = IntervalOriginalNodes(t, h)
    BY <1>1, <1>2, NextOriginalsOfInterval DEF IntervalOriginalNodes, ThisLevel
  <1>5. \A v \in Vertices(NextGraph) : \E h \in DOMAIN intervals : VertexOf(h) = v
    BY <1>1, <1>2, VertexNumbers
  <1>6. \A v \in Vertices(NextGraph) : \E h \in DOMAIN t.intervals : NextOriginals[v] = IntervalOriginalNodes(t, h)
    BY <1>4, <1>5 DEF ThisLevel
  <1>7. HasEntries(cfg, next)
    <2> SUFFICES ASSUME NEW v \in Vertices(NextGraph)
                 PROVE  \E b : IsEntryBlock(cfg, NextOriginals[v], b)
      BY DEF HasEntries
    <2>1. PICK h \in DOMAIN t.intervals : NextOriginals[v] = IntervalOriginalNodes(t, h)
      BY <1>6
    <2> HIDE DEF t
    <2>2. h \in Vertices(t.graph)
      BY <1>3 DEF Level
    <2>3. PICK b : IsEntryBlock(cfg, t.originals[h], b)
      BY <1>3, <2>2 DEF Level, HasEntries
    <2>4. IsEntryBlock(cfg, IntervalOriginalNodes(t, h), b)
      BY <1>2, <1>3, <2>3, RegionEntry
    <2> QED
      BY <2>1, <2>4
  <1>8. NoSelfLoops(NextGraph)
    <2> SUFFICES ASSUME NEW v \in Vertices(NextGraph), <<v, v>> \in NextGraph.edges
                 PROVE  FALSE
      BY DEF NoSelfLoops
    <2>1. PICK h \in DOMAIN intervals : VertexOf(h) = v
      BY <1>5
    <2> QED
      BY <1>1, <1>2, <2>1, NextGraphEdges
  <1>9. LevelFits(cfg, sequence', Len(sequence') + 1, next)
    <2>1. IsSequence(sequence')
      BY <1>1, <1>2, CompletedLevelsType
    <2>2. Len(sequence') \in Nat /\ DOMAIN sequence' = 1 .. Len(sequence')
      BY <2>1, OneMoreLevel
    <2>3. Len(sequence') + 1 # 1 /\ (Len(sequence') + 1) - 1 = Len(sequence')
      BY <1>3, <2>2
    <2>4. next.graph = NextGraph /\ next.originals = NextOriginals
      OBVIOUS
    <2> HIDE DEF next, t
    <2> QED
      BY <1>3, <1>6, <1>8, <2>3, <2>4 DEF LevelFits
  <1>10. ThisLevel' = next
    BY <1>1 DEF ThisLevel
  <1> HIDE DEF next
  <1> QED
    BY <1>1, <1>3, <1>7, <1>9, <1>10 DEF Levels

(* Every step of the sequence leaves its levels as Levels describes them.  *)
LEMMA NextLevels == SequenceInv /\ [Next]_vars => SequenceInv'
PROOF
  <1> SUFFICES ASSUME SequenceInv, [Next]_vars
               PROVE  SequenceInv'
    OBVIOUS
  <1>1. RInv'
    BY NextReduces DEF SequenceInv
  <1> SUFFICES ASSUME Proper(cfg)'
               PROVE  Levels'
    BY <1>1 DEF SequenceInv
  <1>2. cfg' = cfg
    BY DEF Next, TakeNewHeaders, OpenInterval, AddNodesToInterval, CloseInterval, EndSequence, GetNextDerivedGraph,
           LoseInterval, vars
  <1>3. Proper(cfg) /\ Levels
    BY <1>2 DEF SequenceInv, Proper
  <1>4. CASE UNCHANGED vars \/ TakeNewHeaders \/ (\E h \in headers : OpenInterval(h)) \/ AddNodesToInterval
             \/ CloseInterval \/ LoseInterval
    <2>1. UNCHANGED <<cfg, graph, originals, sequence>> /\ phase' \in {phase, "undefined"}
      BY <1>4 DEF TakeNewHeaders, OpenInterval, AddNodesToInterval, CloseInterval, LoseInterval, vars
    <2> QED
      BY <1>3, <2>1, LevelsStay
  <1> QED
    BY <1>3, <1>4, EndSequenceLevels, GetNextDerivedGraphLevels DEF Next

-----------------------------------------------------------------------------
(* The blocks from which a path leads to a block                           *)

\* One step further back in region.
Before(region, S) == S \cup {u \in region : Succs(cfg, u) \cap S # {}}
\* The sets that 0 .. m steps back from t reach.
BackUpTo(region, t, m, w) == w = [k \in 0 .. m |-> IF k = 0 THEN {t} ELSE Before(region, w[k - 1])]

(* The sets that the steps reach, up to any number of steps.               *)
LEMMA BackExists ==
  ASSUME NEW region, NEW t, NEW n \in Nat
  PROVE  \E w : BackUpTo(region, t, n, w)
PROOF
  <1> DEFINE Bad == {m \in Nat : ~ \E w : BackUpTo(region, t, m, w)}
  <1> SUFFICES ASSUME Bad # {}
               PROVE  FALSE
    OBVIOUS
  <1>1. PICK m \in Bad : \A y \in Bad : m <= y
    BY SmallestNumber
  <1>2. m # 0
    <2> DEFINE w == [k \in 0 .. 0 |-> {t}]
    <2>1. BackUpTo(region, t, 0, w)
      BY DEF BackUpTo
    <2> QED
      BY <2>1
  <1>3. m - 1 \in Nat /\ m - 1 \notin Bad
    BY <1>1, <1>2
  <1>4. PICK w : BackUpTo(region, t, m - 1, w)
    BY <1>3
  <1> DEFINE x == [k \in 0 .. m |-> IF k = m THEN Before(region, w[m - 1]) ELSE w[k]]
  <1>5. \A k \in 0 .. m - 1 : w[k] = IF k = 0 THEN {t} ELSE Before(region, w[k - 1])
    BY <1>4 DEF BackUpTo
  <1>6. ASSUME NEW k \in 0 .. m
        PROVE  x[k] = IF k = 0 THEN {t} ELSE Before(region, x[k - 1])
    <2>1. CASE k = m
      <3>1. m - 1 \in 0 .. m /\ m - 1 # m
        BY <1>2, <1>3
      <3>2. x[m - 1] = w[m - 1]
        BY <3>1
      <3> QED
        BY <1>2, <2>1, <3>2
    <2>2. CASE k # m
      <3>1. k \in 0 .. m - 1 /\ (k # 0 => k - 1 \in 0 .. m /\ k - 1 # m)
        BY <1>3, <2>2
      <3>2. x[k] = w[k] /\ (k # 0 => x[k - 1] = w[k - 1])
        BY <2>2, <3>1
      <3> QED
        BY <1>5, <3>1, <3>2
    <2> QED
      BY <2>1, <2>2
  <1>7. BackUpTo(region, t, m, x)
    <2>1. x = [k \in 0 .. m |-> x[k]]
      OBVIOUS
    <2> HIDE DEF x
    <2> QED
      BY <2>1, <1>6 DEF BackUpTo
  <1> QED
    BY <1>1, <1>7

(* ReachIn is the last of the sets that the steps back reach.              *)
LEMMA ReachInBySteps ==
  ASSUME NEW region, IsFiniteSet(region), NEW t
  PROVE  \E w : BackUpTo(region, t, Cardinality(region), w) /\ ReachIn(region, t) = w[Cardinality(region)]
PROOF
  <1>1. PICK w : BackUpTo(region, t, Cardinality(region), w)
    BY BackExists, FS_CardinalityType
  <1>2. BackUpTo(region, t, Cardinality(region), CHOOSE x : BackUpTo(region, t, Cardinality(region), x))
    BY <1>1
  <1>3. ReachIn(region, t) = (CHOOSE x : BackUpTo(region, t, Cardinality(region), x))[Cardinality(region)]
    BY Zenon DEF ReachIn, BackUpTo, Before
  <1> QED
    BY <1>2, <1>3

\* No path inside of region comes into S from outside.
NotEntered(region, S) == \A u \in region : Succs(cfg, u) \cap S # {} => u \in S

(* A set that holds t and that no path inside of region enters holds all   *)
(* blocks from which a path leads to t.                                    *)
LEMMA ReachInLeast ==
  ASSUME NEW region, IsFiniteSet(region), NEW t, NEW S, t \in S, NotEntered(region, S)
  PROVE  ReachIn(region, t) \subseteq S
PROOF
  <1> DEFINE n == Cardinality(region)
  <1>1. n \in Nat
    BY FS_CardinalityType
  <1>2. PICK w : BackUpTo(region, t, n, w) /\ ReachIn(region, t) = w[n]
    BY ReachInBySteps
  <1> HIDE DEF n
  <1> DEFINE Bad == {k \in 0 .. n : ~ w[k] \subseteq S}
  <1> SUFFICES ASSUME Bad # {}
               PROVE  FALSE
    BY <1>1, <1>2
  <1> Bad \subseteq Nat
    BY <1>1
  <1>3. PICK k \in Bad : \A y \in Bad : k <= y
    BY SmallestNumber
  <1>4. w[k] = IF k = 0 THEN {t} ELSE Before(region, w[k - 1])
    BY <1>2, <1>3 DEF BackUpTo
  <1>5. k # 0 /\ k \in Nat /\ k - 1 \in 0 .. n
    BY <1>1, <1>3, <1>4
  <1>6. w[k - 1] \subseteq S
    BY <1>3, <1>5
  <1>7. Before(region, w[k - 1]) \subseteq S
    BY <1>6 DEF Before, NotEntered
  <1> QED
    BY <1>3, <1>4, <1>5, <1>7

(* As many steps back as region has blocks find all of them.               *)
LEMMA ReachInClosed ==
  ASSUME NEW region, IsFiniteSet(region), NEW t
  PROVE  t \in ReachIn(region, t) /\ ReachIn(region, t) \subseteq region \cup {t} /\ NotEntered(region, ReachIn(region, t))
PROOF
  <1> DEFINE n == Cardinality(region)
             A == region \cup {t}
  <1>1. n \in Nat
    BY FS_CardinalityType
  <1>2. PICK w : BackUpTo(region, t, n, w) /\ ReachIn(region, t) = w[n]
    BY ReachInBySteps
  <1>3. IsFiniteSet(A) /\ Cardinality(A) \in Nat /\ Cardinality(A) <= n + 1
    <2>1. IsFiniteSet(A)
      BY FS_AddElement
    <2>2. Cardinality(A) = n \/ Cardinality(A) = n + 1
      BY FS_AddElement
    <2> QED
      BY <1>1, <2>1, <2>2
  <1> HIDE DEF n, A
  <1>4. w[0] = {t} /\ \A k \in 1 .. n : w[k] = Before(region, w[k - 1])
    <2>1. \A k \in 0 .. n : w[k] = IF k = 0 THEN {t} ELSE Before(region, w[k - 1])
      BY <1>2 DEF BackUpTo
    <2> QED
      BY <1>1, <2>1
  <1> DEFINE Good(k) == /\ t \in w[k] /\ w[k] \subseteq A
                        /\ NotEntered(region, w[k]) \/ Cardinality(w[k]) > k
             Bad == {k \in 0 .. n : ~ Good(k)}
  <1>5. Good(0)
    <2>1. Cardinality({t}) = 1
      BY FS_Singleton
    <2> QED
      BY <1>4, <2>1 DEF A
  <1>6. ASSUME NEW k \in 1 .. n, Good(k - 1)
        PROVE  Good(k)
    <2> DEFINE S == w[k - 1]
    <2>1. w[k] = Before(region, S)
      BY <1>4
    <2>2. t \in w[k] /\ S \subseteq w[k] /\ w[k] \subseteq A
      BY <2>1, <1>6 DEF Before, A
    <2>3. CASE NotEntered(region, S)
      <3>1. w[k] = S
        BY <2>1, <2>3 DEF Before, NotEntered
      <3> QED
        BY <3>1, <2>2, <2>3
    <2>4. CASE ~ NotEntered(region, S)
      <3>1. PICK u \in region : Succs(cfg, u) \cap S # {} /\ u \notin S
        BY <2>4 DEF NotEntered
      <3>2. u \in w[k]
        BY <2>1, <3>1 DEF Before
      <3>3. IsFiniteSet(w[k])
        BY <2>2, <1>3, FS_Subset
      <3>4. IsFiniteSet(S) /\ Cardinality(S) <= Cardinality(w[k]) /\ Cardinality(S) # Cardinality(w[k])
        BY <3>1, <3>2, <3>3, <2>2, FS_Subset
      <3>5. Cardinality(S) \in Nat /\ Cardinality(w[k]) \in Nat
        BY <3>3, <3>4, FS_CardinalityType
      <3>6. Cardinality(S) > k - 1
        BY <1>6, <2>4
      <3> QED
        BY <2>2, <3>4, <3>5, <3>6
    <2> QED
      BY <2>3, <2>4
  <1> HIDE DEF Good
  <1>7. Good(n)
    <2> SUFFICES ASSUME Bad # {}
                 PROVE  FALSE
      BY <1>1
    <2> Bad \subseteq Nat
      BY <1>1
    <2>1. PICK k \in Bad : \A y \in Bad : k <= y
      BY SmallestNumber
    <2>2. k # 0
      BY <2>1, <1>5
    <2>3. k \in 1 .. n /\ k - 1 \in 0 .. n /\ ~ k <= k - 1
      BY <2>1, <2>2, <1>1
    <2>4. Good(k - 1)
      BY <2>1, <2>3
    <2> QED
      BY <2>1, <2>3, <2>4, <1>6
  <1>8. NotEntered(region, w[n])
    <2> SUFFICES ASSUME Cardinality(w[n]) > n
                 PROVE  NotEntered(region, w[n])
      BY <1>7 DEF Good
    <2>1. w[n] \in SUBSET A
      BY <1>7 DEF Good
    <2>2. Cardinality(w[n]) <= Cardinality(A) /\ Cardinality(w[n]) \in Nat
          /\ (Cardinality(w[n]) = Cardinality(A) => w[n] = A)
      BY <1>3, <2>1, FS_Subset, FS_CardinalityType
    <2>3. w[n] = A
      BY <1>1, <1>3, <2>2
    <2> QED
      BY <2>3 DEF NotEntered, A
  <1> QED
    BY <1>2, <1>7, <1>8 DEF Good, A

-----------------------------------------------------------------------------
(* The blocks of a loop                                                    *)

(* The block at which control comes to O is on every path to a block of O. *)
LEMMA EntryBlockDominates ==
  ASSUME IsGraph(cfg), NEW O, NEW b, IsEntryBlock(cfg, O, b), NEW x \in O
  PROVE  Dominates(cfg, b, x)
PROOF
  <1> DEFINE S == Vertices(cfg) \ O
  <1>1. S \in SUBSET (Vertices(cfg) \ {b, x})
    BY DEF IsEntryBlock
  <1>2. 0 \in S \cup {b}
    BY EntryVertex DEF IsEntryBlock
  <1>3. \A e \in cfg.edges : e[1] \in S => e[2] \in S \cup {b}
    BY DEF IsEntryBlock, IsGraph
  <1> QED
    BY <1>1, <1>2, <1>3 DEF Dominates

\* What NaturalLoops says of a loop.
IsNaturalLoop(h, nodes) ==
  /\ nodes \subseteq NaturalLoop(h)
  /\ Cardinality(LatchingBlocks(cfg, h)) = 1 => nodes = NaturalLoop(h)

(* The pair that getOriginalHeaderLatchingNodes finds: header and latching *)
(* block of the level are one vertex only if they are one block, and the   *)
(* header is the block at which control comes to the interval.             *)
LEMMA PairOfBlocks ==
  ASSUME IsGraph(cfg), Proper(cfg), NEW item, Level(cfg, item), NEW levels, NEW i, LevelFits(cfg, levels, i, item),
         NEW k \in DOMAIN item.intervals, NEW j \in BackEdgeNodes(item, k), NEW h, NEW l,
         <<h, l>> \in OriginalPairs(item, k, j)
  PROVE  /\ IsEntryBlock(cfg, item.originals[k], h)
         /\ IsEntryBlock(cfg, IntervalOriginalNodes(item, k), h)
         /\ l \in IntervalOriginalNodes(item, k)
         /\ IntervalOriginalNodes(item, k) \subseteq Vertices(cfg)
         /\ l \in LatchingBlocks(cfg, h) /\ h \in Vertices(cfg)
PROOF
  <1> DEFINE g == item.graph
             R == IntervalOriginalNodes(item, k)
  <1>1. /\ k \in item.intervals[k] /\ item.intervals[k] \subseteq Vertices(g)
        /\ j \in item.intervals[k] /\ <<j, k>> \in g.edges
    BY DEF Level, IsInterval, BackEdgeNodes, Preds
  <1>2. h \in item.originals[k] /\ l \in item.originals[j] /\ <<l, h>> \in cfg.edges
    BY DEF OriginalPairs
  <1>3. R \subseteq Vertices(cfg)
    BY <1>1 DEF IntervalOriginalNodes, Level, StandsForBlocks
  <1>4. PICK b : IsEntryBlock(cfg, item.originals[k], b)
    BY <1>1 DEF Level, HasEntries
  <1>5. h = b
    <2>1. CASE j = k
      <3>1. i = 1
        BY <1>1, <2>1 DEF LevelFits, NoSelfLoops
      <3>2. item.originals[k] = {k}
        BY <1>1, <3>1 DEF LevelFits
      <3> QED
        BY <1>2, <1>4, <3>2 DEF IsEntryBlock
    <2>2. CASE j # k
      <3>1. item.originals[j] \cap item.originals[k] = {}
        BY <1>1, <2>2 DEF Level, StandsForBlocks
      <3> QED
        BY <1>2, <1>4, <3>1 DEF IsEntryBlock
    <2> QED
      BY <2>1, <2>2
  <1>6. IsEntryBlock(cfg, R, h)
    BY <1>4, <1>5, RegionEntry
  <1>7. l \in R /\ h \in R
    BY <1>1, <1>2 DEF IntervalOriginalNodes
  <1>8. Dominates(cfg, h, l)
    BY <1>6, <1>7, EntryBlockDominates
  <1>9. l \in LatchingBlocks(cfg, h)
    BY <1>2, <1>3, <1>7, <1>8 DEF LatchingBlocks, Preds
  <1> QED
    BY <1>3, <1>4, <1>5, <1>6, <1>7, <1>9

(* getLoopNodes finds no block from which control does not return to the   *)
(* header, and all of them if there is one latching block.                 *)
LEMMA LoopNodesNatural ==
  ASSUME IsGraph(cfg), NEW R, R \subseteq Vertices(cfg), NEW h, IsEntryBlock(cfg, R, h), NEW l \in R,
         l \in LatchingBlocks(cfg, h), NEW item, NEW nodes \in LoopNodesChoices(item, h, l, R)
  PROVE  IsNaturalLoop(h, nodes)
PROOF
  <1> DEFINE V == Vertices(cfg)
             N == NaturalLoop(h)
             P == (R \ (Preds(cfg, h) \cup {h})) \cup {l}
             may == IF h = l THEN ReachIn(R, h) ELSE MayPassLatching(R, h, l)
             must == IF h = l THEN may ELSE may \ MayAvoidLatching(R, h, l)
  <1>1. IsFiniteSet(V) /\ IsFiniteSet(V \ {h}) /\ IsFiniteSet(R) /\ IsFiniteSet(P) /\ IsFiniteSet(R \ {l})
    <2>1. IsFiniteSet(V)
      BY EntryVertex
    <2>2. V \ {h} \subseteq V /\ P \subseteq V /\ R \ {l} \subseteq V
      OBVIOUS
    <2> QED
      BY <2>1, <2>2, FS_Subset
  <1>2. h \in R /\ h \in V /\ l \in V
    BY DEF IsEntryBlock
  <1>3. \A u \in R : u \in Preds(cfg, h) => u \in LatchingBlocks(cfg, h)
    BY EntryBlockDominates DEF LatchingBlocks
  <1>4. \A x : x \in N <=> x = h \/ \E u \in LatchingBlocks(cfg, h) \ {h} : x \in ReachIn(V \ {h}, u)
    BY DEF NaturalLoop
  <1>5. \A u \in LatchingBlocks(cfg, h) : u \in N
    BY <1>1, <1>4, ReachInClosed
  <1>6. NotEntered(R, N)
    <2> SUFFICES ASSUME NEW u \in R, NEW w \in Succs(cfg, u), w \in N, u # h
                 PROVE  u \in N
      BY <1>4 DEF NotEntered
    <2>1. CASE w = h
      <3>1. u \in Preds(cfg, h)
        BY <2>1 DEF Preds, Succs
      <3> QED
        BY <1>3, <1>5, <3>1
    <2>2. CASE w # h
      <3>1. PICK y \in LatchingBlocks(cfg, h) \ {h} : w \in ReachIn(V \ {h}, y)
        BY <1>4, <2>2
      <3>2. NotEntered(V \ {h}, ReachIn(V \ {h}, y))
        BY <1>1, ReachInClosed
      <3>3. u \in ReachIn(V \ {h}, y)
        BY <3>1, <3>2 DEF NotEntered
      <3> QED
        BY <1>4, <3>1, <3>3
    <2> QED
      BY <2>1, <2>2
  <1>7. may \subseteq N
    <2>1. CASE h = l
      <3>1. ReachIn(R, h) \subseteq N
        BY <1>1, <1>4, <1>6, ReachInLeast
      <3> QED
        BY <2>1, <3>1
    <2>2. CASE h # l
      <3>1. NotEntered(P, N)
        BY <1>6 DEF NotEntered
      <3>2. ReachIn(P, l) \subseteq N
        BY <1>1, <1>5, <3>1, ReachInLeast
      <3> QED
        BY <2>2, <3>2 DEF MayPassLatching
    <2> QED
      BY <2>1, <2>2
  <1>8. PICK S \in SUBSET ((may \cap R) \ must) : nodes = {h, l} \cup must \cup S
    BY DEF LoopNodesChoices
  <1>9. nodes \subseteq N
    BY <1>4, <1>5, <1>7, <1>8
  <1>10. ASSUME Cardinality(LatchingBlocks(cfg, h)) = 1
         PROVE  N \subseteq nodes
    <2>1. LatchingBlocks(cfg, h) = {l}
      <3>1. LatchingBlocks(cfg, h) \subseteq V
        BY DEF LatchingBlocks, Preds
      <3>2. IsFiniteSet(LatchingBlocks(cfg, h))
        BY <1>1, <3>1, FS_Subset
      <3> QED
        BY <1>10, <3>2, FS_Singleton
    <2>2. CASE h = l
      BY <1>4, <1>8, <2>1, <2>2
    <2>3. CASE h # l
      <3> DEFINE M == ReachIn(P, l)
      <3>1. l \in M /\ M \subseteq P \cup {l} /\ NotEntered(P, M)
        BY <1>1, ReachInClosed
      <3>2. NotEntered(V \ {h}, M)
        <4> SUFFICES ASSUME NEW u \in V \ {h}, NEW w \in Succs(cfg, u), w \in M
                     PROVE  u \in M
          BY DEF NotEntered
        <4>1. <<u, w>> \in cfg.edges
          BY DEF Succs
        <4>2. w \in R /\ w # h
          BY <2>3, <3>1
        <4>3. u \in R
          BY <4>1, <4>2 DEF IsEntryBlock
        <4>4. u \in P
          BY <1>3, <2>1, <4>3
        <4> QED
          BY <3>1, <4>4 DEF NotEntered
      <3>3. ReachIn(V \ {h}, l) \subseteq M
        BY <1>1, <3>1, <3>2, ReachInLeast
      <3>4. NotEntered(R \ {l}, {h})
        <4> SUFFICES ASSUME NEW u \in R \ {l}, h \in Succs(cfg, u)
                     PROVE  FALSE
          BY DEF NotEntered
        <4>1. u \in Preds(cfg, h)
          BY DEF Preds, Succs
        <4> QED
          BY <1>3, <2>1, <4>1
      <3>5. MayAvoidLatching(R, h, l) \subseteq {h}
        <4>1. ReachIn(R \ {l}, h) \subseteq {h}
          <5> HIDE DEF V
          <5> QED
            BY <1>1, <3>4, ReachInLeast
        <4> QED
          BY <4>1 DEF MayAvoidLatching
      <3>6. M \subseteq must \cup {h, l}
        BY <2>3, <3>5 DEF MayPassLatching
      <3> QED
        BY <1>4, <1>8, <2>1, <3>3, <3>6
    <2> QED
      BY <2>2, <2>3
  <1> QED
    BY <1>9, <1>10 DEF IsNaturalLoop

\* structureLoops has looked at the interval of header k on level i.
LookedAt(i, k) == i < level \/ (i = level /\ k \in looked)

\* The type and the follow block of the loop are those of its blocks.
IsMadeFor(h, loop) ==
  /\ loop.latching \in LatchingBlocks(cfg, h) /\ {h, loop.latching} \subseteq loop.nodes
  /\ loop = MakeLoop(h, loop.latching, loop.nodes)

\* Each loop is a natural loop, and there is a back edge to its header.
LoopsNatural ==
  \A h \in DOMAIN loops :
    /\ h \in Vertices(cfg) /\ LatchingBlocks(cfg, h) # {}
    /\ IsNaturalLoop(h, loops[h].nodes) /\ IsMadeFor(h, loops[h])

\* A back edge on a level that was looked at has its loop.
LoopsKnown ==
  \A i \in DOMAIN sequence : \A k \in DOMAIN sequence[i].intervals :
    LookedAt(i, k) /\ BackEdgeNodes(sequence[i], k) # {} =>
      \E h \in DOMAIN loops : IsEntryBlock(cfg, sequence[i].originals[k], h)

\* The inductive invariant of structureLoops.
LoopInv ==
  /\ SequenceInv
  /\ level \in Nat \ {0}
  /\ phase # "done" => level = 1 /\ looked = {}
  /\ Proper(cfg) => LoopsNatural /\ LoopsKnown

-----------------------------------------------------------------------------
(* The back edges of a function                                            *)

(* A header of the level that is the target of an edge from its interval   *)
(* has an original one: the edge was not made up.                          *)
LEMMA PairExists ==
  ASSUME IsGraph(cfg), NEW item, Level(cfg, item), NEW levels, NEW i, LevelFits(cfg, levels, i, item),
         NEW k \in DOMAIN item.intervals, NEW j \in BackEdgeNodes(item, k)
  PROVE  OriginalPairs(item, k, j) # {}
PROOF
  <1>1. /\ k \in Vertices(item.graph) /\ j \in Vertices(item.graph) /\ <<j, k>> \in item.graph.edges
    BY DEF Level, BackEdgeNodes, Preds
  <1> SUFFICES ASSUME \A x \in item.originals[k], y \in item.originals[j] : <<y, x>> \notin cfg.edges
               PROVE  FALSE
    <2> SUFFICES ASSUME NEW x \in item.originals[k], NEW y \in item.originals[j], <<y, x>> \in cfg.edges
                 PROVE  OriginalPairs(item, k, j) # {}
      OBVIOUS
    <2>1. <<x, y>> \in OriginalPairs(item, k, j)
      BY DEF OriginalPairs
    <2> QED
      BY <2>1
  <1>2. CASE j = k
    <2>1. i = 1
      BY <1>1, <1>2 DEF LevelFits, NoSelfLoops
    <2>2. item.graph = cfg /\ item.originals[k] = {k}
      BY <1>1, <2>1 DEF LevelFits
    <2> QED
      BY <1>1, <1>2, <2>2
  <1>3. CASE j # k
    <2>1. PICK e \in cfg.edges : e[1] \in item.originals[j] /\ e[2] \in item.originals[k]
      BY <1>1, <1>3 DEF Level, StandsForBlocks
    <2>2. e = <<e[1], e[2]>>
      BY DEF IsGraph
    <2> QED
      BY <2>1, <2>2
  <1> QED
    BY <1>2, <1>3

(* FirstPair finds a pair if there is one.                                 *)
LEMMA FirstPairIsPair ==
  ASSUME IsGraph(cfg), NEW item, Level(cfg, item), NEW levels, NEW i, LevelFits(cfg, levels, i, item),
         Proper(cfg), NEW k \in DOMAIN item.intervals, NEW j \in BackEdgeNodes(item, k), OriginalPairs(item, k, j) # {}
  PROVE  /\ FirstPair(OriginalPairs(item, k, j)) \in OriginalPairs(item, k, j)
         /\ FirstPair(OriginalPairs(item, k, j)) =
              <<FirstPair(OriginalPairs(item, k, j))[1], FirstPair(OriginalPairs(item, k, j))[2]>>
PROOF
  <1> DEFINE pairs == OriginalPairs(item, k, j)
  <1>1. \A p \in pairs : p = <<p[1], p[2]>> /\ p[1] \in item.originals[k] /\ <<p[2], p[1]>> \in cfg.edges
    BY DEF OriginalPairs
  <1>2. PICK h : IsEntryBlock(cfg, item.originals[k], h)
    BY DEF Level, HasEntries
  <1>3. \A p \in pairs : p[1] = h
    <2> SUFFICES ASSUME NEW p \in pairs
                 PROVE  p[1] = h
      OBVIOUS
    <2>1. <<p[1], p[2]>> \in OriginalPairs(item, k, j)
      BY <1>1
    <2>2. IsEntryBlock(cfg, item.originals[k], p[1]) /\ p[2] \in LatchingBlocks(cfg, p[1])
      BY <2>1, PairOfBlocks
    <2>3. PICK q \in item.originals[k], y \in item.originals[j] : p = <<q, y>> /\ <<y, q>> \in cfg.edges
      BY DEF OriginalPairs
    <2>4. k \in Vertices(item.graph) /\ j \in Vertices(item.graph) /\ <<j, k>> \in item.graph.edges
      BY DEF Level, BackEdgeNodes, Preds
    <2>5. CASE j = k
      <3>1. i = 1
        BY <2>4, <2>5 DEF LevelFits, NoSelfLoops
      <3>2. item.originals[k] = {k}
        BY <2>4, <3>1 DEF LevelFits
      <3> QED
        BY <1>2, <2>3, <3>2 DEF IsEntryBlock
    <2>6. CASE j # k
      <3>1. y \notin item.originals[k]
        BY <2>3, <2>4, <2>6 DEF Level, StandsForBlocks
      <3> QED
        BY <1>2, <2>3, <3>1 DEF IsEntryBlock
    <2> QED
      BY <2>5, <2>6
  <1>4. \A p \in pairs : p[2] \in Nat /\ h \in Nat
    <2>1. \A p \in pairs : p[2] \in Vertices(cfg) /\ p[1] \in Vertices(cfg)
      BY <1>1 DEF IsGraph
    <2>2. Vertices(cfg) \subseteq Nat
      BY EntryVertex
    <2> QED
      BY <1>3, <2>1, <2>2
  <1> DEFINE S == {p[2] : p \in pairs}
  <1>5. S \subseteq Nat /\ S # {}
    BY <1>4
  <1>6. PICK y \in S : \A z \in S : y <= z
    <2> HIDE DEF S
    <2> QED
      BY <1>5, SmallestNumber
  <1>7. PICK p \in pairs : p[2] = y
    BY <1>6
  <1>8. \A q \in pairs : Precedes(p, q)
    BY <1>3, <1>6, <1>7 DEF Precedes
  <1> HIDE DEF pairs
  <1>9. FirstPair(pairs) \in pairs
    BY <1>7, <1>8 DEF FirstPair
  <1> QED
    BY <1>1, <1>9 DEF pairs

(* A block outside dominates the entry block if it dominates any block.    *)
LEMMA DominatesEntryBlock ==
  ASSUME IsGraph(cfg), Proper(cfg), NEW O, O \subseteq Vertices(cfg), NEW b, IsEntryBlock(cfg, O, b), NEW h, h \notin O,
         NEW x \in O, Dominates(cfg, h, x)
  PROVE  Dominates(cfg, h, b)
PROOF
  <1> SUFFICES ASSUME ~ Dominates(cfg, h, b)
               PROVE  FALSE
    OBVIOUS
  <1> DEFINE Z == {z \in O : Dominates(cfg, h, z)}
             S == Vertices(cfg) \ Z
  <1>1. 0 \in S
    BY EntryVertex DEF IsEntryBlock
  <1>2. ASSUME NEW e \in cfg.edges, e[1] \in S
        PROVE  e[2] \in S
    <2>1. e = <<e[1], e[2]>> /\ e[2] \in Vertices(cfg)
      BY DEF IsGraph
    <2> SUFFICES ASSUME e[2] \in Z
                 PROVE  FALSE
      BY <2>1
    <2>2. e[1] \in O
      BY DEF IsEntryBlock
    <2>3. Dominates(cfg, h, e[1])
      BY <2>1, DominatesPredecessors
    <2> QED
      BY <1>2, <2>2, <2>3
  <1>3. S = Vertices(cfg)
    BY <1>1, <1>2 DEF Proper, AllReachable
  <1> QED
    BY <1>3

(* The target of a back edge of the function is in the header of the       *)
(* interval, if both ends have come into one interval, but are not yet in  *)
(* one vertex: a vertex beside the header that the target dominates has a  *)
(* predecessor that is another.                                            *)
LEMMA BackEdgeToHeader ==
  ASSUME IsGraph(cfg), Proper(cfg), NEW item, Level(cfg, item), NEW k \in DOMAIN item.intervals,
         NEW v \in item.intervals[k], NEW j \in item.intervals[k], v # j,
         NEW h \in item.originals[v], NEW l \in item.originals[j], <<l, h>> \in cfg.edges, Dominates(cfg, h, l)
  PROVE  v = k /\ j \in BackEdgeNodes(item, k) /\ IsEntryBlock(cfg, item.originals[k], h)
PROOF
  <1> DEFINE g == item.graph
             I == item.intervals[k]
             O(x) == item.originals[x]
             R == IntervalOriginalNodes(item, k)
  <1>1. /\ k \in I /\ I \subseteq Vertices(g) /\ IsGraph(g)
        /\ \A x \in I \ {k} : Preds(g, x) # {} /\ Preds(g, x) \subseteq I
        /\ \A S \in SUBSET (I \ {k}) : S # {} => \E x \in S : Preds(g, x) \cap S = {}
    BY DEF Level, IsInterval
  <1>2. /\ \A x, y \in Vertices(g) : x # y =>
             /\ O(x) \cap O(y) = {}
             /\ <<x, y>> \in g.edges <=> \E e \in cfg.edges : e[1] \in O(x) /\ e[2] \in O(y)
        /\ \A x \in Vertices(g) : O(x) \subseteq Vertices(cfg)
    BY DEF Level, StandsForBlocks
  <1>3. \A x \in Vertices(g) : \E b : IsEntryBlock(cfg, O(x), b)
    BY DEF Level, HasEntries
  <1>4. v \in Vertices(g) /\ j \in Vertices(g) /\ k \in Vertices(g)
    BY <1>1
  <1>5. <<j, v>> \in g.edges /\ j \in Preds(g, v)
    <2>1. <<j, v>> \in g.edges
      BY <1>2, <1>4
    <2> QED
      BY <1>4, <2>1 DEF Preds
  <1>6. IsEntryBlock(cfg, O(v), h)
    <2>1. PICK b : IsEntryBlock(cfg, O(v), b)
      BY <1>3, <1>4
    <2>2. l \notin O(v)
      BY <1>2, <1>4
    <2> QED
      BY <2>1, <2>2 DEF IsEntryBlock
  <1>7. v = k
    <2> SUFFICES ASSUME v # k
                 PROVE  FALSE
      OBVIOUS
    <2>1. ASSUME NEW z \in O(k), Dominates(cfg, h, z)
          PROVE  FALSE
      <3>1. PICK b : IsEntryBlock(cfg, O(k), b)
        BY <1>3, <1>4
      <3>2. h \notin O(k)
        BY <1>2, <1>4
      <3>3. Dominates(cfg, h, b)
        <4>1. O(k) \subseteq Vertices(cfg)
          BY <1>2, <1>4
        <4> QED
          BY <2>1, <3>1, <3>2, <4>1, DominatesEntryBlock
      <3>4. IsEntryBlock(cfg, R, b)
        BY <3>1, RegionEntry
      <3>5. h \in R
        BY DEF IntervalOriginalNodes
      <3>6. Dominates(cfg, b, h)
        BY <3>4, <3>5, EntryBlockDominates
      <3>7. b \in Vertices(cfg) /\ b \in O(k)
        BY <1>2, <1>4, <3>1 DEF IsEntryBlock
      <3>8. b \in Reached(cfg)
        <4>1. Reached(cfg) = Vertices(cfg)
          BY ReachedClosed DEF Closed, Proper, AllReachable
        <4> QED
          BY <3>7, <4>1
      <3>9. h = b
        BY <3>3, <3>6, <3>8, DominatesAntisymmetric
      <3> QED
        BY <3>2, <3>7, <3>9
    <2> DEFINE Y == {x \in I \ {k} : \E z \in O(x) : Dominates(cfg, h, z)}
    <2>2. v \in Y
      <3>1. Dominates(cfg, h, h)
        BY DEF Dominates
      <3> QED
        BY <3>1
    <2>3. ASSUME NEW x \in Y
          PROVE  Preds(g, x) \cap Y # {}
      <3>1. CASE x = v
        <4>1. j # k
          BY <2>1
        <4>2. j \in Y
          BY <4>1
        <4> QED
          BY <1>5, <3>1, <4>2
      <3>2. CASE x # v
        <4>1. PICK z \in O(x) : Dominates(cfg, h, z)
          OBVIOUS
        <4>2. x \in Vertices(g) /\ h \notin O(x) /\ O(x) \subseteq Vertices(cfg)
          BY <1>1, <1>2, <1>4, <3>2
        <4>3. PICK b : IsEntryBlock(cfg, O(x), b)
          BY <1>3, <4>2
        <4>4. Dominates(cfg, h, b) /\ b # h
          BY <4>1, <4>2, <4>3, DominatesEntryBlock DEF IsEntryBlock
        <4>5. PICK u \in Preds(g, x) : TRUE
          BY <1>1
        <4>6. u \in I /\ u \in Vertices(g) /\ <<u, x>> \in g.edges
          BY <1>1 DEF Preds
        <4>7. u # x
          <5> SUFFICES ASSUME u = x
                       PROVE  FALSE
            OBVIOUS
          <5>1. {x} \in SUBSET (I \ {k})
            OBVIOUS
          <5>2. Preds(g, x) \cap {x} = {}
            BY <1>1, <5>1
          <5> QED
            BY <4>5, <5>2
        <4>8. PICK e \in cfg.edges : e[1] \in O(u) /\ e[2] \in O(x)
          BY <1>2, <4>2, <4>6, <4>7
        <4>9. e[1] \notin O(x) /\ e = <<e[1], e[2]>>
          BY <1>2, <4>2, <4>6, <4>7, <4>8 DEF IsGraph
        <4>10. e[2] = b
          BY <4>3, <4>8, <4>9 DEF IsEntryBlock
        <4>11. Dominates(cfg, h, e[1])
          BY <4>4, <4>8, <4>9, <4>10, DominatesPredecessors
        <4>12. u # k
          BY <2>1, <4>8, <4>11
        <4>13. u \in Y
          BY <4>6, <4>8, <4>11, <4>12
        <4> QED
          BY <4>5, <4>13
      <3> QED
        BY <3>1, <3>2
    <2>4. Y \in SUBSET (I \ {k}) /\ Y # {}
      BY <2>2
    <2> HIDE DEF Y
    <2> QED
      BY <1>1, <2>3, <2>4
  <1> QED
    BY <1>5, <1>6, <1>7 DEF BackEdgeNodes

-----------------------------------------------------------------------------
(* structureLoops                                                          *)

(* There is no loop before the first level is looked at.                   *)
LEMMA InitLoops == LoopInit => LoopInv
PROOF
  <1> SUFFICES ASSUME LoopInit
               PROVE  LoopInv
    OBVIOUS
  <1>1. SequenceInv
    BY InitLevels DEF LoopInit
  <1>2. DOMAIN loops = {} /\ DOMAIN sequence = {}
    BY DEF LoopInit, Init
  <1> QED
    BY <1>1, <1>2 DEF LoopInit, LoopInv, LoopsNatural, LoopsKnown

(* What a loop is depends on the function only.                            *)
LEMMA LoopOfFunction ==
  ASSUME cfg' = cfg, NEW h, NEW nodes, NEW loop
  PROVE  /\ IsNaturalLoop(h, nodes)' <=> IsNaturalLoop(h, nodes)
         /\ IsMadeFor(h, loop)' <=> IsMadeFor(h, loop)
PROOF
  <1>1. IsNaturalLoop(h, nodes)' <=> IsNaturalLoop(h, nodes)
    BY DEF IsNaturalLoop, NaturalLoop, ReachIn
  <1>2. \A l, S : LoopType(h, l, S)' = LoopType(h, l, S)
    BY DEF LoopType, HasSuccessorOutside, IsTwoWay
  <1>3. \A v, S : FindSuccessorNotInSet(v, S)' = FindSuccessorNotInSet(v, S)
    BY DEF FindSuccessorNotInSet
  <1>4. \A S : FirstInReversePostorder(ExitTargets(S))' = FirstInReversePostorder(ExitTargets(S))
    BY DEF FirstInReversePostorder, ReversePostorder, ExitTargets
  <1>5. \A type, l, S : FollowNode(type, h, l, S)' = FollowNode(type, h, l, S)
    BY <1>3, <1>4 DEF FollowNode
  <1>6. \A l, S : MakeLoop(h, l, S)' = MakeLoop(h, l, S)
    BY <1>2, <1>5 DEF MakeLoop
  <1>7. IsMadeFor(h, loop)' <=> IsMadeFor(h, loop)
    BY <1>6 DEF IsMadeFor
  <1> QED
    BY <1>1, <1>7

(* The loops of a function stay what they are.                             *)
LEMMA LoopsStay ==
  ASSUME LoopsNatural, UNCHANGED <<cfg, loops>>
  PROVE  LoopsNatural'
PROOF
  <1>1. /\ \A x, S : IsNaturalLoop(x, S)' <=> IsNaturalLoop(x, S)
        /\ \A x, loop : IsMadeFor(x, loop)' <=> IsMadeFor(x, loop)
    BY LoopOfFunction
  <1> QED
    BY <1>1 DEF LoopsNatural

(* The levels are counted from 1.                                          *)
LEMMA LevelNumbers ==
  ASSUME LoopInv
  PROVE  /\ DOMAIN sequence = 1 .. Len(sequence) /\ Len(sequence) \in Nat /\ DOMAIN sequence \subseteq Nat
         /\ level \in Nat \ {0}
PROOF
  <1>1. DOMAIN sequence = 1 .. Len(sequence) /\ Len(sequence) \in Nat
    BY OneMoreLevel DEF LoopInv, SequenceInv, RInv, IInv, Types
  <1>2. 1 .. Len(sequence) \subseteq Nat
    BY <1>1
  <1> QED
    BY <1>1, <1>2 DEF LoopInv

(* Loops are looked for in a sequence that has its last level.             *)
LEMMA NextLoops ==
  ASSUME LoopInv, [Next]_vars, UNCHANGED loopVars
  PROVE  LoopInv'
PROOF
  <1> USE DEF loopVars
  <1>1. SequenceInv'
    BY NextLevels DEF LoopInv
  <1>2. cfg' = cfg
    BY DEF Next, TakeNewHeaders, OpenInterval, AddNodesToInterval, CloseInterval, EndSequence, GetNextDerivedGraph,
           LoseInterval, vars
  <1>3. LoopsNatural => LoopsNatural'
    BY <1>2, LoopsStay
  <1>4. CASE UNCHANGED vars
    <2>1. LoopsKnown => LoopsKnown'
      BY <1>4 DEF LoopsKnown, LookedAt, vars
    <2> QED
      BY <1>1, <1>2, <1>3, <1>4, <2>1 DEF LoopInv, vars
  <1>5. CASE Next
    <2>1. phase = "intervals"
      BY <1>5 DEF Next, TakeNewHeaders, OpenInterval, AddNodesToInterval, CloseInterval, EndSequence,
                  GetNextDerivedGraph, LoseInterval, LevelComplete
    <2>2. level = 1 /\ looked = {}
      BY <2>1 DEF LoopInv
    <2>3. \A i \in DOMAIN sequence' : ~ i < 1
      <3>1. IsSequence(sequence')
        BY <1>1 DEF SequenceInv, RInv, IInv, Types
      <3>2. DOMAIN sequence' = 1 .. Len(sequence') /\ Len(sequence') \in Nat
        BY <3>1, OneMoreLevel
      <3> QED
        BY <3>2
    <2>4. LoopsKnown'
      BY <2>2, <2>3 DEF LoopsKnown, LookedAt
    <2> QED
      BY <1>1, <1>2, <1>3, <2>2, <2>4 DEF LoopInv
  <1> QED
    BY <1>4, <1>5

(* The level that structureLoops looks at.                                 *)
LEMMA LevelLookedAt ==
  ASSUME LoopInv, level <= Len(sequence), Proper(cfg)
  PROVE  /\ level \in DOMAIN sequence /\ IsGraph(cfg)
         /\ Level(cfg, sequence[level]) /\ LevelFits(cfg, sequence, level, sequence[level])
PROOF
  <1>1. IsGraph(cfg) /\ Levels
    BY DEF LoopInv, SequenceInv, RInv, IInv, Types
  <1>2. level \in DOMAIN sequence
    BY LevelNumbers
  <1> QED
    BY <1>1, <1>2 DEF Levels

(* The loop that structureLoop inserts is a natural loop, and its header is*)
(* the entry block of the header of the interval.                          *)
LEMMA StructureLoopStep ==
  ASSUME LoopInv, NEW k, StructureLoop(k)
  PROVE  LoopInv'
PROOF
  <1> DEFINE item == sequence[level]
             R == IntervalOriginalNodes(item, k)
  <1>1. phase = "done" /\ level <= Len(sequence) /\ k \in DOMAIN item.intervals
    BY DEF StructureLoop, IsNextHeader
  <1>2. UNCHANGED <<vars, level>> /\ looked' = looked \cup {k}
    BY DEF StructureLoop
  <1>3. PICK j \in BackEdgeNodes(item, k) :
          /\ OriginalPairs(item, k, j) # {}
          /\ \E nodes \in LoopNodesChoices(item, FirstPair(OriginalPairs(item, k, j))[1],
                                           FirstPair(OriginalPairs(item, k, j))[2], R) :
               loops' = InsertLoop(MakeLoop(FirstPair(OriginalPairs(item, k, j))[1],
                                            FirstPair(OriginalPairs(item, k, j))[2], nodes))
    BY DEF StructureLoop
  <1>4. SequenceInv'
    BY <1>2, NextLevels DEF LoopInv
  <1>5. UNCHANGED <<cfg, sequence, phase>> /\ level' = level
    BY <1>2 DEF vars
  <1> SUFFICES ASSUME Proper(cfg)
               PROVE  LoopsNatural' /\ LoopsKnown'
    BY <1>1, <1>4, <1>5 DEF LoopInv
  <1>6. /\ level \in DOMAIN sequence /\ IsGraph(cfg)
        /\ Level(cfg, item) /\ LevelFits(cfg, sequence, level, item)
    BY <1>1, LevelLookedAt
  <1> DEFINE h == FirstPair(OriginalPairs(item, k, j))[1]
             l == FirstPair(OriginalPairs(item, k, j))[2]
  <1> HIDE DEF item
  <1>7. <<h, l>> \in OriginalPairs(item, k, j)
    BY <1>1, <1>3, <1>6, FirstPairIsPair
  <1>8. PICK nodes \in LoopNodesChoices(item, h, l, R) : loops' = InsertLoop(MakeLoop(h, l, nodes))
    BY <1>3
  <1> HIDE DEF h, l
  <1>9. /\ IsEntryBlock(cfg, item.originals[k], h) /\ IsEntryBlock(cfg, R, h)
        /\ l \in R /\ R \subseteq Vertices(cfg) /\ l \in LatchingBlocks(cfg, h) /\ h \in Vertices(cfg)
    BY <1>1, <1>3, <1>6, <1>7, PairOfBlocks
  <1> DEFINE loop == MakeLoop(h, l, nodes)
  <1>10. loop.header = h /\ loop.nodes = nodes /\ loop.latching = l
    BY DEF MakeLoop
  <1> HIDE DEF loop
  <1>11. /\ DOMAIN loops' = DOMAIN loops \cup {h}
         /\ \A x \in DOMAIN loops : loops'[x] = loops[x]
         /\ h \notin DOMAIN loops => loops'[h] = loop
    BY <1>8, <1>10 DEF InsertLoop, loop
  <1>12. IsNaturalLoop(h, nodes) /\ IsMadeFor(h, loop)
    <2>1. IsNaturalLoop(h, nodes)
      BY <1>6, <1>8, <1>9, LoopNodesNatural
    <2>2. {h, l} \subseteq nodes
      BY <1>8 DEF LoopNodesChoices
    <2> QED
      BY <1>9, <1>10, <2>1, <2>2 DEF IsMadeFor, loop
  <1>13. LoopsNatural'
    <2>1. LoopsNatural /\ cfg' = cfg
      BY <1>5 DEF LoopInv
    <2>2. \A x \in DOMAIN loops' :
            /\ x \in Vertices(cfg) /\ LatchingBlocks(cfg, x) # {}
            /\ IsNaturalLoop(x, loops'[x].nodes) /\ IsMadeFor(x, loops'[x])
      BY <1>9, <1>10, <1>11, <1>12, <2>1 DEF LoopsNatural
    <2>3. /\ \A x, S : IsNaturalLoop(x, S)' <=> IsNaturalLoop(x, S)
          /\ \A x, y : IsMadeFor(x, y)' <=> IsMadeFor(x, y)
      BY <2>1, LoopOfFunction
    <2> QED
      BY <2>1, <2>2, <2>3 DEF LoopsNatural
  <1>14. LoopsKnown'
    <2> SUFFICES ASSUME NEW i \in DOMAIN sequence, NEW y \in DOMAIN sequence[i].intervals,
                        LookedAt(i, y)', BackEdgeNodes(sequence[i], y) # {}
                 PROVE  \E x \in DOMAIN loops' : IsEntryBlock(cfg, sequence[i].originals[y], x)
      BY <1>5 DEF LoopsKnown
    <2>1. CASE LookedAt(i, y)
      BY <1>11, <2>1 DEF LoopInv, LoopsKnown
    <2>2. CASE ~ LookedAt(i, y)
      <3>1. i = level /\ y = k
        BY <1>2, <1>5, <2>2, LevelNumbers DEF LookedAt
      <3> QED
        BY <1>9, <1>11, <3>1 DEF item
    <2> QED
      BY <2>1, <2>2
  <1> QED
    BY <1>13, <1>14

(* An interval without a back edge is passed.                              *)
LEMMA PassIntervalStep ==
  ASSUME LoopInv, NEW k, PassInterval(k)
  PROVE  LoopInv'
PROOF
  <1> DEFINE item == sequence[level]
  <1>1. /\ phase = "done" /\ level <= Len(sequence) /\ k \in DOMAIN item.intervals
        /\ UNCHANGED <<vars, loops, level>> /\ looked' = looked \cup {k}
        /\ \/ BackEdgeNodes(item, k) = {}
           \/ \E j \in BackEdgeNodes(item, k) : OriginalPairs(item, k, j) = {}
    BY DEF PassInterval, IsNextHeader
  <1>2. SequenceInv'
    BY <1>1, NextLevels DEF LoopInv
  <1>3. UNCHANGED <<cfg, sequence, phase, loops>> /\ level' = level
    BY <1>1 DEF vars
  <1> SUFFICES ASSUME Proper(cfg)
               PROVE  LoopsNatural' /\ LoopsKnown'
    BY <1>1, <1>2, <1>3 DEF LoopInv
  <1>4. LoopsNatural'
    BY <1>3, LoopsStay DEF LoopInv
  <1>5. /\ IsGraph(cfg) /\ Level(cfg, item) /\ LevelFits(cfg, sequence, level, item)
    BY <1>1, LevelLookedAt
  <1> HIDE DEF item
  <1>6. BackEdgeNodes(item, k) = {}
    BY <1>1, <1>5, PairExists
  <1>7. LoopsKnown'
    <2> SUFFICES ASSUME NEW i \in DOMAIN sequence, NEW y \in DOMAIN sequence[i].intervals,
                        LookedAt(i, y)', BackEdgeNodes(sequence[i], y) # {}
                 PROVE  \E x \in DOMAIN loops : IsEntryBlock(cfg, sequence[i].originals[y], x)
      BY <1>3 DEF LoopsKnown
    <2>1. ~ (i = level /\ y = k)
      BY <1>6 DEF item
    <2>2. LookedAt(i, y)
      BY <1>1, <1>3, <2>1, LevelNumbers DEF LookedAt
    <2> QED
      BY <2>2 DEF LoopInv, LoopsKnown
  <1> QED
    BY <1>4, <1>7

(* The next level comes after all headers of this one.                     *)
LEMMA NextLevelStep ==
  ASSUME LoopInv, NextLevel
  PROVE  LoopInv'
PROOF
  <1>1. /\ phase = "done" /\ level <= Len(sequence) /\ looked = DOMAIN sequence[level].intervals
        /\ level' = level + 1 /\ looked' = {} /\ UNCHANGED <<vars, loops>>
    BY DEF NextLevel
  <1>2. SequenceInv'
    BY <1>1, NextLevels DEF LoopInv
  <1>3. UNCHANGED <<cfg, sequence, phase, loops>>
    BY <1>1 DEF vars
  <1>4. level \in Nat \ {0} /\ level' \in Nat \ {0}
    BY <1>1 DEF LoopInv
  <1> SUFFICES ASSUME Proper(cfg)
               PROVE  LoopsNatural' /\ LoopsKnown'
    BY <1>1, <1>2, <1>3, <1>4 DEF LoopInv
  <1>5. LoopsNatural'
    BY <1>3, LoopsStay DEF LoopInv
  <1>6. DOMAIN sequence \subseteq Nat
    BY LevelNumbers
  <1>7. LoopsKnown'
    <2> SUFFICES ASSUME NEW i \in DOMAIN sequence, NEW y \in DOMAIN sequence[i].intervals,
                        LookedAt(i, y)', BackEdgeNodes(sequence[i], y) # {}
                 PROVE  \E x \in DOMAIN loops : IsEntryBlock(cfg, sequence[i].originals[y], x)
      BY <1>3 DEF LoopsKnown
    <2>1. i < level + 1
      BY <1>1 DEF LookedAt
    <2>2. i < level \/ i = level
      BY <1>4, <1>6, <2>1
    <2>3. LookedAt(i, y)
      BY <1>1, <2>2 DEF LookedAt
    <2> QED
      BY <2>3 DEF LoopInv, LoopsKnown
  <1> QED
    BY <1>5, <1>7

(* Every step of structureLoops preserves the invariant.                   *)
LEMMA LoopNextStep == LoopInv /\ [LoopNext]_allVars => LoopInv'
PROOF
  <1> SUFFICES ASSUME LoopInv, [LoopNext]_allVars
               PROVE  LoopInv'
    OBVIOUS
  <1>1. CASE UNCHANGED allVars
    BY <1>1, NextLoops DEF allVars
  <1>2. CASE Next /\ UNCHANGED loopVars
    BY <1>2, NextLoops
  <1>3. CASE \E k \in Vertices(cfg) : StructureLoop(k) \/ PassInterval(k)
    BY <1>3, StructureLoopStep, PassIntervalStep
  <1>4. CASE NextLevel
    BY <1>4, NextLevelStep
  <1> QED
    BY <1>1, <1>2, <1>3, <1>4 DEF LoopNext

(* The invariant holds, whatever the functions and however many levels.    *)
THEOREM LoopInvariant == LoopSpec => []LoopInv
PROOF
  BY InitLoops, LoopNextStep, PTL DEF LoopSpec

(* getLoopNodes finds the natural loop of the back edge, on whatever level *)
(* the interval was, and nothing beyond it if there are other back edges.  *)
THEOREM LoopsAreNatural == LoopSpec => []NaturalLoops
PROOF
  <1>1. LoopInv => NaturalLoops
    BY DEF LoopInv, LoopsNatural, IsNaturalLoop, NaturalLoops
  <1> QED
    BY <1>1, LoopInvariant, PTL

(* Both ends of a back edge come into one interval, at the latest on the   *)
(* last level, and on the first level where they do they are apart before. *)
LEMMA LevelOfBackEdge ==
  ASSUME LoopInv, Finished, Proper(cfg), Reducible(cfg), NoSelfLoops(cfg), NEW h \in Vertices(cfg),
         NEW l \in Vertices(cfg), h # l
  PROVE  \E i \in DOMAIN sequence : \E k \in DOMAIN sequence[i].intervals :
           \E v, j \in sequence[i].intervals[k] :
             v # j /\ h \in sequence[i].originals[v] /\ l \in sequence[i].originals[j]
PROOF
  <1> DEFINE n == Len(sequence)
             Together(i) == \E k \in DOMAIN sequence[i].intervals :
                              h \in IntervalOriginalNodes(sequence[i], k) /\ l \in IntervalOriginalNodes(sequence[i], k)
             S == {i \in DOMAIN sequence : Together(i)}
  <1>1. Levels /\ phase = "done" /\ LimitTellsReducible
    BY DEF LoopInv, SequenceInv, RInv, Finished
  <1>2. DOMAIN sequence = 1 .. n /\ n \in Nat
    BY LevelNumbers
  <1>3. n \in DOMAIN sequence /\ sequence[n].graph = graph /\ graph.size = 1
    BY <1>1 DEF Levels, LimitTellsReducible, Proper
  <1>4. \A i \in DOMAIN sequence : Level(cfg, sequence[i]) /\ LevelFits(cfg, sequence, i, sequence[i])
    BY <1>1 DEF Levels
  <1>5. Together(n)
    <2>1. Vertices(sequence[n].graph) = {0}
      BY <1>3 DEF Vertices
    <2>2. UNION {sequence[n].originals[v] : v \in Vertices(sequence[n].graph)} = Vertices(cfg)
          /\ UNION {sequence[n].intervals[k] : k \in DOMAIN sequence[n].intervals} = Vertices(sequence[n].graph)
      BY <1>3, <1>4 DEF Level, StandsForBlocks
    <2>3. sequence[n].originals[0] = Vertices(cfg)
      <3>1. UNION {sequence[n].originals[v] : v \in {0}} = sequence[n].originals[0]
        OBVIOUS
      <3> QED
        BY <2>1, <2>2, <3>1
    <2>4. PICK k \in DOMAIN sequence[n].intervals : 0 \in sequence[n].intervals[k]
      BY <2>1, <2>2
    <2> QED
      BY <2>3, <2>4 DEF IntervalOriginalNodes
  <1> HIDE DEF n
  <1>6. PICK i \in S : \A y \in S : i <= y
    <2>1. S \subseteq Nat /\ S # {}
      BY <1>2, <1>3, <1>5
    <2> HIDE DEF S
    <2> QED
      BY <2>1, SmallestNumber
  <1>7. PICK k \in DOMAIN sequence[i].intervals :
          h \in IntervalOriginalNodes(sequence[i], k) /\ l \in IntervalOriginalNodes(sequence[i], k)
    BY <1>6
  <1>8. PICK v \in sequence[i].intervals[k], j \in sequence[i].intervals[k] :
          h \in sequence[i].originals[v] /\ l \in sequence[i].originals[j]
    BY <1>7 DEF IntervalOriginalNodes
  <1>9. v \in Vertices(sequence[i].graph) /\ j \in Vertices(sequence[i].graph)
    BY <1>4, <1>6 DEF Level, IsInterval
  <1>10. v # j
    <2> SUFFICES ASSUME v = j
                 PROVE  FALSE
      OBVIOUS
    <2>1. CASE i = 1
      <3>1. sequence[i].originals[v] = {v}
        BY <1>4, <1>6, <1>9, <2>1 DEF LevelFits
      <3> QED
        BY <1>8, <3>1
    <2>2. CASE i # 1
      <3>1. i - 1 \in DOMAIN sequence
            /\ \A x \in Vertices(sequence[i].graph) : \E y \in DOMAIN sequence[i - 1].intervals :
                 sequence[i].originals[x] = IntervalOriginalNodes(sequence[i - 1], y)
        BY <1>4, <1>6, <2>2 DEF LevelFits
      <3>2. i - 1 \in S
        BY <1>8, <1>9, <3>1
      <3> QED
        BY <1>2, <1>6, <3>2
    <2> QED
      BY <2>1, <2>2
  <1> QED
    BY <1>6, <1>8, <1>10

(* Every header of a reducible function gets a loop, if no block branches to*)
(* itself.                                                                 *)
THEOREM NoLoopMissed == LoopSpec => []AllLoopsFound
PROOF
  <1>1. LoopInv => AllLoopsFound
    <2> SUFFICES ASSUME LoopInv, Finished, Proper(cfg), Reducible(cfg), NoSelfLoops(cfg)
                 PROVE  {h \in Vertices(cfg) : LatchingBlocks(cfg, h) # {}} = DOMAIN loops
      BY DEF AllLoopsFound
    <2>1. \A h \in DOMAIN loops : h \in Vertices(cfg) /\ LatchingBlocks(cfg, h) # {}
      BY DEF LoopInv, LoopsNatural
    <2>2. ASSUME NEW h \in Vertices(cfg), NEW l \in LatchingBlocks(cfg, h)
          PROVE  h \in DOMAIN loops
      <3>1. l \in Vertices(cfg) /\ <<l, h>> \in cfg.edges /\ Dominates(cfg, h, l)
        BY DEF LatchingBlocks, Preds
      <3>2. h # l
        BY <3>1 DEF NoSelfLoops
      <3>3. PICK i \in DOMAIN sequence : \E k \in DOMAIN sequence[i].intervals :
              \E v, j \in sequence[i].intervals[k] :
                v # j /\ h \in sequence[i].originals[v] /\ l \in sequence[i].originals[j]
        BY <3>1, <3>2, LevelOfBackEdge
      <3> DEFINE item == sequence[i]
      <3>4. PICK k \in DOMAIN item.intervals :
               \E v, j \in item.intervals[k] : v # j /\ h \in item.originals[v] /\ l \in item.originals[j]
        BY <3>3
      <3>5. PICK v \in item.intervals[k], j \in item.intervals[k] :
              v # j /\ h \in item.originals[v] /\ l \in item.originals[j]
        BY <3>4
      <3>6. IsGraph(cfg) /\ Level(cfg, item)
        BY DEF LoopInv, SequenceInv, RInv, IInv, Types, Levels
      <3>7. i < level
        <4>1. level > Len(sequence)
          BY DEF Finished
        <4> QED
          BY <4>1, LevelNumbers
      <3>8. LoopsKnown
        BY DEF LoopInv
      <3>9. v = k /\ j \in BackEdgeNodes(item, k) /\ IsEntryBlock(cfg, item.originals[k], h)
        <4> HIDE DEF item
        <4>1. k \in DOMAIN item.intervals /\ v \in item.intervals[k] /\ j \in item.intervals[k]
              /\ h \in item.originals[v] /\ l \in item.originals[j]
          BY <3>5 DEF item
        <4> QED
          BY <3>1, <3>5, <3>6, <4>1, BackEdgeToHeader
      <3>10. PICK x \in DOMAIN loops : IsEntryBlock(cfg, item.originals[k], x)
        <4>1. k \in DOMAIN sequence[i].intervals /\ LookedAt(i, k) /\ BackEdgeNodes(sequence[i], k) # {}
          BY <3>4, <3>7, <3>9 DEF LookedAt
        <4> QED
          BY <3>8, <4>1 DEF LoopsKnown
      <3>11. l \notin item.originals[k]
        <4>1. k \in Vertices(item.graph) /\ j \in Vertices(item.graph)
          BY <3>5, <3>6 DEF Level, IsInterval
        <4> QED
          BY <3>5, <3>6, <3>9, <4>1 DEF Level, StandsForBlocks
      <3>12. x = h
        BY <3>1, <3>9, <3>10, <3>11 DEF IsEntryBlock
      <3> QED
        BY <3>10, <3>12
    <2> QED
      BY <2>1, <2>2
  <1> QED
    BY <1>1, LoopInvariant, PTL

-----------------------------------------------------------------------------
(* Every branch is structured                                              *)

(* The postorder in which the passes visit the blocks has each block once. *)
LEMMA VisitOrderCovers ==
  ASSUME cfg \in FlowGraphs
  PROVE  IsOrder(cfg.size, VisitOrder)
PROOF
  <1>1. cfg.size \in Nat /\ OutEdgesOK(cfg.size, cfg.out)
    BY FlowGraphsAssumption, BlocksAssumption DEF IsGraph, OutEdgesOK, Vertices
  <1> QED
    BY <1>1, PostOrderComplete DEF VisitOrder

\* The branches that ConditionalStructurer has taken up.
TakenUp == DOMAIN conditionals \cup unresolved

\* It takes up branches of which no loop is the test, ...
TakesConditionals ==
  /\ pass \in {"switches", "loops"} => TakenUp = {}
  /\ \A v \in TakenUp : v \in Vertices(cfg) /\ IsConditional(v)

\* ... and all of them: those that it has visited in the first part, and in the
\* end those that it could not resolve.
TakesAll ==
  /\ pass = "conditionals" => turn \in 0 .. cfg.size /\ \A i \in 1 .. turn : IsConditional(VisitOrder[i]) => VisitOrder[i] \in TakenUp
  /\ pass = "in loops" => \A v \in Vertices(cfg) : IsConditional(v) => v \in TakenUp
  /\ pass = "done" => \A v \in Vertices(cfg) : IsConditional(v) => v \in DOMAIN conditionals

BranchInv == cfg \in FlowGraphs /\ TakesConditionals /\ TakesAll

(* Inserting adds headers and keeps those there are.                       *)
LEMMA InsertedHeaders ==
  ASSUME NEW new
  PROVE  DOMAIN InsertConditionals(new) = DOMAIN conditionals \cup DOMAIN new
PROOF
  BY DEF InsertConditionals

(* What the loops say of a branch does not change in the passes that       *)
(* follow.                                                                 *)
LEMMA ConditionalsStay ==
  ASSUME UNCHANGED allVars
  PROVE  /\ cfg' = cfg /\ Vertices(cfg)' = Vertices(cfg) /\ VisitOrder' = VisitOrder
         /\ \A v : IsConditional(v)' <=> IsConditional(v)
PROOF
  <1>1. cfg' = cfg /\ loops' = loops
    BY DEF allVars, vars, loopVars
  <1> QED
    BY <1>1 DEF VisitOrder, IsConditional, IsTwoWay, TestsLoop

(* A branch is taken up when it is visited, and none is dropped.           *)
LEMMA VisitsTakeUp ==
  ASSUME BranchInv, VisitConditional \/ PassBlock
  PROVE  BranchInv'
PROOF
  <1> DEFINE v == VisitOrder[turn + 1]
  <1>1. UNCHANGED allVars /\ pass = "conditionals" /\ pass' = pass /\ turn < cfg.size /\ turn' = turn + 1
    BY DEF VisitConditional, PassBlock
  <1>2. /\ cfg \in FlowGraphs /\ turn \in 0 .. cfg.size /\ cfg.size \in Nat
        /\ \A i \in 1 .. turn : IsConditional(VisitOrder[i]) => VisitOrder[i] \in TakenUp
        /\ \A x \in TakenUp : x \in Vertices(cfg) /\ IsConditional(x)
    BY <1>1, FlowGraphsAssumption DEF BranchInv, TakesConditionals, TakesAll, IsGraph
  <1>3. /\ cfg' = cfg /\ Vertices(cfg)' = Vertices(cfg) /\ VisitOrder' = VisitOrder
        /\ \A x : IsConditional(x)' <=> IsConditional(x)
    BY <1>1, ConditionalsStay
  <1>4. v \in Vertices(cfg)
    <2>1. IsOrder(cfg.size, VisitOrder)
      BY <1>2, VisitOrderCovers
    <2>2. turn + 1 \in 1 .. cfg.size
      BY <1>1, <1>2
    <2>3. VisitOrder \in Seq(Vertices(cfg)) /\ Len(VisitOrder) = cfg.size
      BY <2>1 DEF IsOrder, Vertices
    <2> QED
      BY <2>2, <2>3
  <1>5. TakenUp' = IF IsConditional(v) THEN TakenUp \cup {v} ELSE TakenUp
    <2>1. CASE VisitConditional
      <3>1. IsConditional(v)
        BY <2>1 DEF VisitConditional
      <3>2. CASE ConditionalFollow(v) = NoNode
        BY <2>1, <3>1, <3>2 DEF VisitConditional, TakenUp
      <3>3. CASE ConditionalFollow(v) # NoNode
        <4>1. PICK new : /\ conditionals' = InsertConditionals(new) /\ DOMAIN new = unresolved \cup {v}
                         /\ unresolved' = {}
          BY <2>1, <3>3 DEF VisitConditional
        <4> QED
          BY <4>1, <3>1, InsertedHeaders DEF TakenUp
      <3> QED
        BY <3>2, <3>3
    <2>2. CASE PassBlock
      BY <2>2 DEF PassBlock, TakenUp
    <2> QED
      BY <2>1, <2>2
  <1>6. TakesConditionals'
    BY <1>1, <1>2, <1>3, <1>4, <1>5 DEF TakesConditionals
  <1>7. TakesAll'
    <2>1. turn' \in 0 .. cfg'.size
      BY <1>1, <1>2, <1>3
    <2>2. ASSUME NEW i \in 1 .. turn', IsConditional(VisitOrder[i])
          PROVE  VisitOrder[i] \in TakenUp'
      <3>1. CASE i = turn + 1
        BY <3>1, <2>2, <1>5
      <3>2. CASE i # turn + 1
        <4>1. i \in 1 .. turn
          BY <3>2, <1>1, <1>2
        <4> QED
          BY <4>1, <2>2, <1>2, <1>5
      <3> QED
        BY <3>1, <3>2
    <2> QED
      BY <2>1, <2>2, <1>1, <1>3 DEF TakesAll
  <1> QED
    BY <1>2, <1>3, <1>6, <1>7 DEF BranchInv

(* The parts of the analysis after the visit.                              *)
LEMMA RestTakesUp ==
  ASSUME BranchInv, EndConditionals \/ (\E u \in unresolved : ResolveInLoop(u)) \/ EndUnresolved
  PROVE  BranchInv'
PROOF
  <1>1. UNCHANGED allVars
    BY DEF EndConditionals, ResolveInLoop, EndUnresolved
  <1>2. /\ cfg \in FlowGraphs /\ cfg.size \in Nat
        /\ \A x \in TakenUp : x \in Vertices(cfg) /\ IsConditional(x)
    BY FlowGraphsAssumption DEF BranchInv, TakesConditionals, IsGraph
  <1>3. /\ cfg' = cfg /\ Vertices(cfg)' = Vertices(cfg)
        /\ \A x : IsConditional(x)' <=> IsConditional(x)
    BY <1>1, ConditionalsStay
  <1>4. CASE EndConditionals
    <2>1. pass = "conditionals" /\ pass' = "in loops" /\ turn = cfg.size /\ UNCHANGED <<conditionals, unresolved>>
      BY <1>4 DEF EndConditionals
    <2>2. ASSUME NEW v \in Vertices(cfg), IsConditional(v)
          PROVE  v \in TakenUp
      <3>1. PICK i \in 1 .. cfg.size : VisitOrder[i] = v
        BY <1>2, VisitOrderCovers DEF IsOrder, Vertices
      <3> QED
        BY <3>1, <2>1, <2>2 DEF BranchInv, TakesAll
    <2>3. TakenUp' = TakenUp
      BY <2>1 DEF TakenUp
    <2> QED
      BY <1>2, <1>3, <2>1, <2>2, <2>3 DEF BranchInv, TakesAll, TakesConditionals
  <1>5. ASSUME NEW u \in unresolved, ResolveInLoop(u)
        PROVE  BranchInv'
    <2>1. pass = "in loops" /\ pass' = pass /\ unresolved' = unresolved \ {u}
      BY <1>5 DEF ResolveInLoop
    <2>2. PICK h \in ReturningLoops(u) : \E follow \in FollowsInLoop(u, h) :
             conditionals' = InsertConditionals(
               [x \in {u} |-> [follow |-> follow,
                               type |-> IF follow = NoNode THEN "IF_THEN_ELSE" ELSE ConditionalType(u, follow)]])
      BY <1>5, Zenon DEF ResolveInLoop
    <2>3. PICK entry : conditionals' = InsertConditionals([x \in {u} |-> entry])
      BY <2>2, Zenon
    <2>4. DOMAIN [x \in {u} |-> entry] = {u}
      OBVIOUS
    <2>5. DOMAIN conditionals' = DOMAIN conditionals \cup {u}
      BY <2>3, <2>4, InsertedHeaders
    <2>6. TakenUp' = TakenUp
      BY <2>1, <2>5 DEF TakenUp
    <2> QED
      BY <1>2, <1>3, <2>1, <2>6 DEF BranchInv, TakesAll, TakesConditionals
  <1>6. CASE EndUnresolved
    <2>1. pass = "in loops" /\ pass' = "done" /\ unresolved' = unresolved
      BY <1>6 DEF EndUnresolved
    <2> DEFINE left == [u \in unresolved |-> [follow |-> NoNode, type |-> "UNKNOWN_CONDITIONAL"]]
    <2>2. conditionals' = InsertConditionals(left)
      BY <1>6 DEF EndUnresolved
    <2>3. DOMAIN left = unresolved
      OBVIOUS
    <2> HIDE DEF left
    <2>4. DOMAIN conditionals' = DOMAIN conditionals \cup unresolved
      BY <2>2, <2>3, InsertedHeaders
    <2>5. DOMAIN conditionals' = TakenUp /\ TakenUp' = TakenUp
      BY <2>1, <2>4 DEF TakenUp
    <2> QED
      BY <1>2, <1>3, <2>1, <2>5 DEF BranchInv, TakesAll, TakesConditionals
  <1> QED
    BY <1>4, <1>5, <1>6

(* No branch is taken up before the passes.                                *)
LEMMA InitBranches == StructureInit => BranchInv
PROOF
  <1> SUFFICES ASSUME StructureInit PROVE BranchInv
    OBVIOUS
  <1>1. cfg \in FlowGraphs /\ pass = "switches" /\ unresolved = {} /\ DOMAIN conditionals = {}
    BY DEF StructureInit, LoopInit, Init
  <1> QED
    BY <1>1 DEF BranchInv, TakesConditionals, TakesAll, TakenUp

(* Every step of the passes preserves the invariant.                       *)
LEMMA NextBranches == BranchInv /\ [StructureNext]_structureVars => BranchInv'
PROOF
  <1> SUFFICES ASSUME BranchInv, [StructureNext]_structureVars PROVE BranchInv'
    OBVIOUS
  <1>1. CASE VisitSwitch \/ VisitOtherBlock \/ Overflow \/ EndSwitches
    <2>1. /\ UNCHANGED <<allVars, conditionals, unresolved>> /\ pass = "switches"
          /\ pass' \in {"switches", "overflow", "loops"}
      BY <1>1 DEF VisitSwitch, VisitOtherBlock, Overflow, EndSwitches
    <2>2. cfg' = cfg /\ TakenUp' = TakenUp /\ TakenUp = {}
      BY <2>1 DEF allVars, vars, TakenUp, BranchInv, TakesConditionals
    <2> QED
      BY <2>1, <2>2 DEF BranchInv, TakesConditionals, TakesAll
  <1>2. CASE StructureLoops
    <2>1. pass = "loops" /\ UNCHANGED <<pass, conditionals, unresolved>> /\ cfg' = cfg
      BY <1>2, FunctionStays DEF StructureLoops, branchVars
    <2>2. TakenUp' = TakenUp /\ TakenUp = {}
      BY <2>1 DEF TakenUp, BranchInv, TakesConditionals
    <2> QED
      BY <2>1, <2>2 DEF BranchInv, TakesConditionals, TakesAll
  <1>3. CASE EndLoops
    <2>1. /\ UNCHANGED <<allVars, conditionals, unresolved>> /\ pass = "loops" /\ pass' = "conditionals" /\ turn' = 0
      BY <1>3 DEF EndLoops
    <2>2. cfg' = cfg /\ TakenUp' = TakenUp /\ TakenUp = {} /\ cfg.size \in Nat
      BY <2>1, FlowGraphsAssumption DEF allVars, vars, TakenUp, BranchInv, TakesConditionals, IsGraph
    <2> QED
      BY <2>1, <2>2 DEF BranchInv, TakesConditionals, TakesAll
  <1>4. CASE VisitConditional \/ PassBlock
    BY <1>4, VisitsTakeUp
  <1>5. CASE EndConditionals \/ (\E u \in unresolved : ResolveInLoop(u)) \/ EndUnresolved
    BY <1>5, RestTakesUp
  <1>6. CASE UNCHANGED structureVars
    <2>1. UNCHANGED allVars /\ UNCHANGED <<pass, turn, conditionals, unresolved>>
      BY <1>6 DEF structureVars, branchVars
    <2>2. TakenUp' = TakenUp
      BY <2>1 DEF TakenUp
    <2> QED
      BY <2>1, <2>2, ConditionalsStay DEF BranchInv, TakesConditionals, TakesAll
  <1> QED
    BY <1>1, <1>2, <1>3, <1>4, <1>5, <1>6 DEF StructureNext

(* In the end each two-way branch is the test of a loop or a conditional,  *)
(* and not both: in postorder all blocks are visited, and what is left     *)
(* unresolved becomes a conditional without a follow block.                *)
THEOREM BranchesStructured == StructureSpec => []EveryBranchStructured
PROOF
  <1>1. BranchInv => EveryBranchStructured
    BY DEF BranchInv, TakesConditionals, TakesAll, TakenUp, IsConditional, EveryBranchStructured
  <1> QED
    BY <1>1, InitBranches, NextBranches, PTL DEF StructureSpec

-----------------------------------------------------------------------------
(* The exits of a loop                                                     *)

(* One path after another.                                                 *)
LEMMA PathsJoin ==
  ASSUME NEW region, IsFiniteSet(region), NEW t, NEW y \in ReachIn(region, t), NEW x \in ReachIn(region, y)
  PROVE  x \in ReachIn(region, t)
PROOF
  <1>1. NotEntered(region, ReachIn(region, t))
    BY ReachInClosed
  <1> QED
    BY <1>1, ReachInLeast

(* One edge before a path.                                                 *)
LEMMA EdgeBeforePath ==
  ASSUME NEW region, IsFiniteSet(region), NEW t, NEW u \in region, NEW w \in Succs(cfg, u), w \in ReachIn(region, t)
  PROVE  u \in ReachIn(region, t)
PROOF
  <1>1. NotEntered(region, ReachIn(region, t))
    BY ReachInClosed
  <1> QED
    BY <1>1 DEF NotEntered

(* A path that goes anywhere has a first edge, ...                         *)
LEMMA FirstEdge ==
  ASSUME NEW region, IsFiniteSet(region), NEW t, NEW x \in ReachIn(region, t), x # t
  PROVE  \E w \in Succs(cfg, x) : w \in ReachIn(region, t)
PROOF
  <1> DEFINE R == ReachIn(region, t)
             S == {t} \cup {u \in R : \E w \in Succs(cfg, u) : w \in R}
  <1>1. t \in R /\ NotEntered(region, R)
    BY ReachInClosed
  <1>2. S \subseteq R
    BY <1>1
  <1>3. NotEntered(region, S)
    BY <1>1, <1>2 DEF NotEntered
  <1>4. R \subseteq S
    BY <1>3, ReachInLeast
  <1> QED
    BY <1>4

(* ... and a last one.                                                     *)
LEMMA LastEdge ==
  ASSUME NEW region, IsFiniteSet(region), NEW t, NEW x \in ReachIn(region, t), x # t
  PROVE  \E u \in region : t \in Succs(cfg, u) /\ x \in ReachIn(region, u)
PROOF
  <1> SUFFICES ASSUME \A u \in region : t \in Succs(cfg, u) => x \notin ReachIn(region, u)
               PROVE  FALSE
    OBVIOUS
  <1> DEFINE S == {t} \cup {u \in region : x \notin ReachIn(region, u)}
  <1>1. NotEntered(region, S)
    <2> SUFFICES ASSUME NEW u \in region, NEW w \in Succs(cfg, u), w \in S, x \in ReachIn(region, u)
                 PROVE  FALSE
      BY DEF NotEntered
    <2>1. w # t /\ w \in region /\ x \notin ReachIn(region, w)
      OBVIOUS
    <2>2. w \in ReachIn(region, w)
      BY ReachInClosed
    <2>3. u \in ReachIn(region, w)
      BY <2>2, EdgeBeforePath
    <2> QED
      BY <2>1, <2>3, PathsJoin
  <1>2. x \in S
    BY <1>1, ReachInLeast
  <1>3. x \in ReachIn(region, x)
    BY ReachInClosed
  <1> QED
    BY <1>2, <1>3

(* A block on a circle that avoids h is in the natural loop of a block of  *)
(* the circle, if the function is reducible: among the blocks of the       *)
(* circles there is one to which all edges from them lead back.            *)
LEMMA NestedHeader ==
  ASSUME IsGraph(cfg), Reducible(cfg), NEW h, NEW l \in Vertices(cfg) \ {h}, NEW s \in Succs(cfg, l), s # h,
         s \in ReachIn(Vertices(cfg) \ {h}, l)
  PROVE  \E k \in ReachIn(Vertices(cfg) \ {h}, l) \ {h} : LatchingBlocks(cfg, k) # {} /\ l \in NaturalLoop(k)
PROOF
  <1> DEFINE V == Vertices(cfg)
             A == V \ {h}
             R == ReachIn(A, l)
             F == {x \in R : l \in ReachIn(A, x)}
  <1>1. IsFiniteSet(V) /\ IsFiniteSet(A) /\ \A k : IsFiniteSet(V \ {k})
    BY EntryVertex, FS_Subset
  <1>2. l \in R /\ R \subseteq A
    BY <1>1, ReachInClosed
  <1>3. F \in (SUBSET V) \ {{}}
    BY <1>2
  <1>4. PICK k \in F : \A u \in F : <<u, k>> \notin ForwardEdges(cfg)
    BY <1>3 DEF Reducible, Acyclic
  <1>5. \A u \in F : <<u, k>> \in cfg.edges => u \in LatchingBlocks(cfg, k)
    BY <1>3, <1>4 DEF ForwardEdges, LatchingBlocks, Preds
  <1>6. ASSUME NEW u \in A, k \in Succs(cfg, u), l \in ReachIn(A, u)
        PROVE  u \in F /\ u \in LatchingBlocks(cfg, k)
    <2>1. u \in R
      BY <1>1, <1>4, <1>6, EdgeBeforePath
    <2> QED
      BY <1>5, <1>6, <2>1 DEF Succs
  <1>7. LatchingBlocks(cfg, k) # {}
    <2>1. CASE k # l
      <3>1. PICK u \in A : k \in Succs(cfg, u) /\ l \in ReachIn(A, u)
        BY <1>1, <1>4, <2>1, LastEdge
      <3> QED
        BY <1>6, <3>1
    <2>2. CASE k = l
      <3>1. CASE s = l
        BY <1>2, <1>6, <2>2, <3>1
      <3>2. CASE s # l
        <4>1. PICK u \in A : l \in Succs(cfg, u) /\ s \in ReachIn(A, u)
          BY <1>1, <3>2, LastEdge
        <4>2. l \in ReachIn(A, u)
          BY <1>1, <1>2, <4>1, EdgeBeforePath
        <4> QED
          BY <1>6, <2>2, <4>1, <4>2
      <3> QED
        BY <3>1, <3>2
    <2> QED
      BY <2>1, <2>2
  <1>8. l \in NaturalLoop(k)
    <2> DEFINE N == NaturalLoop(k)
               S == {u \in A : l \in ReachIn(A, u) => u \in N}
    <2>1. \A x : x \in N <=> x = k \/ \E u \in LatchingBlocks(cfg, k) \ {k} : x \in ReachIn(V \ {k}, u)
      BY DEF NaturalLoop
    <2>2. NotEntered(A, S)
      <3> SUFFICES ASSUME NEW u \in A, NEW w \in Succs(cfg, u), w \in S, l \in ReachIn(A, u), u # k
                   PROVE  u \in N
        BY <2>1 DEF NotEntered
      <3>1. w \in ReachIn(A, w)
        BY <1>1, ReachInClosed
      <3>2. u \in ReachIn(A, w)
        BY <1>1, <3>1, EdgeBeforePath
      <3>3. l \in ReachIn(A, w)
        BY <1>1, <3>2, PathsJoin
      <3>4. CASE w = k
        <4>1. u \in LatchingBlocks(cfg, k) \ {k}
          BY <1>6, <3>4
        <4>2. u \in ReachIn(V \ {k}, u)
          BY <1>1, ReachInClosed
        <4> QED
          BY <2>1, <4>1, <4>2
      <3>5. CASE w # k
        <4>1. PICK y \in LatchingBlocks(cfg, k) \ {k} : w \in ReachIn(V \ {k}, y)
          BY <2>1, <3>3, <3>5
        <4>2. u \in ReachIn(V \ {k}, y)
          BY <1>1, <4>1, EdgeBeforePath
        <4> QED
          BY <2>1, <4>1, <4>2
      <3> QED
        BY <3>4, <3>5
    <2>3. k \in S
      BY <1>2, <2>1
    <2> HIDE DEF N
    <2>4. l \in S
      BY <1>1, <1>4, <2>2, <2>3, ReachInLeast
    <2>5. l \in ReachIn(A, l)
      BY <1>2
    <2> QED
      BY <2>4, <2>5 DEF N
  <1> QED
    BY <1>2, <1>4, <1>7, <1>8

(* From a header control comes to the latching block: no other way leads   *)
(* there.                                                                  *)
LEMMA HeaderLeadsIn ==
  ASSUME IsGraph(cfg), Proper(cfg), NEW h \in Vertices(cfg), NEW l \in LatchingBlocks(cfg, h), l # h
  PROVE  \E s \in Succs(cfg, h) : s \in ReachIn(Vertices(cfg) \ {h}, l)
PROOF
  <1> DEFINE V == Vertices(cfg)
             A == V \ {h}
             R == ReachIn(A, l)
  <1> SUFFICES ASSUME \A s \in Succs(cfg, h) : s \notin R
               PROVE  FALSE
    OBVIOUS
  <1>1. IsFiniteSet(A) /\ l \in A
    BY EntryVertex, FS_Subset DEF LatchingBlocks, Preds
  <1>2. l \in R /\ R \subseteq A /\ NotEntered(A, R)
    <2>1. l \in R /\ R \subseteq A \cup {l} /\ NotEntered(A, R)
      BY <1>1, ReachInClosed
    <2> QED
      BY <1>1, <2>1
  <1>3. PICK S \in SUBSET (V \ {h, l}) : 0 \in S \cup {h} /\ \A e \in cfg.edges : e[1] \in S => e[2] \in S \cup {h}
    BY DEF LatchingBlocks, Dominates
  <1>4. NotEntered(A, A \ S)
    BY <1>3 DEF NotEntered, Succs
  <1>5. R \subseteq A \ S
    BY <1>1, <1>3, <1>4, ReachInLeast
  <1>6. 0 \in V \ R
    BY <1>3, <1>5, EntryVertex
  <1>7. ASSUME NEW e \in cfg.edges, e[1] \in V \ R
        PROVE  e[2] \in V \ R
    <2>1. e = <<e[1], e[2]>> /\ e[2] \in V
      BY DEF IsGraph
    <2>2. e[2] \in Succs(cfg, e[1])
      BY <2>1 DEF Succs
    <2>3. CASE e[1] = h
      BY <2>1, <2>2, <2>3
    <2>4. CASE e[1] # h
      BY <1>2, <1>7, <2>1, <2>2, <2>4 DEF NotEntered
    <2> QED
      BY <2>3, <2>4
  <1>8. V \ R = V
    BY <1>6, <1>7 DEF Proper, AllReachable
  <1> QED
    BY <1>1, <1>2, <1>8

(* The edges of a block, as GraphConverter lists them.                     *)
LEMMA EdgesOfBlock ==
  ASSUME cfg \in FlowGraphs, NEW v \in Vertices(cfg)
  PROVE  /\ cfg.out[v] \in Seq(Vertices(cfg)) /\ Len(cfg.out[v]) \in Nat
         /\ \A w : w \in Succs(cfg, v) <=> \E i \in DOMAIN cfg.out[v] : cfg.out[v][i] = w
         /\ IsTwoWay(v) => Len(cfg.out[v]) = 2
PROOF
  <1>1. /\ cfg.out \in [Vertices(cfg) -> Seq(Vertices(cfg))]
        /\ Len(cfg.out[v]) \in NumberOfEdges[cfg.nodeType[v]]
        /\ cfg.edges = {e \in Vertices(cfg) \X Vertices(cfg) : \E i \in DOMAIN cfg.out[e[1]] : cfg.out[e[1]][i] = e[2]}
    BY BlocksAssumption
  <1>2. cfg.out[v] \in Seq(Vertices(cfg)) /\ Len(cfg.out[v]) \in Nat
    BY <1>1
  <1>3. \A w : w \in Succs(cfg, v) <=> \E i \in DOMAIN cfg.out[v] : cfg.out[v][i] = w
    BY <1>1, <1>2 DEF Succs
  <1>4. IsTwoWay(v) => Len(cfg.out[v]) = 2
    BY <1>1 DEF NumberOfEdges, IsTwoWay
  <1> QED
    BY <1>2, <1>3, <1>4

(* getSuccessorNotInSet finds a successor outside the loop if there is one,*)
(* and in any case a successor of a block that has one.                    *)
LEMMA SuccessorFound ==
  ASSUME cfg \in FlowGraphs, NEW v \in Vertices(cfg), NEW nodes
  PROVE  /\ HasSuccessorOutside(v, nodes) => FindSuccessorNotInSet(v, nodes) \in Succs(cfg, v) \ nodes
         /\ Succs(cfg, v) # {} => FindSuccessorNotInSet(v, nodes) \in Succs(cfg, v)
PROOF
  <1> DEFINE out == cfg.out[v]
             outside == {i \in DOMAIN out : out[i] \notin nodes}
  <1>1. /\ out \in Seq(Vertices(cfg)) /\ Len(out) \in Nat
        /\ \A w : w \in Succs(cfg, v) <=> \E i \in DOMAIN out : out[i] = w
    BY EdgesOfBlock
  <1>2. Succs(cfg, v) # {} => Len(out) \in DOMAIN out /\ out # <<>>
    BY <1>1
  <1> HIDE DEF out
  <1>3. CASE outside = {}
    <2>1. ~ HasSuccessorOutside(v, nodes)
      BY <1>1, <1>3 DEF HasSuccessorOutside
    <2>2. Succs(cfg, v) # {} => FindSuccessorNotInSet(v, nodes) = out[Len(out)]
      BY <1>2, <1>3 DEF FindSuccessorNotInSet, out
    <2> QED
      BY <1>1, <1>2, <2>1, <2>2
  <1>4. CASE outside # {}
    <2>1. outside \subseteq Nat
      BY <1>1
    <2>2. PICK i \in outside : \A j \in outside : i <= j
      BY <1>4, <2>1, SmallestNumber
    <2> DEFINE first == CHOOSE x \in outside : \A j \in outside : x <= j
    <2>3. first \in outside
      BY <2>2
    <2>4. out # <<>>
      BY <1>1, <1>4
    <2>5. FindSuccessorNotInSet(v, nodes) = out[first]
      BY <1>4, <2>4 DEF FindSuccessorNotInSet, out
    <2> HIDE DEF first
    <2> QED
      BY <1>1, <2>3, <2>5
  <1> QED
    BY <1>3, <1>4

(* An endless loop is left to one of its exits, if it has any.             *)
LEMMA ExitFound ==
  ASSUME cfg \in FlowGraphs, NEW S \in SUBSET Vertices(cfg), S # {}
  PROVE  FirstInReversePostorder(S) \in S
PROOF
  <1> DEFINE n == cfg.size
             order == ReversePostorder(cfg)
             found == {i \in DOMAIN order : order[i] \in S}
  <1>1. IsOrder(n, VisitOrder) /\ n \in Nat
    BY VisitOrderCovers, FlowGraphsAssumption DEF IsGraph
  <1>2. order = [i \in 1 .. n |-> VisitOrder[n - i + 1]]
    BY <1>1 DEF ReversePostorder, VisitOrder, IsOrder, Reverse
  <1>3. PICK v \in S : TRUE
    OBVIOUS
  <1>4. PICK i \in 1 .. n : VisitOrder[i] = v
    BY <1>1, <1>3 DEF IsOrder, Vertices
  <1> HIDE DEF order, n
  <1>5. order[n - i + 1] = v /\ n - i + 1 \in DOMAIN order
    <2>1. n - i + 1 \in 1 .. n /\ n - (n - i + 1) + 1 = i
      BY <1>1
    <2> QED
      BY <1>2, <1>4, <2>1
  <1>6. found # {} /\ found \subseteq Nat
    BY <1>2, <1>3, <1>5
  <1>7. PICK j \in found : \A k \in found : j <= k
    BY <1>6, SmallestNumber
  <1> DEFINE first == CHOOSE x \in DOMAIN order : order[x] \in S /\ \A y \in DOMAIN order : order[y] \in S => x <= y
  <1>8. order[first] \in S
    BY <1>7
  <1>9. FirstInReversePostorder(S) = order[first]
    BY DEF FirstInReversePostorder, order
  <1> QED
    BY <1>8, <1>9

\* The inductive invariant of the loops, and where their graph comes from.
ExitInv == LoopInv /\ cfg \in FlowGraphs

(* Both edges of a two-way latching block stay in the loop only if it is   *)
(* in the natural loop of a block of the loop, or they go to the header.   *)
LEMMA LatchingLeaves ==
  ASSUME ExitInv, Proper(cfg), Reducible(cfg), NEW h \in DOMAIN loops, EndsAtLatching(h), loops[h].latching # h,
         IsTwoWay(loops[h].latching)
  PROVE  HasSuccessorOutside(loops[h].latching, loops[h].nodes)
PROOF
  <1> DEFINE V == Vertices(cfg)
             l == loops[h].latching
             N == loops[h].nodes
             R == ReachIn(V \ {h}, l)
  <1>1. IsGraph(cfg) /\ IsFiniteSet(V) /\ IsFiniteSet(V \ {h})
    BY FlowGraphsAssumption, EntryVertex, FS_Subset DEF ExitInv
  <1>2. h \in V /\ IsNaturalLoop(h, N) /\ l \in LatchingBlocks(cfg, h) /\ {h, l} \subseteq N
    BY DEF ExitInv, LoopInv, LoopsNatural, IsMadeFor
  <1>3. LatchingBlocks(cfg, h) = {l}
    <2>1. LatchingBlocks(cfg, h) \subseteq V
      BY DEF LatchingBlocks, Preds
    <2>2. IsFiniteSet(LatchingBlocks(cfg, h))
      BY <1>1, <2>1, FS_Subset
    <2>3. Cardinality(LatchingBlocks(cfg, h)) = 1
      BY DEF EndsAtLatching
    <2> QED
      BY <1>2, <2>2, <2>3, FS_Singleton
  <1>4. N = {h} \cup R
    <2>1. N = NaturalLoop(h)
      BY <1>2 DEF IsNaturalLoop, EndsAtLatching
    <2>2. {l} \ {h} = {l}
      OBVIOUS
    <2> QED
      BY <1>3, <2>1, <2>2 DEF NaturalLoop
  <1>5. l \in V \ {h}
    BY <1>2 DEF LatchingBlocks, Preds
  <1> SUFFICES ASSUME Succs(cfg, l) \subseteq N
               PROVE  FALSE
    BY DEF HasSuccessorOutside
  <1>6. h \in Succs(cfg, l)
    BY <1>2 DEF LatchingBlocks, Preds, Succs
  <1>7. PICK s \in Succs(cfg, l) : s # h
    BY <1>6 DEF EndsAtLatching
  <1>8. s \in R
    BY <1>4, <1>7
  <1>9. PICK k \in R \ {h} : LatchingBlocks(cfg, k) # {} /\ l \in NaturalLoop(k)
    BY <1>1, <1>5, <1>7, <1>8, NestedHeader
  <1> QED
    BY <1>4, <1>9 DEF EndsAtLatching

(* A loop without a follow block is not left.                              *)
LEMMA NoFollowNoExit ==
  ASSUME ExitInv, Proper(cfg), NEW h \in DOMAIN loops, Cardinality(LatchingBlocks(cfg, h)) = 1, loops[h].follow = NoNode,
         NEW v \in loops[h].nodes
  PROVE  Succs(cfg, v) \subseteq loops[h].nodes
PROOF
  <1> DEFINE V == Vertices(cfg)
             l == loops[h].latching
             N == loops[h].nodes
             R == ReachIn(V \ {h}, l)
  <1>1. IsGraph(cfg) /\ IsFiniteSet(V) /\ IsFiniteSet(V \ {h}) /\ cfg \in FlowGraphs /\ NoNode \notin V
    BY FlowGraphsAssumption, EntryVertex, FS_Subset DEF ExitInv, NoNode
  <1>2. /\ h \in V /\ IsNaturalLoop(h, N) /\ l \in LatchingBlocks(cfg, h) /\ {h, l} \subseteq N
        /\ loops[h] = MakeLoop(h, l, N)
    BY DEF ExitInv, LoopInv, LoopsNatural, IsMadeFor
  <1>3. LatchingBlocks(cfg, h) = {l} /\ l \in V
    <2>1. LatchingBlocks(cfg, h) \subseteq V
      BY DEF LatchingBlocks, Preds
    <2>2. IsFiniteSet(LatchingBlocks(cfg, h))
      BY <1>1, <2>1, FS_Subset
    <2> QED
      BY <1>2, <2>1, <2>2, FS_Singleton
  <1>4. N = {h} \cup (IF l = h THEN {} ELSE R) /\ N \subseteq V
    <2>1. N = NaturalLoop(h)
      BY <1>2 DEF IsNaturalLoop
    <2>2. {l} \ {h} = IF l = h THEN {} ELSE {l}
      OBVIOUS
    <2>3. NaturalLoop(h) = {h} \cup (IF l = h THEN {} ELSE R)
      BY <1>3, <2>2 DEF NaturalLoop
    <2>4. l # h => R \subseteq V
      BY <1>1, <1>3, ReachInClosed
    <2> QED
      BY <1>2, <2>1, <2>3, <2>4
  <1>5. ASSUME NEW x \in V, NEW S, FindSuccessorNotInSet(x, S) = NoNode
        PROVE  Succs(cfg, x) = {}
    <2>1. Succs(cfg, x) \subseteq V
      BY DEF Succs
    <2>2. Succs(cfg, x) # {} => FindSuccessorNotInSet(x, S) \in Succs(cfg, x)
      BY <1>1, SuccessorFound
    <2> QED
      BY <1>1, <1>5, <2>1, <2>2
  <1>6. loops[h].type \notin {"PRE_TESTED", "POST_TESTED"}
    <2>1. h \in Succs(cfg, l)
      BY <1>2 DEF LatchingBlocks, Preds, Succs
    <2>2. loops[h].type = LoopType(h, l, N) /\ loops[h].follow = FollowNode(loops[h].type, h, l, N)
      BY <1>2 DEF MakeLoop
    <2>3. loops[h].type # "POST_TESTED"
      BY <1>3, <1>5, <2>1, <2>2 DEF FollowNode
    <2>4. loops[h].type # "PRE_TESTED"
      <3> SUFFICES ASSUME loops[h].type = "PRE_TESTED"
                   PROVE  FALSE
        OBVIOUS
      <3>1. Succs(cfg, h) = {}
        BY <1>2, <1>5, <2>2 DEF FollowNode
      <3>2. h # l
        BY <2>1, <3>1
      <3> QED
        BY <1>1, <1>2, <3>1, <3>2, HeaderLeadsIn
    <2> QED
      BY <2>3, <2>4
  <1>7. ExitTargets(N) = {}
    <2>1. FirstInReversePostorder(ExitTargets(N)) = NoNode
      <3>1. loops[h].type \in LoopTypes /\ loops[h].follow = FollowNode(loops[h].type, h, l, N)
        BY <1>2 DEF MakeLoop, LoopType, LoopTypes
      <3> QED
        BY <1>6, <3>1 DEF FollowNode, LoopTypes
    <2>2. ExitTargets(N) \subseteq V
      BY DEF ExitTargets, Succs
    <2> QED
      BY <1>1, <2>1, <2>2, ExitFound
  <1>8. CASE Len(cfg.out[v]) >= 2
    <2>1. Succs(cfg, v) \ N \subseteq ExitTargets(N)
      BY <1>8 DEF ExitTargets
    <2> QED
      BY <1>7, <2>1
  <1>9. CASE ~ Len(cfg.out[v]) >= 2
    <2>1. \A x, y \in Succs(cfg, v) : x = y
      <3>1. v \in V
        BY <1>4
      <3>2. /\ cfg.out[v] \in Seq(V) /\ Len(cfg.out[v]) \in Nat
            /\ \A w : w \in Succs(cfg, v) <=> \E i \in DOMAIN cfg.out[v] : cfg.out[v][i] = w
        BY <1>1, <3>1, EdgesOfBlock
      <3>3. \A i \in DOMAIN cfg.out[v] : i = 1
        BY <1>9, <3>2
      <3> QED
        BY <3>2, <3>3
    <2>2. \E s \in Succs(cfg, v) : s \in N
      <3>1. h \in Succs(cfg, l)
        BY <1>2 DEF LatchingBlocks, Preds, Succs
      <3>2. CASE v = l
        BY <1>2, <3>1, <3>2
      <3>3. CASE v = h /\ v # l
        BY <1>1, <1>2, <1>4, <3>3, HeaderLeadsIn
      <3>4. CASE v # h /\ v # l
        <4>1. v \in R /\ l # h
          BY <1>4, <3>4
        <4> QED
          BY <1>1, <1>4, <3>4, <4>1, FirstEdge
      <3> QED
        BY <3>2, <3>3, <3>4
    <2> QED
      BY <2>1, <2>2
  <1> QED
    BY <1>8, <1>9

(* Control leaves a tested loop by its test, to the follow block, if the   *)
(* latching block is not in a nested loop; and a loop without a follow     *)
(* block is not left.                                                      *)
THEOREM LoopsAreLeft == LoopSpec => []ExitsFollowed
PROOF
  <1>1. LoopInit => ExitInv
    BY InitLoops DEF LoopInit, Init, ExitInv
  <1>2. ExitInv /\ [LoopNext]_allVars => ExitInv'
    BY LoopNextStep, FunctionStays DEF ExitInv
  <1>3. ExitInv => ExitsFollowed
    <2> SUFFICES ASSUME ExitInv, Proper(cfg), NEW h \in DOMAIN loops,
                        Reducible(cfg), EndsAtLatching(h)
                 PROVE  loops[h].follow \in (IF loops[h].type = "ENDLESS" THEN Vertices(cfg) \cup {NoNode}
                                             ELSE Succs(cfg, IF loops[h].type = "PRE_TESTED" THEN h ELSE loops[h].latching))
                                            \ loops[h].nodes
      BY NoFollowNoExit DEF ExitsFollowed
    <2> DEFINE l == loops[h].latching
               N == loops[h].nodes
               type == LoopType(h, l, N)
    <2>1. cfg \in FlowGraphs /\ IsGraph(cfg) /\ NoNode \notin Vertices(cfg)
      BY FlowGraphsAssumption, EntryVertex DEF ExitInv, NoNode
    <2>2. h \in Vertices(cfg) /\ l \in Vertices(cfg) /\ loops[h] = MakeLoop(h, l, N) /\ IsNaturalLoop(h, N)
      BY DEF ExitInv, LoopInv, LoopsNatural, IsMadeFor, LatchingBlocks, Preds
    <2>3. N \subseteq Vertices(cfg)
      <3>1. \A u \in LatchingBlocks(cfg, h) \ {h} : ReachIn(Vertices(cfg) \ {h}, u) \subseteq Vertices(cfg)
        <4>1. IsFiniteSet(Vertices(cfg) \ {h})
          BY <2>1, EntryVertex, FS_Subset
        <4>2. \A u \in LatchingBlocks(cfg, h) \ {h} : u \in Vertices(cfg)
          BY DEF LatchingBlocks, Preds
        <4> QED
          BY <4>1, <4>2, ReachInClosed
      <3> QED
        BY <2>2, <3>1 DEF IsNaturalLoop, NaturalLoop
    <2>4. loops[h].type = type /\ loops[h].follow = FollowNode(type, h, l, N)
      BY <2>2 DEF MakeLoop
    <2>5. h # l /\ IsTwoWay(l) => HasSuccessorOutside(l, N)
      BY LatchingLeaves
    <2> HIDE DEF type, l, N
    <2>6. /\ type = "PRE_TESTED" => HasSuccessorOutside(h, N)
          /\ type = "POST_TESTED" => HasSuccessorOutside(l, N)
          /\ type \in LoopTypes
      BY <2>5 DEF type, LoopType, LoopTypes
    <2>7. CASE type = "PRE_TESTED"
      BY <2>1, <2>2, <2>4, <2>6, <2>7, SuccessorFound DEF FollowNode, N
    <2>8. CASE type = "POST_TESTED"
      BY <2>1, <2>2, <2>4, <2>6, <2>8, SuccessorFound DEF FollowNode, N, l
    <2>9. CASE type = "ENDLESS"
      <3>1. loops[h].follow = FirstInReversePostorder(ExitTargets(N))
        BY <2>4, <2>9 DEF FollowNode
      <3>2. ExitTargets(N) \subseteq Vertices(cfg) \ N
        BY DEF ExitTargets, Succs
      <3>3. ExitTargets(N) = {} => loops[h].follow = NoNode
        BY <3>1 DEF FirstInReversePostorder
      <3>4. ExitTargets(N) # {} => loops[h].follow \in ExitTargets(N)
        BY <2>1, <3>1, <3>2, ExitFound
      <3> QED
        BY <2>1, <2>3, <2>4, <2>9, <3>2, <3>3, <3>4 DEF N
    <2> QED
      BY <2>6, <2>7, <2>8, <2>9 DEF LoopTypes
  <1> QED
    BY <1>1, <1>2, <1>3, PTL DEF LoopSpec

-----------------------------------------------------------------------------
(* The lines written and the calls under way                               *)

IsSeq(s) == \E X : s \in Seq(X)

\* Where a list of lines has one of kinds about block v, a list of calls one.
LinesAt(lines, kinds, v) == {i \in DOMAIN lines : lines[i].kind \in kinds /\ lines[i].at = v}
CallsAt(calls, kinds, v) == {i \in DOMAIN calls : calls[i].what \in kinds /\ calls[i].at = v}

Single(S) == \A i, j \in S : i = j

\* The positions of the elements of W.
At(s, W) == {i \in DOMAIN s : s[i] \in W}

(* Positions in one list after another.                                    *)
LEMMA JoinedAt ==
  ASSUME NEW X, NEW s \in Seq(X), NEW t \in Seq(X), NEW W
  PROVE  /\ At(s \o t, W) = {} <=> At(s, W) = {} /\ At(t, W) = {}
         /\ Single(At(s \o t, W)) <=> /\ Single(At(s, W)) /\ Single(At(t, W))
                                      /\ At(s, W) = {} \/ At(t, W) = {}
PROOF
  <1>1. PICK u \in Seq(X), m \in Nat, n \in Nat :
          /\ u = s \o t /\ m = Len(s) /\ n = Len(t) /\ DOMAIN s = 1 .. m /\ DOMAIN t = 1 .. n /\ DOMAIN u = 1 .. m + n
          /\ \A i \in 1 .. m + n : u[i] = IF i <= m THEN s[i] ELSE t[i - m]
    <2>1. PICK m \in Nat, n \in Nat : m = Len(s) /\ n = Len(t) /\ DOMAIN s = 1 .. m /\ DOMAIN t = 1 .. n
      OBVIOUS
    <2>2. PICK u : u = s \o t
      OBVIOUS
    <2>3. u \in Seq(X) /\ Len(u) = Len(s) + Len(t)
      BY <2>2, ConcatProperties
    <2>4. \A i \in 1 .. Len(s) + Len(t) : u[i] = IF i <= Len(s) THEN s[i] ELSE t[i - Len(s)]
      BY <2>2, ConcatProperties, Zenon
    <2>5. DOMAIN u = 1 .. m + n
      BY <2>1, <2>3
    <2> QED
      BY <2>1, <2>2, <2>3, <2>4, <2>5, Zenon
  <1>2. ASSUME NEW i \in 1 .. m
        PROVE  i \in DOMAIN u /\ u[i] = s[i]
    BY <1>1
  <1>3. ASSUME NEW i \in 1 .. n
        PROVE  m + i \in DOMAIN u /\ u[m + i] = t[i]
    <2>1. m + i \in 1 .. m + n /\ ~ m + i <= m /\ m + i - m = i
      BY <1>1
    <2> QED
      BY <1>1, <2>1
  <1>4. ASSUME NEW i \in DOMAIN u
        PROVE  \/ i \in 1 .. m /\ u[i] = s[i]
               \/ i - m \in 1 .. n /\ m + (i - m) = i /\ u[i] = t[i - m]
    <2>1. i \in 1 .. m + n
      BY <1>1
    <2>2. i <= m => i \in 1 .. m
      BY <1>1, <2>1
    <2>3. ~ i <= m => i - m \in 1 .. n /\ m + (i - m) = i
      BY <1>1, <2>1
    <2>4. u[i] = IF i <= m THEN s[i] ELSE t[i - m]
      BY <1>1, <2>1
    <2> QED
      BY <2>2, <2>3, <2>4
  <1>5. \A i : i \in At(s, W) => i \in At(u, W)
    BY <1>1, <1>2 DEF At
  <1>6. \A i : i \in At(t, W) => i \in 1 .. n /\ m + i \in At(u, W)
    BY <1>1, <1>3 DEF At
  <1>7. \A i : i \in At(u, W) => i \in At(s, W) \/ (i - m \in At(t, W) /\ m + (i - m) = i)
    BY <1>1, <1>4 DEF At
  <1>8. \A i : i \in At(s, W) => i \in 1 .. m
    BY <1>1 DEF At
  <1>9. At(u, W) = {} <=> At(s, W) = {} /\ At(t, W) = {}
    BY <1>5, <1>6, <1>7
  <1>10. ASSUME Single(At(u, W))
         PROVE  /\ Single(At(s, W)) /\ Single(At(t, W))
                /\ At(s, W) = {} \/ At(t, W) = {}
    <2>1. Single(At(s, W))
      BY <1>5, <1>10 DEF Single
    <2>2. ASSUME NEW i \in At(t, W), NEW j \in At(t, W)
          PROVE  i = j
      <3>1. m + i = m + j /\ i \in 1 .. n /\ j \in 1 .. n
        BY <1>6, <1>10, <2>2 DEF Single
      <3> QED
        BY <3>1
    <2>3. ASSUME NEW i \in At(s, W), NEW j \in At(t, W)
          PROVE  FALSE
      <3>1. i = m + j /\ i \in 1 .. m /\ j \in 1 .. n
        BY <1>5, <1>6, <1>8, <1>10, <2>3 DEF Single
      <3> QED
        BY <3>1
    <2> QED
      BY <2>1, <2>2, <2>3 DEF Single
  <1>11. ASSUME Single(At(s, W)), Single(At(t, W)), At(s, W) = {} \/ At(t, W) = {}
         PROVE  Single(At(u, W))
    <2> SUFFICES ASSUME NEW i \in At(u, W), NEW j \in At(u, W)
                 PROVE  i = j
      BY DEF Single
    <2>1. CASE At(t, W) = {}
      BY <1>7, <1>11, <2>1 DEF Single
    <2>2. CASE At(s, W) = {}
      <3>1. i - m = j - m /\ m + (i - m) = i /\ m + (j - m) = j
        BY <1>7, <1>11, <2>2 DEF Single
      <3> QED
        BY <3>1
    <2> QED
      BY <1>11, <2>1, <2>2
  <1> QED
    BY <1>1, <1>9, <1>10, <1>11

(* The same for lists of lines and of calls.                               *)
LEMMA SeqJoined ==
  ASSUME NEW s, NEW t, IsSeq(s), IsSeq(t)
  PROVE  \E X : s \in Seq(X) /\ t \in Seq(X) /\ s \o t \in Seq(X)
PROOF
  <1>1. PICK X, Y : s \in Seq(X) /\ t \in Seq(Y)
    BY DEF IsSeq
  <1>2. s \in Seq(X \cup Y) /\ t \in Seq(X \cup Y)
    BY <1>1
  <1> QED
    BY <1>2, ConcatProperties

(* Lines about a block, in a list after another.                           *)
LEMMA LinesJoined ==
  ASSUME NEW c, NEW d, IsSeq(c), IsSeq(d), NEW K, NEW v
  PROVE  /\ LinesAt(c \o d, K, v) = {} <=> LinesAt(c, K, v) = {} /\ LinesAt(d, K, v) = {}
         /\ Single(LinesAt(c \o d, K, v)) <=> /\ Single(LinesAt(c, K, v)) /\ Single(LinesAt(d, K, v))
                                              /\ LinesAt(c, K, v) = {} \/ LinesAt(d, K, v) = {}
PROOF
  <1>1. PICK X : c \in Seq(X) /\ d \in Seq(X) /\ c \o d \in Seq(X)
    BY SeqJoined
  <1> DEFINE W == {x \in X : x.kind \in K /\ x.at = v}
  <1>2. ASSUME NEW s \in Seq(X)
        PROVE  LinesAt(s, K, v) = At(s, W)
    <2>1. \A i \in DOMAIN s : s[i] \in X
      BY <1>2
    <2> QED
      BY <2>1 DEF LinesAt, At
  <1>3. LinesAt(c, K, v) = At(c, W) /\ LinesAt(d, K, v) = At(d, W) /\ LinesAt(c \o d, K, v) = At(c \o d, W)
    BY <1>1, <1>2
  <1> HIDE DEF W
  <1> QED
    BY <1>1, <1>3, JoinedAt

(* Calls for a block, in a list after another.                             *)
LEMMA CallsJoined ==
  ASSUME NEW c, NEW d, IsSeq(c), IsSeq(d), NEW K, NEW v
  PROVE  /\ CallsAt(c \o d, K, v) = {} <=> CallsAt(c, K, v) = {} /\ CallsAt(d, K, v) = {}
         /\ Single(CallsAt(c \o d, K, v)) <=> /\ Single(CallsAt(c, K, v)) /\ Single(CallsAt(d, K, v))
                                              /\ CallsAt(c, K, v) = {} \/ CallsAt(d, K, v) = {}
PROOF
  <1>1. PICK X : c \in Seq(X) /\ d \in Seq(X) /\ c \o d \in Seq(X)
    BY SeqJoined
  <1> DEFINE W == {x \in X : x.what \in K /\ x.at = v}
  <1>2. ASSUME NEW s \in Seq(X)
        PROVE  CallsAt(s, K, v) = At(s, W)
    <2>1. \A i \in DOMAIN s : s[i] \in X
      BY <1>2
    <2> QED
      BY <2>1 DEF CallsAt, At
  <1>3. CallsAt(c, K, v) = At(c, W) /\ CallsAt(d, K, v) = At(d, W) /\ CallsAt(c \o d, K, v) = At(c \o d, W)
    BY <1>1, <1>2
  <1> HIDE DEF W
  <1> QED
    BY <1>1, <1>3, JoinedAt

(* A list of one.                                                          *)
LEMMA OneLine ==
  ASSUME NEW x, NEW K, NEW v
  PROVE  /\ IsSeq(<<x>>) /\ Single(LinesAt(<<x>>, K, v))
         /\ LinesAt(<<x>>, K, v) = {} <=> ~ (x.kind \in K /\ x.at = v)
PROOF
  <1>1. <<x>> \in Seq({x}) /\ DOMAIN <<x>> = {1} /\ <<x>>[1] = x
    OBVIOUS
  <1> QED
    BY <1>1 DEF IsSeq, LinesAt, Single

(* A list of one call.                                                     *)
LEMMA OneCall ==
  ASSUME NEW x, NEW K, NEW v
  PROVE  /\ IsSeq(<<x>>) /\ Single(CallsAt(<<x>>, K, v))
         /\ CallsAt(<<x>>, K, v) = {} <=> ~ (x.what \in K /\ x.at = v)
PROOF
  <1>1. <<x>> \in Seq({x}) /\ DOMAIN <<x>> = {1} /\ <<x>>[1] = x
    OBVIOUS
  <1> QED
    BY <1>1 DEF IsSeq, CallsAt, Single

(* The first call and the rest.                                            *)
LEMMA FirstAndRest ==
  ASSUME NEW w, IsSeq(w), w # <<>>
  PROVE  IsSeq(Tail(w)) /\ w = <<w[1]>> \o Tail(w)
PROOF
  <1>1. PICK X : w \in Seq(X)
    BY DEF IsSeq
  <1>2. Tail(w) \in Seq(X) /\ w = <<w[1]>> \o Tail(w)
    BY <1>1, HeadTailProperties
  <1> QED
    BY <1>2 DEF IsSeq

-----------------------------------------------------------------------------
(* What is decided once                                                    *)

\* The lines that test the branch of their block, and the calls that write
\* them.
Deciding == {"if", "while", "break if"}
Own == {"loop", "two way"}

\* The calls for a loop, which close it with a line that may test the branch
\* of its latching block.
Back == {"loop", "end loop"}
Returning == {"do while"}

\* A line or a call for block v that tests its branch: there is one at most.
Decides(lines, calls, v) == LinesAt(lines, Deciding, v) # {} \/ CallsAt(calls, Own, v) # {}

DecidesOnce(lines, calls, v) ==
  /\ Single(LinesAt(lines, Deciding, v)) /\ Single(CallsAt(calls, Own, v))
  /\ LinesAt(lines, Deciding, v) = {} \/ CallsAt(calls, Own, v) = {}

\* Block v is tested on its own behalf: no loop ends by its test.
Decisive(v) == IF v \in DOMAIN loops THEN loops[v].latching # v ELSE v \in DOMAIN conditionals

\* Lines that test nothing.
Quiet(lines) == IsSeq(lines) /\ \A i \in DOMAIN lines : ~ IsTest(lines[i])

\* What may be on the stack.
Item(x) ==
  IF x.what = "push" THEN Quiet(x.lines)
  ELSE /\ x = [what |-> x.what, at |-> x.at, latching |-> x.latching, follow |-> x.follow, rest |-> x.rest]
       /\ x.what \in Back => x.at \in DOMAIN loops
       /\ x.what = "two way" => Decisive(x.at)
       /\ x.what = "n way" => x.at \in DOMAIN switches

Items(w) == IsSeq(w) /\ \A i \in DOMAIN w : Item(w[i])

\* The loop of h is closed, by a line that tests the branch of block l.
Closed1(h, l) ==
  /\ loops[h].type = "POST_TESTED" /\ loops[h].latching = l
  /\ h \in handled /\ CallsAt(work, Back, h) = {}

WritesOnce ==
  /\ IsSeq(code) /\ Items(work)
  /\ \A v : DecidesOnce(code, work, v) /\ (Decides(code, work, v) => v \in handled)
  /\ \A v : LinesAt(code, Deciding, v) # {} => Decisive(v)
  /\ \A h : Single(CallsAt(work, Back, h)) /\ (CallsAt(work, Back, h) # {} => h \in handled)
  /\ \A l : /\ Single(LinesAt(code, Returning, l))
            /\ LinesAt(code, Returning, l) # {} => \E h \in DOMAIN loops : Closed1(h, l)
  /\ \A v : LinesAt(code, {"switch"}, v) # {} => v \in DOMAIN switches

(* Lists of items, and of quiet lines.                                     *)
LEMMA ElementsJoined ==
  ASSUME NEW s, NEW t, IsSeq(s), IsSeq(t), NEW i \in DOMAIN (s \o t)
  PROVE  (\E j \in DOMAIN s : (s \o t)[i] = s[j]) \/ (\E j \in DOMAIN t : (s \o t)[i] = t[j])
PROOF
  <1>1. PICK X : s \in Seq(X) /\ t \in Seq(X) /\ s \o t \in Seq(X)
    BY SeqJoined
  <1> DEFINE W == {(s \o t)[i]}
  <1>2. At(s \o t, W) # {}
    BY DEF At
  <1>3. At(s, W) # {} \/ At(t, W) # {}
    BY <1>1, <1>2, JoinedAt
  <1> QED
    BY <1>3 DEF At

(* Lists of what may be on the stack, joined.                              *)
LEMMA ItemsJoined ==
  ASSUME NEW s, NEW t, Items(s), Items(t)
  PROVE  Items(s \o t)
PROOF
  <1>1. IsSeq(s \o t)
    BY SeqJoined DEF Items, IsSeq
  <1>2. ASSUME NEW i \in DOMAIN (s \o t)
        PROVE  Item((s \o t)[i])
    BY ElementsJoined DEF Items
  <1> QED
    BY <1>1, <1>2 DEF Items

(* Lines that test nothing, joined.                                        *)
LEMMA QuietJoined ==
  ASSUME NEW s, NEW t, Quiet(s), Quiet(t)
  PROVE  Quiet(s \o t)
PROOF
  <1>1. IsSeq(s \o t)
    BY SeqJoined DEF Quiet, IsSeq
  <1>2. ASSUME NEW i \in DOMAIN (s \o t)
        PROVE  ~ IsTest((s \o t)[i])
    BY ElementsJoined DEF Quiet
  <1> QED
    BY <1>1, <1>2 DEF Quiet

(* The lists of a step take the place of the call on top.                  *)
LEMMA StackReplaced ==
  ASSUME Items(work), work # <<>>, NEW calls, Items(calls)
  PROVE  /\ IsSeq(Tail(work)) /\ Item(Top) /\ Items(calls \o Tail(work))
         /\ \A K, v : /\ CallsAt(calls \o Tail(work), K, v) = {} <=> CallsAt(calls, K, v) = {} /\ CallsAt(Tail(work), K, v) = {}
                      /\ Single(CallsAt(calls \o Tail(work), K, v)) <=>
                           /\ Single(CallsAt(calls, K, v)) /\ Single(CallsAt(Tail(work), K, v))
                           /\ CallsAt(calls, K, v) = {} \/ CallsAt(Tail(work), K, v) = {}
                      /\ CallsAt(work, K, v) = {} <=> ~ (Top.what \in K /\ Top.at = v) /\ CallsAt(Tail(work), K, v) = {}
                      /\ Single(CallsAt(work, K, v)) <=>
                           /\ Single(CallsAt(Tail(work), K, v))
                           /\ ~ (Top.what \in K /\ Top.at = v) \/ CallsAt(Tail(work), K, v) = {}
PROOF
  <1>1. IsSeq(work) /\ IsSeq(calls) /\ IsSeq(Tail(work)) /\ work = <<Top>> \o Tail(work)
    BY FirstAndRest DEF Items, Top
  <1>2. \A i \in DOMAIN work : Item(work[i])
    BY DEF Items
  <1>3. PICK X : work \in Seq(X)
    BY <1>1 DEF IsSeq
  <1>4. /\ Len(Tail(work)) = Len(work) - 1 /\ Tail(work) \in Seq(X)
        /\ \A i \in 1 .. Len(Tail(work)) : Tail(work)[i] = work[i + 1]
    BY <1>3, HeadTailProperties
  <1>5. Item(Top)
    <2>1. 1 \in DOMAIN work
      BY <1>3
    <2> QED
      BY <1>2, <2>1 DEF Top
  <1>6. Items(Tail(work))
    <2>1. ASSUME NEW i \in DOMAIN Tail(work)
          PROVE  Item(Tail(work)[i])
      <3>1. i \in 1 .. Len(Tail(work)) /\ i + 1 \in DOMAIN work
        BY <1>3, <1>4, <2>1
      <3> QED
        BY <1>2, <1>4, <3>1
    <2> QED
      BY <1>1, <2>1 DEF Items
  <1>7. Items(calls \o Tail(work))
    BY <1>6, ItemsJoined
  <1>8. ASSUME NEW K, NEW v
        PROVE  /\ CallsAt(calls \o Tail(work), K, v) = {} <=> CallsAt(calls, K, v) = {} /\ CallsAt(Tail(work), K, v) = {}
               /\ Single(CallsAt(calls \o Tail(work), K, v)) <=>
                    /\ Single(CallsAt(calls, K, v)) /\ Single(CallsAt(Tail(work), K, v))
                    /\ CallsAt(calls, K, v) = {} \/ CallsAt(Tail(work), K, v) = {}
    BY <1>1, CallsJoined
  <1>9. ASSUME NEW K, NEW v
        PROVE  /\ CallsAt(work, K, v) = {} <=> ~ (Top.what \in K /\ Top.at = v) /\ CallsAt(Tail(work), K, v) = {}
               /\ Single(CallsAt(work, K, v)) <=>
                    /\ Single(CallsAt(Tail(work), K, v))
                    /\ ~ (Top.what \in K /\ Top.at = v) \/ CallsAt(Tail(work), K, v) = {}
    <2>1. /\ IsSeq(<<Top>>) /\ Single(CallsAt(<<Top>>, K, v))
          /\ CallsAt(<<Top>>, K, v) = {} <=> ~ (Top.what \in K /\ Top.at = v)
      BY OneCall
    <2>2. PICK r : r = Tail(work)
      OBVIOUS
    <2>3. PICK o : o = <<Top>>
      OBVIOUS
    <2>4. /\ CallsAt(o \o r, K, v) = {} <=> CallsAt(o, K, v) = {} /\ CallsAt(r, K, v) = {}
          /\ Single(CallsAt(o \o r, K, v)) <=>
               /\ Single(CallsAt(o, K, v))
               /\ Single(CallsAt(r, K, v))
               /\ CallsAt(o, K, v) = {} \/ CallsAt(r, K, v) = {}
      BY <1>1, <2>1, <2>2, <2>3, CallsJoined, SMTT(30)
    <2>5. work = o \o r
      BY <1>1, <2>2, <2>3
    <2> QED
      BY ONLY <2>1, <2>2, <2>3, <2>4, <2>5
  <1> QED
    BY <1>1, <1>5, <1>7, <1>8, <1>9

-----------------------------------------------------------------------------
(* The branch at the end of a loop                                         *)

\* What WellNested says of the loops.
LoopsApart ==
  /\ IsGraph(cfg) /\ Proper(cfg) /\ LoopsNatural
  /\ \A h \in Vertices(cfg) : \A k \in NaturalLoop(h) \ {h} :
       IsHeader(h) /\ IsHeader(k) => LatchingBlocks(cfg, h) \cap NaturalLoop(k) = {}

(* A latching block is in its loop, and every header between it and the    *)
(* header of the loop is.                                                  *)
LEMMA HeaderOnTheWay ==
  ASSUME IsGraph(cfg), Proper(cfg), NEW h \in Vertices(cfg), NEW l \in LatchingBlocks(cfg, h),
         NEW k \in Vertices(cfg), k # h, Dominates(cfg, h, k), Dominates(cfg, k, l)
  PROVE  k \in NaturalLoop(h)
PROOF
  <1> DEFINE V == Vertices(cfg)
             A == V \ {h}
             R == ReachIn(A, l)
  <1> SUFFICES ASSUME k \notin R
               PROVE  FALSE
    <2>1. l # h
      <3> SUFFICES ASSUME l = h
                   PROVE  FALSE
        OBVIOUS
      <3>1. Reached(cfg) = V
        BY ReachedClosed DEF Closed, Proper, AllReachable
      <3> QED
        BY <3>1, DominatesAntisymmetric
    <2>2. k \in R => k \in NaturalLoop(h)
      BY <2>1 DEF NaturalLoop
    <2> QED
      BY <2>2
  <1>1. IsFiniteSet(A) /\ l \in V
    BY EntryVertex, FS_Subset DEF LatchingBlocks, Preds
  <1>2. Reached(cfg) = V
    BY ReachedClosed DEF Closed, Proper, AllReachable
  <1>3. l # h
    BY <1>2, DominatesAntisymmetric
  <1>4. l \in R /\ R \subseteq A /\ NotEntered(A, R)
    <2>1. l \in R /\ R \subseteq A \cup {l} /\ NotEntered(A, R)
      BY <1>1, ReachInClosed
    <2> QED
      BY <1>1, <1>3, <2>1
  <1> HIDE DEF R
  <1> DEFINE S == {x \in R : Dominates(cfg, k, x)}
  <1>5. NotEntered(A, S)
    <2> SUFFICES ASSUME NEW u \in A, NEW w \in Succs(cfg, u), w \in S
                 PROVE  u \in S
      BY DEF NotEntered
    <2>1. u \in R
      BY <1>4 DEF NotEntered
    <2>2. <<u, w>> \in cfg.edges
      BY DEF Succs
    <2>3. Dominates(cfg, k, u)
      BY <2>2, DominatesPredecessors
    <2> QED
      BY <2>1, <2>3
  <1>6. R \subseteq S
    <2>1. l \in S
      BY <1>4
    <2> HIDE DEF S
    <2> QED
      BY <1>1, <1>5, <2>1, ReachInLeast DEF R
  <1>7. ASSUME NEW e \in cfg.edges, e[1] \in V \ R
        PROVE  e[2] \in V \ R
    <2> SUFFICES ASSUME e[2] \in R
                 PROVE  FALSE
      BY DEF IsGraph
    <2>1. e = <<e[1], e[2]>> /\ e[2] \in S
      BY <1>6 DEF IsGraph
    <2>2. e[2] \in Succs(cfg, e[1])
      BY <1>4, <2>1 DEF Succs
    <2>3. CASE e[1] = h
      <3>1. Dominates(cfg, k, h)
        BY <2>1, <2>3, DominatesPredecessors
      <3> QED
        BY <1>2, <3>1, DominatesAntisymmetric
    <2>4. CASE e[1] # h
      BY <1>4, <1>7, <2>2, <2>4 DEF NotEntered
    <2> QED
      BY <2>3, <2>4
  <1>8. 0 \in R
    <2> SUFFICES ASSUME 0 \in V \ R
                 PROVE  FALSE
      BY EntryVertex
    <2>1. V \ R = V
      BY <1>7 DEF Proper, AllReachable
    <2> QED
      BY <1>1, <1>4, <2>1
  <1>9. Dominates(cfg, k, 0)
    BY <1>6, <1>8
  <1>10. k = 0
    BY <1>9 DEF Dominates
  <1> QED
    BY <1>8, <1>10

(* No block is the latching block of two loops, and none that is a header  *)
(* is the latching block of another loop.                                  *)
LEMMA OneLoopEndsThere ==
  ASSUME LoopsApart, NEW h \in DOMAIN loops, NEW k \in DOMAIN loops, h # k
  PROVE  loops[h].latching \notin {k, loops[k].latching}
PROOF
  <1>1. \A x \in DOMAIN loops : /\ x \in Vertices(cfg) /\ loops[x].latching \in LatchingBlocks(cfg, x)
                                /\ IsHeader(x) /\ Dominates(cfg, x, loops[x].latching)
                                /\ loops[x].latching \in Vertices(cfg)
                                /\ loops[x].latching \in NaturalLoop(x)
    <2> SUFFICES ASSUME NEW x \in DOMAIN loops
                 PROVE  /\ x \in Vertices(cfg) /\ loops[x].latching \in LatchingBlocks(cfg, x)
                        /\ IsHeader(x) /\ Dominates(cfg, x, loops[x].latching)
                        /\ loops[x].latching \in Vertices(cfg)
                        /\ loops[x].latching \in NaturalLoop(x)
      OBVIOUS
    <2>1. /\ x \in Vertices(cfg) /\ loops[x].latching \in LatchingBlocks(cfg, x)
          /\ loops[x].latching \in loops[x].nodes /\ loops[x].nodes \subseteq NaturalLoop(x)
      BY DEF LoopsApart, LoopsNatural, IsMadeFor, IsNaturalLoop
    <2> QED
      BY <2>1 DEF IsHeader, LatchingBlocks, Preds
  <1>2. \A x \in Vertices(cfg) : x \in Reached(cfg)
    BY ReachedClosed DEF LoopsApart, Closed, Proper, AllReachable
  <1>3. ASSUME NEW x \in DOMAIN loops, NEW y \in DOMAIN loops, x # y, Dominates(cfg, x, y),
               loops[x].latching \in NaturalLoop(y), Dominates(cfg, y, loops[x].latching)
        PROVE  FALSE
    <2>1. y \in NaturalLoop(x)
      BY <1>1, <1>3, HeaderOnTheWay DEF LoopsApart
    <2> QED
      BY <1>1, <1>3, <2>1 DEF LoopsApart
  <1>4. CASE loops[h].latching = k
    <2>1. Dominates(cfg, h, k) /\ Dominates(cfg, k, k) /\ k \in NaturalLoop(k)
      BY <1>1, <1>4 DEF Dominates, NaturalLoop
    <2> QED
      BY <1>3, <1>4, <2>1
  <1>5. CASE loops[h].latching = loops[k].latching
    <2>1. Dominates(cfg, h, k) \/ Dominates(cfg, k, h)
      BY <1>1, <1>2, <1>5, DominatorsInLine DEF LoopsApart
    <2> QED
      BY <1>1, <1>3, <1>5, <2>1
  <1> QED
    BY <1>4, <1>5

-----------------------------------------------------------------------------
(* One step of the code generator                                          *)

(* What a step puts on the stack for block v comes from the call on top of *)
(* the stack, or is the first for v.                                       *)
Fresh(K, v) == v = Top.at /\ v \in handled' /\ (Top.what \in K \/ v \notin handled)

\* What may be on the stack does not depend on what is written.
LEMMA ItemsStay ==
  ASSUME UNCHANGED <<loops, switches, conditionals>>
  PROVE  /\ \A v : Decisive(v)' <=> Decisive(v)
         /\ Items(work') => Items(work)'
PROOF
  <1>1. \A v : Decisive(v)' <=> Decisive(v)
    BY DEF Decisive
  <1>2. ASSUME NEW i \in DOMAIN work', Item(work'[i])
        PROVE  Item(work[i])'
    BY <1>1, <1>2 DEF Item, Decisive, Quiet, IsTest
  <1> QED
    BY <1>1, <1>2 DEF Items

(* A step that tests nothing that was tested before.                       *)
LEMMA Written ==
  ASSUME WritesOnce, work # <<>>, UNCHANGED structureVars, NEW lines, NEW calls, IsSeq(lines), Items(calls),
         Continue(lines, calls), handled \subseteq handled',
         \A v : DecidesOnce(lines, calls, v) /\ (Decides(lines, calls, v) => Fresh(Own, v)),
         \A v : LinesAt(lines, Deciding, v) # {} => Decisive(v),
         \A h : Single(CallsAt(calls, Back, h)) /\ (CallsAt(calls, Back, h) # {} => Fresh(Back, h)),
         \A l : /\ Single(LinesAt(lines, Returning, l))
                /\ LinesAt(lines, Returning, l) # {} =>
                     LinesAt(code, Returning, l) = {} /\ \E h \in DOMAIN loops : Closed1(h, l)',
         \A v : LinesAt(lines, {"switch"}, v) # {} => v \in DOMAIN switches
  PROVE  WritesOnce'
PROOF
  <1> DEFINE rest == Tail(work)
  <1>1. code' = code \o lines /\ work' = calls \o rest
    BY DEF Continue
  <1>2. loops' = loops /\ switches' = switches /\ conditionals' = conditionals
    BY DEF structureVars, allVars, loopVars, branchVars
  <1>3. Items(work) /\ IsSeq(code)
    BY DEF WritesOnce
  <1>4. /\ Items(calls \o rest)
        /\ \A K, v : /\ CallsAt(work', K, v) = {} <=> CallsAt(calls, K, v) = {} /\ CallsAt(rest, K, v) = {}
                     /\ Single(CallsAt(work', K, v)) <=>
                          /\ Single(CallsAt(calls, K, v)) /\ Single(CallsAt(rest, K, v))
                          /\ CallsAt(calls, K, v) = {} \/ CallsAt(rest, K, v) = {}
                     /\ CallsAt(work, K, v) = {} <=> ~ (Top.what \in K /\ Top.at = v) /\ CallsAt(rest, K, v) = {}
                     /\ Single(CallsAt(work, K, v)) <=>
                          /\ Single(CallsAt(rest, K, v))
                          /\ ~ (Top.what \in K /\ Top.at = v) \/ CallsAt(rest, K, v) = {}
    <2>1. /\ IsSeq(Tail(work)) /\ Items(calls \o Tail(work))
          /\ \A K, v : /\ CallsAt(calls \o Tail(work), K, v) = {} <=> CallsAt(calls, K, v) = {} /\ CallsAt(Tail(work), K, v) = {}
                       /\ Single(CallsAt(calls \o Tail(work), K, v)) <=>
                            /\ Single(CallsAt(calls, K, v)) /\ Single(CallsAt(Tail(work), K, v))
                            /\ CallsAt(calls, K, v) = {} \/ CallsAt(Tail(work), K, v) = {}
                       /\ CallsAt(work, K, v) = {} <=> ~ (Top.what \in K /\ Top.at = v) /\ CallsAt(Tail(work), K, v) = {}
                       /\ Single(CallsAt(work, K, v)) <=>
                            /\ Single(CallsAt(Tail(work), K, v))
                            /\ ~ (Top.what \in K /\ Top.at = v) \/ CallsAt(Tail(work), K, v) = {}
      BY <1>3, StackReplaced, Zenon
    <2> QED
      BY <1>1, <2>1, Zenon
  <1>5. \A K, v : /\ LinesAt(code', K, v) = {} <=> LinesAt(code, K, v) = {} /\ LinesAt(lines, K, v) = {}
                  /\ Single(LinesAt(code', K, v)) <=>
                       /\ Single(LinesAt(code, K, v)) /\ Single(LinesAt(lines, K, v))
                       /\ LinesAt(code, K, v) = {} \/ LinesAt(lines, K, v) = {}
    <2>1. \A K, v : /\ LinesAt(code \o lines, K, v) = {} <=> LinesAt(code, K, v) = {} /\ LinesAt(lines, K, v) = {}
                    /\ Single(LinesAt(code \o lines, K, v)) <=>
                         /\ Single(LinesAt(code, K, v)) /\ Single(LinesAt(lines, K, v))
                         /\ LinesAt(code, K, v) = {} \/ LinesAt(lines, K, v) = {}
      BY <1>3, LinesJoined, Zenon
    <2> QED
      BY <1>1, <2>1, Zenon
  <1>6. IsSeq(code') /\ Items(work')
    BY <1>1, <1>3, <1>4, SeqJoined DEF IsSeq
  <1> HIDE DEF rest
  <1>7. ASSUME NEW v
        PROVE  DecidesOnce(code', work', v) /\ (Decides(code', work', v) => v \in handled')
    <2>1. DecidesOnce(code, work, v) /\ (Decides(code, work, v) => v \in handled)
      BY DEF WritesOnce
    <2>2. DecidesOnce(lines, calls, v) /\ (Decides(lines, calls, v) => Fresh(Own, v))
      OBVIOUS
    <2>3. CASE ~ Decides(lines, calls, v)
      BY <2>1, <2>3, <1>4, <1>5 DEF Decides, DecidesOnce
    <2>4. CASE Decides(lines, calls, v)
      <3>1. Fresh(Own, v)
        BY <2>2, <2>4
      <3>2. LinesAt(code, Deciding, v) = {} /\ CallsAt(rest, Own, v) = {}
        BY <2>1, <3>1, <1>4 DEF Fresh, Decides, DecidesOnce
      <3>3. DecidesOnce(code', work', v)
        BY <2>1, <2>2, <3>2, <1>4, <1>5 DEF Decides, DecidesOnce
      <3> QED
        BY <3>1, <3>3 DEF Fresh
    <2> QED
      BY <2>3, <2>4
  <1>8. ASSUME NEW v, LinesAt(code', Deciding, v) # {}
        PROVE  Decisive(v)
    BY <1>5, <1>8 DEF WritesOnce
  <1>9. ASSUME NEW h
        PROVE  Single(CallsAt(work', Back, h)) /\ (CallsAt(work', Back, h) # {} => h \in handled')
    <2>1. Single(CallsAt(work, Back, h)) /\ (CallsAt(work, Back, h) # {} => h \in handled)
      BY DEF WritesOnce
    <2>2. Single(CallsAt(calls, Back, h)) /\ (CallsAt(calls, Back, h) # {} => Fresh(Back, h))
      OBVIOUS
    <2> QED
      BY <2>1, <2>2, <1>4 DEF Fresh
  <1>10. ASSUME NEW h, NEW l, Closed1(h, l)
         PROVE  Closed1(h, l)'
    <2>1. CallsAt(work, Back, h) = {} /\ h \in handled
      BY <1>10 DEF Closed1
    <2>2. CallsAt(calls, Back, h) # {} => Fresh(Back, h)
      OBVIOUS
    <2>3. CallsAt(work', Back, h) = {}
      BY <2>1, <2>2, <1>4 DEF Fresh
    <2> QED
      BY <1>2, <1>10, <2>3 DEF Closed1, CallsAt
  <1>11. ASSUME NEW l
         PROVE  /\ Single(LinesAt(code', Returning, l))
                /\ LinesAt(code', Returning, l) # {} => \E h \in DOMAIN loops : Closed1(h, l)'
    <2>1. /\ Single(LinesAt(code, Returning, l))
          /\ LinesAt(code, Returning, l) # {} => \E h \in DOMAIN loops : Closed1(h, l)
      BY DEF WritesOnce
    <2>2. LinesAt(code, Returning, l) # {} => \E h \in DOMAIN loops : Closed1(h, l)'
      BY <2>1, <1>10
    <2> QED
      BY <2>1, <2>2, <1>5
  <1>12. ASSUME NEW v, LinesAt(code', {"switch"}, v) # {}
         PROVE  v \in DOMAIN switches
    BY <1>5, <1>12 DEF WritesOnce
  <1>13. (\A v : Decisive(v)' <=> Decisive(v)) /\ Items(work)'
    BY <1>2, <1>6, ItemsStay
  <1> DEFINE Single1 == \A v : DecidesOnce(code, work, v) /\ (Decides(code, work, v) => v \in handled)
             Single2 == \A v : LinesAt(code, Deciding, v) # {} => Decisive(v)
             Single3 == \A h : Single(CallsAt(work, Back, h)) /\ (CallsAt(work, Back, h) # {} => h \in handled)
             Single4 == \A l : /\ Single(LinesAt(code, Returning, l))
                               /\ LinesAt(code, Returning, l) # {} => \E h \in DOMAIN loops : Closed1(h, l)
             Single5 == \A v : LinesAt(code, {"switch"}, v) # {} => v \in DOMAIN switches
  <1>14. Single1'
    BY <1>7 DEF DecidesOnce, Decides, LinesAt, CallsAt
  <1>15. Single2'
    BY <1>8, <1>13 DEF LinesAt
  <1>16. Single3'
    BY <1>9 DEF CallsAt
  <1>17. Single4'
    BY <1>2, <1>11 DEF LinesAt
  <1>18. Single5'
    BY <1>2, <1>12 DEF LinesAt
  <1> QED
    BY <1>6, <1>13, <1>14, <1>15, <1>16, <1>17, <1>18 DEF WritesOnce

-----------------------------------------------------------------------------
(* Steps that test nothing                                                 *)

IsCall(x) == x = [what |-> x.what, at |-> x.at, latching |-> x.latching, follow |-> x.follow, rest |-> x.rest]

\* Calls that do not test the branch of their block themselves, and lists of
\* them.
Elsewhere == {"code", "code or goto", "one way", "else", "follow", "end case"}
Aside(x) == Item(x) /\ x.what \notin Own \cup Back
Asides(w) == Items(w) /\ \A i \in DOMAIN w : Aside(w[i])

(* Calls that test no branch of their own, joined.                         *)
LEMMA AsidesJoined ==
  ASSUME NEW s, NEW t, Asides(s), Asides(t)
  PROVE  Asides(s \o t)
PROOF
  <1>1. Items(s \o t) /\ IsSeq(s) /\ IsSeq(t)
    BY ItemsJoined DEF Asides, Items
  <1>2. ASSUME NEW i \in DOMAIN (s \o t)
        PROVE  Aside((s \o t)[i])
    BY <1>1, ElementsJoined DEF Asides
  <1> QED
    BY <1>1, <1>2 DEF Asides

(* A line that tests nothing, a call that tests nothing of its own.        *)
LEMMA OneAside ==
  /\ Quiet(<<>>) /\ Asides(<<>>)
  /\ \A x : IsTest(x) \/ Quiet(<<x>>)
  /\ \A x : Aside(x) => Asides(<<x>>)
  /\ \A x : IsCall(x) /\ x.what \in Elsewhere => Aside(x)
  /\ \A lines : Quiet(lines) => Aside(Push(lines))
PROOF
  <1>1. IsSeq(<<>>) /\ DOMAIN <<>> = {}
    <2>1. <<>> \in Seq({})
      OBVIOUS
    <2> QED
      BY <2>1 DEF IsSeq
  <1>2. \A x : IsSeq(<<x>>) /\ DOMAIN <<x>> = {1} /\ <<x>>[1] = x
    <2> TAKE x
    <2>1. <<x>> \in Seq({x}) /\ DOMAIN <<x>> = {1} /\ <<x>>[1] = x
      OBVIOUS
    <2> QED
      BY <2>1 DEF IsSeq
  <1>3. Quiet(<<>>) /\ Asides(<<>>)
    BY <1>1 DEF Quiet, Asides, Items
  <1>4. \A x : IsTest(x) \/ Quiet(<<x>>)
    BY <1>2 DEF Quiet
  <1>5. \A x : Aside(x) => Asides(<<x>>)
    BY <1>2 DEF Aside, Asides, Items
  <1>6. \A x : IsCall(x) /\ x.what \in Elsewhere => Aside(x)
    BY DEF IsCall, Elsewhere, Aside, Item, Own, Back
  <1>7. \A lines : Quiet(lines) => Aside(Push(lines))
    <2> TAKE lines
    <2>1. Push(lines).what = "push" /\ Push(lines).lines = lines
      BY DEF Push
    <2> QED
      BY <2>1 DEF Aside, Item, Own, Back
  <1> QED
    BY <1>3, <1>4, <1>5, <1>6, <1>7

(* Calls that are made from a call.                                        *)
LEMMA CallChanged ==
  ASSUME NEW c, IsCall(c), NEW w
  PROVE  /\ IsCall([c EXCEPT !.what = w]) /\ [c EXCEPT !.what = w].what = w /\ [c EXCEPT !.what = w].at = c.at
         /\ \A a : IsCall([c EXCEPT !.what = w, !.at = a]) /\ [c EXCEPT !.what = w, !.at = a].what = w
         /\ \A a, f : /\ IsCall([c EXCEPT !.what = w, !.at = a, !.follow = f])
                      /\ [c EXCEPT !.what = w, !.at = a, !.follow = f].what = w
PROOF
  <1> DEFINE R(x, y, l, z, t) == [what |-> x, at |-> y, latching |-> l, follow |-> z, rest |-> t]
  <1>1. ASSUME NEW g, NEW x, NEW y, NEW l, NEW z, NEW t, g = R(x, y, l, z, t)
        PROVE  IsCall(g) /\ g.what = x /\ g.at = y
    BY <1>1 DEF IsCall
  <1>2. PICK x, y, l, z, t : c = R(x, y, l, z, t)
    BY DEF IsCall
  <1>3. PICK d : d = [c EXCEPT !.what = w]
    OBVIOUS
  <1>4. d = R(w, y, l, z, t) /\ c.at = y
    BY <1>2, <1>3
  <1> HIDE DEF R
  <1>5. IsCall(d) /\ d.what = w /\ d.at = c.at
    BY <1>1, <1>4
  <1>6. IsCall([c EXCEPT !.what = w]) /\ [c EXCEPT !.what = w].what = w /\ [c EXCEPT !.what = w].at = c.at
    BY <1>3, <1>5, Zenon
  <1>7. ASSUME NEW a
        PROVE  /\ IsCall([c EXCEPT !.what = w, !.at = a]) /\ [c EXCEPT !.what = w, !.at = a].what = w
               /\ \A f : /\ IsCall([c EXCEPT !.what = w, !.at = a, !.follow = f])
                         /\ [c EXCEPT !.what = w, !.at = a, !.follow = f].what = w
    <2>1. PICK e : e = [d EXCEPT !.at = a]
      OBVIOUS
    <2>2. e = R(w, a, l, z, t)
      BY ONLY <1>4, <2>1 DEF R
    <2>3. IsCall(e) /\ e.what = w
      BY <1>1, <2>2
    <2>4. [c EXCEPT !.what = w, !.at = a] = e
      BY ONLY <1>3, <2>1
    <2>5. ASSUME NEW f
          PROVE  /\ IsCall([c EXCEPT !.what = w, !.at = a, !.follow = f])
                 /\ [c EXCEPT !.what = w, !.at = a, !.follow = f].what = w
      <3>1. PICK g : g = [e EXCEPT !.follow = f]
        OBVIOUS
      <3>2. g = R(w, a, l, f, t)
        BY ONLY <2>2, <3>1 DEF R
      <3>3. [c EXCEPT !.what = w, !.at = a, !.follow = f] = g
        BY ONLY <1>3, <2>1, <3>1
      <3>4. IsCall(g) /\ g.what = w
        BY <1>1, <3>2
      <3> QED
        BY <3>3, <3>4, Zenon
    <2> QED
      BY <2>3, <2>4, <2>5, Zenon
  <1> QED
    BY <1>6, <1>7, Zenon

(* The rest of a body is a call for the same block.                        *)
LEMMA RestOfCall ==
  ASSUME NEW c, IsCall(c), NEW w, NEW r, NEW g, g = Rest(c, w, r)
  PROVE  IsCall(g) /\ g.what = w /\ g.at = c.at
PROOF
  <1> DEFINE R(x, y, l, z, t) == [what |-> x, at |-> y, latching |-> l, follow |-> z, rest |-> t]
  <1>1. PICK d : d = [c EXCEPT !.what = w]
    OBVIOUS
  <1>2. PICK x, y, l, z, t : c = R(x, y, l, z, t)
    BY DEF IsCall
  <1>3. d = R(w, y, l, z, t) /\ c.at = y
    BY <1>1, <1>2
  <1>4. g = [d EXCEPT !.rest = r]
    BY <1>1, Zenon DEF Rest
  <1>5. g = R(w, y, l, z, r)
    BY ONLY <1>3, <1>4
  <1> QED
    BY <1>3, <1>5 DEF IsCall

(* A step that writes no test and puts nothing on the stack that does.     *)
LEMMA QuietStep ==
  ASSUME WritesOnce, work # <<>>, UNCHANGED structureVars, NEW lines, NEW calls, Quiet(lines), Asides(calls),
         Continue(lines, calls), handled \subseteq handled'
  PROVE  WritesOnce'
PROOF
  <1>1. IsSeq(lines) /\ Items(calls)
    BY DEF Quiet, Asides
  <1>2. /\ \A v : LinesAt(lines, Deciding, v) = {} /\ LinesAt(lines, Returning, v) = {} /\ LinesAt(lines, {"switch"}, v) = {}
        /\ \A v : CallsAt(calls, Own, v) = {} /\ CallsAt(calls, Back, v) = {}
    <2>1. \A i \in DOMAIN lines : lines[i].kind \notin Deciding \cup Returning \cup {"switch"}
      BY DEF Quiet, IsTest, Deciding, Returning
    <2>2. \A i \in DOMAIN calls : calls[i].what \notin Own \cup Back
      BY DEF Asides, Aside
    <2> QED
      BY <2>1, <2>2 DEF LinesAt, CallsAt
  <1>3. Single({})
    BY DEF Single
  <1>4. \A v : DecidesOnce(lines, calls, v) /\ ~ Decides(lines, calls, v)
    BY <1>2, <1>3 DEF DecidesOnce, Decides
  <1> QED
    BY <1>1, <1>2, <1>3, <1>4, Written

-----------------------------------------------------------------------------
(* Chains of one-way blocks                                                *)

\* One block more, and the first n.
LongerChain(c, stop) ==
  LET last == c[Len(c)]
  IN  IF last # stop /\ IsOneWay(last) /\ cfg.out[last][1] \notin Range(c) THEN Append(c, cfg.out[last][1]) ELSE c
ChainedTo(v, stop, n, w) == w = [k \in 0 .. n |-> IF k = 0 THEN <<v>> ELSE LongerChain(w[k - 1], stop)]

(* Chains of any length exist.                                             *)
LEMMA ChainExists ==
  ASSUME NEW v, NEW stop, NEW n \in Nat
  PROVE  \E w : ChainedTo(v, stop, n, w)
PROOF
  <1> DEFINE Bad == {m \in Nat : ~ \E w : ChainedTo(v, stop, m, w)}
  <1> SUFFICES ASSUME Bad # {}
               PROVE  FALSE
    OBVIOUS
  <1>1. PICK m \in Bad : \A y \in Bad : m <= y
    BY SmallestNumber
  <1>2. m # 0
    <2> DEFINE w == [k \in 0 .. 0 |-> <<v>>]
    <2>1. ChainedTo(v, stop, 0, w)
      BY DEF ChainedTo
    <2> QED
      BY <2>1
  <1>3. m - 1 \in Nat /\ m - 1 \notin Bad
    BY <1>1, <1>2
  <1>4. PICK w : ChainedTo(v, stop, m - 1, w)
    BY <1>3
  <1> DEFINE x == [k \in 0 .. m |-> IF k = m THEN LongerChain(w[m - 1], stop) ELSE w[k]]
  <1>5. \A k \in 0 .. m - 1 : w[k] = IF k = 0 THEN <<v>> ELSE LongerChain(w[k - 1], stop)
    BY <1>4 DEF ChainedTo
  <1>6. \A k \in 0 .. m : x[k] = IF k = 0 THEN <<v>> ELSE LongerChain(x[k - 1], stop)
    BY <1>2, <1>3, <1>5
  <1>7. ChainedTo(v, stop, m, x)
    <2>1. x = [k \in 0 .. m |-> x[k]]
      OBVIOUS
    <2> HIDE DEF x
    <2> QED
      BY <2>1, <1>6 DEF ChainedTo
  <1> QED
    BY <1>1, <1>7

(* A chain is a list of blocks.                                            *)
LEMMA ChainIsSeq ==
  ASSUME cfg.size \in Nat, NEW v, NEW stop
  PROVE  IsSeq(Chain(v, stop))
PROOF
  <1>1. PICK w : ChainedTo(v, stop, cfg.size, w) /\ Chain(v, stop) = w[cfg.size]
    <2>1. \E w : ChainedTo(v, stop, cfg.size, w)
      BY ChainExists
    <2>2. Chain(v, stop) = (CHOOSE w : ChainedTo(v, stop, cfg.size, w))[cfg.size]
      BY Zenon DEF Chain, ChainedTo, LongerChain
    <2> QED
      BY <2>1, <2>2
  <1>2. \A k \in 0 .. cfg.size : w[k] = IF k = 0 THEN <<v>> ELSE LongerChain(w[k - 1], stop)
    BY <1>1 DEF ChainedTo
  <1>3. \A c : IsSeq(c) => IsSeq(LongerChain(c, stop))
    <2> SUFFICES ASSUME NEW c, IsSeq(c)
                 PROVE  IsSeq(LongerChain(c, stop))
      OBVIOUS
    <2>1. ASSUME NEW x
          PROVE  IsSeq(Append(c, x))
      <3>1. PICK X : c \in Seq(X)
        BY DEF IsSeq
      <3>2. c \in Seq(X \cup {x}) /\ x \in X \cup {x}
        BY <3>1
      <3>3. Append(c, x) \in Seq(X \cup {x})
        BY <3>2, AppendProperties
      <3> QED
        BY <3>3 DEF IsSeq
    <2> QED
      BY <2>1 DEF LongerChain
  <1> DEFINE Bad == {k \in 0 .. cfg.size : ~ IsSeq(w[k])}
  <1> SUFFICES ASSUME Bad # {}
               PROVE  FALSE
    BY <1>1
  <1>4. PICK k \in Bad : \A y \in Bad : k <= y
    <2>1. Bad \subseteq Nat
      OBVIOUS
    <2> HIDE DEF Bad
    <2> QED
      BY <2>1, SmallestNumber
  <1>5. k # 0
    BY <1>2, <1>4, OneLine
  <1>6. k - 1 \in 0 .. cfg.size /\ ~ k <= k - 1
    BY <1>4, <1>5
  <1>7. IsSeq(w[k - 1])
    BY <1>4, <1>6
  <1> QED
    BY <1>2, <1>3, <1>4, <1>5, <1>7

(* A list of the lines for the members of a list.                          *)
LEMMA LinesForAll ==
  ASSUME NEW c, IsSeq(c), NEW f, f = [i \in DOMAIN c |-> f[i]], \A i \in DOMAIN c : ~ IsTest(f[i])
  PROVE  Quiet(f)
PROOF
  <1>1. PICK X : c \in Seq(X)
    BY DEF IsSeq
  <1>2. PICK n \in Nat : DOMAIN c = 1 .. n
    BY <1>1
  <1>3. f \in Seq({f[i] : i \in DOMAIN c}) /\ DOMAIN f = DOMAIN c
    BY <1>2
  <1> QED
    BY <1>3 DEF Quiet, IsSeq

(* Paths to the end, and jumps, test nothing.                              *)
LEMMA PathsAreQuiet ==
  ASSUME cfg.size \in Nat, NEW v
  PROVE  Quiet(GotoLines(v)) /\ Quiet(SimplePathToFollow(v))
PROOF
  <1>1. \A x : ~ IsTest(BlockLine(x)) /\ ~ IsTest(Line("break", NoNode, 0)) /\ ~ IsTest(Line("goto", x, 0))
    BY DEF IsTest, BlockLine, Line
  <1>2. Quiet(SimplePathToExit(v))
    <2>1. PICK c : c = Chain(v, NoNode)
      OBVIOUS
    <2>2. PICK f : f = [i \in DOMAIN c |-> BlockLine(c[i])]
      OBVIOUS
    <2>3. f = [i \in DOMAIN c |-> f[i]] /\ \A i \in DOMAIN c : ~ IsTest(f[i])
      BY <1>1, <2>2
    <2>4. IsSeq(c)
      BY <2>1, ChainIsSeq
    <2>5. Quiet(f)
      BY <2>3, <2>4, LinesForAll
    <2> QED
      BY <2>1, <2>2, <2>5, Zenon DEF SimplePathToExit
  <1>3. Quiet(GotoLines(v))
    BY <1>1, <1>2, OneAside DEF GotoLines
  <1>4. Quiet(SimplePathToFollow(v))
    <2>1. PICK c : c = Chain(v, LoopFollow)
      OBVIOUS
    <2>2. PICK f : f = [i \in DOMAIN c |-> IF i = Len(c) THEN Line("break", NoNode, 0) ELSE BlockLine(c[i])]
      OBVIOUS
    <2>3. f = [i \in DOMAIN c |-> f[i]] /\ \A i \in DOMAIN c : ~ IsTest(f[i])
      BY <1>1, <2>2
    <2>4. IsSeq(c)
      BY <2>1, ChainIsSeq
    <2>5. Quiet(f)
      BY <2>3, <2>4, LinesForAll
    <2> QED
      BY <2>1, <2>2, <2>5, Zenon DEF SimplePathToFollow
  <1> QED
    BY <1>3, <1>4

-----------------------------------------------------------------------------
(* The steps                                                               *)

(* The call on top of the stack.                                           *)
LEMMA TopOfStack ==
  ASSUME WritesOnce, NEW what, Runs(what)
  PROVE  /\ work # <<>> /\ Top.what = what /\ Item(Top)
         /\ IF what = "push" THEN Quiet(Top.lines) ELSE IsCall(Top)
PROOF
  <1>1. Items(<<>>)
    BY OneAside DEF Asides
  <1>2. work # <<>> /\ Top.what = what /\ Item(Top)
    BY <1>1, StackReplaced DEF WritesOnce, Runs
  <1> QED
    BY <1>2 DEF Item, IsCall

(* The calls that a step makes for other blocks.                           *)
LEMMA CallElsewhere ==
  ASSUME IsCall(Top), NEW w \in Elsewhere
  PROVE  /\ Aside([Top EXCEPT !.what = w]) /\ \A a : Aside([Top EXCEPT !.what = w, !.at = a])
         /\ \A a, f : Aside([Top EXCEPT !.what = w, !.at = a, !.follow = f])
         /\ \A r : Aside(Rest(Top, w, r))
PROOF
  <1>1. \A x : IsCall(x) /\ x.what \in Elsewhere => Aside(x)
    BY OneAside
  <1>2. PICK c : c = Top
    OBVIOUS
  <1>3. IsCall(c)
    BY <1>2
  <1>4. Aside([c EXCEPT !.what = w])
    <2>1. IsCall([c EXCEPT !.what = w]) /\ [c EXCEPT !.what = w].what = w
      BY <1>3, CallChanged
    <2> QED
      BY <1>1, <2>1, Zenon
  <1>5. \A a : Aside([c EXCEPT !.what = w, !.at = a])
    <2>1. \A a : IsCall([c EXCEPT !.what = w, !.at = a]) /\ [c EXCEPT !.what = w, !.at = a].what = w
      BY <1>3, CallChanged, ZenonT(30)
    <2> QED
      BY <1>1, <2>1, Zenon
  <1>6. \A a, f : Aside([c EXCEPT !.what = w, !.at = a, !.follow = f])
    <2>1. \A a, f : /\ IsCall([c EXCEPT !.what = w, !.at = a, !.follow = f])
                    /\ [c EXCEPT !.what = w, !.at = a, !.follow = f].what = w
      BY <1>3, CallChanged, ZenonT(30)
    <2> QED
      BY <1>1, <2>1, Zenon
  <1>7. ASSUME NEW r
        PROVE  Aside(Rest(c, w, r))
    <2>1. PICK d : d = Rest(c, w, r)
      OBVIOUS
    <2>2. IsCall(d) /\ d.what = w
      BY <1>3, <2>1, RestOfCall
    <2> QED
      BY <1>1, <2>1, <2>2, Zenon
  <1> QED
    BY <1>2, <1>4, <1>5, <1>6, <1>7, Zenon

(* Short lists.                                                            *)
LEMMA ShortLists ==
  /\ \A x, y : Aside(x) /\ Aside(y) => Asides(<<x, y>>)
  /\ \A x, y, z : Aside(x) /\ Aside(y) /\ Aside(z) => Asides(<<x, y, z>>)
  /\ \A x, y, z, t : Aside(x) /\ Aside(y) /\ Aside(z) /\ Aside(t) => Asides(<<x, y, z, t>>)
  /\ \A x, y : Quiet(<<x, y>>) <=> ~ IsTest(x) /\ ~ IsTest(y)
PROOF
  <1>1. ASSUME NEW x, NEW y
        PROVE  /\ Aside(x) /\ Aside(y) => Asides(<<x, y>>)
               /\ Quiet(<<x, y>>) <=> ~ IsTest(x) /\ ~ IsTest(y)
    <2>1. <<x, y>> \in Seq({x, y}) /\ DOMAIN <<x, y>> = {1, 2} /\ <<x, y>>[1] = x /\ <<x, y>>[2] = y
      OBVIOUS
    <2>2. IsSeq(<<x, y>>)
      BY <2>1 DEF IsSeq
    <2> QED
      BY <2>1, <2>2 DEF Asides, Items, Aside, Quiet
  <1>2. ASSUME NEW x, NEW y, NEW z, Aside(x), Aside(y), Aside(z)
        PROVE  Asides(<<x, y, z>>)
    <2>1. /\ <<x, y, z>> \in Seq({x, y, z}) /\ DOMAIN <<x, y, z>> = {1, 2, 3}
          /\ <<x, y, z>>[1] = x /\ <<x, y, z>>[2] = y /\ <<x, y, z>>[3] = z
      OBVIOUS
    <2>2. IsSeq(<<x, y, z>>)
      BY <2>1 DEF IsSeq
    <2> QED
      BY <1>2, <2>1, <2>2 DEF Asides, Items, Aside
  <1>3. ASSUME NEW x, NEW y, NEW z, NEW t, Aside(x), Aside(y), Aside(z), Aside(t)
        PROVE  Asides(<<x, y, z, t>>)
    <2>1. /\ <<x, y, z, t>> \in Seq({x, y, z, t}) /\ DOMAIN <<x, y, z, t>> = {1, 2, 3, 4}
          /\ <<x, y, z, t>>[1] = x /\ <<x, y, z, t>>[2] = y /\ <<x, y, z, t>>[3] = z /\ <<x, y, z, t>>[4] = t
      OBVIOUS
    <2>2. IsSeq(<<x, y, z, t>>)
      BY <2>1 DEF IsSeq
    <2> QED
      BY <1>3, <2>1, <2>2 DEF Asides, Items, Aside
  <1> QED
    BY <1>1, <1>2, <1>3

\* Lines that test nothing.
LEMMA QuietLines ==
  \A x : Quiet(<<BlockLine(x)>>) /\ Quiet(<<Line("break", NoNode, 0)>>) /\ Quiet(<<Line("else", NoNode, 0)>>)
         /\ Quiet(<<End>>) /\ Quiet(<<Line("case", x, 0)>>) /\ Quiet(<<>>)
PROOF
  <1> TAKE x
  <1>1. ~ IsTest(BlockLine(x)) /\ ~ IsTest(Line("break", NoNode, 0)) /\ ~ IsTest(Line("else", NoNode, 0))
        /\ ~ IsTest(End) /\ ~ IsTest(Line("case", x, 0))
    BY DEF IsTest, BlockLine, Line, End
  <1> QED
    BY <1>1, OneAside

(* The steps that write no test.                                           *)
LEMMA SkipCodeStep ==
  ASSUME WritesOnce, SkipCode \/ PushLines \/ EndCase
  PROVE  WritesOnce'
PROOF
  <1>1. Asides(<<>>)
    BY OneAside
  <1>2. CASE SkipCode
    <2>1. work # <<>> /\ UNCHANGED structureVars /\ handled' = handled /\ Continue(<<>>, <<>>)
      BY <1>2 DEF SkipCode, Runs
    <2> QED
      BY <1>1, <2>1, OneAside, QuietStep
  <1>3. CASE PushLines
    <2>1. work # <<>> /\ UNCHANGED structureVars /\ handled' = handled /\ Continue(Top.lines, <<>>)
      BY <1>3 DEF PushLines, Runs
    <2>2. Quiet(Top.lines)
      BY <1>3, TopOfStack DEF PushLines
    <2> QED
      BY <1>1, <2>1, <2>2, QuietStep
  <1>4. CASE EndCase
    <2>1. work # <<>> /\ UNCHANGED structureVars /\ handled' = handled
      BY <1>4 DEF EndCase, Runs
    <2>2. Continue(<<>>, <<>>) \/ Continue(<<Line("break", NoNode, 0)>>, <<>>)
      BY <1>4 DEF EndCase
    <2> QED
      BY <1>1, <2>1, <2>2, QuietLines, QuietStep
  <1> QED
    BY <1>2, <1>3, <1>4

(* A block is written or jumped to: neither is a test.                     *)
LEMMA WriteOrGotoStep ==
  ASSUME WritesOnce, cfg.size \in Nat, WriteOrGoto
  PROVE  WritesOnce'
PROOF
  <1>1. work # <<>> /\ UNCHANGED structureVars /\ handled' = handled /\ IsCall(Top)
    <2>1. Runs("code or goto") /\ "code or goto" # "push" /\ UNCHANGED structureVars /\ handled' = handled
      BY DEF WriteOrGoto
    <2>2. work # <<>> /\ IsCall(Top)
      BY <2>1, TopOfStack, Zenon
    <2> QED
      BY <2>1, <2>2
  <1>2. PICK c : c = [Top EXCEPT !.what = "code"]
    OBVIOUS
  <1>3. Aside(c)
    BY <1>1, <1>2, CallElsewhere DEF Elsewhere
  <1>4. Continue(<<>>, <<c>>) \/ Continue(GotoLines(Top.at), <<>>)
    BY <1>2 DEF WriteOrGoto
  <1>5. Asides(<<c>>) /\ Asides(<<>>) /\ Quiet(<<>>)
    BY <1>3, OneAside
  <1>6. Quiet(GotoLines(Top.at))
    BY PathsAreQuiet
  <1> QED
    BY <1>1, <1>4, <1>5, <1>6, QuietStep

(* writeOneWay writes no test.                                             *)
LEMMA WriteOneWayStep ==
  ASSUME WritesOnce, WriteOneWay
  PROVE  WritesOnce'
PROOF
  <1>1. work # <<>> /\ UNCHANGED structureVars /\ handled' = handled /\ IsCall(Top)
    <2>1. Runs("one way") /\ "one way" # "push" /\ UNCHANGED structureVars /\ handled' = handled
      BY DEF WriteOneWay
    <2>2. work # <<>> /\ IsCall(Top)
      BY <2>1, TopOfStack, Zenon
    <2> QED
      BY <2>1, <2>2
  <1>2. PICK c : c = [Top EXCEPT !.what = "code or goto", !.at = cfg.out[Top.at][1]]
    OBVIOUS
  <1>3. Aside(c)
    <2>1. "code or goto" \in Elsewhere
      BY DEF Elsewhere
    <2> QED
      BY <1>1, <1>2, <2>1, CallElsewhere, Zenon
  <1>4. \/ Continue(<<BlockLine(Top.at), Line("break", NoNode, 0)>>, <<>>)
        \/ Continue(<<BlockLine(Top.at)>>, <<c>>)
    BY <1>2, Zenon DEF WriteOneWay
  <1>5. Asides(<<c>>) /\ Asides(<<>>)
    BY <1>3, OneAside
  <1>6. Quiet(<<BlockLine(Top.at)>>) /\ Quiet(<<BlockLine(Top.at), Line("break", NoNode, 0)>>)
    <2>1. ~ IsTest(BlockLine(Top.at)) /\ ~ IsTest(Line("break", NoNode, 0))
      BY DEF IsTest, BlockLine, Line
    <2> QED
      BY <2>1, QuietLines, ShortLists, Zenon
  <1> QED
    BY <1>1, <1>4, <1>5, <1>6, QuietStep

(* The else part and the follow block write no test.                       *)
LEMMA WriteElseStep ==
  ASSUME WritesOnce, cfg.size \in Nat, WriteElse \/ WriteFollow
  PROVE  WritesOnce'
PROOF
  <1>1. work # <<>> /\ UNCHANGED structureVars /\ handled' = handled /\ IsCall(Top)
    BY TopOfStack DEF WriteElse, WriteFollow
  <1>2. CASE WriteElse
    <2> DEFINE follow == written[Top.at].follow
               other == False(Top.at)
               elseLine == Line("else", NoNode, 0)
    <2>1. PICK c, r : /\ c = [Top EXCEPT !.what = "code", !.at = other, !.follow = follow]
                      /\ r = Rest(Top, "follow", follow)
      OBVIOUS
    <2>2. Aside(c) /\ Aside(r) /\ Aside(Push(<<End>>))
      <3>1. "code" \in Elsewhere /\ "follow" \in Elsewhere
        BY DEF Elsewhere
      <3> QED
        BY <1>1, <2>1, <3>1, CallElsewhere, OneAside, QuietLines, Zenon
    <2> DEFINE after == <<Push(<<End>>), r>>
    <2>3. \/ Continue(<<>>, after)
          \/ Continue(<<elseLine>> \o GotoLines(other), after)
          \/ Continue(<<elseLine>>, <<c>> \o after)
      BY <1>2, <2>1, Zenon DEF WriteElse
    <2>4. Asides(after)
      BY <2>2, ShortLists, Zenon
    <2>5. Asides(<<c>> \o after)
      BY <2>2, <2>4, OneAside, AsidesJoined
    <2>6. Quiet(<<elseLine>> \o GotoLines(other))
      BY QuietLines, PathsAreQuiet, QuietJoined
    <2> HIDE DEF after, elseLine, other
    <2>7. Quiet(<<>>) /\ Quiet(<<elseLine>>)
      BY QuietLines DEF elseLine
    <2> QED
      BY <1>1, <2>3, <2>4, <2>5, <2>6, <2>7, QuietStep
  <1>3. CASE WriteFollow
    <2>1. PICK c : c = [Top EXCEPT !.what = "code", !.at = Top.rest]
      OBVIOUS
    <2>2. Aside(c)
      <3>1. "code" \in Elsewhere
        BY DEF Elsewhere
      <3> QED
        BY <1>1, <2>1, <3>1, CallElsewhere, Zenon
    <2>3. Continue(<<>>, <<c>>) \/ Continue(<<>>, <<>>)
      BY <1>3, <2>1, Zenon DEF WriteFollow
    <2> QED
      BY <1>1, <2>2, <2>3, OneAside, QuietStep
  <1> QED
    BY <1>2, <1>3

-----------------------------------------------------------------------------
(* Steps that write one test                                               *)

\* t is the only test among the lines, c the only call that may test the
\* branch of its block itself.
OnlyTest(lines, t) ==
  /\ IsSeq(lines)
  /\ \A i, j \in DOMAIN lines : IsTest(lines[i]) /\ IsTest(lines[j]) => i = j /\ lines[i] = t
OnlyCall(calls, c) ==
  /\ Items(calls)
  /\ \A i, j \in DOMAIN calls : ~ Aside(calls[i]) /\ ~ Aside(calls[j]) => i = j /\ calls[i] = c

(* The only test stays the only one among lines that test nothing.         *)
LEMMA OnlyTestJoined ==
  ASSUME NEW s, NEW q, NEW t, \/ OnlyTest(s, t) /\ Quiet(q)
                              \/ Quiet(s) /\ OnlyTest(q, t)
  PROVE  OnlyTest(s \o q, t)
PROOF
  <1>1. IsSeq(s) /\ IsSeq(q)
    BY DEF OnlyTest, Quiet
  <1>2. PICK X : s \in Seq(X) /\ q \in Seq(X) /\ s \o q \in Seq(X)
    BY <1>1, SeqJoined
  <1> DEFINE W == {x \in X : IsTest(x)}
  <1>3. \A u \in Seq(X) : \A i \in DOMAIN u : i \in At(u, W) <=> IsTest(u[i])
    BY DEF At
  <1>4. \A u \in Seq(X) : At(u, W) \subseteq DOMAIN u
    BY DEF At
  <1> HIDE DEF W
  <1>5. \A u \in Seq(X) : (OnlyTest(u, t) => Single(At(u, W))) /\ (Quiet(u) => At(u, W) = {})
    BY <1>3, <1>4 DEF OnlyTest, Quiet, Single
  <1>6. Single(At(s, W)) /\ Single(At(q, W)) /\ (At(s, W) = {} \/ At(q, W) = {})
    BY <1>2, <1>5 DEF Single
  <1>7. Single(At(s \o q, W))
    BY <1>2, <1>6, JoinedAt
  <1>8. PICK u : u = s \o q
    OBVIOUS
  <1>9. ASSUME NEW i \in DOMAIN u, IsTest(u[i])
        PROVE  u[i] = t
    <2>1. (\E j \in DOMAIN s : u[i] = s[j]) \/ (\E j \in DOMAIN q : u[i] = q[j])
      BY <1>1, <1>8, ElementsJoined
    <2> QED
      BY <1>9, <2>1 DEF OnlyTest, Quiet
  <1>10. OnlyTest(u, t)
    BY <1>2, <1>3, <1>7, <1>8, <1>9 DEF OnlyTest, Single, IsSeq
  <1> QED
    BY <1>8, <1>10

(* The only call stays the only one among calls for others.                *)
LEMMA OnlyCallJoined ==
  ASSUME NEW s, NEW q, NEW c, \/ OnlyCall(s, c) /\ Asides(q)
                              \/ Asides(s) /\ OnlyCall(q, c)
  PROVE  OnlyCall(s \o q, c)
PROOF
  <1>1. Items(s) /\ Items(q) /\ Items(s \o q)
    BY ItemsJoined DEF OnlyCall, Asides
  <1>2. PICK X : s \in Seq(X) /\ q \in Seq(X) /\ s \o q \in Seq(X)
    BY <1>1, SeqJoined DEF Items
  <1> DEFINE W == {x \in X : ~ Aside(x)}
  <1>3. \A u \in Seq(X) : \A i \in DOMAIN u : i \in At(u, W) <=> ~ Aside(u[i])
    BY DEF At
  <1>4. \A u \in Seq(X) : At(u, W) \subseteq DOMAIN u
    BY DEF At
  <1> HIDE DEF W
  <1>5. \A u \in Seq(X) : (OnlyCall(u, c) => Single(At(u, W))) /\ (Asides(u) => At(u, W) = {})
    BY <1>3, <1>4 DEF OnlyCall, Asides, Single
  <1>6. Single(At(s, W)) /\ Single(At(q, W)) /\ (At(s, W) = {} \/ At(q, W) = {})
    BY <1>2, <1>5 DEF Single
  <1>7. Single(At(s \o q, W))
    BY <1>2, <1>6, JoinedAt
  <1>8. PICK u : u = s \o q
    OBVIOUS
  <1>9. ASSUME NEW i \in DOMAIN u, ~ Aside(u[i])
        PROVE  u[i] = c
    <2>1. (\E j \in DOMAIN s : u[i] = s[j]) \/ (\E j \in DOMAIN q : u[i] = q[j])
      BY <1>1, <1>8, ElementsJoined DEF Items
    <2> QED
      BY <1>9, <2>1, SMTT(30) DEF OnlyCall, Asides
  <1>10. OnlyCall(u, c)
    BY <1>1, <1>2, <1>3, <1>7, <1>8, <1>9 DEF OnlyCall, Single
  <1> QED
    BY <1>8, <1>10

\* Short lists with one test, and one call.
LEMMA ShortOnly ==
  /\ \A x, t : ~ IsTest(x) => OnlyTest(<<x, t>>, t)
  /\ \A x, y, t : ~ IsTest(x) /\ ~ IsTest(y) => OnlyTest(<<x, y, t>>, t)
  /\ \A lines, t : Quiet(lines) => OnlyTest(lines, t)
  /\ \A t : OnlyTest(<<t>>, t)
  /\ \A calls, c : Asides(calls) => OnlyCall(calls, c)
  /\ \A c : Item(c) => OnlyCall(<<c>>, c)
PROOF
  <1>1. ASSUME NEW x, NEW t, ~ IsTest(x)
        PROVE  OnlyTest(<<x, t>>, t)
    <2>1. <<x, t>> \in Seq({x, t}) /\ DOMAIN <<x, t>> = {1, 2} /\ <<x, t>>[1] = x /\ <<x, t>>[2] = t
      OBVIOUS
    <2>2. IsSeq(<<x, t>>)
      BY <2>1 DEF IsSeq
    <2> QED
      BY <1>1, <2>1, <2>2 DEF OnlyTest
  <1>2. ASSUME NEW x, NEW y, NEW t, ~ IsTest(x), ~ IsTest(y)
        PROVE  OnlyTest(<<x, y, t>>, t)
    <2>1. /\ <<x, y, t>> \in Seq({x, y, t}) /\ DOMAIN <<x, y, t>> = {1, 2, 3}
          /\ <<x, y, t>>[1] = x /\ <<x, y, t>>[2] = y /\ <<x, y, t>>[3] = t
      OBVIOUS
    <2>2. IsSeq(<<x, y, t>>)
      BY <2>1 DEF IsSeq
    <2> QED
      BY <1>2, <2>1, <2>2 DEF OnlyTest
  <1>3. \A lines, t : Quiet(lines) => OnlyTest(lines, t)
    BY DEF Quiet, OnlyTest
  <1>4. \A calls, c : Asides(calls) => OnlyCall(calls, c)
    BY DEF Asides, OnlyCall
  <1>5. ASSUME NEW x
        PROVE  IsSeq(<<x>>) /\ DOMAIN <<x>> = {1} /\ <<x>>[1] = x
    <2>1. <<x>> \in Seq({x}) /\ DOMAIN <<x>> = {1} /\ <<x>>[1] = x
      OBVIOUS
    <2> QED
      BY <2>1 DEF IsSeq
  <1>6. (\A t : OnlyTest(<<t>>, t)) /\ \A c : Item(c) => OnlyCall(<<c>>, c)
    BY <1>5 DEF OnlyTest, OnlyCall, Items
  <1> QED
    BY <1>1, <1>2, <1>3, <1>4, <1>6

(* What one test and one call are about.                                   *)
LEMMA OneTestAbout ==
  ASSUME NEW lines, NEW t, OnlyTest(lines, t), NEW K, K \subseteq Deciding \cup Returning \cup {"switch"}, NEW v
  PROVE  Single(LinesAt(lines, K, v)) /\ (LinesAt(lines, K, v) # {} => t.kind \in K /\ t.at = v)
PROOF
  <1>1. \A i \in LinesAt(lines, K, v) : i \in DOMAIN lines /\ IsTest(lines[i]) /\ lines[i].kind \in K /\ lines[i].at = v
    BY DEF LinesAt, IsTest, Deciding, Returning
  <1> QED
    BY <1>1 DEF OnlyTest, Single

(* What one call is for.                                                   *)
LEMMA OneCallAbout ==
  ASSUME NEW calls, NEW c, OnlyCall(calls, c), NEW K, K \subseteq Own \cup Back, NEW v
  PROVE  Single(CallsAt(calls, K, v)) /\ (CallsAt(calls, K, v) # {} => c.what \in K /\ c.at = v)
PROOF
  <1>1. \A i \in CallsAt(calls, K, v) : i \in DOMAIN calls /\ ~ Aside(calls[i]) /\ calls[i].what \in K /\ calls[i].at = v
    BY DEF CallsAt, Aside
  <1> QED
    BY <1>1 DEF OnlyCall, Single

(* The call on top of the stack writes a test of its block, and goes on    *)
(* with calls for others and at most one that closes its own loop.         *)
LEMMA DecidingStep ==
  ASSUME WritesOnce, work # <<>>, UNCHANGED structureVars, NEW lines, NEW calls, Continue(lines, calls),
         handled \subseteq handled', NEW t, OnlyTest(lines, t), NEW c, OnlyCall(calls, c),
         Top.what \in Own,
         IsTest(t) => t.kind \in Deciding /\ t.at = Top.at /\ Decisive(Top.at),
         ~ Aside(c) => c.what = "end loop" /\ c.at = Top.at /\ Top.what = "loop"
  PROVE  WritesOnce'
PROOF
  <1>1. IsSeq(lines) /\ Items(calls)
    BY DEF OnlyTest, OnlyCall
  <1>2. Top.at \in handled
    <2>1. CallsAt(work, Own, Top.at) # {}
      <3>1. (\E X : work \in Seq(X)) /\ work # <<>>
        BY DEF WritesOnce, Items, IsSeq
      <3>2. 1 \in DOMAIN work
        BY ONLY <3>1
      <3> QED
        BY <3>2 DEF CallsAt, Top
    <2> QED
      BY <2>1 DEF WritesOnce, Decides
  <1>3. ASSUME NEW v
        PROVE  /\ Single(LinesAt(lines, Deciding, v)) /\ Single(CallsAt(calls, Back, v))
               /\ LinesAt(lines, Deciding, v) # {} => v = Top.at /\ Decisive(Top.at)
               /\ LinesAt(lines, Returning, v) = {} /\ LinesAt(lines, {"switch"}, v) = {}
               /\ CallsAt(calls, Own, v) = {}
               /\ CallsAt(calls, Back, v) # {} => v = Top.at /\ Top.what = "loop"
    <2>1. ASSUME NEW K, K \subseteq Deciding \cup Returning \cup {"switch"}
          PROVE  Single(LinesAt(lines, K, v)) /\ (LinesAt(lines, K, v) # {} => t.kind \in K /\ t.at = v)
      <3>1. OnlyTest(lines, t)
        OBVIOUS
      <3> QED
        BY ONLY <2>1, <3>1, OneTestAbout
    <2>2. ASSUME NEW K, K \subseteq Own \cup Back
          PROVE  Single(CallsAt(calls, K, v)) /\ (CallsAt(calls, K, v) # {} => c.what \in K /\ c.at = v)
      <3>1. OnlyCall(calls, c)
        OBVIOUS
      <3> QED
        BY ONLY <2>2, <3>1, OneCallAbout
    <2>3. /\ Deciding \subseteq Deciding \cup Returning \cup {"switch"} /\ Returning \subseteq Deciding \cup Returning \cup {"switch"}
          /\ {"switch"} \subseteq Deciding \cup Returning \cup {"switch"} /\ Own \subseteq Own \cup Back /\ Back \subseteq Own \cup Back
      OBVIOUS
    <2>4. /\ t.kind \in Deciding \cup Returning \cup {"switch"} => IsTest(t)
          /\ t.kind \in Deciding => t.kind \notin Returning /\ t.kind \notin {"switch"}
          /\ c.what \in Own \cup Back => ~ Aside(c)
          /\ c.what = "end loop" => c.what \notin Own
      BY DEF IsTest, Deciding, Returning, Aside, Own
    <2> QED
      BY <2>1, <2>2, <2>3, <2>4
  <1>4. Single({})
    BY DEF Single
  <1>5. \A v : DecidesOnce(lines, calls, v) /\ (Decides(lines, calls, v) => Fresh(Own, v))
    BY <1>2, <1>3, <1>4 DEF DecidesOnce, Decides, Fresh
  <1>6. \A h : Single(CallsAt(calls, Back, h)) /\ (CallsAt(calls, Back, h) # {} => Fresh(Back, h))
    BY <1>2, <1>3 DEF Fresh, Back
  <1> QED
    BY <1>1, <1>3, <1>4, <1>5, <1>6, Written

-----------------------------------------------------------------------------
(* writeTwoWay                                                             *)

\* The lines for block v before its test, if there is one.
LEMMA LinesOfBlock ==
  \A v : ~ IsTest(BlockLine(v)) /\ ~ IsTest(OpeningLine(v)) /\ ~ IsTest(End)
PROOF
  BY DEF IsTest, BlockLine, OpeningLine, Line, End

(* A step of writeTwoWay: its calls are for other blocks.                  *)
LEMMA TwoWayStep ==
  ASSUME WritesOnce, Runs("two way"), UNCHANGED structureVars, handled' = handled, NEW lines, NEW calls,
         Continue(lines, calls), NEW kind \in Deciding, NEW on, OnlyTest(lines, Line(kind, Top.at, on)), Asides(calls)
  PROVE  WritesOnce'
PROOF
  <1>1. work # <<>> /\ Top.what = "two way" /\ Item(Top)
    BY TopOfStack
  <1>2. PICK t : t = Line(kind, Top.at, on)
    OBVIOUS
  <1>3. OnlyTest(lines, t) /\ t.kind \in Deciding /\ t.at = Top.at
    BY <1>2 DEF Line
  <1>4. Decisive(Top.at) /\ Top.what \in Own
    BY <1>1 DEF Item, Own
  <1>5. PICK c : Aside(c)
    BY OneAside
  <1>6. OnlyCall(calls, c)
    BY ShortOnly
  <1>7. handled \subseteq handled'
    OBVIOUS
  <1> QED
    BY <1>1, <1>3, <1>4, <1>5, <1>6, <1>7, DecidingStep

(* A branch out of the loop is tested by a break.                          *)
LEMMA WriteBreakStep ==
  ASSUME WritesOnce, WriteBreak
  PROVE  WritesOnce'
PROOF
  <1>1. Runs("two way") /\ UNCHANGED structureVars /\ handled' = handled
    BY DEF WriteBreak
  <1>2. PICK on : Continue(<<BlockLine(Top.at), Line("break if", Top.at, on)>>, <<OtherSuccessor(Top, on)>>)
    BY Zenon DEF WriteBreak
  <1>3. Asides(<<OtherSuccessor(Top, on)>>)
    <2>1. IsCall(Top)
      <3>1. "two way" # "push"
        OBVIOUS
      <3> QED
        BY <1>1, <3>1, TopOfStack, Zenon
    <2>2. "code" \in Elsewhere
      BY DEF Elsewhere
    <2>3. Aside(OtherSuccessor(Top, on))
      BY <2>1, <2>2, CallElsewhere, Zenon DEF OtherSuccessor
    <2> QED
      BY <2>3, OneAside, Zenon
  <1>4. OnlyTest(<<BlockLine(Top.at), Line("break if", Top.at, on)>>, Line("break if", Top.at, on))
    BY ShortOnly, LinesOfBlock, Zenon
  <1>5. "break if" \in Deciding
    BY DEF Deciding
  <1> QED
    BY <1>1, <1>2, <1>3, <1>4, <1>5, TwoWayStep, Zenon

(* A branch with a path out of the loop is tested by an if.                *)
LEMMA WritePathToFollowStep ==
  ASSUME WritesOnce, cfg.size \in Nat, WritePathToFollow
  PROVE  WritesOnce'
PROOF
  <1>1. Runs("two way") /\ UNCHANGED structureVars /\ handled' = handled
    BY DEF WritePathToFollow
  <1>2. PICK on, path : /\ path = SimplePathToFollow(cfg.out[Top.at][on])
                        /\ Continue(<<BlockLine(Top.at), Line("if", Top.at, on)>> \o path \o <<End>>, <<OtherSuccessor(Top, on)>>)
    BY Zenon DEF WritePathToFollow
  <1>3. Asides(<<OtherSuccessor(Top, on)>>)
    <2>1. IsCall(Top)
      <3>1. "two way" # "push"
        OBVIOUS
      <3> QED
        BY <1>1, <3>1, TopOfStack, Zenon
    <2>2. "code" \in Elsewhere
      BY DEF Elsewhere
    <2>3. Aside(OtherSuccessor(Top, on))
      BY <2>1, <2>2, CallElsewhere, Zenon DEF OtherSuccessor
    <2> QED
      BY <2>3, OneAside, Zenon
  <1>4. PICK s, t : s = <<BlockLine(Top.at), t>> /\ t = Line("if", Top.at, on)
    OBVIOUS
  <1>5. OnlyTest(s, t)
    BY <1>4, ShortOnly, LinesOfBlock, Zenon
  <1>6. Quiet(path)
    BY <1>2, PathsAreQuiet
  <1>7. OnlyTest(s \o path, t)
    BY <1>5, <1>6, OnlyTestJoined
  <1>8. Quiet(<<End>>)
    BY QuietLines
  <1>9. OnlyTest(s \o path \o <<End>>, t)
    BY <1>7, <1>8, OnlyTestJoined
  <1>10. "if" \in Deciding
    BY DEF Deciding
  <1> QED
    BY <1>1, <1>2, <1>3, <1>4, <1>9, <1>10, TwoWayStep, Zenon

(* A branch with a follow block is tested by an if.                        *)
LEMMA WriteIfStep ==
  ASSUME WritesOnce, WriteIf
  PROVE  WritesOnce'
PROOF
  <1>1. Runs("two way") /\ UNCHANGED structureVars /\ handled' = handled
    BY DEF WriteIf, PlainBranch
  <1>2. PICK on, then, else, follow :
             /\ then = [Top EXCEPT !.what = "code or goto", !.at = cfg.out[Top.at][on], !.follow = follow]
             /\ else = Rest(Top, "else", on)
             /\ Continue(<<BlockLine(Top.at), Line("if", Top.at, on)>>, <<then, else>>)
    BY Zenon DEF WriteIf
  <1>3. Asides(<<then, else>>)
    <2>1. IsCall(Top)
      <3>1. "two way" # "push"
        OBVIOUS
      <3> QED
        BY <1>1, <3>1, TopOfStack, Zenon
    <2>2. "code or goto" \in Elsewhere /\ "else" \in Elsewhere
      BY DEF Elsewhere
    <2>3. Aside(then)
      BY <1>2, <2>1, <2>2, CallElsewhere, Zenon
    <2>4. Aside(else)
      BY <1>2, <2>1, <2>2, CallElsewhere, Zenon
    <2> QED
      BY <2>3, <2>4, ShortLists
  <1>4. OnlyTest(<<BlockLine(Top.at), Line("if", Top.at, on)>>, Line("if", Top.at, on))
    BY ShortOnly, LinesOfBlock, Zenon
  <1>5. "if" \in Deciding
    BY DEF Deciding
  <1> QED
    BY <1>1, <1>2, <1>3, <1>4, <1>5, TwoWayStep, Zenon

(* A branch without a follow block is tested by an if.                     *)
LEMMA WriteIfElseStep ==
  ASSUME WritesOnce, WriteIfElse
  PROVE  WritesOnce'
PROOF
  <1>1. Runs("two way") /\ UNCHANGED structureVars /\ handled' = handled
    BY DEF WriteIfElse, PlainBranch
  <1>2. PICK then, else :
             /\ then = [Top EXCEPT !.what = "code or goto", !.at = cfg.out[Top.at][1]]
             /\ else = [Top EXCEPT !.what = "code or goto", !.at = cfg.out[Top.at][2]]
             /\ Continue(<<BlockLine(Top.at), Line("if", Top.at, 1)>>,
                         <<then, Push(<<Line("else", NoNode, 0)>>), else, Push(<<End>>)>>)
    BY Zenon DEF WriteIfElse
  <1>3. Asides(<<then, Push(<<Line("else", NoNode, 0)>>), else, Push(<<End>>)>>)
    <2>1. IsCall(Top)
      <3>1. "two way" # "push"
        OBVIOUS
      <3> QED
        BY <1>1, <3>1, TopOfStack, Zenon
    <2>2. "code or goto" \in Elsewhere
      BY DEF Elsewhere
    <2>3. Aside(then) /\ Aside(else)
      BY <1>2, <2>1, <2>2, CallElsewhere, Zenon
    <2>4. Aside(Push(<<Line("else", NoNode, 0)>>)) /\ Aside(Push(<<End>>))
      BY QuietLines, OneAside, Zenon
    <2> QED
      BY <2>3, <2>4, ShortLists, Zenon
  <1>4. OnlyTest(<<BlockLine(Top.at), Line("if", Top.at, 1)>>, Line("if", Top.at, 1))
    BY ShortOnly, LinesOfBlock, Zenon
  <1>5. "if" \in Deciding
    BY DEF Deciding
  <1> QED
    BY <1>1, <1>2, <1>3, <1>4, <1>5, TwoWayStep, Zenon

-----------------------------------------------------------------------------
(* writeLoop                                                               *)

\* What is known when the text is written.
Generating ==
  /\ cfg \in FlowGraphs /\ cfg.size \in Nat /\ LoopsApart
  /\ \A v \in DOMAIN switches : v \in Vertices(cfg)
  /\ \A v \in DOMAIN written : v \in DOMAIN conditionals \cup DOMAIN loops
  /\ WritesOnce

(* A loop has one of the types, and one whose header is tested has another *)
(* latching block.                                                         *)
LEMMA TypeOfLoop ==
  ASSUME LoopsApart, NEW h \in DOMAIN loops
  PROVE  loops[h].type \in LoopTypes /\ (loops[h].type = "PRE_TESTED" => Decisive(h)) /\ h \in Vertices(cfg)
PROOF
  <1> DEFINE l == loops[h].latching
             nodes == loops[h].nodes
  <1>1. h \in Vertices(cfg) /\ loops[h] = MakeLoop(h, l, nodes)
    BY DEF LoopsApart, LoopsNatural, IsMadeFor
  <1>2. MakeLoop(h, l, nodes).type = LoopType(h, l, nodes)
    BY DEF MakeLoop
  <1>3. loops[h].type = LoopType(h, l, nodes)
    BY <1>1, <1>2, Zenon
  <1>4. LoopType(h, l, nodes) \in LoopTypes /\ (h = l => LoopType(h, l, nodes) # "PRE_TESTED")
    BY DEF LoopType, LoopTypes
  <1> QED
    BY <1>1, <1>3, <1>4 DEF Decisive

(* The calls for the successors of the header.                             *)
LEMMA BodyCallsAside ==
  ASSUME Generating, IsCall(Top), NEW h \in Vertices(cfg)
  PROVE  Asides(BodyCalls(h, Top))
PROOF
  <1> DEFINE out == cfg.out[h]
             Stays(s) == s \in loops[h].nodes /\ (loops[h].type = "PRE_TESTED" => s # loops[h].follow)
             Call1(s) == Call("code or goto", s, loops[h].latching, Top.follow)
             CallFor(s) == IF Stays(s) THEN <<Call1(s)>> ELSE <<>>
             T == {Call1(s) : s \in Vertices(cfg)}
  <1>1. out \in Seq(Vertices(cfg))
    BY EdgesOfBlock DEF Generating
  <1>2. PICK n \in Nat : DOMAIN out = 1 .. n /\ \A i \in 1 .. n : out[i] \in Vertices(cfg)
    BY <1>1
  <1>3. \A s \in Vertices(cfg) : CallFor(s) \in Seq(T)
    <2> TAKE s \in Vertices(cfg)
    <2>1. PICK c : c = Call1(s)
      OBVIOUS
    <2>2. c \in T
      BY <2>1
    <2> HIDE DEF Call1, T
    <2>3. <<c>> \in Seq(T) /\ <<>> \in Seq(T)
      BY <2>2
    <2> QED
      BY <2>1, <2>3
  <1>4. PICK parts : parts = [i \in DOMAIN out |-> CallFor(out[i])]
    OBVIOUS
  <1>5. parts \in Seq(Seq(T))
    <2>1. \A i \in 1 .. n : parts[i] \in Seq(T)
      BY <1>2, <1>3, <1>4
    <2>2. parts = [i \in 1 .. n |-> parts[i]]
      BY <1>2, <1>4
    <2> HIDE DEF T
    <2> QED
      BY <2>1, <2>2
  <1>6. FlattenSeq(parts) \in Seq(T)
    <2> HIDE DEF T
    <2> QED
      BY <1>5, FlattenHasAll
  <1>7. \A c \in T : Aside(c)
    <2> SUFFICES ASSUME NEW s
                 PROVE  Aside(Call1(s))
      OBVIOUS
    <2>1. PICK c : c = Call1(s)
      OBVIOUS
    <2>2. IsCall(c) /\ c.what = "code or goto"
      BY <2>1 DEF Call, IsCall
    <2>3. "code or goto" \in Elsewhere
      BY DEF Elsewhere
    <2>4. Aside(c)
      BY <2>2, <2>3, OneAside, Zenon
    <2> QED
      BY <2>1, <2>4, Zenon
  <1>8. Asides(FlattenSeq(parts))
    <2> HIDE DEF T
    <2>1. \A i \in DOMAIN FlattenSeq(parts) : FlattenSeq(parts)[i] \in T
      BY <1>6
    <2> QED
      BY <1>6, <1>7, <2>1 DEF Asides, Items, Aside, IsSeq
  <1>9. BodyCalls(h, Top) = IF h = loops[h].latching THEN <<>> ELSE FlattenSeq(parts)
    BY <1>4, Zenon DEF BodyCalls
  <1> QED
    BY <1>8, <1>9, OneAside

(* The call that closes the loop is the only one for the header.           *)
LEMMA ClosingCalls ==
  ASSUME IsCall(Top), Top.at \in DOMAIN loops, NEW calls, Asides(calls)
  PROVE  \E e : e.what = "end loop" /\ e.at = Top.at /\ OnlyCall(Closing(Top.at, Top, calls), e)
PROOF
  <1>1. PICK e : e = Rest(Top, "end loop", currentLoop)
    OBVIOUS
  <1>2. IsCall(e) /\ e.what = "end loop" /\ e.at = Top.at
    <2>1. PICK c, w : c = Top /\ w = "end loop"
      OBVIOUS
    <2>2. IsCall(c) /\ e = Rest(c, w, currentLoop)
      BY <1>1, <2>1
    <2>3. IsCall(e) /\ e.what = w /\ e.at = c.at
      BY ONLY <2>2, RestOfCall
    <2> QED
      BY <2>1, <2>3
  <1>3. Item(e)
    BY <1>2 DEF Item, IsCall
  <1>4. OnlyCall(<<>>, e) /\ OnlyCall(<<e>>, e)
    BY <1>3, ShortOnly, OneAside
  <1>5. OnlyCall(calls \o <<e>>, e)
    BY <1>4, OnlyCallJoined
  <1>6. Closing(Top.at, Top, calls) \in {<<>>, calls \o <<e>>}
    BY <1>1, Zenon DEF Closing
  <1> QED
    BY <1>2, <1>4, <1>5, <1>6

(* The call of writeLoop that is under way.                                *)
LEMMA LoopUnderWay ==
  ASSUME Generating, Runs("loop")
  PROVE  /\ work # <<>> /\ Top.what = "loop" /\ IsCall(Top) /\ Top.at \in DOMAIN loops /\ Top.at \in Vertices(cfg)
         /\ Top.what \in Own
PROOF
  <1>1. "loop" # "push"
    OBVIOUS
  <1>2. work # <<>> /\ Top.what = "loop" /\ IsCall(Top) /\ Item(Top)
    BY <1>1, TopOfStack, Zenon DEF Generating
  <1>3. Top.at \in DOMAIN loops
    BY <1>2 DEF Item, Back
  <1> QED
    BY <1>2, <1>3, TypeOfLoop DEF Generating, Own

(* A step of writeLoop that writes a test of the header, or none.          *)
LEMMA LoopHeadStep ==
  ASSUME Generating, Runs("loop"), EnterLoop, NEW lines, NEW before, Asides(before),
         Continue(lines, before \o Closing(Top.at, Top, BodyCalls(Top.at, Top))),
         NEW t, OnlyTest(lines, t), IsTest(t) => t.kind \in Deciding /\ t.at = Top.at /\ Decisive(Top.at)
  PROVE  WritesOnce'
PROOF
  <1>1. /\ work # <<>> /\ Top.what = "loop" /\ IsCall(Top) /\ Top.at \in DOMAIN loops /\ Top.at \in Vertices(cfg)
        /\ Top.what \in Own
    BY LoopUnderWay
  <1>2. Asides(BodyCalls(Top.at, Top))
    BY <1>1, BodyCallsAside
  <1>3. PICK e : e.what = "end loop" /\ e.at = Top.at /\ OnlyCall(Closing(Top.at, Top, BodyCalls(Top.at, Top)), e)
    BY <1>1, <1>2, ClosingCalls, Zenon
  <1>4. PICK calls : calls = before \o Closing(Top.at, Top, BodyCalls(Top.at, Top))
    OBVIOUS
  <1>5. OnlyCall(calls, e)
    BY <1>3, <1>4, OnlyCallJoined, Zenon
  <1>6. UNCHANGED structureVars /\ handled \subseteq handled'
    BY DEF EnterLoop
  <1>7. Continue(lines, calls)
    BY <1>4
  <1>8. WritesOnce
    BY DEF Generating
  <1> QED
    BY <1>1, <1>3, <1>5, <1>6, <1>7, <1>8, DecidingStep

(* The same without calls before the body.                                 *)
LEMMA PlainLoopHeadStep ==
  ASSUME Generating, Runs("loop"), EnterLoop, NEW lines,
         Continue(lines, Closing(Top.at, Top, BodyCalls(Top.at, Top))),
         NEW t, OnlyTest(lines, t), IsTest(t) => t.kind \in Deciding /\ t.at = Top.at /\ Decisive(Top.at)
  PROVE  WritesOnce'
PROOF
  <1>1. PICK calls : calls = Closing(Top.at, Top, BodyCalls(Top.at, Top))
    OBVIOUS
  <1>2. \E X : calls \in Seq(X)
    <2>1. IsCall(Top) /\ Top.at \in DOMAIN loops /\ Top.at \in Vertices(cfg)
      BY LoopUnderWay
    <2>2. Asides(BodyCalls(Top.at, Top))
      BY <2>1, BodyCallsAside
    <2>3. \E e : OnlyCall(calls, e)
      BY <1>1, <2>1, <2>2, ClosingCalls, Zenon
    <2> QED
      BY <2>3 DEF OnlyCall, Items, IsSeq
  <1>3. <<>> \o calls = calls
    BY <1>2, ConcatEmptySeq
  <1>4. Continue(lines, <<>> \o Closing(Top.at, Top, BodyCalls(Top.at, Top)))
    BY <1>1, <1>3, Zenon
  <1>5. Asides(<<>>)
    BY OneAside
  <1> QED
    BY <1>4, <1>5, LoopHeadStep, Zenon

(* The header of a pre-tested loop is tested by a while.                   *)
LEMMA WritePreTestedLoopStep ==
  ASSUME Generating, WritePreTestedLoop
  PROVE  WritesOnce'
PROOF
  <1>1. Runs("loop") /\ EnterLoop /\ loops[Top.at].type = "PRE_TESTED"
    BY DEF WritePreTestedLoop
  <1>2. PICK t, on : /\ t = Line("while", Top.at, on)
                     /\ Continue(<<BlockLine(Top.at), t>>, Closing(Top.at, Top, BodyCalls(Top.at, Top)))
    BY Zenon DEF WritePreTestedLoop
  <1>3. OnlyTest(<<BlockLine(Top.at), t>>, t)
    BY ShortOnly, LinesOfBlock, Zenon
  <1>4. t.kind \in Deciding /\ t.at = Top.at
    BY <1>2 DEF Line, Deciding
  <1>5. Decisive(Top.at)
    BY <1>1, LoopUnderWay, TypeOfLoop DEF Generating
  <1> QED
    BY <1>1, <1>2, <1>3, <1>4, <1>5, PlainLoopHeadStep, Zenon

(* Any other loop opens without a test.                                    *)
LEMMA WriteLoopStep ==
  ASSUME Generating, WriteLoop
  PROVE  WritesOnce'
PROOF
  <1>1. Runs("loop") /\ EnterLoop
    BY DEF WriteLoop
  <1>2. Continue(<<OpeningLine(Top.at), BlockLine(Top.at)>>, Closing(Top.at, Top, BodyCalls(Top.at, Top)))
    BY Zenon DEF WriteLoop
  <1>3. OnlyTest(<<OpeningLine(Top.at), BlockLine(Top.at)>>, BlockLine(Top.at)) /\ ~ IsTest(BlockLine(Top.at))
    BY ShortOnly, LinesOfBlock, Zenon
  <1> QED
    BY <1>1, <1>2, <1>3, PlainLoopHeadStep, Zenon

(* The header branches inside its loop, so it is not the latching block.   *)
LEMMA BranchingHeader ==
  ASSUME Generating, Branches(Top.at)
  PROVE  Runs("loop") /\ Decisive(Top.at)
PROOF
  <1>1. Runs("loop") /\ Top.at # loops[Top.at].latching
    BY DEF Branches
  <1>2. Top.at \in DOMAIN loops
    BY <1>1, LoopUnderWay
  <1> QED
    BY <1>1, <1>2 DEF Decisive

(* A header that leaves its loop is tested by a break.                     *)
LEMMA WriteLoopWithBreakStep ==
  ASSUME Generating, WriteLoopWithBreak
  PROVE  WritesOnce'
PROOF
  <1>1. Runs("loop") /\ EnterLoop /\ Decisive(Top.at)
    BY BranchingHeader DEF WriteLoopWithBreak
  <1>2. PICK t, on : /\ t = Line("break if", Top.at, on)
                     /\ Continue(<<OpeningLine(Top.at), BlockLine(Top.at), t>>,
                                 Closing(Top.at, Top, BodyCalls(Top.at, Top)))
    BY Zenon DEF WriteLoopWithBreak
  <1>3. OnlyTest(<<OpeningLine(Top.at), BlockLine(Top.at), t>>, t)
    BY ShortOnly, LinesOfBlock, Zenon
  <1>4. t.kind \in Deciding /\ t.at = Top.at
    BY <1>2 DEF Line, Deciding
  <1> QED
    BY <1>1, <1>2, <1>3, <1>4, PlainLoopHeadStep, Zenon

(* A header that leads to an exit is tested by an if.                      *)
LEMMA WriteLoopWithReturnStep ==
  ASSUME Generating, WriteLoopWithReturn
  PROVE  WritesOnce'
PROOF
  <1>1. Runs("loop") /\ EnterLoop /\ Decisive(Top.at)
    BY BranchingHeader DEF WriteLoopWithReturn
  <1>2. PICK t, on, c : /\ t = Line("if", Top.at, on)
                        /\ c = [Top EXCEPT !.what = "code", !.at = cfg.out[Top.at][on]]
                        /\ Continue(<<OpeningLine(Top.at), BlockLine(Top.at), t>>,
                                    <<c, Push(<<End>>)>> \o Closing(Top.at, Top, BodyCalls(Top.at, Top)))
    BY Zenon DEF WriteLoopWithReturn
  <1>3. OnlyTest(<<OpeningLine(Top.at), BlockLine(Top.at), t>>, t)
    BY ShortOnly, LinesOfBlock, Zenon
  <1>4. t.kind \in Deciding /\ t.at = Top.at
    BY <1>2 DEF Line, Deciding
  <1>5. Asides(<<c, Push(<<End>>)>>)
    <2>1. "code" \in Elsewhere /\ IsCall(Top)
      BY <1>1, LoopUnderWay DEF Elsewhere
    <2>2. Aside(c)
      BY <1>2, <2>1, CallElsewhere, Zenon
    <2>3. Aside(Push(<<End>>))
      BY QuietLines, OneAside, Zenon
    <2> QED
      BY <2>2, <2>3, ShortLists, Zenon
  <1> QED
    BY <1>1, <1>2, <1>3, <1>4, <1>5, LoopHeadStep, Zenon

(* Any other header that branches is left to writeTwoWay.                  *)
LEMMA WriteLoopWithConditionalStep ==
  ASSUME Generating, WriteLoopWithConditional
  PROVE  WritesOnce'
PROOF
  <1>1. Runs("loop") /\ EnterLoop /\ Decisive(Top.at)
    BY BranchingHeader DEF WriteLoopWithConditional, OtherBranch
  <1>2. work # <<>> /\ Top.what = "loop" /\ IsCall(Top) /\ Top.at \in DOMAIN loops
    BY <1>1, LoopUnderWay
  <1>3. PICK c : c = Call("two way", Top.at, loops[Top.at].latching, Top.follow)
    OBVIOUS
  <1>4. PICK q : q = Closing(Top.at, Top, <<>>)
    OBVIOUS
  <1>5. Continue(<<OpeningLine(Top.at)>>, <<c>> \o q)
    BY <1>3, <1>4, Zenon DEF WriteLoopWithConditional
  <1>6. PICK e : e.what = "end loop" /\ e.at = Top.at /\ OnlyCall(q, e)
    <2>1. Asides(<<>>)
      BY OneAside
    <2> QED
      BY <1>2, <1>4, <2>1, ClosingCalls, Zenon
  <1>7. c.what = "two way" /\ c.at = Top.at /\ Item(c)
    <2>1. c.what = "two way" /\ c.at = Top.at /\ IsCall(c)
      BY <1>3 DEF Call, IsCall
    <2> QED
      BY <1>1, <2>1 DEF Item, IsCall, Back
  <1>8. Items(<<c>>) /\ Items(q)
    BY <1>6, <1>7, ShortOnly DEF OnlyCall
  <1>9. PICK calls : calls = <<c>> \o q
    OBVIOUS
  <1>10. Items(calls)
    BY <1>8, <1>9, ItemsJoined
  <1>11. PICK lines : lines = <<OpeningLine(Top.at)>>
    OBVIOUS
  <1>12. Quiet(lines)
    BY <1>11, LinesOfBlock, OneAside
  <1>13. \A v : LinesAt(lines, Deciding, v) = {} /\ LinesAt(lines, Returning, v) = {} /\ LinesAt(lines, {"switch"}, v) = {}
    BY <1>12 DEF Quiet, LinesAt, IsTest, Deciding, Returning
  <1>14. ASSUME NEW v
         PROVE  /\ Single(CallsAt(calls, Own, v)) /\ Single(CallsAt(calls, Back, v))
                /\ CallsAt(calls, Own, v) # {} => v = Top.at
                /\ CallsAt(calls, Back, v) # {} => v = Top.at
    <2>1. ASSUME NEW K, K \subseteq Own \cup Back
          PROVE  /\ CallsAt(calls, K, v) = {} <=> CallsAt(<<c>>, K, v) = {} /\ CallsAt(q, K, v) = {}
                 /\ Single(CallsAt(calls, K, v)) <=>
                      /\ Single(CallsAt(<<c>>, K, v)) /\ Single(CallsAt(q, K, v))
                      /\ CallsAt(<<c>>, K, v) = {} \/ CallsAt(q, K, v) = {}
                 /\ Single(CallsAt(<<c>>, K, v)) /\ (CallsAt(<<c>>, K, v) = {} <=> ~ (c.what \in K /\ c.at = v))
                 /\ Single(CallsAt(q, K, v)) /\ (CallsAt(q, K, v) # {} => e.what \in K /\ e.at = v)
      <3>1. IsSeq(<<c>>) /\ IsSeq(q)
        BY <1>8 DEF Items
      <3>2. PICK o : o = <<c>>
        OBVIOUS
      <3>3. /\ CallsAt(o \o q, K, v) = {} <=> CallsAt(o, K, v) = {} /\ CallsAt(q, K, v) = {}
            /\ Single(CallsAt(o \o q, K, v)) <=>
                 /\ Single(CallsAt(o, K, v)) /\ Single(CallsAt(q, K, v))
                 /\ CallsAt(o, K, v) = {} \/ CallsAt(q, K, v) = {}
        BY ONLY <3>1, <3>2, CallsJoined
      <3>4. Single(CallsAt(o, K, v)) /\ (CallsAt(o, K, v) = {} <=> ~ (c.what \in K /\ c.at = v))
        BY <3>2, OneCall
      <3>5. Single(CallsAt(q, K, v)) /\ (CallsAt(q, K, v) # {} => e.what \in K /\ e.at = v)
        <4>1. OnlyCall(q, e)
          BY <1>6
        <4> QED
          BY ONLY <2>1, <4>1, OneCallAbout
      <3>6. calls = o \o q
        BY <1>9, <3>2
      <3> QED
        BY <3>2, <3>3, <3>4, <3>5, <3>6
    <2>2. "two way" \in Own /\ "two way" \notin Back /\ "end loop" \in Back /\ "end loop" \notin Own
      BY DEF Own, Back
    <2>3. c.what \in Own /\ c.what \notin Back /\ e.what \in Back /\ e.what \notin Own
      BY <1>6, <1>7, <2>2
    <2>4. Own \subseteq Own \cup Back /\ Back \subseteq Own \cup Back
      OBVIOUS
    <2> QED
      BY <1>6, <1>7, <2>1, <2>3, <2>4
  <1>15. Single({})
    BY DEF Single
  <1>16. UNCHANGED structureVars /\ handled \subseteq handled' /\ Top.at \in handled'
    BY <1>1 DEF EnterLoop
  <1>17. \A v : DecidesOnce(lines, calls, v) /\ (Decides(lines, calls, v) => Fresh(Own, v))
    BY <1>2, <1>13, <1>14, <1>15, <1>16 DEF DecidesOnce, Decides, Fresh, Own
  <1>18. \A h : Single(CallsAt(calls, Back, h)) /\ (CallsAt(calls, Back, h) # {} => Fresh(Back, h))
    BY <1>2, <1>14, <1>16 DEF Fresh, Back
  <1>19. IsSeq(lines) /\ Continue(lines, calls)
    BY <1>5, <1>9, <1>11, <1>12 DEF Quiet
  <1>20. WritesOnce
    BY DEF Generating
  <1> QED
    BY <1>2, <1>10, <1>13, <1>15, <1>16, <1>17, <1>18, <1>19, <1>20, Written

(* A header that is left out is not tested at all.                         *)
LEMMA WriteLoopWithoutHeaderStep ==
  ASSUME Generating, WriteLoopWithoutHeader
  PROVE  WritesOnce'
PROOF
  <1>1. Runs("loop") /\ EnterLoop
    BY BranchingHeader DEF WriteLoopWithoutHeader, OtherBranch
  <1>2. Continue(<<OpeningLine(Top.at)>>, Closing(Top.at, Top, BodyCalls(Top.at, Top)))
    BY Zenon DEF WriteLoopWithoutHeader
  <1>3. OnlyTest(<<OpeningLine(Top.at)>>, OpeningLine(Top.at)) /\ ~ IsTest(OpeningLine(Top.at))
    BY ShortOnly, LinesOfBlock, Zenon
  <1> QED
    BY <1>1, <1>2, <1>3, PlainLoopHeadStep, Zenon

(* A loop is closed once, and no other is closed by a test of the same     *)
(* block.                                                                  *)
LEMMA EndLoopStep ==
  ASSUME Generating, EndLoop
  PROVE  WritesOnce'
PROOF
  <1>0. PICK h, l : h = Top.at /\ l = loops[h].latching
    OBVIOUS
  <1>1. Runs("end loop") /\ UNCHANGED structureVars /\ handled' = handled
    BY DEF EndLoop
  <1>2. work # <<>> /\ Top.what = "end loop" /\ IsCall(Top) /\ h \in DOMAIN loops
    <2>1. "end loop" # "push"
      OBVIOUS
    <2>2. work # <<>> /\ Top.what = "end loop" /\ IsCall(Top) /\ Item(Top)
      BY <1>1, <2>1, TopOfStack, Zenon DEF Generating
    <2> QED
      BY <1>0, <2>2 DEF Item, Back
  <1>3. PICK c : c = [Top EXCEPT !.what = "code or goto", !.at = loops[h].follow]
    OBVIOUS
  <1>4. PICK calls : calls = IF loops[h].follow = NoNode THEN <<>> ELSE <<c>>
    OBVIOUS
  <1>5. Asides(calls)
    <2>1. "code or goto" \in Elsewhere
      BY DEF Elsewhere
    <2>2. Aside(c)
      BY <1>2, <1>3, <2>1, CallElsewhere, Zenon
    <2> QED
      BY <1>4, <2>2, OneAside
  <1>6. PICK t, on : t = Line("do while", l, on) /\ on = ReturnsOn(l, h)
    OBVIOUS
  <1>7. PICK first : first = IF l \in handled THEN <<>> ELSE <<BlockLine(l)>>
    OBVIOUS
  <1>8. PICK lines : lines = CASE loops[h].type = "PRE_TESTED" -> <<BlockLine(h), End>>
                               [] loops[h].type = "POST_TESTED" -> first \o <<t>>
                               [] loops[h].type = "ENDLESS" -> <<End>>
    OBVIOUS
  <1>9. Continue(lines, calls)
    <2>1. PICK d : d = [Top EXCEPT !.what = "code or goto", !.at = loops[h].follow]
      OBVIOUS
    <2> QED
      BY <1>0, <1>3, <1>4, <1>6, <1>7, <1>8, Zenon DEF EndLoop
  <1>10. loops[h].type \in LoopTypes
    BY <1>2, TypeOfLoop DEF Generating
  <1>11. WritesOnce
    BY DEF Generating
  <1>12. CASE loops[h].type # "POST_TESTED"
    <2>1. lines = <<BlockLine(h), End>> \/ lines = <<End>>
      BY <1>8, <1>10, <1>12 DEF LoopTypes
    <2>2. Quiet(<<BlockLine(h), End>>) /\ Quiet(<<End>>)
      BY LinesOfBlock, ShortLists, QuietLines
    <2>3. Quiet(lines)
      BY <2>1, <2>2
    <2> QED
      BY <1>1, <1>2, <1>5, <1>9, <1>11, <2>3, QuietStep
  <1>13. CASE loops[h].type = "POST_TESTED"
    <2>1. lines = first \o <<t>>
      BY <1>8, <1>13
    <2>2. OnlyTest(lines, t)
      <3>1. Quiet(first)
        BY <1>7, QuietLines
      <3>2. OnlyTest(<<t>>, t)
        BY ShortOnly
      <3> QED
        BY <2>1, <3>1, <3>2, OnlyTestJoined
    <2>3. t.kind = "do while" /\ t.at = l
      BY <1>6 DEF Line
    <2>4. ASSUME NEW v
          PROVE  /\ LinesAt(lines, Deciding, v) = {} /\ LinesAt(lines, {"switch"}, v) = {}
                 /\ Single(LinesAt(lines, Returning, v)) /\ (LinesAt(lines, Returning, v) # {} => v = l)
                 /\ CallsAt(calls, Own, v) = {} /\ CallsAt(calls, Back, v) = {}
      <3>1. ASSUME NEW K, K \subseteq Deciding \cup Returning \cup {"switch"}
            PROVE  Single(LinesAt(lines, K, v)) /\ (LinesAt(lines, K, v) # {} => t.kind \in K /\ t.at = v)
        BY <2>2, <3>1, OneTestAbout
      <3>2. \A i \in DOMAIN calls : calls[i].what \notin Own \cup Back
        BY <1>5 DEF Asides, Aside
      <3>3. CallsAt(calls, Own, v) = {} /\ CallsAt(calls, Back, v) = {}
        BY <3>2 DEF CallsAt
      <3>4. t.kind \notin Deciding /\ t.kind \notin {"switch"}
        BY <2>3 DEF Deciding
      <3>5. /\ Deciding \subseteq Deciding \cup Returning \cup {"switch"} /\ Returning \subseteq Deciding \cup Returning \cup {"switch"}
            /\ {"switch"} \subseteq Deciding \cup Returning \cup {"switch"}
        OBVIOUS
      <3> QED
        BY <2>3, <3>1, <3>3, <3>4, <3>5
    <2>5. CallsAt(work, Back, h) # {} /\ CallsAt(Tail(work), Back, h) = {} /\ h \in handled
      <3>1. CallsAt(work, Back, h) = {} <=> ~ (Top.what \in Back /\ Top.at = h) /\ CallsAt(Tail(work), Back, h) = {}
        BY <1>2, <1>5, <1>11, StackReplaced DEF WritesOnce, Asides
      <3>2. Single(CallsAt(work, Back, h)) <=>
              /\ Single(CallsAt(Tail(work), Back, h))
              /\ ~ (Top.what \in Back /\ Top.at = h) \/ CallsAt(Tail(work), Back, h) = {}
        BY <1>2, <1>5, <1>11, StackReplaced DEF WritesOnce, Asides
      <3>3. Top.what \in Back /\ Top.at = h
        BY <1>0, <1>2 DEF Back
      <3>4. Single(CallsAt(work, Back, h)) /\ (CallsAt(work, Back, h) # {} => h \in handled)
        BY <1>11 DEF WritesOnce
      <3> QED
        BY <3>1, <3>2, <3>3, <3>4
    <2>6. LinesAt(code, Returning, l) = {}
      <3> SUFFICES ASSUME NEW k \in DOMAIN loops, Closed1(k, l)
                   PROVE  FALSE
        BY <1>11 DEF WritesOnce
      <3>1. loops[k].latching = l /\ CallsAt(work, Back, k) = {}
        BY DEF Closed1
      <3>2. k # h
        BY <2>5, <3>1
      <3> QED
        BY <1>0, <1>2, <3>1, <3>2, OneLoopEndsThere DEF Generating
    <2>7. Closed1(h, l)'
      <3>1. CallsAt(work', Back, h) = {}
        <4>1. CallsAt(calls \o Tail(work), Back, h) = {}
          <5>1. CallsAt(calls \o Tail(work), Back, h) = {} <=> CallsAt(calls, Back, h) = {} /\ CallsAt(Tail(work), Back, h) = {}
            <6>1. Items(work) /\ work # <<>> /\ Items(calls)
              BY <1>2, <1>5, <1>11 DEF WritesOnce, Asides
            <6>2. PICK K, r : K = Back /\ r = Tail(work)
              OBVIOUS
            <6>3. CallsAt(calls \o r, K, h) = {} <=> CallsAt(calls, K, h) = {} /\ CallsAt(r, K, h) = {}
              <7>1. \A J, v : CallsAt(calls \o Tail(work), J, v) = {} <=>
                                 CallsAt(calls, J, v) = {} /\ CallsAt(Tail(work), J, v) = {}
                BY <6>1, StackReplaced
              <7> QED
                BY <6>2, <7>1
            <6> QED
              BY <6>2, <6>3, Zenon
          <5> QED
            BY <2>4, <2>5, <5>1
        <4> QED
          BY <1>9, <4>1 DEF Continue
      <3>2. loops' = loops
        BY <1>1 DEF structureVars, allVars, loopVars
      <3>3. h \in handled'
        BY <1>1, <2>5
      <3> QED
        BY <1>0, <1>13, <3>1, <3>2, <3>3 DEF Closed1, CallsAt
    <2>8. Single({})
      BY DEF Single
    <2>9. \A v : DecidesOnce(lines, calls, v) /\ ~ Decides(lines, calls, v)
      BY <2>4, <2>8 DEF DecidesOnce, Decides
    <2>10. \A v : /\ Single(LinesAt(lines, Returning, v))
                  /\ LinesAt(lines, Returning, v) # {} =>
                       LinesAt(code, Returning, v) = {} /\ \E k \in DOMAIN loops : Closed1(k, v)'
      BY <1>2, <2>4, <2>6, <2>7
    <2>11. IsSeq(lines) /\ Items(calls) /\ handled \subseteq handled'
      BY <1>1, <1>5, <2>2 DEF OnlyTest, Asides
    <2> QED
      BY <1>1, <1>2, <1>9, <1>11, <2>4, <2>8, <2>9, <2>10, <2>11, Written
  <1> QED
    BY <1>12, <1>13

-----------------------------------------------------------------------------
(* writeNWay and writeCode                                                 *)

(* A switch is written for a block that has one.                           *)
LEMMA WriteNWayStep ==
  ASSUME Generating, WriteNWay
  PROVE  WritesOnce'
PROOF
  <1>1. Runs("n way") /\ UNCHANGED structureVars /\ handled' = handled
    BY DEF WriteNWay
  <1>2. work # <<>> /\ Top.what = "n way" /\ IsCall(Top) /\ Top.at \in DOMAIN switches /\ Top.at \in Vertices(cfg)
    <2>1. "n way" # "push"
      OBVIOUS
    <2>2. work # <<>> /\ Top.what = "n way" /\ IsCall(Top) /\ Item(Top)
      BY <1>1, <2>1, TopOfStack, Zenon DEF Generating
    <2> QED
      BY <2>2 DEF Item, Generating
  <1> DEFINE v == Top.at
             out == cfg.out[v]
             Case1(s) == Push(<<Line("case", s, 0)>>)
             Code1(s) == [Top EXCEPT !.what = "code", !.at = s]
             after == [Top EXCEPT !.what = "end case"]
             CaseCalls(s) == IF s = cfg.default[v] THEN <<>> ELSE <<Case1(s), Code1(s), after>>
             T == {Case1(s) : s \in Vertices(cfg)} \cup {Code1(s) : s \in Vertices(cfg)} \cup {after}
  <1>3. PICK n \in Nat : DOMAIN out = 1 .. n /\ \A i \in 1 .. n : out[i] \in Vertices(cfg)
    <2>1. out \in Seq(Vertices(cfg))
      BY <1>2, EdgesOfBlock DEF Generating
    <2> QED
      BY <2>1
  <1>4. \A s \in Vertices(cfg) : CaseCalls(s) \in Seq(T)
    <2> TAKE s \in Vertices(cfg)
    <2>1. PICK c, d, e : c = Case1(s) /\ d = Code1(s) /\ e = after
      OBVIOUS
    <2>2. c \in T /\ d \in T /\ e \in T
      BY <2>1, Zenon
    <2> HIDE DEF Case1, Code1, after, T
    <2>3. <<c, d, e>> \in Seq(T) /\ <<>> \in Seq(T)
      BY <2>2
    <2> QED
      BY <2>1, <2>3
  <1>5. \A c \in T : Aside(c)
    <2>1. "code" \in Elsewhere /\ "end case" \in Elsewhere
      BY DEF Elsewhere
    <2>2. \A s : Aside(Case1(s))
      BY QuietLines, OneAside, Zenon
    <2>3. \A s : Aside(Code1(s))
      BY <1>2, <2>1, CallElsewhere, Zenon
    <2>4. Aside(after)
      BY <1>2, <2>1, CallElsewhere, Zenon
    <2> HIDE DEF Case1, Code1, after
    <2> QED
      BY <2>2, <2>3, <2>4
  <1>6. PICK parts : parts = [i \in DOMAIN out |-> CaseCalls(out[i])]
    OBVIOUS
  <1>7. Continue(<<BlockLine(v), Line("switch", v, 0)>>, FlattenSeq(parts) \o <<Push(<<End>>)>>)
    BY <1>6, Zenon DEF WriteNWay
  <1>8. parts \in Seq(Seq(T))
    <2> HIDE DEF CaseCalls, T, out
    <2>1. \A i \in 1 .. n : parts[i] \in Seq(T)
      BY <1>3, <1>4, <1>6
    <2>2. parts = [i \in 1 .. n |-> parts[i]]
      BY <1>3, <1>6
    <2> QED
      BY <2>1, <2>2
  <1> HIDE DEF CaseCalls, T
  <1>9. FlattenSeq(parts) \in Seq(T)
    BY <1>8, FlattenHasAll
  <1>10. Asides(FlattenSeq(parts))
    <2>1. PICK f : f = FlattenSeq(parts)
      OBVIOUS
    <2>2. f \in Seq(T)
      BY <1>9, <2>1
    <2>3. \A i \in DOMAIN f : f[i] \in T
      BY <2>2
    <2>4. Asides(f)
      BY <1>5, <2>2, <2>3 DEF Asides, Items, Aside, IsSeq
    <2> QED
      BY <2>1, <2>4
  <1>11. Asides(<<Push(<<End>>)>>)
    BY QuietLines, OneAside, Zenon
  <1>12. PICK calls : calls = FlattenSeq(parts) \o <<Push(<<End>>)>>
    OBVIOUS
  <1>13. Asides(calls)
    BY <1>10, <1>11, <1>12, AsidesJoined
  <1>14. PICK t, lines : t = Line("switch", v, 0) /\ lines = <<BlockLine(v), t>>
    OBVIOUS
  <1>15. OnlyTest(lines, t) /\ t.kind = "switch" /\ t.at = v
    <2>1. OnlyTest(lines, t)
      BY <1>14, ShortOnly, LinesOfBlock, Zenon
    <2>2. t.kind = "switch" /\ t.at = v
      BY <1>14 DEF Line
    <2> QED
      BY <2>1, <2>2
  <1>16. Continue(lines, calls)
    BY <1>7, <1>12, <1>14, Zenon
  <1>17. \A i \in DOMAIN lines : lines[i].kind \notin Deciding \cup Returning /\ (lines[i].kind = "switch" => lines[i].at = v)
    <2> TAKE i \in DOMAIN lines
    <2>1. IsTest(lines[i]) => lines[i] = t
      BY <1>15 DEF OnlyTest
    <2>2. "switch" \notin Deciding \cup Returning
      BY DEF Deciding, Returning
    <2>3. lines[i].kind \in Deciding \cup Returning \cup {"switch"} => IsTest(lines[i])
      BY DEF IsTest, Deciding, Returning
    <2> HIDE DEF v
    <2> QED
      BY <1>15, <2>1, <2>2, <2>3
  <1> HIDE DEF v
  <1>18. \A x : /\ LinesAt(lines, Deciding, x) = {} /\ LinesAt(lines, Returning, x) = {}
                /\ LinesAt(lines, {"switch"}, x) # {} => x = v
                /\ CallsAt(calls, Own, x) = {} /\ CallsAt(calls, Back, x) = {}
    <2>1. \A i \in DOMAIN calls : calls[i].what \notin Own \cup Back
      BY <1>13 DEF Asides, Aside
    <2> QED
      BY <1>17, <2>1 DEF LinesAt, CallsAt
  <1>19. Single({})
    BY DEF Single
  <1>20. \A x : DecidesOnce(lines, calls, x) /\ ~ Decides(lines, calls, x)
    BY <1>18, <1>19 DEF DecidesOnce, Decides
  <1>21. IsSeq(lines) /\ Items(calls) /\ WritesOnce /\ v \in DOMAIN switches
    BY <1>2, <1>13, <1>15 DEF OnlyTest, Asides, Generating, v
  <1>22. handled \subseteq handled'
    BY <1>1
  <1> QED
    BY <1>1, <1>2, <1>16, <1>18, <1>19, <1>20, <1>21, <1>22, Written

(* The first call for a block.                                             *)
LEMMA WriteCodeStep ==
  ASSUME Generating, WriteCode
  PROVE  WritesOnce'
PROOF
  <1>1. /\ Runs("code") /\ UNCHANGED structureVars /\ Top.at \notin handled
        /\ handled \subseteq handled' /\ Top.at \in handled'
    BY DEF WriteCode
  <1>2. work # <<>> /\ Top.what = "code" /\ IsCall(Top)
    <2>1. "code" # "push"
      OBVIOUS
    <2> QED
      BY <1>1, <2>1, TopOfStack, Zenon DEF Generating
  <1>3. PICK v : v = Top.at
    OBVIOUS
  <1>4. PICK cl, ct, co, cn : /\ cl = [Top EXCEPT !.what = "loop"]
                              /\ ct = [Top EXCEPT !.what = "two way"]
                              /\ co = [Top EXCEPT !.what = "one way"]
                              /\ cn = [Top EXCEPT !.what = "n way"]
    OBVIOUS
  <1>5. PICK body : body = CASE v \in DOMAIN loops -> <<cl>>
                             [] v \notin DOMAIN loops /\ v \in DOMAIN written -> <<ct>>
                             [] OTHER -> IF v = Top.latching \/ IsExit(v) THEN <<Push(<<BlockLine(v)>>)>>
                                         ELSE IF IsOneWay(v) THEN <<co>>
                                         ELSE <<>>
    OBVIOUS
  <1>6. PICK first : first = IF v \in DOMAIN switches THEN <<cn>> ELSE <<>>
    OBVIOUS
  <1>7. Continue(<<>>, first \o body)
    BY <1>3, <1>4, <1>5, <1>6, Zenon DEF WriteCode
  <1>8. /\ IsCall(cl) /\ cl.what = "loop" /\ cl.at = v
        /\ IsCall(ct) /\ ct.what = "two way" /\ ct.at = v
        /\ IsCall(co) /\ co.what = "one way" /\ co.at = v
        /\ IsCall(cn) /\ cn.what = "n way" /\ cn.at = v
    BY <1>2, <1>3, <1>4, CallChanged, Zenon
  <1>9. Asides(first)
    <2>1. CASE v \in DOMAIN switches
      <3>1. Item(cn) /\ cn.what \notin Own \cup Back
        BY <1>8, <2>1 DEF Item, IsCall, Own, Back
      <3> QED
        BY <1>6, <2>1, <3>1, OneAside DEF Aside
    <2>2. CASE v \notin DOMAIN switches
      BY <1>6, <2>2, OneAside
    <2> QED
      BY <2>1, <2>2
  <1>10. PICK c : /\ OnlyCall(body, c)
                  /\ Aside(c) \/ (c.what \in Own /\ c.at = v)
    <2>1. CASE v \in DOMAIN loops
      <3>1. Item(cl) /\ cl.what \in Own
        BY <1>8, <2>1 DEF Item, IsCall, Own
      <3> QED
        BY <1>5, <1>8, <2>1, <3>1, ShortOnly
    <2>2. CASE v \notin DOMAIN loops /\ v \in DOMAIN written
      <3>1. Decisive(v)
        BY <2>2 DEF Generating, Decisive
      <3>2. Item(ct) /\ ct.what \in Own
        BY <1>8, <3>1 DEF Item, IsCall, Own, Back
      <3> QED
        BY <1>5, <1>8, <2>2, <3>2, ShortOnly
    <2>3. CASE v \notin DOMAIN loops /\ v \notin DOMAIN written
      <3>1. Aside(co)
        <4>1. "one way" \in Elsewhere
          BY DEF Elsewhere
        <4> QED
          BY <1>8, <4>1, OneAside
      <3>2. Aside(Push(<<BlockLine(v)>>))
        BY QuietLines, OneAside, Zenon
      <3>3. Asides(<<Push(<<BlockLine(v)>>)>>) /\ Asides(<<co>>) /\ Asides(<<>>)
        BY <3>1, <3>2, OneAside
      <3>4. Asides(body)
        BY <1>5, <2>3, <3>3
      <3> QED
        BY <3>1, <3>4, ShortOnly
    <2> QED
      BY <2>1, <2>2, <2>3
  <1>11. PICK calls : calls = first \o body
    OBVIOUS
  <1>12. OnlyCall(calls, c)
    BY <1>9, <1>10, <1>11, OnlyCallJoined
  <1>13. Quiet(<<>>) /\ WritesOnce
    BY OneAside DEF Generating
  <1>14. \A x : LinesAt(<<>>, Deciding, x) = {} /\ LinesAt(<<>>, Returning, x) = {} /\ LinesAt(<<>>, {"switch"}, x) = {}
    BY <1>13 DEF LinesAt, Quiet, IsTest, Deciding, Returning
  <1>15. ASSUME NEW x, NEW K, K \subseteq Own \cup Back
         PROVE  Single(CallsAt(calls, K, x)) /\ (CallsAt(calls, K, x) # {} => x = v)
    <2>1. Single(CallsAt(calls, K, x)) /\ (CallsAt(calls, K, x) # {} => c.what \in K /\ c.at = x)
      <3>1. OnlyCall(calls, c)
        BY <1>12
      <3> QED
        BY ONLY <1>15, <3>1, OneCallAbout
    <2>2. c.what \in K => ~ Aside(c)
      BY <1>15 DEF Aside
    <2> QED
      BY <1>10, <2>1, <2>2
  <1>16. \A x : /\ Single(CallsAt(calls, Own, x)) /\ (CallsAt(calls, Own, x) # {} => x = v)
                /\ Single(CallsAt(calls, Back, x)) /\ (CallsAt(calls, Back, x) # {} => x = v)
    <2>1. Own \subseteq Own \cup Back /\ Back \subseteq Own \cup Back
      OBVIOUS
    <2> QED
      BY <1>15, <2>1
  <1>17. Single({})
    BY DEF Single
  <1>18. \A x : DecidesOnce(<<>>, calls, x) /\ (Decides(<<>>, calls, x) => Fresh(Own, x))
    BY <1>1, <1>3, <1>14, <1>16, <1>17 DEF DecidesOnce, Decides, Fresh
  <1>19. \A h : Single(CallsAt(calls, Back, h)) /\ (CallsAt(calls, Back, h) # {} => Fresh(Back, h))
    BY <1>1, <1>3, <1>16 DEF Fresh
  <1>20. IsSeq(<<>>) /\ Items(calls) /\ Continue(<<>>, calls)
    BY <1>7, <1>11, <1>12, <1>13 DEF Quiet, OnlyCall
  <1>21. PICK lines : lines = <<>>
    OBVIOUS
  <1> QED
    BY <1>1, <1>2, <1>13, <1>14, <1>17, <1>18, <1>19, <1>20, <1>21, Written

(* The generator stops, or waits.                                          *)
LEMMA TextStays ==
  ASSUME WritesOnce, UNCHANGED <<structureVars, code, handled>>, work' \in {<<>>, work}
  PROVE  WritesOnce'
PROOF
  <1>1. loops' = loops /\ switches' = switches /\ conditionals' = conditionals /\ code' = code /\ handled' = handled
    BY DEF structureVars, allVars, loopVars, branchVars
  <1>2. \A K, v : CallsAt(work', K, v) \in {{}, CallsAt(work, K, v)}
    <2>1. DOMAIN <<>> = {}
      OBVIOUS
    <2> QED
      BY <2>1 DEF CallsAt
  <1>3. Items(work')
    BY OneAside DEF Asides, WritesOnce
  <1>4. (\A v : Decisive(v)' <=> Decisive(v)) /\ Items(work)'
    BY <1>1, <1>3, ItemsStay
  <1>5. Single({})
    BY DEF Single
  <1> DEFINE Single1 == \A v : DecidesOnce(code, work, v) /\ (Decides(code, work, v) => v \in handled)
             Single2 == \A v : LinesAt(code, Deciding, v) # {} => Decisive(v)
             Single3 == \A h : Single(CallsAt(work, Back, h)) /\ (CallsAt(work, Back, h) # {} => h \in handled)
             Single4 == \A l : /\ Single(LinesAt(code, Returning, l))
                               /\ LinesAt(code, Returning, l) # {} => \E h \in DOMAIN loops : Closed1(h, l)
             Single5 == \A v : LinesAt(code, {"switch"}, v) # {} => v \in DOMAIN switches
  <1>6. Single1 /\ Single2 /\ Single3 /\ Single4 /\ Single5 /\ IsSeq(code)
    BY DEF WritesOnce
  <1>7. Single1'
    <2> SUFFICES ASSUME NEW v
                 PROVE  DecidesOnce(code', work', v) /\ (Decides(code', work', v) => v \in handled')
      BY DEF DecidesOnce, Decides, LinesAt, CallsAt
    <2>1. DecidesOnce(code, work, v) /\ (Decides(code, work, v) => v \in handled)
      BY <1>6
    <2> QED
      BY <1>1, <1>2, <1>5, <2>1 DEF DecidesOnce, Decides
  <1>8. Single2'
    BY <1>1, <1>4, <1>6 DEF LinesAt
  <1>9. Single3'
    <2>1. \A h : Single(CallsAt(work', Back, h)) /\ (CallsAt(work', Back, h) # {} => h \in handled')
      BY <1>1, <1>2, <1>5, <1>6
    <2> QED
      BY <2>1 DEF CallsAt
  <1>10. Single4'
    <2>1. \A h, l : Closed1(h, l) => Closed1(h, l)'
      BY <1>1, <1>2 DEF Closed1, CallsAt
    <2> QED
      BY <1>1, <1>6, <2>1 DEF LinesAt
  <1>11. Single5'
    BY <1>1, <1>6 DEF LinesAt
  <1> QED
    BY <1>1, <1>4, <1>6, <1>7, <1>8, <1>9, <1>10, <1>11 DEF WritesOnce

-----------------------------------------------------------------------------
(* Every branch is decided once                                            *)

\* A switch is an N-way block, and the pass that finds them visits blocks.
SwitchesKnown ==
  /\ \A h \in DOMAIN switches : h \in Vertices(cfg) /\ IsNWay(h)
  /\ pass = "switches" => turn \in 0 .. cfg.size

\* When the text is written, what writeLoop adds to the conditionals is loops,
\* and a test is written at most once.
TextInv ==
  stage # "structuring" /\ WellNested =>
    /\ \A v \in DOMAIN written : v \in DOMAIN conditionals \cup DOMAIN loops
    /\ WritesOnce

\* The inductive invariant of the code generator.
CodeInv ==
  /\ BranchInv /\ LoopInv /\ SwitchesKnown
  /\ stage = "structuring" => code = <<>>
  /\ TextInv

(* The pass that finds switches gives follow blocks to N-way blocks.       *)
LEMMA NextSwitches ==
  ASSUME BranchInv, SwitchesKnown, [StructureNext]_structureVars
  PROVE  SwitchesKnown'
PROOF
  <1>1. cfg \in FlowGraphs /\ cfg.size \in Nat
    BY FlowGraphsAssumption DEF BranchInv, IsGraph
  <1>2. cfg' = cfg
    BY FunctionStays
    DEF StructureNext, VisitSwitch, VisitOtherBlock, Overflow, EndSwitches, StructureLoops, EndLoops, VisitConditional,
        PassBlock, EndConditionals, ResolveInLoop, EndUnresolved, structureVars, allVars, vars
  <1>3. Vertices(cfg)' = Vertices(cfg) /\ \A v : IsNWay(v)' <=> IsNWay(v)
    BY <1>2 DEF IsNWay
  <1>4. CASE VisitSwitch
    <2>1. PICK v : v = VisitOrder[turn + 1]
      OBVIOUS
    <2>2. /\ pass = "switches" /\ turn < cfg.size /\ IsNWay(v) /\ turn' = turn + 1
          /\ \E new : switches' = [h \in DOMAIN switches \cup {v} |-> IF h = v THEN new ELSE switches[h]]
      BY <1>4, <2>1, Zenon DEF VisitSwitch
    <2>3. DOMAIN switches' = DOMAIN switches \cup {v}
      BY <2>2
    <2>4. turn \in 0 .. cfg.size /\ turn + 1 \in 1 .. cfg.size
      BY <1>1, <2>2 DEF SwitchesKnown
    <2>5. v \in Vertices(cfg)
      <3>1. IsOrder(cfg.size, VisitOrder)
        BY <1>1, VisitOrderCovers
      <3>2. VisitOrder \in Seq(Vertices(cfg)) /\ Len(VisitOrder) = cfg.size
        BY <3>1 DEF IsOrder, Vertices
      <3> QED
        BY <2>1, <2>4, <3>2
    <2>6. turn' \in 0 .. cfg'.size
      BY <1>1, <1>2, <2>2, <2>4
    <2> QED
      BY <1>2, <1>3, <2>2, <2>3, <2>5, <2>6 DEF SwitchesKnown
  <1>5. CASE VisitOtherBlock
    <2>1. pass = "switches" /\ turn < cfg.size /\ turn' = turn + 1 /\ switches' = switches
      BY <1>5 DEF VisitOtherBlock
    <2>2. turn' \in 0 .. cfg'.size
      BY <1>1, <1>2, <2>1 DEF SwitchesKnown
    <2> QED
      BY <1>2, <1>3, <2>1, <2>2 DEF SwitchesKnown
  <1>6. CASE ~ VisitSwitch /\ ~ VisitOtherBlock
    <2>1. switches' = switches /\ (pass' = "switches" => pass = "switches" /\ turn' = turn)
      BY <1>6
      DEF StructureNext, Overflow, EndSwitches, StructureLoops, EndLoops, VisitConditional, PassBlock, EndConditionals,
          ResolveInLoop, EndUnresolved, structureVars, branchVars
    <2> QED
      BY <1>2, <1>3, <2>1 DEF SwitchesKnown
  <1> QED
    BY <1>4, <1>5, <1>6

(* The passes look at loops as structureLoops leaves them.                 *)
LEMMA LoopsOfPasses ==
  ASSUME LoopInv, [StructureNext]_structureVars
  PROVE  LoopInv'
PROOF
  <1>1. [LoopNext]_allVars
    BY DEF StructureNext, VisitSwitch, VisitOtherBlock, Overflow, EndSwitches, StructureLoops, EndLoops,
           VisitConditional, PassBlock, EndConditionals, ResolveInLoop, EndUnresolved, structureVars
  <1> QED
    BY <1>1, LoopNextStep

(* What is known when a step of the generator is taken.                    *)
LEMMA GeneratingNow ==
  ASSUME CodeInv, WellNested, stage # "structuring"
  PROVE  Generating
PROOF
  <1>1. cfg \in FlowGraphs /\ IsGraph(cfg) /\ cfg.size \in Nat
    BY FlowGraphsAssumption DEF CodeInv, BranchInv, IsGraph
  <1>2. Proper(cfg) /\ LoopsNatural
    BY DEF WellNested, CodeInv, LoopInv
  <1>3. \A h \in Vertices(cfg) : \A k \in NaturalLoop(h) \ {h} :
          IsHeader(h) /\ IsHeader(k) => LatchingBlocks(cfg, h) \cap NaturalLoop(k) = {}
    BY DEF WellNested
  <1> QED
    BY <1>1, <1>2, <1>3 DEF Generating, LoopsApart, CodeInv, SwitchesKnown, TextInv

(* A step of the generator writes no test twice.                           *)
LEMMA GeneratorStep ==
  ASSUME Generating, CodeNext, stage # "structuring"
  PROVE  WritesOnce'
PROOF
  <1>1. WritesOnce /\ cfg.size \in Nat
    BY DEF Generating
  <1>2. CASE SkipCode \/ PushLines \/ EndCase
    BY <1>1, <1>2, SkipCodeStep
  <1>3. CASE WriteOrGoto
    BY <1>1, <1>3, WriteOrGotoStep
  <1>4. CASE WriteOneWay
    BY <1>1, <1>4, WriteOneWayStep
  <1>5. CASE WriteElse \/ WriteFollow
    BY <1>1, <1>5, WriteElseStep
  <1>6. CASE WriteBreak \/ WritePathToFollow \/ WriteIf \/ WriteIfElse
    BY <1>1, <1>6, WriteBreakStep, WritePathToFollowStep, WriteIfStep, WriteIfElseStep
  <1>7. CASE WritePreTestedLoop \/ WriteLoop \/ WriteLoopWithReturn \/ WriteLoopWithBreak \/ WriteLoopWithoutHeader
    BY <1>7, WritePreTestedLoopStep, WriteLoopStep, WriteLoopWithReturnStep, WriteLoopWithBreakStep,
       WriteLoopWithoutHeaderStep
  <1>8. CASE WriteLoopWithConditional \/ EndLoop
    BY <1>8, WriteLoopWithConditionalStep, EndLoopStep
  <1>9. CASE WriteNWay \/ WriteCode
    BY <1>9, WriteNWayStep, WriteCodeStep
  <1>10. CASE Crash
    BY <1>1, <1>10, TextStays DEF Crash
  <1>11. CASE EndOfText
    <2>1. work = <<>>
      BY <1>11 DEF EndOfText
    <2>2. UNCHANGED <<structureVars, code, handled>> /\ work' = <<>>
      BY <1>11, <2>1 DEF EndOfText
    <2> QED
      BY <1>1, <2>2, TextStays
  <1>12. CASE Structure \/ GenerateCodeLines
    BY <1>12 DEF Structure, GenerateCodeLines
  <1>13. CodeNext
    OBVIOUS
  <1> QED
    BY ONLY <1>2, <1>3, <1>4, <1>5, <1>6, <1>7, <1>8, <1>9, <1>10, <1>11, <1>12, <1>13 DEF CodeNext

(* The steps of the generator leave the structure alone, and add loops to  *)
(* the conditionals.                                                       *)
LEMMA StructureStays ==
  ASSUME CodeNext, stage # "structuring"
  PROVE  UNCHANGED structureVars /\ stage' # "structuring"
PROOF
  BY DEF CodeNext, Structure, GenerateCodeLines, SkipCode, WriteCode, PushLines, WriteOrGoto, WriteOneWay,
         WritePreTestedLoop, WriteLoop, WriteLoopWithReturn, WriteLoopWithBreak, WriteLoopWithConditional,
         WriteLoopWithoutHeader, EnterLoop,
         EndLoop, WriteNWay, EndCase, WriteBreak, WritePathToFollow, Crash, WriteIf, WriteElse, WriteFollow,
         WriteIfElse, EndOfText, Runs

(* What is added to the conditionals is a loop.                            *)
LEMMA ConditionalsWritten ==
  ASSUME CodeNext, stage # "structuring", Generating
  PROVE  \A v \in DOMAIN written' : v \in DOMAIN written \/ v \in DOMAIN loops
PROOF
  <1>1. CASE written' = written
    BY <1>1
  <1>2. CASE written' # written
    <2>1. WriteLoopWithConditional
      BY <1>2
      DEF CodeNext, Structure, GenerateCodeLines, SkipCode, WriteCode, PushLines, WriteOrGoto, WriteOneWay,
          WritePreTestedLoop, WriteLoop, WriteLoopWithReturn, WriteLoopWithBreak, WriteLoopWithoutHeader, EndLoop,
          WriteNWay, EndCase, WriteBreak,
          WritePathToFollow, Crash, WriteIf, WriteElse, WriteFollow, WriteIfElse, EndOfText
    <2>2. PICK h : h = Top.at
      OBVIOUS
    <2>3. Runs("loop")
      BY <2>1, BranchingHeader DEF WriteLoopWithConditional, OtherBranch
    <2>4. h \in DOMAIN loops
      BY <2>2, <2>3, LoopUnderWay
    <2>5. \E follow : written' = [x \in DOMAIN written \cup {Top.at} |->
                                    IF x = Top.at THEN [follow |-> follow, type |-> "UNKNOWN_CONDITIONAL"] ELSE written[x]]
      <3>1. \/ Top.at \in DOMAIN written /\ UNCHANGED written
            \/ /\ Top.at \notin DOMAIN written
               /\ \E follow \in FollowsInLoop(Top.at, Top.at) :
                    written' = [x \in DOMAIN written \cup {Top.at} |->
                                  IF x = Top.at THEN [follow |-> follow, type |-> "UNKNOWN_CONDITIONAL"] ELSE written[x]]
        BY <2>1, Zenon DEF WriteLoopWithConditional
      <3> QED
        BY <1>2, <3>1, Zenon
    <2>6. DOMAIN written' = DOMAIN written \cup {h}
      BY <2>2, <2>5
    <2> QED
      BY ONLY <2>4, <2>6
  <1> QED
    BY <1>1, <1>2

(* The text begins with nothing written.                                   *)
LEMMA TextBegins ==
  ASSUME code' = <<>>, work' = <<Call("code", 0, NoNode, NoNode)>>
  PROVE  WritesOnce'
PROOF
  <1>1. IsSeq(code') /\ \A K, v : LinesAt(code', K, v) = {}
    <2>1. Quiet(<<>>) /\ DOMAIN <<>> = {}
      BY OneAside
    <2> QED
      BY <2>1 DEF Quiet, LinesAt
  <1>2. PICK c : c = Call("code", 0, NoNode, NoNode)
    OBVIOUS
  <1>3. IsCall(c) /\ c.what = "code"
    BY <1>2 DEF Call, IsCall
  <1>4. work' = <<c>> /\ DOMAIN work' = {1} /\ work'[1] = c /\ IsSeq(work')
    <2>1. <<c>> \in Seq({c}) /\ DOMAIN <<c>> = {1} /\ <<c>>[1] = c
      OBVIOUS
    <2> QED
      BY <1>2, <2>1 DEF IsSeq
  <1>5. Item(c)'
    BY <1>3 DEF IsCall, Item, Back
  <1>6. Items(work)'
    BY <1>4, <1>5 DEF Items
  <1>7. \A v : CallsAt(work', Own, v) = {} /\ CallsAt(work', Back, v) = {}
    BY <1>3, <1>4 DEF CallsAt, Own, Back
  <1>8. Single({})
    BY DEF Single
  <1>9. \A v : /\ LinesAt(code, Deciding, v)' = {} /\ LinesAt(code, Returning, v)' = {}
                /\ LinesAt(code, {"switch"}, v)' = {}
                /\ CallsAt(work, Own, v)' = {} /\ CallsAt(work, Back, v)' = {}
    BY <1>1, <1>7 DEF LinesAt, CallsAt
  <1>10. \A v : DecidesOnce(code, work, v)' /\ ~ Decides(code, work, v)'
    BY <1>8, <1>9 DEF DecidesOnce, Decides
  <1>11. IsSeq(code)'
    BY <1>1
  <1> QED
    BY <1>6, <1>8, <1>9, <1>10, <1>11 DEF WritesOnce

(* Every step of the generator preserves the invariant.                    *)
LEMMA NextText == CodeInv /\ [CodeNext]_allCodeVars => CodeInv'
PROOF
  <1> SUFFICES ASSUME CodeInv, [CodeNext]_allCodeVars
               PROVE  CodeInv'
    OBVIOUS
  <1>1. BranchInv /\ LoopInv /\ SwitchesKnown
    BY DEF CodeInv
  <1>2. [StructureNext]_structureVars
    <2>1. CASE Structure \/ GenerateCodeLines
      BY <2>1 DEF Structure, GenerateCodeLines
    <2>2. CASE UNCHANGED allCodeVars
      BY <2>2 DEF allCodeVars
    <2>3. CASE CodeNext /\ stage # "structuring"
      BY <2>3, StructureStays
    <2>4. CASE CodeNext /\ stage = "structuring" /\ ~ (Structure \/ GenerateCodeLines)
      BY <2>4
      DEF CodeNext, SkipCode, WriteCode, PushLines, WriteOrGoto, WriteOneWay, WritePreTestedLoop, WriteLoop,
          WriteLoopWithReturn, WriteLoopWithBreak, WriteLoopWithConditional, WriteLoopWithoutHeader, OtherBranch,
          Branches, EndLoop, WriteNWay,
          EndCase, WriteBreak, WritePathToFollow, Crash, JumpWithoutTable, PathToExit, WriteIf, WriteElse, WriteFollow,
          WriteIfElse, PlainBranch, EndOfText, Runs
    <2> QED
      BY <2>1, <2>2, <2>3, <2>4
  <1>3. BranchInv' /\ LoopInv' /\ SwitchesKnown'
    BY <1>1, <1>2, NextBranches, LoopsOfPasses, NextSwitches
  <1>4. WellNested' <=> WellNested
    <2>1. cfg' = cfg
      BY <1>2, FunctionStays
      DEF StructureNext, VisitSwitch, VisitOtherBlock, Overflow, EndSwitches, StructureLoops, EndLoops, VisitConditional,
          PassBlock, EndConditionals, ResolveInLoop, EndUnresolved, structureVars, allVars, vars
    <2> QED
      <3>1. \A h : NaturalLoop(h)' = NaturalLoop(h)
        BY <2>1 DEF NaturalLoop, ReachIn
      <3> QED
        BY <2>1, <3>1 DEF WellNested, IsHeader, HasOneLatching
  <1>5. CASE stage # "structuring" /\ CodeNext
    <2>1. UNCHANGED structureVars /\ stage' # "structuring"
      BY <1>5, StructureStays
    <2>2. ASSUME WellNested
          PROVE  (\A v \in DOMAIN written' : v \in DOMAIN conditionals' \cup DOMAIN loops') /\ WritesOnce'
      <3>1. Generating
        BY <1>5, <2>2, GeneratingNow
      <3>2. WritesOnce'
        BY <1>5, <3>1, GeneratorStep
      <3>3. \A v \in DOMAIN written' : v \in DOMAIN written \/ v \in DOMAIN loops
        BY <1>5, <3>1, ConditionalsWritten
      <3>4. conditionals' = conditionals /\ loops' = loops
        BY <2>1 DEF structureVars, allVars, loopVars, branchVars
      <3>5. \A v \in DOMAIN written : v \in DOMAIN conditionals \cup DOMAIN loops
        BY <3>1 DEF Generating
      <3> QED
        BY <3>2, <3>3, <3>4, <3>5
    <2>3. TextInv'
      BY <1>4, <2>2 DEF TextInv
    <2> QED
      BY <1>3, <2>1, <2>3 DEF CodeInv
  <1>6. CASE stage = "structuring" /\ stage' = "structuring"
    <2>1. code' = code
      BY <1>6
      DEF CodeNext, Structure, GenerateCodeLines, SkipCode, WriteCode, PushLines, WriteOrGoto, WriteOneWay,
          WritePreTestedLoop, WriteLoop, WriteLoopWithReturn, WriteLoopWithBreak, WriteLoopWithConditional,
          WriteLoopWithoutHeader, OtherBranch,
          Branches, EndLoop, WriteNWay, EndCase, WriteBreak, WritePathToFollow, Crash, JumpWithoutTable, PathToExit,
          WriteIf, WriteElse, WriteFollow, WriteIfElse, PlainBranch, EndOfText, Runs, codeVars, allCodeVars
    <2> QED
      BY <1>3, <1>6, <2>1 DEF CodeInv, TextInv
  <1>7. CASE GenerateCodeLines
    <2>1. /\ UNCHANGED <<structureVars, handled>> /\ written' = conditionals /\ code' = <<>> /\ stage' = "writing"
          /\ work' = <<Call("code", 0, NoNode, NoNode)>>
      BY <1>7 DEF GenerateCodeLines, CodeInv
    <2>2. conditionals' = conditionals /\ loops' = loops
      BY <2>1 DEF structureVars, allVars, loopVars, branchVars
    <2>3. WritesOnce'
      BY <2>1, TextBegins
    <2>4. TextInv'
      BY <2>1, <2>2, <2>3 DEF TextInv
    <2> QED
      BY <1>3, <2>1, <2>4 DEF CodeInv
  <1>8. CASE UNCHANGED allCodeVars
    <2>1. UNCHANGED <<structureVars, code, work, handled, written, stage>>
      BY <1>8 DEF allCodeVars, codeVars
    <2>2. conditionals' = conditionals /\ loops' = loops
      BY <2>1 DEF structureVars, allVars, loopVars, branchVars
    <2>3. WritesOnce => WritesOnce'
      BY <2>1, TextStays
    <2>4. TextInv'
      BY <1>4, <2>1, <2>2, <2>3 DEF TextInv, CodeInv
    <2> QED
      BY <1>3, <2>1, <2>4 DEF CodeInv
  <1>9. CASE stage = "structuring" /\ stage' # "structuring" /\ CodeNext /\ ~ GenerateCodeLines
    BY <1>9
    DEF CodeNext, Structure, SkipCode, WriteCode, PushLines, WriteOrGoto, WriteOneWay, WritePreTestedLoop,
        WriteLoop, WriteLoopWithReturn, WriteLoopWithBreak, WriteLoopWithConditional, WriteLoopWithoutHeader,
        OtherBranch, Branches, EndLoop, WriteNWay,
        EndCase, WriteBreak, WritePathToFollow, Crash, JumpWithoutTable, PathToExit, WriteIf, WriteElse, WriteFollow,
        WriteIfElse, PlainBranch, EndOfText, Runs, codeVars
  <1> QED
    BY <1>5, <1>6, <1>7, <1>8, <1>9

(* What is written once is decided once: a test of a loop and a test of a  *)
(* block are never about the same block.                                   *)
LEMMA TestsApart ==
  ASSUME Generating, BranchInv, SwitchesKnown, NEW v \in Vertices(cfg), ~ IsNWay(v)
  PROVE  Single(TestsOf(v))
PROOF
  <1>1. WritesOnce
    BY DEF Generating
  <1>2. LinesAt(code, {"switch"}, v) = {}
    BY <1>1 DEF WritesOnce, SwitchesKnown
  <1>3. LinesAt(code, Deciding, v) = {} \/ LinesAt(code, Returning, v) = {}
    <2> SUFFICES ASSUME LinesAt(code, Deciding, v) # {}, NEW h \in DOMAIN loops, Closed1(h, v)
                 PROVE  FALSE
      BY <1>1 DEF WritesOnce
    <2>1. Decisive(v) /\ loops[h].type = "POST_TESTED" /\ loops[h].latching = v
      BY <1>1 DEF WritesOnce, Closed1
    <2>2. CASE v \in DOMAIN loops
      <3>1. h # v
        BY <2>1, <2>2 DEF Decisive
      <3> QED
        BY <2>1, <2>2, <3>1, OneLoopEndsThere DEF Generating
    <2>3. CASE v \notin DOMAIN loops
      <3>1. v \in DOMAIN conditionals
        BY <2>1, <2>3 DEF Decisive
      <3>2. ~ TestsLoop(v)
        BY <3>1 DEF BranchInv, TakesConditionals, TakenUp, IsConditional
      <3> QED
        BY <2>1, <3>2 DEF TestsLoop
    <2> QED
      BY <2>2, <2>3
  <1>4. Single(LinesAt(code, Deciding, v)) /\ Single(LinesAt(code, Returning, v))
    BY <1>1 DEF WritesOnce, DecidesOnce
  <1>5. \A i \in TestsOf(v) : i \in LinesAt(code, Deciding, v) \cup LinesAt(code, Returning, v) \cup LinesAt(code, {"switch"}, v)
    BY DEF TestsOf, LinesAt, IsTest, Deciding, Returning
  <1> QED
    BY <1>2, <1>3, <1>4, <1>5 DEF Single

(* A branch is decided in one place of the text, in every function all     *)
(* loops of which are nested: writeCode handles a block once, a block is   *)
(* never both a conditional and the test of a loop, and no two loops are   *)
(* closed by a test of one block.                                          *)
THEOREM BranchesDecidedOnce == CodeSpec => []DecidedOnce
PROOF
  <1>1. CodeInit => CodeInv
    <2> SUFFICES ASSUME CodeInit
                 PROVE  CodeInv
      OBVIOUS
    <2>1. StructureInit /\ stage = "structuring" /\ code = <<>>
      BY DEF CodeInit
    <2>2. BranchInv /\ LoopInv
      BY <2>1, InitBranches, InitLoops DEF StructureInit
    <2>3. SwitchesKnown
      <3>1. cfg.size \in Nat /\ turn = 0 /\ DOMAIN switches = {}
        BY <2>1, <2>2, FlowGraphsAssumption DEF StructureInit, BranchInv, IsGraph
      <3> QED
        BY <3>1 DEF SwitchesKnown
    <2> QED
      BY <2>1, <2>2, <2>3 DEF CodeInv, TextInv
  <1>2. CodeInv => DecidedOnce
    <2> SUFFICES ASSUME CodeInv, WellNested, NEW v \in Vertices(cfg), ~ IsNWay(v)
                 PROVE  Cardinality(TestsOf(v)) <= 1
      BY DEF DecidedOnce
    <2>1. Single(TestsOf(v))
      <3>1. CASE stage = "structuring"
        <4>1. code = <<>> /\ DOMAIN <<>> = {}
          BY <3>1 DEF CodeInv
        <4> QED
          BY <4>1 DEF TestsOf, Single
      <3>2. CASE stage # "structuring"
        BY <3>2, GeneratingNow, TestsApart DEF CodeInv
      <3> QED
        BY <3>1, <3>2
    <2>2. TestsOf(v) = {} \/ \E i : TestsOf(v) = {i}
      BY <2>1 DEF Single
    <2>3. Cardinality(TestsOf(v)) \in {0, 1}
      BY <2>2, FS_EmptySet, FS_Singleton
    <2> QED
      BY <2>3
  <1> QED
    BY <1>1, <1>2, NextText, PTL DEF CodeSpec

=============================================================================
