------------------------ MODULE DerivedGraphs_proofs ------------------------
(***************************************************************************)
(* Proofs about DerivedGraphs, for every set of control-flow graphs and    *)
(* sequences of any length.                                                *)
(***************************************************************************)
EXTENDS DerivedGraphs, Dominance_proofs

-----------------------------------------------------------------------------
(* The inductive invariant                                                 *)

IsSequence(s) == \E S : s \in Seq(S)

Types ==
  /\ IsGraph(cfg) /\ IsGraph(graph)
  /\ DOMAIN originals = Vertices(graph)
  /\ \A v \in Vertices(graph) : originals[v] \subseteq Vertices(cfg)
  /\ IsSequence(sequence)
  /\ \A i \in DOMAIN sequence : IsGraph(sequence[i].graph)
  /\ headers \subseteq Vertices(graph)
  /\ newHeaders \subseteq Vertices(graph)
  /\ DOMAIN intervals \subseteq headers
  /\ \A h \in DOMAIN intervals : h \in intervals[h] /\ intervals[h] \subseteq Vertices(graph)
  /\ \/ header = NoHeader /\ interval = {}
     \/ /\ header \in headers \ DOMAIN intervals
        /\ header \in interval /\ interval \subseteq Vertices(graph)
  /\ phase \in {"intervals", "done", "undefined"}

\* A vertex other than the header has predecessors, all of them inside.
Enclosed(I, h) ==
  \A v \in I \ {h} : Preds(graph, v) # {} /\ Preds(graph, v) \subseteq I

AllEnclosed ==
  /\ \A h \in DOMAIN intervals : Enclosed(intervals[h], h)
  /\ Enclosed(interval, header)

\* A header other than the entry was found as a successor of an interval.
Found ==
  /\ 0 \in headers \cup newHeaders
  /\ \A x \in (headers \cup newHeaders) \ {0} :
       \E k \in DOMAIN intervals : x \in SuccsOf(intervals[k]) \ intervals[k]

\* The successors of a finished interval are in it or have become headers.
Covered ==
  \A k \in DOMAIN intervals :
    SuccsOf(intervals[k]) \subseteq intervals[k] \cup headers \cup newHeaders

Separate ==
  /\ \A h, k \in DOMAIN intervals : intervals[h] \cap intervals[k] # {} => h = k
  /\ \A h \in DOMAIN intervals : interval \cap intervals[h] = {}

Collapsed ==
  /\ \A u, v \in Vertices(graph) : u # v =>
       /\ originals[u] \cap originals[v] = {}
       /\ <<u, v>> \in graph.edges <=>
            \E e \in cfg.edges : e[1] \in originals[u] /\ e[2] \in originals[v]
  /\ UNION {originals[v] : v \in Vertices(graph)} = Vertices(cfg)

SingleEntry == EntryNotTarget(cfg) => EntryNotTarget(graph) /\ Separate

Complete ==
  EntryNotTarget(cfg) /\ AllReachable(cfg) =>
    AllReachable(graph) /\ phase # "undefined" /\ Collapsed

IInv == Types /\ AllEnclosed /\ Found /\ Covered /\ SingleEntry /\ Complete

-----------------------------------------------------------------------------
(* Graphs                                                                  *)

(* The in_edges and out_edges that addNodesToInterval and getNewHeaders    *)
(* walk over, as membership in the edges of the graph.                     *)
LEMMA Neighbours ==
  ASSUME IsGraph(graph)
  PROVE  /\ \A u, v : u \in Preds(graph, v) /\ v \in Vertices(graph) <=> <<u, v>> \in graph.edges
         /\ \A v : Preds(graph, v) \subseteq Vertices(graph)
         /\ \A S, w : w \in SuccsOf(S) <=> \E v \in S : <<v, w>> \in graph.edges
         /\ \A S : SuccsOf(S) \subseteq Vertices(graph)
<1> USE DEF IsGraph
<1>1. \A u, v : u \in Preds(graph, v) /\ v \in Vertices(graph) <=> <<u, v>> \in graph.edges
  BY DEF Preds
<1>2. \A S, w : w \in SuccsOf(S) <=> \E v \in S : <<v, w>> \in graph.edges
  BY DEF SuccsOf, Succs
<1> QED  BY <1>1, <1>2 DEF Preds, SuccsOf, Succs

(* The entry is vertex 0 of every graph (boost::vertex(0, cfg)).           *)
LEMMA EntryVertex ==
  ASSUME NEW g, IsGraph(g)
  PROVE  0 \in Vertices(g) /\ Vertices(g) \subseteq Nat /\ IsFiniteSet(Vertices(g))
         /\ Cardinality(Vertices(g)) = g.size
<1> DEFINE last == g.size - 1
<1>1. last \in Int /\ 0 \in Int /\ ~ (0 > last) /\ last - 0 + 1 = g.size  BY DEF IsGraph
<1> HIDE DEF last
<1>2. IsFiniteSet(0 .. last) /\ Cardinality(0 .. last) = g.size
  BY <1>1, FS_Interval
<1>3. Vertices(g) = 0 .. last  BY DEF Vertices, last
<1> QED  BY <1>1, <1>2, <1>3

-----------------------------------------------------------------------------
(* The steps of constructIntervals                                         *)

(* The first header is the entry, before any interval exists.              *)
LEMMA InitInvariant == Init => IInv
<1> SUFFICES ASSUME Init PROVE IInv  OBVIOUS
<1> USE DEF Init
<1>1. IsGraph(cfg) /\ graph = cfg  BY FlowGraphsAssumption
<1>2. 0 \in Vertices(graph)  BY <1>1, EntryVertex
<1>3. Types
  <2>1. sequence \in Seq({})  OBVIOUS
  <2>2. DOMAIN sequence = {}  OBVIOUS
  <2> QED  BY <1>1, <1>2, <2>1, <2>2 DEF Types, IsSequence
<1>4. AllEnclosed /\ Found /\ Covered /\ Separate
  BY DEF AllEnclosed, Enclosed, Found, Covered, Separate
<1>5. Collapsed
  <2>1. originals = [v \in Vertices(graph) |-> {v}]  BY <1>1
  <2>2. ASSUME NEW u \in Vertices(graph), NEW v \in Vertices(graph), u # v
        PROVE  /\ originals[u] \cap originals[v] = {}
               /\ <<u, v>> \in graph.edges <=>
                    \E e \in cfg.edges : e[1] \in originals[u] /\ e[2] \in originals[v]
    <3>1. originals[u] = {u} /\ originals[v] = {v}  BY <2>1
    <3>2. \A e \in cfg.edges : e = <<e[1], e[2]>>  BY <1>1 DEF IsGraph
    <3> QED  BY <1>1, <2>2, <3>1, <3>2
  <2>3. UNION {originals[v] : v \in Vertices(graph)} = Vertices(cfg)  BY <1>1, <2>1
  <2> QED  BY <2>2, <2>3 DEF Collapsed
<1> QED  BY <1>1, <1>3, <1>4, <1>5 DEF IInv, SingleEntry, Complete

(* TakeNewHeaders only moves headers from one set to the other.            *)
LEMMA TakeNewHeadersStep == IInv /\ TakeNewHeaders => IInv'
<1> SUFFICES ASSUME IInv, TakeNewHeaders PROVE IInv'  OBVIOUS
<1> USE DEF TakeNewHeaders
<1>1. Types'  BY DEF IInv, Types
<1>2. AllEnclosed'  BY DEF IInv, AllEnclosed, Enclosed
<1>3. Found' /\ Covered'  BY DEF IInv, Found, Covered, SuccsOf
<1>4. SingleEntry' /\ Complete'
  BY DEF IInv, SingleEntry, Complete, Separate, Collapsed
<1> QED  BY <1>1, <1>2, <1>3, <1>4 DEF IInv

(* A header is in no interval that is finished: it would be the entry, or  *)
(* share a predecessor with the interval it was found from.                *)
LEMMA HeaderIsFree ==
  ASSUME IInv, EntryNotTarget(cfg), NEW h \in headers \ DOMAIN intervals,
         NEW k \in DOMAIN intervals
  PROVE  h \notin intervals[k]
<1> SUFFICES ASSUME h \in intervals[k] PROVE FALSE  OBVIOUS
<1>1. IsGraph(graph) /\ EntryNotTarget(graph) /\ Separate  BY DEF IInv, Types, SingleEntry
<1>2. Preds(graph, h) # {} /\ Preds(graph, h) \subseteq intervals[k]
  BY DEF IInv, AllEnclosed, Enclosed
<1>3. h # 0  BY <1>1, <1>2 DEF EntryNotTarget
<1>4. PICK j \in DOMAIN intervals : h \in SuccsOf(intervals[j]) \ intervals[j]
  BY <1>3 DEF IInv, Found
<1>5. PICK p \in intervals[j] : <<p, h>> \in graph.edges
  BY <1>1, <1>4, Neighbours
<1>6. p \in intervals[k]  BY <1>1, <1>2, <1>5, Neighbours
<1>7. j = k  BY <1>1, <1>5, <1>6 DEF Separate
<1> QED  BY <1>4, <1>7

(* OpenInterval starts with the header alone.                              *)
LEMMA OpenIntervalStep ==
  ASSUME IInv, NEW h \in headers, OpenInterval(h)
  PROVE  IInv'
<1> USE DEF OpenInterval
<1>1. h \in headers \ DOMAIN intervals  BY DEF Unprocessed
<1>2. Types'  BY <1>1 DEF IInv, Types
<1>3. AllEnclosed'  BY DEF IInv, AllEnclosed, Enclosed
<1>4. Found' /\ Covered'  BY DEF IInv, Found, Covered, SuccsOf
<1>5. SingleEntry'
  <2> SUFFICES ASSUME EntryNotTarget(cfg) PROVE EntryNotTarget(graph) /\ Separate'
    BY DEF SingleEntry
  <2>1. \A k \in DOMAIN intervals : h \notin intervals[k]  BY <1>1, HeaderIsFree
  <2> QED  BY <2>1 DEF IInv, SingleEntry, Separate
<1>6. Complete'  BY DEF IInv, Complete, Collapsed
<1> QED  BY <1>2, <1>3, <1>4, <1>5, <1>6 DEF IInv

(* AddNodesToInterval takes vertices from outside of all finished          *)
(* intervals: their predecessors are in the open one.                      *)
LEMMA AddNodesToIntervalStep == IInv /\ AddNodesToInterval => IInv'
<1> SUFFICES ASSUME IInv, AddNodesToInterval PROVE IInv'  OBVIOUS
<1> USE DEF AddNodesToInterval
<1>1. IsGraph(graph)  BY DEF IInv, Types
<1>2. header \in headers \ DOMAIN intervals /\ header \in interval
      /\ interval \subseteq Vertices(graph)
  BY DEF IInv, Types
<1>3. \A w \in NodesToAdd : /\ w \in Vertices(graph)
                            /\ Preds(graph, w) # {} /\ Preds(graph, w) \subseteq interval
  BY <1>1, Neighbours DEF NodesToAdd
<1>4. Types'  BY <1>2, <1>3 DEF IInv, Types
<1>5. AllEnclosed'  BY <1>3 DEF IInv, AllEnclosed, Enclosed
<1>6. Found' /\ Covered'  BY DEF IInv, Found, Covered, SuccsOf
<1>7. SingleEntry'
  <2> SUFFICES ASSUME EntryNotTarget(cfg) PROVE EntryNotTarget(graph) /\ Separate'
    BY DEF SingleEntry
  <2>1. EntryNotTarget(graph) /\ Separate  BY DEF IInv, SingleEntry
  <2>2. ASSUME NEW k \in DOMAIN intervals, NEW w \in NodesToAdd, w \in intervals[k]
        PROVE  FALSE
    <3>1. CASE w = k
      <4>1. k # 0  BY <1>3, <2>1, <3>1 DEF EntryNotTarget
      <4>2. k \in headers  BY DEF IInv, Types
      <4>3. PICK j \in DOMAIN intervals : k \in SuccsOf(intervals[j]) \ intervals[j]
        BY <4>1, <4>2 DEF IInv, Found
      <4>4. PICK p \in intervals[j] : <<p, k>> \in graph.edges
        BY <1>1, <4>3, Neighbours
      <4>5. p \in interval  BY <1>1, <1>3, <2>2, <3>1, <4>4, Neighbours
      <4> QED  BY <2>1, <4>4, <4>5 DEF Separate
    <3>2. CASE w # k
      <4>1. Preds(graph, w) \subseteq intervals[k]
        BY <2>2, <3>2 DEF IInv, AllEnclosed, Enclosed
      <4> QED  BY <1>3, <2>1, <2>2, <4>1 DEF Separate
    <3> QED  BY <3>1, <3>2
  <2> QED  BY <2>1, <2>2 DEF Separate
<1>8. Complete'  BY DEF IInv, Complete, Collapsed
<1> QED  BY <1>4, <1>5, <1>6, <1>7, <1>8 DEF IInv

(* CloseInterval: the open interval joins the others, and every successor  *)
(* that is neither in it nor a header becomes one.                         *)
LEMMA CloseIntervalStep == IInv /\ CloseInterval => IInv'
<1> SUFFICES ASSUME IInv, CloseInterval PROVE IInv'  OBVIOUS
<1> USE DEF CloseInterval
<1>1. IsGraph(graph)  BY DEF IInv, Types
<1>2. header \in headers \ DOMAIN intervals /\ header \in interval
      /\ interval \subseteq Vertices(graph)
  BY DEF IInv, Types
<1>3. /\ DOMAIN intervals' = DOMAIN intervals \cup {header}
      /\ intervals'[header] = interval
      /\ \A h \in DOMAIN intervals : intervals'[h] = intervals[h]
  BY <1>2
<1>4. GetNewHeaders \subseteq Vertices(graph)  BY <1>1, Neighbours DEF GetNewHeaders
<1>5. Types'  BY <1>2, <1>3, <1>4 DEF IInv, Types
<1>6. AllEnclosed'  BY <1>2, <1>3 DEF IInv, AllEnclosed, Enclosed
<1>7. Found'
  <2>1. ASSUME NEW x \in (headers' \cup newHeaders') \ {0}
        PROVE  \E k \in DOMAIN intervals' : x \in SuccsOf(intervals'[k]) \ intervals'[k]
    <3>1. CASE x \in headers \cup newHeaders
      <4>1. PICK k \in DOMAIN intervals : x \in SuccsOf(intervals[k]) \ intervals[k]
        BY <2>1, <3>1 DEF IInv, Found
      <4> QED  BY <1>3, <4>1
    <3>2. CASE x \in GetNewHeaders
      BY <1>3, <3>2 DEF GetNewHeaders
    <3> QED  BY <3>1, <3>2
  <2> QED  BY <2>1 DEF IInv, Found, SuccsOf
<1>8. Covered'
  <2>1. SuccsOf(interval) \subseteq interval \cup headers \cup GetNewHeaders
    BY DEF GetNewHeaders
  <2>2. \A k \in DOMAIN intervals' :
          SuccsOf(intervals'[k]) \subseteq intervals'[k] \cup headers' \cup newHeaders'
    BY <1>3, <2>1 DEF IInv, Covered
  <2> QED  BY <2>2 DEF Covered, SuccsOf
<1>9. SingleEntry'
  BY <1>2, <1>3 DEF IInv, SingleEntry, Separate
<1>10. Complete'  BY DEF IInv, Complete, Collapsed
<1> QED  BY <1>5, <1>6, <1>7, <1>8, <1>9, <1>10 DEF IInv

-----------------------------------------------------------------------------
(* The next graph                                                          *)

(* Every header has an interval when the headers run out.                  *)
LEMMA AllHeadersProcessed ==
  ASSUME IInv, LevelComplete
  PROVE  /\ headers = DOMAIN intervals /\ newHeaders = {} /\ 0 \in DOMAIN intervals
         /\ header = NoHeader /\ interval = {}
         /\ DOMAIN intervals \subseteq Vertices(graph) /\ DOMAIN intervals \subseteq Nat
         /\ IsFiniteSet(DOMAIN intervals)
<1>1. headers = DOMAIN intervals /\ newHeaders = {} /\ header = NoHeader
  BY DEF LevelComplete, Unprocessed, IInv, Types
<1>2. 0 \in DOMAIN intervals  BY <1>1 DEF IInv, Found
<1>3. interval = {}  BY <1>1 DEF IInv, Types
<1>4. DOMAIN intervals \subseteq Vertices(graph) /\ IsGraph(graph)
  BY <1>1 DEF IInv, Types
<1>5. DOMAIN intervals \subseteq Nat /\ IsFiniteSet(DOMAIN intervals)
  BY <1>4, EntryVertex, FS_Subset
<1> QED  BY <1>1, <1>2, <1>3, <1>4, <1>5

(* boost::add_vertex numbers the intervals in the order of their headers:  *)
(* VertexOf is a bijection from the headers to the vertices of the next    *)
(* graph, and the interval of the entry is vertex 0.                       *)
LEMMA VertexNumbers ==
  ASSUME IInv, LevelComplete
  PROVE  /\ NextGraph.size \in Nat \ {0}
         /\ \A h \in DOMAIN intervals : VertexOf(h) \in Vertices(NextGraph)
         /\ \A h, k \in DOMAIN intervals : VertexOf(h) = VertexOf(k) => h = k
         /\ \A v \in Vertices(NextGraph) : \E h \in DOMAIN intervals : VertexOf(h) = v
         /\ VertexOf(0) = 0
<1> DEFINE D == DOMAIN intervals
           Before(h) == {x \in D : x < h}
           n == Cardinality(D)
<1>1. 0 \in D /\ (\A x \in D : x \in Nat) /\ IsFiniteSet(D)  BY AllHeadersProcessed
<1>2. n \in Nat \ {0}
  BY <1>1, FS_CardinalityType, FS_EmptySet
<1>3. NextGraph.size = n /\ Vertices(NextGraph) = 0 .. n - 1
  BY DEF NextGraph, Vertices
<1>4. \A h : VertexOf(h) = Cardinality(Before(h))  BY DEF VertexOf
<1> HIDE DEF D, n
<1>5. ASSUME NEW h \in D
      PROVE  VertexOf(h) \in 0 .. n - 1
  <2>1. Before(h) \in SUBSET D /\ h \notin Before(h)  BY <1>1
  <2>2. IsFiniteSet(Before(h)) /\ Cardinality(Before(h)) <= n /\ n # Cardinality(Before(h))
    BY <1>1, <2>1, FS_Subset DEF n
  <2>3. Cardinality(Before(h)) \in Nat  BY <2>2, FS_CardinalityType
  <2> QED  BY <1>2, <1>4, <2>2, <2>3
<1>6. ASSUME NEW h \in D, NEW k \in D, h < k
      PROVE  VertexOf(h) # VertexOf(k)
  <2>1. \A x \in D : x < h => x < k  BY <1>1, <1>6
  <2>2. Before(h) \in SUBSET Before(k) /\ h \in Before(k) /\ h \notin Before(h)
    BY <1>1, <1>6, <2>1
  <2>3. Before(k) \in SUBSET D  OBVIOUS
  <2>4. IsFiniteSet(Before(k))  BY <1>1, <2>3, FS_Subset
  <2>5. Cardinality(Before(k)) # Cardinality(Before(h))  BY <2>2, <2>4, FS_Subset
  <2> QED  BY <1>4, <2>5
<1>7. \A h, k \in D : VertexOf(h) = VertexOf(k) => h = k
  <2> SUFFICES ASSUME NEW h \in D, NEW k \in D, h # k PROVE VertexOf(h) # VertexOf(k)
    OBVIOUS
  <2>1. h < k \/ k < h  BY <1>1
  <2> QED  BY <1>6, <2>1
<1>8. ASSUME NEW v \in 0 .. n - 1
      PROVE  \E h \in D : VertexOf(h) = v
  <2> DEFINE f == [h \in D |-> VertexOf(h)]
             T == 0 .. n - 1
  <2>1. f \in Injection(D, T)  BY <1>5, <1>7 DEF Injection, IsInjective
  <2>2. IsFiniteSet(T) /\ Cardinality(T) = n
    <3> DEFINE last == n - 1
    <3>1. last \in Int /\ 0 \in Int /\ ~ (0 > last) /\ last - 0 + 1 = n  BY <1>2
    <3> HIDE DEF last
    <3>2. IsFiniteSet(0 .. last) /\ Cardinality(0 .. last) = n  BY <3>1, FS_Interval
    <3> QED  BY <3>2 DEF last
  <2> HIDE DEF T
  <2>3. f \in Surjection(D, T)  BY <2>1, <2>2, FS_Injection DEF n
  <2> QED  BY <2>3 DEF Surjection, T
<1>9. VertexOf(0) = 0
  <2>1. \A x \in D : ~ (x < 0)  BY <1>1
  <2>2. Before(0) = {}  BY <2>1
  <2> QED  BY <1>4, <2>2, FS_EmptySet
<1> QED  BY <1>2, <1>3, <1>5, <1>7, <1>8, <1>9 DEF D

(* getCorrespondingIntervalHeader returns the header of an interval that   *)
(* holds the vertex, if there is one.                                      *)
LEMMA CorrespondingHeaderIsOne ==
  ASSUME IInv, LevelComplete, NEW v, HeadersOf(v) # {}
  PROVE  CorrespondingHeader(v) \in DOMAIN intervals /\ v \in intervals[CorrespondingHeader(v)]
<1>1. HeadersOf(v) \subseteq Nat  BY AllHeadersProcessed DEF HeadersOf
<1> DEFINE less == OpToRel(<, Nat)
<1>2. less = {p \in Nat \X Nat : p[1] < p[2]}  BY DEF OpToRel
<1>3. IsWellFoundedOn(less, Nat)  BY NatLessThanWellFounded
<1> HIDE DEF less
<1>4. PICK h \in HeadersOf(v) : \A x \in HeadersOf(v) : <<x, h>> \notin less
  BY <1>1, <1>3, WFMin
<1>5. \A x \in HeadersOf(v) : h <= x
  <2> SUFFICES ASSUME NEW x \in HeadersOf(v) PROVE h <= x  OBVIOUS
  <2>1. x \in Nat /\ h \in Nat /\ <<x, h>> \notin less  BY <1>1, <1>4
  <2>2. ~ (x < h)  BY <1>2, <2>1
  <2> QED  BY <2>1, <2>2
<1>6. CorrespondingHeader(v) \in HeadersOf(v)  BY <1>5 DEF CorrespondingHeader
<1> QED  BY <1>6 DEF HeadersOf

(* The edges getNextDerivedGraph adds, by what they were made from.        *)
LEMMA NextEdge ==
  \A e : e \in NextEdges <=>
    \E h \in DOMAIN intervals :
      \/ \E u \in EntersFrom(h) : e = <<VertexOf(CorrespondingHeader(u)), VertexOf(h)>>
      \/ \E w \in LeavesTo(h) : e = <<VertexOf(h), VertexOf(CorrespondingHeader(w))>>
BY DEF NextEdges

(* getNextDerivedGraph builds a graph if it finds an interval for every    *)
(* vertex it asks for.                                                     *)
LEMMA NextGraphType ==
  ASSUME IInv, LevelComplete, \A v \in AskedFor : HeadersOf(v) # {}
  PROVE  IsGraph(NextGraph)
<1>1. NextGraph.size \in Nat \ {0}  BY VertexNumbers
<1>2. \A h \in DOMAIN intervals : VertexOf(h) \in Vertices(NextGraph)  BY VertexNumbers
<1>3. \A h \in DOMAIN intervals : \A v \in EntersFrom(h) \cup LeavesTo(h) :
        CorrespondingHeader(v) \in DOMAIN intervals
  <2> SUFFICES ASSUME NEW h \in DOMAIN intervals, NEW v \in EntersFrom(h) \cup LeavesTo(h)
               PROVE  CorrespondingHeader(v) \in DOMAIN intervals
    OBVIOUS
  <2>1. v \in AskedFor  BY DEF AskedFor
  <2> QED  BY <2>1, CorrespondingHeaderIsOne
<1>4. NextGraph.edges = NextEdges  BY DEF NextGraph
<1>5. NextEdges \subseteq Vertices(NextGraph) \X Vertices(NextGraph)
  BY <1>2, <1>3, NextEdge
<1> QED  BY <1>1, <1>4, <1>5 DEF IsGraph

(* When every block can be reached, every vertex has its interval: the     *)
(* intervals contain the entry and are closed under the edges.             *)
LEMMA EveryVertexHasInterval ==
  ASSUME IInv, LevelComplete, AllReachable(graph)
  PROVE  UNION {intervals[h] : h \in DOMAIN intervals} = Vertices(graph)
<1> DEFINE S == UNION {intervals[h] : h \in DOMAIN intervals}
<1>1. IsGraph(graph) /\ S \in SUBSET Vertices(graph)  BY DEF IInv, Types
<1>2. 0 \in S
  <2>1. 0 \in DOMAIN intervals  BY AllHeadersProcessed
  <2> QED  BY <2>1 DEF IInv, Types
<1>3. ASSUME NEW e \in graph.edges, e[1] \in S
      PROVE  e[2] \in S
  <2>1. PICK k \in DOMAIN intervals : e[1] \in intervals[k]  BY <1>3
  <2>2. e = <<e[1], e[2]>>  BY <1>1 DEF IsGraph
  <2>3. e[2] \in SuccsOf(intervals[k])  BY <1>1, <2>1, <2>2, Neighbours
  <2>4. e[2] \in intervals[k] \cup DOMAIN intervals
    BY <2>3, AllHeadersProcessed DEF IInv, Covered
  <2> QED  BY <2>4 DEF IInv, Types
<1> QED  BY <1>1, <1>2, <1>3 DEF AllReachable

(* In the next graph two intervals are connected if an edge leads from a   *)
(* vertex of the one to a vertex of the other.                             *)
LEMMA NextGraphEdges ==
  ASSUME IInv, LevelComplete, Separate, \A v \in AskedFor : HeadersOf(v) # {},
         NEW h \in DOMAIN intervals, NEW k \in DOMAIN intervals
  PROVE  <<VertexOf(h), VertexOf(k)>> \in NextGraph.edges <=>
           h # k /\ \E e \in graph.edges : e[1] \in intervals[h] /\ e[2] \in intervals[k]
<1>1. NextGraph.edges = NextEdges  BY DEF NextGraph
<1>2. IsGraph(graph) /\ h \in intervals[h] /\ k \in intervals[k]  BY DEF IInv, Types
<1>3. \A x, y \in DOMAIN intervals : VertexOf(x) = VertexOf(y) => x = y  BY VertexNumbers
<1>4. \A x, y \in DOMAIN intervals : \A v : v \in intervals[x] /\ v \in intervals[y] => x = y
  BY DEF Separate
<1>5. \A x \in DOMAIN intervals : \A v \in EntersFrom(x) \cup LeavesTo(x) :
        CorrespondingHeader(v) \in DOMAIN intervals /\ v \in intervals[CorrespondingHeader(v)]
  <2> SUFFICES ASSUME NEW x \in DOMAIN intervals, NEW v \in EntersFrom(x) \cup LeavesTo(x)
               PROVE  /\ CorrespondingHeader(v) \in DOMAIN intervals
                      /\ v \in intervals[CorrespondingHeader(v)]
    OBVIOUS
  <2>1. v \in AskedFor  BY DEF AskedFor
  <2> QED  BY <2>1, CorrespondingHeaderIsOne
<1>6. ASSUME <<VertexOf(h), VertexOf(k)>> \in NextEdges
      PROVE  h # k /\ \E e \in graph.edges : e[1] \in intervals[h] /\ e[2] \in intervals[k]
  <2>1. PICK x \in DOMAIN intervals :
          \/ \E u \in EntersFrom(x) :
               <<VertexOf(h), VertexOf(k)>> = <<VertexOf(CorrespondingHeader(u)), VertexOf(x)>>
          \/ \E w \in LeavesTo(x) :
               <<VertexOf(h), VertexOf(k)>> = <<VertexOf(x), VertexOf(CorrespondingHeader(w))>>
    BY <1>6, NextEdge
  <2>2. CASE \E u \in EntersFrom(x) :
               <<VertexOf(h), VertexOf(k)>> = <<VertexOf(CorrespondingHeader(u)), VertexOf(x)>>
    <3>1. PICK u \in EntersFrom(x) :
            VertexOf(h) = VertexOf(CorrespondingHeader(u)) /\ VertexOf(k) = VertexOf(x)
      BY <2>2
    <3>2. k = x /\ u \in intervals[h] /\ u \notin intervals[k] /\ u \in Preds(graph, k)
      BY <1>3, <1>5, <3>1 DEF EntersFrom
    <3>3. <<u, k>> \in graph.edges  BY <1>2, <3>2 DEF Preds
    <3> QED  BY <1>2, <3>2, <3>3
  <2>3. CASE \E w \in LeavesTo(x) :
               <<VertexOf(h), VertexOf(k)>> = <<VertexOf(x), VertexOf(CorrespondingHeader(w))>>
    <3>1. PICK w \in LeavesTo(x) :
            VertexOf(h) = VertexOf(x) /\ VertexOf(k) = VertexOf(CorrespondingHeader(w))
      BY <2>3
    <3>2. h = x /\ w \in intervals[k] /\ w \notin intervals[h] /\ w \in SuccsOf(intervals[h])
      BY <1>3, <1>5, <3>1 DEF LeavesTo
    <3>3. PICK v \in intervals[h] : <<v, w>> \in graph.edges  BY <1>2, <3>2, Neighbours
    <3> QED  BY <3>2, <3>3
  <2> QED  BY <2>1, <2>2, <2>3
<1>7. ASSUME h # k, NEW e \in graph.edges, e[1] \in intervals[h], e[2] \in intervals[k]
      PROVE  <<VertexOf(h), VertexOf(k)>> \in NextEdges
  <2>1. e = <<e[1], e[2]>>  BY <1>2 DEF IsGraph
  <2>2. e[2] \in SuccsOf(intervals[h])  BY <1>2, <1>7, <2>1, Neighbours
  <2>3. e[2] \in LeavesTo(h)  BY <1>4, <1>7, <2>2 DEF LeavesTo
  <2>4. CorrespondingHeader(e[2]) = k  BY <1>4, <1>5, <1>7, <2>3
  <2> QED  BY <2>3, <2>4, NextEdge
<1> QED  BY <1>1, <1>6, <1>7

(* What getNextDerivedGraph builds when the intervals are disjoint.        *)
LEMMA NextGraphEntry ==
  ASSUME IInv, LevelComplete, Separate, EntryNotTarget(graph),
         \A v \in AskedFor : HeadersOf(v) # {}
  PROVE  EntryNotTarget(NextGraph)
<1> SUFFICES ASSUME NEW v \in Preds(NextGraph, 0) PROVE FALSE
  BY DEF EntryNotTarget
<1>1. v \in Vertices(NextGraph) /\ <<v, 0>> \in NextGraph.edges  BY DEF Preds
<1>2. PICK h \in DOMAIN intervals : VertexOf(h) = v  BY <1>1, VertexNumbers
<1>3. 0 \in DOMAIN intervals /\ VertexOf(0) = 0  BY AllHeadersProcessed, VertexNumbers
<1>4. h # 0 /\ \E e \in graph.edges : e[1] \in intervals[h] /\ e[2] \in intervals[0]
  BY <1>1, <1>2, <1>3, NextGraphEdges
<1>5. PICK e \in graph.edges : e[1] \in intervals[h] /\ e[2] \in intervals[0]  BY <1>4
<1>6. IsGraph(graph)  BY DEF IInv, Types
<1>7. e = <<e[1], e[2]>> /\ e[1] \in Preds(graph, e[2])
  <2>1. e = <<e[1], e[2]>>  BY <1>6 DEF IsGraph
  <2> QED  BY <1>6, <2>1, Neighbours
<1>8. e[2] # 0  BY <1>7 DEF EntryNotTarget
<1>9. e[1] \in intervals[0]
  BY <1>3, <1>5, <1>7, <1>8 DEF IInv, AllEnclosed, Enclosed
<1> QED  BY <1>3, <1>4, <1>5, <1>9 DEF Separate

(* A set of intervals that contains the entry and is closed under the      *)
(* edges of the next graph is a set of vertices closed under the edges of  *)
(* this one.                                                               *)
LEMMA NextGraphReachable ==
  ASSUME IInv, LevelComplete, Separate, AllReachable(graph),
         \A v \in AskedFor : HeadersOf(v) # {}
  PROVE  AllReachable(NextGraph)
<1> SUFFICES ASSUME NEW S \in SUBSET Vertices(NextGraph), 0 \in S,
                    \A e \in NextGraph.edges : e[1] \in S => e[2] \in S
             PROVE  S = Vertices(NextGraph)
  BY DEF AllReachable
<1> DEFINE T == UNION {intervals[h] : h \in {x \in DOMAIN intervals : VertexOf(x) \in S}}
<1>1. IsGraph(graph) /\ T \in SUBSET Vertices(graph)
      /\ \A h \in DOMAIN intervals : h \in intervals[h] /\ intervals[h] \subseteq Vertices(graph)
  BY DEF IInv, Types
<1>2. 0 \in T
  <2>1. 0 \in DOMAIN intervals /\ VertexOf(0) = 0  BY AllHeadersProcessed, VertexNumbers
  <2> QED  BY <1>1, <2>1
<1>3. ASSUME NEW e \in graph.edges, e[1] \in T
      PROVE  e[2] \in T
  <2>1. PICK h \in DOMAIN intervals : VertexOf(h) \in S /\ e[1] \in intervals[h]  BY <1>3
  <2>2. e[2] \in Vertices(graph)  BY <1>1 DEF IsGraph
  <2>3. PICK k \in DOMAIN intervals : e[2] \in intervals[k]
    BY <2>2, EveryVertexHasInterval
  <2>4. CASE h = k  BY <2>1, <2>3, <2>4
  <2>5. CASE h # k
    <3>1. <<VertexOf(h), VertexOf(k)>> \in NextGraph.edges
      BY <2>1, <2>3, <2>5, NextGraphEdges
    <3>2. VertexOf(k) \in S  BY <2>1, <3>1
    <3> QED  BY <2>3, <3>2
  <2> QED  BY <2>4, <2>5
<1>4. T = Vertices(graph)  BY <1>1, <1>2, <1>3 DEF AllReachable
<1>5. ASSUME NEW v \in Vertices(NextGraph)
      PROVE  v \in S
  <2>1. PICK h \in DOMAIN intervals : VertexOf(h) = v  BY VertexNumbers
  <2>2. PICK k \in DOMAIN intervals : VertexOf(k) \in S /\ h \in intervals[k]
    BY <1>1, <1>4
  <2>3. h = k  BY <1>1, <2>2 DEF Separate
  <2> QED  BY <2>1, <2>2, <2>3
<1> QED  BY <1>5

(* A vertex of the next graph stands for the blocks of its interval.       *)
LEMMA NextOriginalsOfInterval ==
  ASSUME IInv, LevelComplete, NEW h \in DOMAIN intervals
  PROVE  /\ DOMAIN NextOriginals = Vertices(NextGraph)
         /\ NextOriginals[VertexOf(h)] = UNION {originals[v] : v \in intervals[h]}
<1>1. VertexOf(h) \in Vertices(NextGraph)  BY VertexNumbers
<1>2. {x \in DOMAIN intervals : VertexOf(x) = VertexOf(h)} = {h}  BY VertexNumbers
<1>3. NextOriginals[VertexOf(h)] =
        UNION {UNION {originals[v] : v \in intervals[x]} :
                 x \in {y \in DOMAIN intervals : VertexOf(y) = VertexOf(h)}}
  BY <1>1 DEF NextOriginals
<1>4. NextOriginals[VertexOf(h)] =
        UNION {UNION {originals[v] : v \in intervals[x]} : x \in {h}}
  BY <1>2, <1>3
<1>5. UNION {UNION {originals[v] : v \in intervals[x]} : x \in {h}} =
        UNION {originals[v] : v \in intervals[h]}
  OBVIOUS
<1> QED  BY <1>4, <1>5 DEF NextOriginals

(* Collapsing the intervals of a graph that is the function with blocks    *)
(* collapsed gives another one.                                            *)
LEMMA NextLevelCollapsed ==
  ASSUME IInv, LevelComplete, Separate, AllReachable(graph), Collapsed,
         \A v \in AskedFor : HeadersOf(v) # {},
         graph' = NextGraph, originals' = NextOriginals, cfg' = cfg
  PROVE  Collapsed'
<1>1. /\ IsGraph(graph) /\ DOMAIN originals = Vertices(graph)
      /\ \A h \in DOMAIN intervals : intervals[h] \subseteq Vertices(graph)
  BY DEF IInv, Types
<1>2. \A h \in DOMAIN intervals :
        \A b : b \in originals'[VertexOf(h)] <=> \E v \in intervals[h] : b \in originals[v]
  BY NextOriginalsOfInterval
<1>3. \A v \in Vertices(graph)' : \E h \in DOMAIN intervals : VertexOf(h) = v
  <2>1. \A v \in Vertices(NextGraph) : \E h \in DOMAIN intervals : VertexOf(h) = v
    BY VertexNumbers
  <2> QED  BY <2>1
<1>4. \A h \in DOMAIN intervals : VertexOf(h) \in Vertices(graph)'
  <2>1. \A h \in DOMAIN intervals : VertexOf(h) \in Vertices(NextGraph)  BY VertexNumbers
  <2> QED  BY <2>1
<1>5. UNION {intervals[h] : h \in DOMAIN intervals} = Vertices(graph)
  BY EveryVertexHasInterval
<1>6. ASSUME NEW u \in Vertices(graph)', NEW v \in Vertices(graph)', u # v
      PROVE  /\ originals'[u] \cap originals'[v] = {}
             /\ <<u, v>> \in graph'.edges <=>
                  \E e \in cfg'.edges : e[1] \in originals'[u] /\ e[2] \in originals'[v]
  <2>1. PICK h \in DOMAIN intervals : VertexOf(h) = u  BY <1>3
  <2>2. PICK k \in DOMAIN intervals : VertexOf(k) = v  BY <1>3
  <2>3. \A x \in intervals[h], y \in intervals[k] :
          x # y /\ x \in Vertices(graph) /\ y \in Vertices(graph)
    BY <1>1, <1>6, <2>1, <2>2 DEF Separate
  <2>4. originals'[u] \cap originals'[v] = {}
    <3> SUFFICES ASSUME NEW b \in originals'[u], b \in originals'[v] PROVE FALSE
      OBVIOUS
    <3>1. PICK x \in intervals[h] : b \in originals[x]  BY <1>2, <2>1
    <3>2. PICK y \in intervals[k] : b \in originals[y]  BY <1>2, <2>2
    <3> QED  BY <2>3, <3>1, <3>2 DEF Collapsed
  <2>5. <<u, v>> \in graph'.edges <=>
          \E a \in graph.edges : a[1] \in intervals[h] /\ a[2] \in intervals[k]
    BY <1>6, <2>1, <2>2, NextGraphEdges
  <2>6. \A x, y : <<x, y>> \in graph.edges /\ x \in intervals[h] /\ y \in intervals[k] =>
          \E e \in cfg.edges : e[1] \in originals[x] /\ e[2] \in originals[y]
    BY <2>3 DEF Collapsed
  <2>7. ASSUME NEW a \in graph.edges, a[1] \in intervals[h], a[2] \in intervals[k]
        PROVE  \E e \in cfg'.edges : e[1] \in originals'[u] /\ e[2] \in originals'[v]
    <3>1. <<a[1], a[2]>> \in graph.edges  BY <1>1 DEF IsGraph
    <3>2. PICK e \in cfg.edges : e[1] \in originals[a[1]] /\ e[2] \in originals[a[2]]
      BY <2>6, <2>7, <3>1
    <3> QED  BY <1>2, <2>1, <2>2, <2>7, <3>2
  <2>8. ASSUME NEW e \in cfg'.edges, e[1] \in originals'[u], e[2] \in originals'[v]
        PROVE  \E a \in graph.edges : a[1] \in intervals[h] /\ a[2] \in intervals[k]
    <3>1. PICK x \in intervals[h] : e[1] \in originals[x]  BY <1>2, <2>1, <2>8
    <3>2. PICK y \in intervals[k] : e[2] \in originals[y]  BY <1>2, <2>2, <2>8
    <3>3. <<x, y>> \in graph.edges  BY <2>3, <2>8, <3>1, <3>2 DEF Collapsed
    <3> QED  BY <3>1, <3>2, <3>3
  <2> QED  BY <2>4, <2>5, <2>7, <2>8
<1>7. UNION {originals'[v] : v \in Vertices(graph)'} = Vertices(cfg)'
  <2>1. ASSUME NEW b \in Vertices(cfg)
        PROVE  \E v \in Vertices(graph)' : b \in originals'[v]
    <3>1. PICK x \in Vertices(graph) : b \in originals[x]  BY DEF Collapsed
    <3>2. PICK h \in DOMAIN intervals : x \in intervals[h]  BY <1>5
    <3>3. b \in originals'[VertexOf(h)]  BY <1>2, <3>1, <3>2
    <3> QED  BY <1>4, <3>3
  <2>2. ASSUME NEW v \in Vertices(graph)', NEW b \in originals'[v]
        PROVE  b \in Vertices(cfg)
    <3>1. PICK h \in DOMAIN intervals : VertexOf(h) = v  BY <1>3
    <3>2. PICK x \in intervals[h] : b \in originals[x]  BY <1>2, <2>2, <3>1
    <3> QED  BY <1>1, <3>1, <3>2 DEF Collapsed
  <2> QED  BY <2>1, <2>2
<1> QED  BY <1>6, <1>7 DEF Collapsed

-----------------------------------------------------------------------------
(* The steps between levels                                                *)

(* derivedGraphSequence grows by one level at its end.                     *)
LEMMA AppendLevel ==
  ASSUME NEW s, NEW level, IsSequence(s), IsGraph(level.graph),
         \A i \in DOMAIN s : IsGraph(s[i].graph)
  PROVE  /\ IsSequence(Append(s, level))
         /\ \A i \in DOMAIN Append(s, level) : IsGraph(Append(s, level)[i].graph)
<1>1. PICK S : s \in Seq(S)  BY DEF IsSequence
<1>2. s \in Seq(S \cup {level})  BY <1>1
<1>3. Append(s, level) \in Seq(S \cup {level})  BY <1>2
<1>4. ASSUME NEW i \in DOMAIN Append(s, level)
      PROVE  IsGraph(Append(s, level)[i].graph)
  <2>1. CASE i \in DOMAIN s
    <3>1. Append(s, level)[i] = s[i]  BY <1>2, <2>1
    <3> QED  BY <2>1, <3>1
  <2>2. CASE i \notin DOMAIN s
    <3>1. Append(s, level)[i] = level  BY <1>2, <1>4, <2>2
    <3> QED  BY <3>1
  <2> QED  BY <2>1, <2>2
<1> QED  BY <1>3, <1>4 DEF IsSequence

(* The level that is complete is one with a graph.                         *)
LEMMA CompletedLevelsType ==
  ASSUME IInv
  PROVE  /\ IsSequence(CompletedLevels)
         /\ \A i \in DOMAIN CompletedLevels : IsGraph(CompletedLevels[i].graph)
<1> DEFINE level == [graph |-> graph, intervals |-> intervals, originals |-> originals]
<1>1. IsGraph(level.graph) /\ IsSequence(sequence)
      /\ \A i \in DOMAIN sequence : IsGraph(sequence[i].graph)
  BY DEF IInv, Types
<1>2. CompletedLevels = Append(sequence, level)  BY DEF CompletedLevels
<1> HIDE DEF level
<1> QED  BY <1>1, <1>2, AppendLevel

(* isLimitGraph holds: only the sequence changes.                          *)
LEMMA EndSequenceStep == IInv /\ EndSequence => IInv'
<1> SUFFICES ASSUME IInv, EndSequence PROVE IInv'  OBVIOUS
<1> USE DEF EndSequence
<1>1. Types'  BY CompletedLevelsType DEF IInv, Types
<1>2. AllEnclosed'  BY DEF IInv, AllEnclosed, Enclosed
<1>3. Found' /\ Covered'  BY DEF IInv, Found, Covered, SuccsOf
<1>4. SingleEntry' /\ Complete'
  BY DEF IInv, SingleEntry, Complete, Separate, Collapsed
<1> QED  BY <1>1, <1>2, <1>3, <1>4 DEF IInv

(* getNextDerivedGraph: the invariant holds of the next graph before its   *)
(* first interval.                                                         *)
LEMMA GetNextDerivedGraphStep == IInv /\ GetNextDerivedGraph => IInv'
<1> SUFFICES ASSUME IInv, GetNextDerivedGraph PROVE IInv'  OBVIOUS
<1>1. /\ LevelComplete /\ (\A v \in AskedFor : HeadersOf(v) # {})
      /\ graph' = NextGraph /\ originals' = NextOriginals /\ cfg' = cfg
      /\ sequence' = CompletedLevels /\ phase' = phase /\ phase = "intervals"
      /\ headers' = {} /\ newHeaders' = {0} /\ DOMAIN intervals' = {}
      /\ header' = NoHeader /\ interval' = {}
  BY AllHeadersProcessed DEF GetNextDerivedGraph, LevelComplete
<1>2. IsGraph(NextGraph)  BY <1>1, NextGraphType
<1>3. \A v \in Vertices(NextGraph) : NextOriginals[v] \subseteq Vertices(cfg)
  <2> SUFFICES ASSUME NEW v \in Vertices(NextGraph) PROVE NextOriginals[v] \subseteq Vertices(cfg)
    OBVIOUS
  <2>1. PICK h \in DOMAIN intervals : VertexOf(h) = v  BY <1>1, VertexNumbers
  <2>2. NextOriginals[v] = UNION {originals[x] : x \in intervals[h]}
    BY <1>1, <2>1, NextOriginalsOfInterval
  <2> QED  BY <2>2 DEF IInv, Types
<1>4. DOMAIN NextOriginals = Vertices(NextGraph)  BY DEF NextOriginals
<1>5. Types'
  <2>1. 0 \in Vertices(NextGraph)  BY <1>2, EntryVertex
  <2>2. IsGraph(cfg)  BY DEF IInv, Types
  <2> QED  BY <1>1, <1>2, <1>3, <1>4, <2>1, <2>2, CompletedLevelsType DEF Types
<1>6. AllEnclosed' /\ Found' /\ Covered' /\ Separate'
  BY <1>1 DEF AllEnclosed, Enclosed, Found, Covered, Separate
<1>7. SingleEntry'
  <2> SUFFICES ASSUME EntryNotTarget(cfg) PROVE EntryNotTarget(NextGraph)
    BY <1>1, <1>6 DEF SingleEntry
  <2> QED  BY <1>1, NextGraphEntry DEF IInv, SingleEntry
<1>8. Complete'
  <2> SUFFICES ASSUME EntryNotTarget(cfg), AllReachable(cfg)
               PROVE  AllReachable(NextGraph) /\ Collapsed'
    BY <1>1 DEF Complete
  <2>1. Separate /\ AllReachable(graph) /\ Collapsed  BY DEF IInv, SingleEntry, Complete
  <2> QED  BY <1>1, <2>1, NextGraphReachable, NextLevelCollapsed
<1> QED  BY <1>5, <1>6, <1>7, <1>8 DEF IInv

(* getCorrespondingIntervalHeader runs off its end only if some block      *)
(* cannot be reached or the entry is the target of a branch.               *)
LEMMA LoseIntervalStep == IInv /\ LoseInterval => IInv'
<1> SUFFICES ASSUME IInv, LoseInterval PROVE IInv'  OBVIOUS
<1> USE DEF LoseInterval
<1>1. Types'  BY DEF IInv, Types
<1>2. AllEnclosed'  BY DEF IInv, AllEnclosed, Enclosed
<1>3. Found' /\ Covered'  BY DEF IInv, Found, Covered, SuccsOf
<1>4. SingleEntry'  BY DEF IInv, SingleEntry, Separate
<1>5. ~ (EntryNotTarget(cfg) /\ AllReachable(cfg))
  <2> SUFFICES ASSUME EntryNotTarget(cfg), AllReachable(cfg) PROVE FALSE  OBVIOUS
  <2>1. UNION {intervals[h] : h \in DOMAIN intervals} = Vertices(graph)
    BY EveryVertexHasInterval DEF IInv, Complete
  <2>2. IsGraph(graph)  BY DEF IInv, Types
  <2>3. AskedFor \subseteq Vertices(graph)
    BY <2>2, Neighbours DEF AskedFor, EntersFrom, LeavesTo
  <2> QED  BY <2>1, <2>3 DEF HeadersOf
<1>6. Complete'  BY <1>5 DEF Complete
<1> QED  BY <1>1, <1>2, <1>3, <1>4, <1>6 DEF IInv

(* Every step of the construction keeps the invariant.                     *)
LEMMA NextInvariant == IInv /\ [Next]_vars => IInv'
<1> SUFFICES ASSUME IInv, [Next]_vars PROVE IInv'  OBVIOUS
<1>1. CASE UNCHANGED vars
  BY <1>1 DEF vars, IInv, Types, AllEnclosed, Enclosed, Found, Covered, SuccsOf,
              SingleEntry, Complete, Separate, Collapsed
<1>2. CASE \E h \in headers : OpenInterval(h)  BY <1>2, OpenIntervalStep
<1> QED
  BY <1>1, <1>2, TakeNewHeadersStep, AddNodesToIntervalStep, CloseIntervalStep,
     EndSequenceStep, GetNextDerivedGraphStep, LoseIntervalStep
  DEF Next

-----------------------------------------------------------------------------
(* Theorems                                                                *)

(* The inductive invariant holds for graphs of any size.                   *)
THEOREM Invariant == Spec => []IInv
BY InitInvariant, NextInvariant, PTL DEF Spec

(* Headers, intervals and the graphs of all levels are what they should    *)
(* be, even when intervals overlap or vertices have none.                  *)
THEOREM TypeCorrect == Spec => []TypeOK
<1>1. IInv => TypeOK
  BY DEF IInv, Types, TypeOK
<1> QED  BY <1>1, Invariant, PTL

(* addNodesToInterval never takes a vertex of another interval, unless the *)
(* entry is the target of a branch.                                        *)
THEOREM Disjoint == Spec => []IntervalsDisjoint
<1>1. IInv => IntervalsDisjoint
  BY DEF IInv, SingleEntry, Separate, IntervalsDisjoint
<1> QED  BY <1>1, Invariant, PTL

(* getCorrespondingIntervalHeader finds an interval for every vertex if    *)
(* all blocks can be reached from an entry that is no branch target.       *)
THEOREM Defined == Spec => []LevelsDefined
<1>1. IInv => LevelsDefined
  BY EveryVertexHasInterval DEF IInv, Complete, LevelsDefined
<1> QED  BY <1>1, Invariant, PTL

(* Every level is the function with blocks collapsed.                      *)
THEOREM Collapses == Spec => []CollapsesProgram
<1>1. IInv => CollapsesProgram
  BY DEF IInv, Complete, Collapsed, CollapsesProgram
<1> QED  BY <1>1, Invariant, PTL

(* A closed set of predecessors makes an interval a single-entry region:   *)
(* all vertices outside of it are reached without it.                      *)
LEMMA EnclosedIsDominated ==
  ASSUME IsGraph(graph), EntryNotTarget(graph), NEW I, NEW h, NEW v \in I, h \in I,
         Enclosed(I, h)
  PROVE  Dominates(graph, h, v)
<1> SUFFICES ASSUME v # h
             PROVE  \E S \in SUBSET (Vertices(graph) \ {h, v}) :
                      /\ 0 \in S \cup {h}
                      /\ \A e \in graph.edges : e[1] \in S => e[2] \in S \cup {h}
  BY DEF Dominates
<1> DEFINE S == Vertices(graph) \ I
<1>1. S \in SUBSET (Vertices(graph) \ {h, v})  OBVIOUS
<1>2. 0 \in S \cup {h}
  <2>1. 0 \notin I \ {h}  BY DEF EntryNotTarget, Enclosed
  <2> QED  BY <2>1, EntryVertex
<1>3. ASSUME NEW e \in graph.edges, e[1] \in S
      PROVE  e[2] \in S \cup {h}
  <2>1. e = <<e[1], e[2]>> /\ e[2] \in Vertices(graph)  BY DEF IsGraph
  <2>2. e[1] \in Preds(graph, e[2])  BY <2>1, Neighbours
  <2>3. e[2] \notin I \ {h}  BY <1>3, <2>2 DEF Enclosed
  <2> QED  BY <2>1, <2>3
<1> QED  BY <1>1, <1>2, <1>3

(* Control gets into an interval through its header only.                  *)
THEOREM SingleEntryRegions == Spec => []HeaderDominates
<1>1. IInv => HeaderDominates
  <2> SUFFICES ASSUME IInv, EntryNotTarget(cfg)
               PROVE  /\ \A h \in DOMAIN intervals : \A v \in intervals[h] : Dominates(graph, h, v)
                      /\ \A v \in interval : Dominates(graph, header, v)
    BY DEF HeaderDominates
  <2>1. IsGraph(graph) /\ EntryNotTarget(graph)  BY DEF IInv, Types, SingleEntry
  <2>2. \A h \in DOMAIN intervals : h \in intervals[h] /\ Enclosed(intervals[h], h)
    BY DEF IInv, Types, AllEnclosed
  <2>3. Enclosed(interval, header) /\ (interval # {} => header \in interval)
    BY DEF IInv, Types, AllEnclosed
  <2> QED  BY <2>1, <2>2, <2>3, EnclosedIsDominated
<1> QED  BY <1>1, Invariant, PTL

(* When some interval has two vertices there are fewer headers than        *)
(* vertices: the second one heads no other interval.                       *)
LEMMA NextGraphSmaller ==
  ASSUME IInv, LevelComplete, Separate, ~ IsLimitGraph
  PROVE  NextGraph.size < graph.size
<1>1. PICK h \in DOMAIN intervals : ~ (Cardinality(intervals[h]) <= 1)  BY DEF IsLimitGraph
<1>2. IsGraph(graph) /\ h \in intervals[h] /\ intervals[h] \subseteq Vertices(graph)
  BY DEF IInv, Types
<1>3. PICK v \in intervals[h] : v # h
  <2> SUFFICES ASSUME intervals[h] = {h} PROVE FALSE  BY <1>2
  <2>1. Cardinality({h}) = 1  BY FS_Singleton
  <2> QED  BY <1>1, <2>1
<1>4. v \notin DOMAIN intervals  BY <1>3 DEF IInv, Types, Separate
<1>5. v \in Vertices(graph)  BY <1>2, <1>3
<1>6. /\ DOMAIN intervals \in SUBSET Vertices(graph) /\ DOMAIN intervals # Vertices(graph)
      /\ IsFiniteSet(DOMAIN intervals)
      /\ IsFiniteSet(Vertices(graph)) /\ Cardinality(Vertices(graph)) = graph.size
  BY <1>2, <1>4, <1>5, AllHeadersProcessed, EntryVertex
<1>7. Cardinality(DOMAIN intervals) <= graph.size /\ Cardinality(DOMAIN intervals) # graph.size
  BY <1>6, FS_Subset
<1>8. Cardinality(DOMAIN intervals) \in Nat /\ graph.size \in Nat
  BY <1>2, <1>6, FS_CardinalityType DEF IsGraph
<1> QED  BY <1>7, <1>8 DEF NextGraph

(* Each graph is smaller than the one it was derived from.                 *)
THEOREM Shrinks == Spec => LevelsShrink
<1>1. IInv /\ [Next]_vars =>
        [EntryNotTarget(cfg) /\ sequence' # sequence /\ phase' = "intervals" =>
           graph'.size < graph.size]_vars
  <2> SUFFICES ASSUME IInv, Next, EntryNotTarget(cfg), sequence' # sequence, phase' = "intervals"
               PROVE  graph'.size < graph.size
    BY DEF vars
  <2>1. GetNextDerivedGraph
    BY DEF Next, TakeNewHeaders, OpenInterval, AddNodesToInterval, CloseInterval,
           EndSequence, LoseInterval
  <2>2. LevelComplete /\ ~ IsLimitGraph /\ graph' = NextGraph  BY <2>1 DEF GetNextDerivedGraph
  <2> QED  BY <2>2, NextGraphSmaller DEF IInv, SingleEntry
<1> QED  BY <1>1, Invariant, PTL DEF Spec, LevelsShrink

-----------------------------------------------------------------------------
(* Reducible functions                                                     *)

(* A reducible graph of more than one vertex has one with a single         *)
(* predecessor.  Among the vertices that dominate others take one that     *)
(* dominates fewest, and of those it dominates the first: an edge that     *)
(* comes back to that one would come from a vertex it dominates itself.    *)
LEMMA SinglePredecessor ==
  ASSUME NEW g, IsGraph(g), AllReachable(g), NoSelfLoops(g), Reducible(g), g.size # 1
  PROVE  \E w, u \in Vertices(g) : Preds(g, w) = {u}
PROOF
  <1> DEFINE Below(v) == {x \in Vertices(g) \ {v} : Dominates(g, v, x)}
             Sizes == {Cardinality(Below(v)) : v \in {x \in Vertices(g) : Below(x) # {}}}
  <1>1. 0 \in Vertices(g) /\ IsFiniteSet(Vertices(g)) /\ 1 \in Vertices(g)
    <2>1. 0 \in Vertices(g) /\ IsFiniteSet(Vertices(g))
      BY EntryVertex
    <2>2. 1 \in Vertices(g)
      BY DEF IsGraph, Vertices
    <2> QED
      BY <2>1, <2>2
  <1>2. \A v \in Vertices(g) : IsFiniteSet(Below(v)) /\ Cardinality(Below(v)) \in Nat
    <2> SUFFICES ASSUME NEW v \in Vertices(g)
                 PROVE  IsFiniteSet(Below(v)) /\ Cardinality(Below(v)) \in Nat
      OBVIOUS
    <2>1. Below(v) \in SUBSET Vertices(g)
      OBVIOUS
    <2>2. IsFiniteSet(Below(v))
      BY <1>1, <2>1, FS_Subset
    <2> QED
      BY <2>2, FS_CardinalityType
  <1>3. Below(0) # {}
    BY <1>1, EntryDominates
  <1>4. PICK v \in Vertices(g) :
          /\ Below(v) # {}
          /\ \A x \in Vertices(g) : Below(x) # {} => Cardinality(Below(v)) <= Cardinality(Below(x))
    <2>1. Sizes \subseteq Nat /\ Sizes # {}
      BY <1>1, <1>2, <1>3
    <2>2. PICK n \in Sizes : \A m \in Sizes : n <= m
      <3> HIDE DEF Sizes
      <3> QED
        BY <2>1, SmallestNumber
    <2> HIDE DEF Below
    <2>3. PICK v \in Vertices(g) : Below(v) # {} /\ n = Cardinality(Below(v))
      OBVIOUS
    <2>4. \A x \in Vertices(g) : Below(x) # {} => Cardinality(Below(x)) \in Sizes
      OBVIOUS
    <2> QED
      BY <2>2, <2>3, <2>4
  <1>5. PICK w \in Below(v) : \A u \in Below(v) : <<u, w>> \notin ForwardEdges(g)
    <2>1. Below(v) \in (SUBSET Vertices(g)) \ {{}}
      BY <1>4
    <2> HIDE DEF Below
    <2> QED
      BY <2>1 DEF Reducible, Acyclic
  <1>6. w \in Vertices(g) /\ w # v /\ Dominates(g, v, w)
    OBVIOUS
  <1>7. w # 0
    BY <1>6 DEF Dominates
  <1>8. ASSUME NEW u \in Preds(g, w)
        PROVE  u = v
    <2>1. u \in Vertices(g) /\ <<u, w>> \in g.edges
      BY DEF Preds
    <2>2. Dominates(g, v, u)
      BY <1>6, <2>1, DominatesPredecessors
    <2> SUFFICES ASSUME u # v
                 PROVE  FALSE
      OBVIOUS
    <2>3. u \in Below(v)
      BY <2>1, <2>2
    <2>4. Dominates(g, w, u)
      <3>1. <<u, w>>[1] = u /\ <<u, w>>[2] = w
        OBVIOUS
      <3>2. <<u, w>> \notin ForwardEdges(g)
        BY <1>5, <2>3
      <3> QED
        BY <2>1, <3>1, <3>2 DEF ForwardEdges
    <2>5. u # w
      BY <1>6, <2>1 DEF NoSelfLoops
    <2>6. u \in Below(w)
      BY <2>1, <2>4, <2>5
    <2>7. v \notin Below(w)
      <3>1. v \in Reached(g)
        <4>1. Reached(g) = Vertices(g)
          <5>1. /\ 0 \in Reached(g) /\ Reached(g) \in SUBSET Vertices(g)
                /\ \A e \in g.edges : e[1] \in Reached(g) => e[2] \in Reached(g)
            BY ReachedClosed DEF Closed
          <5> QED
            BY <5>1 DEF AllReachable
        <4> QED
          BY <4>1
      <3> QED
        BY <1>6, <3>1, DominatesAntisymmetric
    <2>8. Below(w) \in SUBSET Below(v)
      <3> SUFFICES ASSUME NEW x \in Below(w)
                   PROVE  x \in Below(v)
        OBVIOUS
      <3>1. Dominates(g, v, x)
        BY <1>6, DominatesTransitive
      <3> QED
        BY <2>7, <3>1
    <2>9. w \in Below(v) /\ w \notin Below(w)
      OBVIOUS
    <2>10. Cardinality(Below(w)) <= Cardinality(Below(v)) /\ Cardinality(Below(w)) # Cardinality(Below(v))
      <3>1. IsFiniteSet(Below(v)) /\ Below(w) # Below(v)
        BY <1>2, <2>9
      <3> HIDE DEF Below
      <3> QED
        BY <2>8, <3>1, FS_Subset
    <2>11. Cardinality(Below(v)) <= Cardinality(Below(w))
      BY <1>4, <1>6, <2>6
    <2>12. Cardinality(Below(v)) \in Nat /\ Cardinality(Below(w)) \in Nat
      BY <1>2, <1>6
    <2> QED
      BY <2>10, <2>11, <2>12
  <1>9. PICK u \in Vertices(g) : <<u, w>> \in g.edges
    BY <1>6, <1>7, UndominatedPredecessor
  <1> QED
    BY <1>6, <1>8, <1>9 DEF Preds

\* No circle of the interval goes past its header.
NoCircleBeside(I, h) == \A S \in SUBSET (I \ {h}) : S # {} => \E v \in S : Preds(graph, v) \cap S = {}

NoCircles ==
  /\ \A h \in DOMAIN intervals : NoCircleBeside(intervals[h], h)
  /\ NoCircleBeside(interval, header)

\* Finished intervals have taken in what they could.
Maximal ==
  \A h \in DOMAIN intervals : \A w \in SuccsOf(intervals[h]) \ intervals[h] : ~ (Preds(graph, w) \subseteq intervals[h])

\* No graph of the sequence is reducible if the function is not, or the other
\* way round.
KeepsReducible ==
  EntryNotTarget(cfg) /\ AllReachable(cfg) /\ NoSelfLoops(cfg) =>
    /\ NoSelfLoops(graph)
    /\ Reducible(graph) <=> Reducible(cfg)

RInv == IInv /\ NoCircles /\ Maximal /\ KeepsReducible /\ LimitTellsReducible

(* A vertex that dominates one of an interval is in it or dominates its    *)
(* header: going back from there only the header stops.                    *)
LEMMA DominatesHeader ==
  ASSUME IsGraph(graph), NEW I, NEW k \in I, Enclosed(I, k), NoCircleBeside(I, k), NEW h, h \notin I,
         NEW u \in I, Dominates(graph, h, u)
  PROVE  Dominates(graph, h, k)
PROOF
  <1> SUFFICES ASSUME ~ Dominates(graph, h, k)
               PROVE  FALSE
    OBVIOUS
  <1> DEFINE T == {x \in I : Dominates(graph, h, x)}
  <1>1. T \in SUBSET (I \ {k}) /\ T # {}
    OBVIOUS
  <1>2. PICK v \in T : Preds(graph, v) \cap T = {}
    <2> HIDE DEF T
    <2> QED
      BY <1>1 DEF NoCircleBeside
  <1>3. Preds(graph, v) # {} /\ Preds(graph, v) \subseteq I
    BY <1>1 DEF Enclosed
  <1>4. PICK p \in Preds(graph, v) : p \in I
    BY <1>3
  <1>5. Dominates(graph, h, p)
    <2>1. <<p, v>> \in graph.edges
      BY DEF Preds
    <2> QED
      BY <2>1, DominatesPredecessors
  <1> QED
    BY <1>2, <1>4, <1>5

-----------------------------------------------------------------------------
(* Circles in the next graph                                               *)

\* A level of a function whose blocks are all reached, when its intervals
\* are about to become the vertices of the next graph.
ReadyToCollapse ==
  /\ IInv /\ NoCircles /\ LevelComplete
  /\ EntryNotTarget(graph) /\ AllReachable(graph) /\ Separate
  /\ \A v \in AskedFor : HeadersOf(v) # {}

(* Only to the header of an interval do edges lead from outside.           *)
LEMMA EntersByHeader ==
  ASSUME IInv, NEW k \in DOMAIN intervals, NEW e \in graph.edges, e[1] \notin intervals[k], e[2] \in intervals[k]
  PROVE  e[2] = k
PROOF
  <1>1. IsGraph(graph)
    BY DEF IInv, Types
  <1>2. e = <<e[1], e[2]>>
    BY <1>1 DEF IsGraph
  <1>3. e[1] \in Preds(graph, e[2])
    BY <1>1, <1>2, Neighbours
  <1> QED
    BY <1>3 DEF IInv, AllEnclosed, Enclosed

(* An interval dominates another one in the next graph if its header       *)
(* dominates a vertex of the other one, or all of them.                    *)
LEMMA DominatesNext ==
  ASSUME ReadyToCollapse, NEW h \in DOMAIN intervals, NEW k \in DOMAIN intervals, NEW u \in intervals[k]
  PROVE  Dominates(NextGraph, VertexOf(h), VertexOf(k)) <=> Dominates(graph, h, u)
PROOF
  <1> USE DEF ReadyToCollapse
  <1>1. /\ IsGraph(graph)
        /\ \A j \in DOMAIN intervals : j \in intervals[j] /\ intervals[j] \subseteq Vertices(graph) /\ j \in Vertices(graph)
    BY DEF IInv, Types
  <1>2. \A i, j \in DOMAIN intervals : \A x : x \in intervals[i] /\ x \in intervals[j] => i = j
    BY DEF Separate
  <1>3. \A i, j \in DOMAIN intervals : VertexOf(i) = VertexOf(j) => i = j
    BY VertexNumbers
  <1>4. \A j \in DOMAIN intervals : VertexOf(j) \in Vertices(NextGraph)
    BY VertexNumbers
  <1>5. \A v \in Vertices(NextGraph) : \E j \in DOMAIN intervals : VertexOf(j) = v
    BY VertexNumbers
  <1>6. 0 \in DOMAIN intervals /\ VertexOf(0) = 0
    BY AllHeadersProcessed, VertexNumbers
  <1>7. \A i, j \in DOMAIN intervals :
          <<VertexOf(i), VertexOf(j)>> \in NextGraph.edges <=>
            i # j /\ \E e \in graph.edges : e[1] \in intervals[i] /\ e[2] \in intervals[j]
    BY NextGraphEdges
  <1>8. \A v \in Vertices(graph) : \E j \in DOMAIN intervals : v \in intervals[j]
    BY EveryVertexHasInterval
  <1>9. IsGraph(NextGraph)
    BY NextGraphType
  <1>10. CASE h = k
    <2>1. Dominates(graph, h, u)
      BY <1>1, <1>10, EnclosedIsDominated DEF IInv, AllEnclosed
    <2> QED
      BY <1>10, <2>1 DEF Dominates
  <1>11. ASSUME h # k, Dominates(NextGraph, VertexOf(h), VertexOf(k))
         PROVE  Dominates(graph, h, u)
    <2>1. PICK S \in SUBSET (Vertices(NextGraph) \ {VertexOf(h), VertexOf(k)}) :
            /\ 0 \in S \cup {VertexOf(h)}
            /\ \A e \in NextGraph.edges : e[1] \in S => e[2] \in S \cup {VertexOf(h)}
      BY <1>3, <1>11 DEF Dominates
    <2> DEFINE T == {x \in Vertices(graph) : \E j \in DOMAIN intervals : x \in intervals[j] /\ VertexOf(j) \in S}
    <2>2. T \in SUBSET (Vertices(graph) \ {h, u})
      BY <1>1, <1>2, <2>1
    <2>3. 0 \in T \cup {h}
      BY <1>1, <1>3, <1>6, <2>1
    <2>4. ASSUME NEW e \in graph.edges, e[1] \in T
          PROVE  e[2] \in T \cup {h}
      <3>1. PICK i \in DOMAIN intervals : e[1] \in intervals[i] /\ VertexOf(i) \in S
        BY <2>4
      <3>2. e[2] \in Vertices(graph)
        BY <1>1 DEF IsGraph
      <3>3. PICK j \in DOMAIN intervals : e[2] \in intervals[j]
        BY <1>8, <3>2
      <3>4. CASE i = j
        BY <3>1, <3>2, <3>3, <3>4
      <3>5. CASE i # j
        <4>1. <<VertexOf(i), VertexOf(j)>> \in NextGraph.edges
          BY <1>7, <3>1, <3>3, <3>5
        <4>2. VertexOf(j) \in S \cup {VertexOf(h)}
          BY <2>1, <3>1, <4>1
        <4>3. CASE VertexOf(j) \in S
          BY <3>2, <3>3, <4>3
        <4>4. CASE VertexOf(j) = VertexOf(h)
          <5>1. j = h
            BY <1>3, <4>4
          <5>2. e[2] = h
            BY <1>2, <3>1, <3>3, <3>5, <5>1, EntersByHeader
          <5> QED
            BY <5>2
        <4> QED
          BY <4>2, <4>3, <4>4
      <3> QED
        BY <3>4, <3>5
    <2> QED
      BY <2>2, <2>3, <2>4 DEF Dominates
  <1>12. ASSUME h # k, Dominates(graph, h, u)
         PROVE  Dominates(NextGraph, VertexOf(h), VertexOf(k))
    <2>1. Dominates(graph, h, k)
      <3>1. h \notin intervals[k]
        BY <1>1, <1>2, <1>12
      <3>2. k \in intervals[k] /\ Enclosed(intervals[k], k) /\ NoCircleBeside(intervals[k], k)
        BY <1>1 DEF IInv, AllEnclosed, NoCircles
      <3> QED
        BY <1>1, <1>12, <3>1, <3>2, DominatesHeader
    <2> DEFINE S == {x \in Vertices(graph) : ~ Dominates(graph, h, x)}
               T == {v \in Vertices(NextGraph) : \E j \in DOMAIN intervals : VertexOf(j) = v /\ j \in S}
    <2>2. 0 \in S \cup {h} /\ \A e \in graph.edges : e[1] \in S => e[2] \in S \cup {h}
      <3> HIDE DEF S
      <3>1. S = {x \in Vertices(graph) : ~ Dominates(graph, h, x)}
        BY DEF S
      <3> QED
        BY <1>1, <3>1, NotDominated
    <2>3. h \notin S /\ k \notin S
      BY <2>1 DEF Dominates
    <2>4. T \in SUBSET (Vertices(NextGraph) \ {VertexOf(h), VertexOf(k)})
      <3> HIDE DEF S
      <3> QED
        BY <1>3, <2>3
    <2>5. 0 \in T \cup {VertexOf(h)}
      <3> HIDE DEF S
      <3> QED
        BY <1>4, <1>6, <2>2
    <2>6. ASSUME NEW i \in DOMAIN intervals, NEW j \in DOMAIN intervals, i \in S,
                 <<VertexOf(i), VertexOf(j)>> \in NextGraph.edges
          PROVE  j \in S \cup {h}
      <3>1. PICK e \in graph.edges : i # j /\ e[1] \in intervals[i] /\ e[2] \in intervals[j]
        BY <1>7, <2>6
      <3>2. e[2] = j
        BY <1>2, <3>1, EntersByHeader
      <3>3. e[1] \in S
        <4> SUFFICES ASSUME Dominates(graph, h, e[1])
                     PROVE  FALSE
          BY <1>1, <3>1
        <4>1. h \notin intervals[i]
          BY <1>1, <1>2, <2>3, <2>6
        <4>2. i \in intervals[i] /\ Enclosed(intervals[i], i) /\ NoCircleBeside(intervals[i], i)
          BY <1>1 DEF IInv, AllEnclosed, NoCircles
        <4>3. Dominates(graph, h, i)
          BY <1>1, <3>1, <4>1, <4>2, DominatesHeader
        <4> QED
          BY <2>6, <4>3
      <3> HIDE DEF S
      <3> QED
        BY <2>2, <3>2, <3>3
    <2>7. ASSUME NEW e \in NextGraph.edges, e[1] \in T
          PROVE  e[2] \in T \cup {VertexOf(h)}
      <3>1. e = <<e[1], e[2]>> /\ e[2] \in Vertices(NextGraph)
        BY <1>9 DEF IsGraph
      <3>2. PICK i \in DOMAIN intervals : VertexOf(i) = e[1] /\ i \in S
        BY <2>7
      <3>3. PICK j \in DOMAIN intervals : VertexOf(j) = e[2]
        BY <1>5, <3>1
      <3>4. <<VertexOf(i), VertexOf(j)>> \in NextGraph.edges
        BY <3>1, <3>2, <3>3
      <3>5. j \in S \cup {h}
        BY <2>6, <3>2, <3>4
      <3> HIDE DEF S
      <3> QED
        BY <3>1, <3>3, <3>5
    <2> QED
      BY <2>4, <2>5, <2>7 DEF Dominates
  <1> QED
    BY <1>10, <1>11, <1>12

(* An edge between two intervals leads forward in the next graph exactly   *)
(* if it does in this one.                                                 *)
LEMMA ForwardNext ==
  ASSUME ReadyToCollapse, NEW l \in DOMAIN intervals, NEW j \in DOMAIN intervals, l # j
  PROVE  <<VertexOf(l), VertexOf(j)>> \in ForwardEdges(NextGraph) <=>
           \E u \in intervals[l] : <<u, j>> \in ForwardEdges(graph)
PROOF
  <1> USE DEF ReadyToCollapse
  <1>1. IsGraph(graph) /\ j \in intervals[j]
    BY DEF IInv, Types
  <1>2. \A x : x \in intervals[l] /\ x \in intervals[j] => l = j
    BY DEF Separate
  <1>3. \A g, u, v : <<u, v>> \in ForwardEdges(g) <=> <<u, v>> \in g.edges /\ ~ Dominates(g, v, u)
    <2> SUFFICES ASSUME NEW g, NEW u, NEW v
                 PROVE  <<u, v>> \in ForwardEdges(g) <=> <<u, v>> \in g.edges /\ ~ Dominates(g, v, u)
      OBVIOUS
    <2>1. <<u, v>>[1] = u /\ <<u, v>>[2] = v
      OBVIOUS
    <2> QED
      BY <2>1 DEF ForwardEdges
  <1>4. <<VertexOf(l), VertexOf(j)>> \in NextGraph.edges <=>
          \E e \in graph.edges : e[1] \in intervals[l] /\ e[2] \in intervals[j]
    BY NextGraphEdges
  <1>5. <<VertexOf(l), VertexOf(j)>> \in NextGraph.edges <=> \E u \in intervals[l] : <<u, j>> \in graph.edges
    <2>1. ASSUME NEW e \in graph.edges, e[1] \in intervals[l], e[2] \in intervals[j]
          PROVE  \E u \in intervals[l] : <<u, j>> \in graph.edges
      <3>1. e[2] = j
        BY <1>2, <2>1, EntersByHeader
      <3>2. e = <<e[1], e[2]>>
        BY <1>1 DEF IsGraph
      <3> QED
        BY <2>1, <3>1, <3>2
    <2>2. ASSUME NEW u \in intervals[l], <<u, j>> \in graph.edges
          PROVE  \E e \in graph.edges : e[1] \in intervals[l] /\ e[2] \in intervals[j]
      <3>1. <<u, j>>[1] = u /\ <<u, j>>[2] = j
        OBVIOUS
      <3> QED
        BY <1>1, <2>2, <3>1
    <2> QED
      BY <1>4, <2>1, <2>2
  <1>6. \A u \in intervals[l] : Dominates(NextGraph, VertexOf(j), VertexOf(l)) <=> Dominates(graph, j, u)
    BY DominatesNext
  <1> QED
    BY <1>3, <1>5, <1>6

(* Circles of this graph that have no back edge give circles of the next   *)
(* one: such a circle leaves every interval it comes through, because it   *)
(* could go round in one only past its header.                             *)
LEMMA ReducibleIfNext ==
  ASSUME ReadyToCollapse, Reducible(NextGraph)
  PROVE  Reducible(graph)
PROOF
  <1> USE DEF ReadyToCollapse
  <1>1. /\ IsGraph(graph)
        /\ \A j \in DOMAIN intervals : j \in intervals[j] /\ intervals[j] \subseteq Vertices(graph)
    BY DEF IInv, Types
  <1>2. \A v \in Vertices(graph) : \E j \in DOMAIN intervals : v \in intervals[j]
    BY EveryVertexHasInterval
  <1> SUFFICES ASSUME NEW S \in (SUBSET Vertices(graph)) \ {{}},
                      \A v \in S : \E u \in S : <<u, v>> \in ForwardEdges(graph)
               PROVE  FALSE
    BY DEF Reducible, Acyclic
  <1> DEFINE T == {v \in Vertices(NextGraph) : \E j \in DOMAIN intervals : VertexOf(j) = v /\ intervals[j] \cap S # {}}
  <1>3. T \in (SUBSET Vertices(NextGraph)) \ {{}}
    <2>1. PICK v \in S : TRUE
      OBVIOUS
    <2>2. PICK j \in DOMAIN intervals : v \in intervals[j]
      BY <1>2
    <2>3. VertexOf(j) \in Vertices(NextGraph)
      BY VertexNumbers
    <2> QED
      BY <2>2, <2>3
  <1>4. PICK w \in T : \A u \in T : <<u, w>> \notin ForwardEdges(NextGraph)
    <2> HIDE DEF T
    <2> QED
      BY <1>3 DEF Reducible, Acyclic
  <1>5. PICK j \in DOMAIN intervals : VertexOf(j) = w /\ intervals[j] \cap S # {}
    OBVIOUS
  <1>6. j \in S
    <2> SUFFICES ASSUME j \notin S
                 PROVE  FALSE
      OBVIOUS
    <2> DEFINE X == intervals[j] \cap S
    <2>1. X \in SUBSET (intervals[j] \ {j}) /\ X # {}
      BY <1>5
    <2>2. NoCircleBeside(intervals[j], j)
      BY DEF NoCircles
    <2>3. PICK v \in X : Preds(graph, v) \cap X = {}
      <3> HIDE DEF X
      <3> QED
        BY <2>1, <2>2 DEF NoCircleBeside
    <2>4. PICK u \in S : <<u, v>> \in ForwardEdges(graph)
      BY <2>3
    <2>5. u \in Preds(graph, v)
      BY <2>4 DEF ForwardEdges, Preds
    <2>6. Preds(graph, v) \subseteq intervals[j]
      BY <2>1 DEF IInv, AllEnclosed, Enclosed
    <2> QED
      BY <2>3, <2>4, <2>5, <2>6
  <1>7. PICK u \in S : <<u, j>> \in ForwardEdges(graph)
    BY <1>6
  <1>8. ~ Dominates(graph, j, u)
    <2>1. <<u, j>>[1] = u /\ <<u, j>>[2] = j
      OBVIOUS
    <2> QED
      BY <1>7, <2>1 DEF ForwardEdges
  <1>9. PICK l \in DOMAIN intervals : u \in intervals[l]
    BY <1>2
  <1>10. l # j
    BY <1>1, <1>8, <1>9, EnclosedIsDominated DEF IInv, AllEnclosed
  <1>11. <<VertexOf(l), VertexOf(j)>> \in ForwardEdges(NextGraph)
    BY <1>7, <1>9, <1>10, ForwardNext
  <1>12. VertexOf(l) \in T
    <2>1. VertexOf(l) \in Vertices(NextGraph)
      BY VertexNumbers
    <2> QED
      BY <1>9, <2>1
  <1> HIDE DEF T
  <1> QED
    BY <1>4, <1>5, <1>11, <1>12

(* Circles of the next graph that have no back edge are circles of this    *)
(* one, closed inside of the intervals.                                    *)
LEMMA NextReducible ==
  ASSUME ReadyToCollapse, Reducible(graph)
  PROVE  Reducible(NextGraph)
PROOF
  <1> USE DEF ReadyToCollapse
  <1>1. /\ IsGraph(graph)
        /\ \A j \in DOMAIN intervals : j \in intervals[j] /\ intervals[j] \subseteq Vertices(graph)
    BY DEF IInv, Types
  <1>2. \A v \in Vertices(NextGraph) : \E j \in DOMAIN intervals : VertexOf(j) = v
    BY VertexNumbers
  <1>3. \A g, u, v : <<u, v>> \in ForwardEdges(g) <=> <<u, v>> \in g.edges /\ ~ Dominates(g, v, u)
    <2> SUFFICES ASSUME NEW g, NEW u, NEW v
                 PROVE  <<u, v>> \in ForwardEdges(g) <=> <<u, v>> \in g.edges /\ ~ Dominates(g, v, u)
      OBVIOUS
    <2>1. <<u, v>>[1] = u /\ <<u, v>>[2] = v
      OBVIOUS
    <2> QED
      BY <2>1 DEF ForwardEdges
  <1> SUFFICES ASSUME NEW T \in (SUBSET Vertices(NextGraph)) \ {{}},
                      \A v \in T : \E u \in T : <<u, v>> \in ForwardEdges(NextGraph)
               PROVE  FALSE
    BY DEF Reducible, Acyclic
  <1> DEFINE S == {v \in Vertices(graph) : \E j \in DOMAIN intervals : v \in intervals[j] /\ VertexOf(j) \in T}
  <1>4. S \in (SUBSET Vertices(graph)) \ {{}}
    <2>1. PICK v \in T : TRUE
      OBVIOUS
    <2>2. PICK j \in DOMAIN intervals : VertexOf(j) = v
      BY <1>2
    <2> QED
      BY <1>1, <2>2
  <1>5. PICK v \in S : \A u \in S : <<u, v>> \notin ForwardEdges(graph)
    <2> HIDE DEF S
    <2> QED
      BY <1>4 DEF Reducible, Acyclic
  <1>6. PICK j \in DOMAIN intervals : v \in intervals[j] /\ VertexOf(j) \in T
    OBVIOUS
  <1>7. CASE v # j
    <2>1. Preds(graph, v) # {} /\ Preds(graph, v) \subseteq intervals[j]
      BY <1>6, <1>7 DEF IInv, AllEnclosed, Enclosed
    <2>2. v \in Vertices(graph) \ {0}
      BY <2>1 DEF EntryNotTarget
    <2>3. PICK u \in Vertices(graph) : <<u, v>> \in graph.edges /\ ~ Dominates(graph, v, u)
      BY <1>1, <2>2, UndominatedPredecessor
    <2>4. u \in S
      BY <1>6, <2>1, <2>3 DEF Preds
    <2> HIDE DEF S
    <2> QED
      BY <1>3, <1>5, <2>3, <2>4
  <1>8. CASE v = j
    <2>1. PICK u \in T : <<u, VertexOf(j)>> \in ForwardEdges(NextGraph)
      BY <1>6
    <2>2. PICK l \in DOMAIN intervals : VertexOf(l) = u
      BY <1>2
    <2>3. l # j
      <3>1. <<VertexOf(l), VertexOf(j)>> \in NextGraph.edges
        BY <2>1, <2>2 DEF ForwardEdges
      <3> QED
        BY <3>1, NextGraphEdges
    <2>4. PICK x \in intervals[l] : <<x, j>> \in ForwardEdges(graph)
      BY <2>1, <2>2, <2>3, ForwardNext
    <2>5. x \in S
      BY <1>1, <2>1, <2>2, <2>4
    <2> HIDE DEF S
    <2> QED
      BY <1>5, <1>8, <2>4, <2>5
  <1> QED
    BY <1>7, <1>8

-----------------------------------------------------------------------------
(* The sequence keeps circles                                              *)

(* No circle comes with the vertices that addNodesToInterval takes: their  *)
(* predecessors were all there before.                                     *)
LEMMA StaysWithoutCircle ==
  ASSUME IInv, NoCircleBeside(interval, header)
  PROVE  NoCircleBeside(interval \cup NodesToAdd, header)
PROOF
  <1> SUFFICES ASSUME NEW S \in SUBSET ((interval \cup NodesToAdd) \ {header}), S # {}
               PROVE  \E v \in S : Preds(graph, v) \cap S = {}
    BY DEF NoCircleBeside
  <1>1. \A v \in interval \ {header} : Preds(graph, v) \subseteq interval
    BY DEF IInv, AllEnclosed, Enclosed
  <1>2. \A v \in NodesToAdd : Preds(graph, v) \subseteq interval
    BY DEF NodesToAdd
  <1>3. CASE S \cap interval = {}
    <2>1. PICK v \in S : TRUE
      OBVIOUS
    <2>2. Preds(graph, v) \subseteq interval
      BY <1>2, <1>3
    <2> QED
      BY <1>3, <2>2
  <1>4. CASE S \cap interval # {}
    <2> DEFINE T == S \cap interval
    <2>1. T \in SUBSET (interval \ {header}) /\ T # {}
      BY <1>4
    <2>2. PICK v \in T : Preds(graph, v) \cap T = {}
      <3> HIDE DEF T
      <3> QED
        BY <2>1 DEF NoCircleBeside
    <2>3. Preds(graph, v) \subseteq interval
      BY <1>1, <2>1
    <2> QED
      BY <2>2, <2>3
  <1> QED
    BY <1>3, <1>4

(* In the limit graph no vertex has a single predecessor: the interval of  *)
(* that one would have taken it in.  So it is reducible only if it is a    *)
(* single vertex.                                                          *)
LEMMA LimitGraph ==
  ASSUME IInv, Maximal, LevelComplete, IsLimitGraph, EntryNotTarget(graph), AllReachable(graph), NoSelfLoops(graph)
  PROVE  graph.size = 1 <=> Reducible(graph)
PROOF
  <1>1. /\ IsGraph(graph)
        /\ \A j \in DOMAIN intervals : j \in intervals[j] /\ intervals[j] \subseteq Vertices(graph)
    BY DEF IInv, Types
  <1>2. \A j \in DOMAIN intervals : intervals[j] = {j}
    <2> SUFFICES ASSUME NEW j \in DOMAIN intervals, intervals[j] # {j}
                 PROVE  FALSE
      OBVIOUS
    <2>1. PICK x \in intervals[j] : x # j
      BY <1>1
    <2>2. IsFiniteSet(intervals[j])
      BY <1>1, EntryVertex, FS_Subset
    <2>3. Cardinality({j}) = 1
      BY FS_Singleton
    <2>4. {j} \in SUBSET intervals[j] /\ {j} # intervals[j]
      BY <1>1, <2>1
    <2>5. Cardinality({j}) <= Cardinality(intervals[j]) /\ Cardinality({j}) # Cardinality(intervals[j])
      BY <2>2, <2>4, FS_Subset
    <2>6. Cardinality(intervals[j]) \in Nat /\ Cardinality(intervals[j]) <= 1
      BY <2>2, FS_CardinalityType DEF IsLimitGraph
    <2> QED
      BY <2>3, <2>5, <2>6
  <1>3. \A v \in Vertices(graph) : v \in DOMAIN intervals
    <2>1. UNION {intervals[j] : j \in DOMAIN intervals} = Vertices(graph)
      BY EveryVertexHasInterval
    <2> QED
      BY <1>2, <2>1
  <1>4. ASSUME graph.size # 1, Reducible(graph)
        PROVE  FALSE
    <2>1. PICK w, u \in Vertices(graph) : Preds(graph, w) = {u}
      BY <1>1, <1>4, SinglePredecessor
    <2>2. <<u, w>> \in graph.edges
      BY <2>1 DEF Preds
    <2>3. w # u
      BY <2>2 DEF NoSelfLoops
    <2>4. u \in DOMAIN intervals /\ intervals[u] = {u}
      BY <1>2, <1>3
    <2>5. w \in SuccsOf(intervals[u]) \ intervals[u]
      BY <1>1, <2>2, <2>3, <2>4, Neighbours
    <2> QED
      BY <2>1, <2>4, <2>5 DEF Maximal
  <1>5. ASSUME graph.size = 1
        PROVE  Reducible(graph)
    <2>1. \A v \in Vertices(graph) : v = 0
      BY <1>5 DEF Vertices
    <2>2. ForwardEdges(graph) = {}
      <3> SUFFICES ASSUME NEW e \in graph.edges
                   PROVE  FALSE
        BY DEF ForwardEdges
      <3>1. e = <<e[1], e[2]>> /\ e[1] \in Vertices(graph) /\ e[2] \in Vertices(graph)
        BY <1>1 DEF IsGraph
      <3>2. e[1] = e[2]
        BY <2>1, <3>1
      <3> QED
        BY <3>1, <3>2 DEF NoSelfLoops
    <2> QED
      BY <2>2 DEF Reducible, Acyclic
  <1> QED
    BY <1>4, <1>5

(* Level 0 is the function itself.                                         *)
LEMMA InitReduces == Init => RInv
PROOF
  <1> SUFFICES ASSUME Init
               PROVE  RInv
    OBVIOUS
  <1>1. IInv
    BY InitInvariant
  <1>2. NoCircles
    BY DEF Init, NoCircles, NoCircleBeside
  <1>3. Maximal
    BY DEF Init, Maximal
  <1>4. KeepsReducible
    BY DEF Init, KeepsReducible
  <1>5. LimitTellsReducible
    BY DEF Init, LimitTellsReducible
  <1> QED
    BY <1>1, <1>2, <1>3, <1>4, <1>5 DEF RInv

(* Building the intervals of a level changes no graph.                     *)
LEMMA StepsInLevel ==
  ASSUME RInv, TakeNewHeaders \/ (\E h \in headers : OpenInterval(h)) \/ AddNodesToInterval \/ CloseInterval
  PROVE  RInv'
PROOF
  <1> USE DEF RInv
  <1> UNCHANGED <<cfg, graph, phase>>
    BY DEF TakeNewHeaders, OpenInterval, AddNodesToInterval, CloseInterval
  <1>1. IInv'
    BY NextInvariant DEF Next
  <1>2. \A S : SuccsOf(S)' = SuccsOf(S)
    BY DEF SuccsOf
  <1>3. KeepsReducible' /\ LimitTellsReducible'
    BY DEF KeepsReducible, LimitTellsReducible
  <1>4. CASE TakeNewHeaders
    BY <1>1, <1>3, <1>4 DEF TakeNewHeaders, NoCircles, NoCircleBeside, Maximal, SuccsOf
  <1>5. CASE \E h \in headers : OpenInterval(h)
    <2>1. PICK h : interval' = {h} /\ header' = h /\ intervals' = intervals
      BY <1>5 DEF OpenInterval
    <2>2. NoCircles'
      BY <2>1 DEF NoCircles, NoCircleBeside
    <2>3. Maximal'
      BY <2>1 DEF Maximal, SuccsOf
    <2> QED
      BY <1>1, <1>3, <2>2, <2>3
  <1>6. CASE AddNodesToInterval
    <2>1. interval' = interval \cup NodesToAdd /\ header' = header /\ intervals' = intervals
      BY <1>6 DEF AddNodesToInterval
    <2>2. NoCircleBeside(interval \cup NodesToAdd, header)
      BY StaysWithoutCircle DEF NoCircles
    <2>3. NoCircles'
      BY <2>1, <2>2 DEF NoCircles, NoCircleBeside
    <2>4. Maximal'
      BY <2>1 DEF Maximal, SuccsOf
    <2> QED
      BY <1>1, <1>3, <2>3, <2>4
  <1>7. CASE CloseInterval
    <2>1. /\ intervals' = [h \in DOMAIN intervals \cup {header} |-> IF h = header THEN interval ELSE intervals[h]]
          /\ interval' = {} /\ NodesToAdd = {}
      BY <1>7 DEF CloseInterval
    <2>2. /\ DOMAIN intervals' = DOMAIN intervals \cup {header} /\ intervals'[header] = interval
          /\ \A h \in DOMAIN intervals : intervals'[h] = intervals[h]
      <3>1. header \notin DOMAIN intervals
        BY <1>7 DEF CloseInterval, IInv, Types
      <3> QED
        BY <2>1, <3>1
    <2>3. NoCircles'
      <3>1. \A h \in DOMAIN intervals' : NoCircleBeside(intervals'[h], h)
        BY <2>2 DEF NoCircles
      <3> QED
        BY <2>1, <3>1 DEF NoCircles, NoCircleBeside
    <2>4. Maximal'
      <3> SUFFICES ASSUME NEW h \in DOMAIN intervals', NEW w \in SuccsOf(intervals'[h]) \ intervals'[h],
                          Preds(graph, w) \subseteq intervals'[h]
                   PROVE  FALSE
        BY <1>2 DEF Maximal
      <3>1. CASE h = header
        BY <2>1, <2>2, <3>1 DEF NodesToAdd
      <3>2. CASE h \in DOMAIN intervals
        BY <2>2, <3>2 DEF Maximal
      <3> QED
        BY <2>2, <3>1, <3>2
    <2> QED
      BY <1>1, <1>3, <2>3, <2>4
  <1> QED
    BY <1>4, <1>5, <1>6, <1>7

(* The limit graph tells of the function what it tells of itself.          *)
LEMMA EndSequenceReduces == RInv /\ EndSequence => RInv'
PROOF
  <1> SUFFICES ASSUME RInv, EndSequence
               PROVE  RInv'
    OBVIOUS
  <1> USE DEF RInv
  <1>1. IInv'
    BY EndSequenceStep
  <1>2. UNCHANGED <<cfg, graph, intervals, header, interval>> /\ LevelComplete /\ IsLimitGraph
    BY DEF EndSequence
  <1>3. NoCircles' /\ Maximal' /\ KeepsReducible'
    BY <1>2 DEF NoCircles, NoCircleBeside, Maximal, SuccsOf, KeepsReducible
  <1>4. LimitTellsReducible'
    <2> SUFFICES ASSUME EntryNotTarget(cfg), AllReachable(cfg), NoSelfLoops(cfg)
                 PROVE  graph.size = 1 <=> Reducible(cfg)
      BY <1>2 DEF LimitTellsReducible
    <2>1. EntryNotTarget(graph) /\ AllReachable(graph)
      BY DEF IInv, SingleEntry, Complete
    <2>2. NoSelfLoops(graph) /\ (Reducible(graph) <=> Reducible(cfg))
      BY DEF KeepsReducible
    <2> QED
      BY <1>2, <2>1, <2>2, LimitGraph
  <1> QED
    BY <1>1, <1>3, <1>4

(* The next graph is reducible if this one is, and has no block that       *)
(* branches to itself.                                                     *)
LEMMA GetNextDerivedGraphReduces == RInv /\ GetNextDerivedGraph => RInv'
PROOF
  <1> SUFFICES ASSUME RInv, GetNextDerivedGraph
               PROVE  RInv'
    OBVIOUS
  <1> USE DEF RInv
  <1>1. IInv'
    BY GetNextDerivedGraphStep
  <1>2. /\ LevelComplete /\ (\A v \in AskedFor : HeadersOf(v) # {})
        /\ cfg' = cfg /\ graph' = NextGraph /\ DOMAIN intervals' = {} /\ interval' = {} /\ phase' # "done"
    BY AllHeadersProcessed DEF GetNextDerivedGraph, LevelComplete
  <1>3. NoCircles' /\ Maximal' /\ LimitTellsReducible'
    BY <1>2 DEF NoCircles, NoCircleBeside, Maximal, LimitTellsReducible
  <1>4. KeepsReducible'
    <2> SUFFICES ASSUME EntryNotTarget(cfg), AllReachable(cfg), NoSelfLoops(cfg)
                 PROVE  NoSelfLoops(NextGraph) /\ (Reducible(NextGraph) <=> Reducible(cfg))
      BY <1>2 DEF KeepsReducible
    <2>1. ReadyToCollapse
      BY <1>2 DEF ReadyToCollapse, IInv, SingleEntry, Complete
    <2>2. Reducible(graph) <=> Reducible(cfg)
      BY DEF KeepsReducible
    <2>3. NoSelfLoops(NextGraph)
      <3> SUFFICES ASSUME NEW v \in Vertices(NextGraph), <<v, v>> \in NextGraph.edges
                   PROVE  FALSE
        BY DEF NoSelfLoops
      <3>1. PICK h \in DOMAIN intervals : VertexOf(h) = v
        BY <1>2, VertexNumbers
      <3>2. Separate
        BY <2>1 DEF ReadyToCollapse
      <3> QED
        BY <1>2, <3>1, <3>2, NextGraphEdges
    <2> QED
      BY <2>1, <2>2, <2>3, ReducibleIfNext, NextReducible
  <1> QED
    BY <1>1, <1>3, <1>4

(* Every step of the construction keeps the invariant.                     *)
LEMMA NextReduces == RInv /\ [Next]_vars => RInv'
PROOF
  <1> SUFFICES ASSUME RInv, [Next]_vars
               PROVE  RInv'
    OBVIOUS
  <1>1. CASE UNCHANGED vars
    <2>1. IInv'
      BY <1>1, NextInvariant DEF RInv
    <2> QED
      BY <1>1, <2>1 DEF vars, RInv, NoCircles, NoCircleBeside, Maximal, SuccsOf, KeepsReducible, LimitTellsReducible
  <1>2. CASE LoseInterval
    <2>1. IInv' /\ UNCHANGED <<cfg, graph, intervals, header, interval>> /\ phase' # "done"
      BY <1>2, LoseIntervalStep DEF LoseInterval, RInv
    <2> QED
      BY <2>1 DEF RInv, NoCircles, NoCircleBeside, Maximal, SuccsOf, KeepsReducible, LimitTellsReducible
  <1> QED
    BY <1>1, <1>2, StepsInLevel, EndSequenceReduces, GetNextDerivedGraphReduces DEF Next

(* The limit graph is a single vertex exactly for reducible functions, if  *)
(* no block branches to itself: loops that the intervals do not find have  *)
(* several entries.                                                        *)
THEOREM LimitReducible == Spec => []LimitTellsReducible
PROOF
  <1>1. RInv => LimitTellsReducible
    BY DEF RInv
  <1> QED
    BY <1>1, InitReduces, NextReduces, PTL DEF Spec

=============================================================================
