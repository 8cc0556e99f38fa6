--------------------------- MODULE DerivedGraphs ---------------------------
(***************************************************************************)
(* The sequence of derived graphs from which LoopStructurer reads the      *)
(* loops of a function (ControlFlowAnalysis/DerivedGraphSequence).         *)
(* constructIntervals divides a graph into intervals, single-entry regions *)
(* grown from a header; getNextDerivedGraph makes one vertex of every      *)
(* interval.  The sequence ends with the limit graph, in which every       *)
(* interval is one vertex.                                                 *)
(*                                                                         *)
(* The insertion order of the edges of a graph makes no difference here,   *)
(* parallel edges neither.                                                 *)
(***************************************************************************)
EXTENDS Dominance, Sequences

CONSTANTS
  FlowGraphs,   \* control-flow graphs, as GraphConverter builds them
  MaxLevels     \* bound: levels of a sequence that may have no end

ASSUME FlowGraphsAssumption == \A g \in FlowGraphs : IsGraph(g)

VARIABLES
  cfg,         \* the graph of the function, level 0 of the sequence
  graph,       \* the graph of the current level
  originals,   \* originalNodesMap: the blocks of the function in each vertex
  sequence,    \* derivedGraphSequence: the levels that are complete
  intervals,   \* header -> vertices of its interval
  headers,     \* headers of the current turn of constructIntervals
  newHeaders,  \* headers found for the next turn
  header,      \* header of the interval that is being built
  interval,    \* its vertices so far
  phase        \* "intervals", "done", or "undefined"

vars == <<cfg, graph, originals, sequence, intervals, headers, newHeaders,
          header, interval, phase>>

NoHeader == -1

SuccsOf(S) == UNION {Succs(graph, v) : v \in S}

Init ==
  /\ cfg \in FlowGraphs
  /\ graph = cfg
  /\ originals = [v \in Vertices(cfg) |-> {v}]
  /\ sequence = <<>>
  /\ intervals = [h \in {} |-> {}]
  /\ headers = {}
  /\ newHeaders = {0}
  /\ header = NoHeader
  /\ interval = {}
  /\ phase = "intervals"

-----------------------------------------------------------------------------
(* constructIntervals                                                      *)

Unprocessed == headers \ DOMAIN intervals

TakeNewHeaders ==
  /\ phase = "intervals"
  /\ header = NoHeader
  /\ Unprocessed = {}
  /\ newHeaders # {}
  /\ headers' = headers \cup newHeaders
  /\ newHeaders' = {}
  /\ UNCHANGED <<cfg, graph, originals, sequence, intervals, header, interval, phase>>

OpenInterval(h) ==
  /\ phase = "intervals"
  /\ header = NoHeader
  /\ h \in Unprocessed
  /\ \A x \in Unprocessed : h <= x
  /\ header' = h
  /\ interval' = {h}
  /\ UNCHANGED <<cfg, graph, originals, sequence, intervals, headers, newHeaders, phase>>

\* Faulty variant: predecessors that are headers do not count.
SuccessorsBesideHeaders ==
  {w \in SuccsOf(interval) \ interval : Preds(graph, w) \subseteq interval \cup headers}

NodesToAdd == {w \in SuccsOf(interval) \ interval : Preds(graph, w) \subseteq interval}

\* addNodesToInterval returns true.
AddNodesToInterval ==
  /\ phase = "intervals"
  /\ header # NoHeader
  /\ NodesToAdd # {}
  /\ interval' = interval \cup NodesToAdd
  /\ UNCHANGED <<cfg, graph, originals, sequence, intervals, headers, newHeaders,
                 header, phase>>

GetNewHeaders == SuccsOf(interval) \ (interval \cup headers)

CloseInterval ==
  /\ phase = "intervals"
  /\ header # NoHeader
  /\ NodesToAdd = {}
  /\ intervals' = [h \in DOMAIN intervals \cup {header} |->
                     IF h = header THEN interval ELSE intervals[h]]
  /\ newHeaders' = newHeaders \cup GetNewHeaders
  /\ header' = NoHeader
  /\ interval' = {}
  /\ UNCHANGED <<cfg, graph, originals, sequence, headers, phase>>

-----------------------------------------------------------------------------
(* getNextDerivedGraph                                                     *)

\* Faulty variant: the sequence goes on until one interval is left.
IsSingleInterval == Cardinality(DOMAIN intervals) = 1

IsLimitGraph == \A h \in DOMAIN intervals : Cardinality(intervals[h]) <= 1

\* Faulty variant: the header itself.
VertexOfHeader(h) == h

\* boost::add_vertex, once for every interval in the order of the headers.
VertexOf(h) == Cardinality({x \in DOMAIN intervals : x < h})

HeadersOf(v) == {h \in DOMAIN intervals : v \in intervals[h]}

\* getCorrespondingIntervalHeader, for a vertex that is in some interval.
CorrespondingHeader(v) == CHOOSE h \in HeadersOf(v) : \A x \in HeadersOf(v) : h <= x

EntersFrom(h) == Preds(graph, h) \ intervals[h]
LeavesTo(h) == SuccsOf(intervals[h]) \ intervals[h]

\* The vertices whose interval getNextDerivedGraph asks for.
AskedFor == UNION {EntersFrom(h) \cup LeavesTo(h) : h \in DOMAIN intervals}

NextEdges ==
  UNION {{<<VertexOf(CorrespondingHeader(u)), VertexOf(h)>> : u \in EntersFrom(h)} \cup
         {<<VertexOf(h), VertexOf(CorrespondingHeader(w))>> : w \in LeavesTo(h)} :
           h \in DOMAIN intervals}

NextGraph == [size |-> Cardinality(DOMAIN intervals), edges |-> NextEdges]

\* Faulty variant: the blocks of the header only.
OriginalsOfHeader ==
  [k \in Vertices(NextGraph) |->
     UNION {originals[h] : h \in {x \in DOMAIN intervals : VertexOf(x) = k}}]

NextOriginals ==
  [k \in Vertices(NextGraph) |->
     UNION {UNION {originals[v] : v \in intervals[h]} :
              h \in {x \in DOMAIN intervals : VertexOf(x) = k}}]

LevelComplete ==
  /\ phase = "intervals"
  /\ header = NoHeader
  /\ Unprocessed = {}
  /\ newHeaders = {}

CompletedLevels ==
  Append(sequence, [graph |-> graph, intervals |-> intervals, originals |-> originals])

EndSequence ==
  /\ LevelComplete
  /\ IsLimitGraph
  /\ sequence' = CompletedLevels
  /\ phase' = "done"
  /\ UNCHANGED <<cfg, graph, originals, intervals, headers, newHeaders, header, interval>>

GetNextDerivedGraph ==
  /\ LevelComplete
  /\ ~ IsLimitGraph
  /\ Len(sequence) < MaxLevels
  /\ \A v \in AskedFor : HeadersOf(v) # {}
  /\ sequence' = CompletedLevels
  /\ graph' = NextGraph
  /\ originals' = NextOriginals
  /\ intervals' = [h \in {} |-> {}]
  /\ headers' = {}
  /\ newHeaders' = {0}
  /\ UNCHANGED <<cfg, header, interval, phase>>

\* A vertex in no interval: getCorrespondingIntervalHeader runs off its end
\* and returns whatever is there.
LoseInterval ==
  /\ LevelComplete
  /\ ~ IsLimitGraph
  /\ \E v \in AskedFor : HeadersOf(v) = {}
  /\ phase' = "undefined"
  /\ UNCHANGED <<cfg, graph, originals, sequence, intervals, headers, newHeaders,
                 header, interval>>

-----------------------------------------------------------------------------

Next ==
  \/ TakeNewHeaders
  \/ \E h \in headers : OpenInterval(h)
  \/ AddNodesToInterval
  \/ CloseInterval
  \/ EndSequence
  \/ GetNextDerivedGraph
  \/ LoseInterval

Spec == Init /\ [][Next]_vars

\* The analysis is one thread that runs until it returns.
FairSpec == Spec /\ WF_vars(Next)

-----------------------------------------------------------------------------
(* Properties                                                              *)

\* Graphs of every level are graphs, headers and intervals are made of their
\* vertices, and every vertex stands for blocks of the function.
TypeOK ==
  /\ IsGraph(cfg) /\ IsGraph(graph)
  /\ DOMAIN originals = Vertices(graph)
  /\ \A v \in Vertices(graph) : originals[v] \subseteq Vertices(cfg)
  /\ \A i \in DOMAIN sequence : IsGraph(sequence[i].graph)
  /\ DOMAIN intervals \subseteq Vertices(graph)
  /\ \A h \in DOMAIN intervals : intervals[h] \subseteq Vertices(graph)
  /\ headers \subseteq Vertices(graph)
  /\ newHeaders \subseteq Vertices(graph)
  /\ header \in Vertices(graph) \cup {NoHeader}
  /\ interval \subseteq Vertices(graph)
  /\ phase \in {"intervals", "done", "undefined"}

\* The intervals built so far, the open one included, have no vertex in
\* common, as long as the entry is not the target of a branch: a header is
\* never absorbed by an interval that grows later, and no vertex gets into
\* two intervals that grow towards each other.
IntervalsDisjoint ==
  EntryNotTarget(cfg) =>
    /\ \A h, k \in DOMAIN intervals :
         intervals[h] \cap intervals[k] # {} => h = k
    /\ \A h \in DOMAIN intervals : interval \cap intervals[h] = {}

\* Every vertex has an interval when a level is complete, so that
\* getCorrespondingIntervalHeader always finds one, if the blocks of the
\* function can all be reached from an entry that is no branch target.
LevelsDefined ==
  EntryNotTarget(cfg) /\ AllReachable(cfg) =>
    /\ phase # "undefined"
    /\ LevelComplete => UNION {intervals[h] : h \in DOMAIN intervals} = Vertices(graph)

\* Intervals are single-entry regions: control gets to a vertex of an
\* interval through its header only, as long as the entry is not the target
\* of a branch (it may then be drawn into the interval of a later header).
HeaderDominates ==
  EntryNotTarget(cfg) =>
    /\ \A h \in DOMAIN intervals : \A v \in intervals[h] : Dominates(graph, h, v)
    /\ \A v \in interval : Dominates(graph, header, v)

\* The graph of every level is the function's graph with blocks collapsed:
\* two vertices are connected exactly if a branch leads from a block of the
\* one to a block of the other, and every block is in one vertex.
CollapsesProgram ==
  EntryNotTarget(cfg) /\ AllReachable(cfg) =>
    /\ \A u, v \in Vertices(graph) : u # v =>
         /\ originals[u] \cap originals[v] = {}
         /\ <<u, v>> \in graph.edges <=> \E e \in cfg.edges : e[1] \in originals[u] /\ e[2] \in originals[v]
    /\ UNION {originals[v] : v \in Vertices(graph)} = Vertices(cfg)

\* A graph is reducible if no cycle is left without the edges that lead back
\* to a dominator of their source.
ForwardEdges(g) == {e \in g.edges : ~ Dominates(g, e[2], e[1])}

Acyclic(g, edges) ==
  \A S \in (SUBSET Vertices(g)) \ {{}} : \E v \in S : \A u \in S : <<u, v>> \notin edges

Reducible(g) == Acyclic(g, ForwardEdges(g))

\* No block branches to itself.
NoSelfLoops(g) == \A v \in Vertices(g) : <<v, v>> \notin g.edges

\* The limit graph is a single vertex exactly for the reducible functions,
\* those every loop of which has one entry: what makes the intervals of the
\* sequence find all loops.  A block that branches to itself is an interval
\* of its own; when all intervals are, the sequence ends before the edge
\* disappears, and outer loops are not looked at.
LimitTellsReducible ==
  EntryNotTarget(cfg) /\ AllReachable(cfg) /\ NoSelfLoops(cfg) /\ phase = "done" =>
    (graph.size = 1 <=> Reducible(cfg))

\* Each graph is smaller than the one it was derived from, which is what the
\* loop over the levels ends by, unless the entry is the target of a branch.
LevelsShrink ==
  [][EntryNotTarget(cfg) /\ sequence' # sequence /\ phase' = "intervals" =>
       graph'.size < graph.size]_vars

\* The sequence is finite, unless the entry is the target of a branch: an
\* interval that draws in the entry can leave the next graph as large as
\* this one, in functions that are reducible as well.
EndsInLimitGraph == EntryNotTarget(cfg) => <>(phase \in {"done", "undefined"})

-----------------------------------------------------------------------------
(* The instance for TLC: all graphs of up to four blocks with at most two  *)
(* successors each and at most one block without predecessors, which is    *)
(* what IRBuilder::hasMultipleHeaders lets through.                        *)

GraphsOf(n) ==
  LET Targets == {T \in SUBSET (0 .. n - 1) : Cardinality(T) <= 2}
      graphs == {[size |-> n, edges |-> {<<p[1], p[2]>> : p \in {q \in (0 .. n - 1) \X (0 .. n - 1) :
                                                                  q[2] \in succ[q[1]]}}] :
                   succ \in [0 .. n - 1 -> Targets]}
  IN  {g \in graphs : Cardinality({v \in Vertices(g) : Preds(g, v) = {}}) <= 1}

MCFlowGraphs == UNION {GraphsOf(n) : n \in 1 .. 4}

=============================================================================
