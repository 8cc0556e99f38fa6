-------------------------- MODULE LoopStructuring --------------------------
(***************************************************************************)
(* LoopStructurer: structureLoops builds the sequence of derived graphs,   *)
(* then goes through the intervals of every level, and makes a loop of     *)
(* each interval whose header is the target of an edge that comes from     *)
(* inside.  A loop gets its blocks, a type and the block that follows it.  *)
(*                                                                         *)
(* A graph of the function has two more fields than the graphs of          *)
(* DerivedGraphs: out[v] lists the targets of the edges of block v in the  *)
(* order in which GraphConverter adds them, nodeType[v] is Node::nodeType. *)
(*                                                                         *)
(* The fields breakNodes and gotoNodeMap are left out: findExitNodes fills *)
(* them in after the loop was copied into the result.                      *)
(***************************************************************************)
EXTENDS DerivedGraphs, GraphTraversal

VARIABLES
  loops,     \* graphStructeringInfo->loops: header -> loop
  level,     \* index of the level structureLoops has got to
  looked     \* headers of that level whose intervals it has looked at

loopVars == <<loops, level, looked>>
allVars == <<vars, loopVars>>

NodeTypes == {"Exit_NODE", "ONE_WAY_NODE", "TWO_WAY_NODE", "N_WAY_NODE"}
LoopTypes == {"PRE_TESTED", "POST_TESTED", "ENDLESS"}

\* How many edges GraphConverter gives the blocks of a type.
NumberOfEdges == [Exit_NODE |-> {0}, ONE_WAY_NODE |-> {1}, TWO_WAY_NODE |-> {2}, N_WAY_NODE |-> Nat]

ASSUME BlocksAssumption ==
  \A g \in FlowGraphs :
    /\ g.out \in [Vertices(g) -> Seq(Vertices(g))]
    /\ \A v \in Vertices(g) : Len(g.out[v]) \in NumberOfEdges[g.nodeType[v]]
    /\ g.edges = {e \in Vertices(g) \X Vertices(g) : \E i \in DOMAIN g.out[e[1]] : g.out[e[1]][i] = e[2]}
    /\ g.nodeType \in [Vertices(g) -> NodeTypes]

LoopInit ==
  /\ Init
  /\ loops = [h \in {} |-> {}]
  /\ level = 1
  /\ looked = {}

-----------------------------------------------------------------------------
(* The blocks of a loop                                                    *)

\* getBackEdgeNode returns the first of these in the list of in-edges, whose
\* order depends on the order in which a derived graph got its edges.
BackEdgeNodes(item, h) == Preds(item.graph, h) \cap item.intervals[h]

\* Faulty variant: vertices of the level are taken for blocks.
PairOfVertices(item, h, l) == {p \in {h} \X {l} : <<p[2], p[1]>> \in cfg.edges}

\* getOriginalHeaderLatchingNodes: header and latching block, in the order in
\* which the code tries them.
OriginalPairs(item, h, l) ==
  {p \in item.originals[h] \X item.originals[l] : <<p[2], p[1]>> \in cfg.edges}

Precedes(p, q) == p[1] < q[1] \/ (p[1] = q[1] /\ p[2] <= q[2])

FirstPair(pairs) == CHOOSE p \in pairs : \A q \in pairs : Precedes(p, q)

\* The blocks of region from which a path inside region leads to block t.
ReachIn(region, t) ==
  LET Within[k \in 0 .. Cardinality(region)] ==
        IF k = 0 THEN {t}
        ELSE LET S == Within[k - 1] IN S \cup {u \in region : Succs(cfg, u) \cap S # {}}
  IN  Within[Cardinality(region)]

IntervalOriginalNodes(item, h) == UNION {item.originals[v] : v \in item.intervals[h]}

\* getPathVertices runs Dijkstra's algorithm with weight 0 on all edges: it
\* finds a path without a shortcut, the heap decides which one.  Such a path
\* to the header goes through the latching block if it does not touch another
\* predecessor of the header before ...
MayPassLatching(region, h, l) ==
  ReachIn((region \ (Preds(cfg, h) \cup {h})) \cup {l}, l)

\* ... and it may avoid the latching block if some path does.
MayAvoidLatching(region, h, l) == ReachIn(region \ {l}, h)

\* Faulty variant: all blocks of the interval are in the loop.
WholeInterval(item, h, l, region) == {region \cup {h, l}}

\* getLoopNodes
LoopNodesChoices(item, h, l, region) ==
  LET may == IF h = l THEN ReachIn(region, h) ELSE MayPassLatching(region, h, l)
      must == IF h = l THEN may ELSE may \ MayAvoidLatching(region, h, l)
  IN  {{h, l} \cup must \cup S : S \in SUBSET ((may \cap region) \ must)}

-----------------------------------------------------------------------------
(* Type and follow block of a loop                                         *)

HasSuccessorOutside(v, nodes) == Succs(cfg, v) \ nodes # {}

IsTwoWay(v) == cfg.nodeType[v] = "TWO_WAY_NODE"

\* getLoopType, getOneNodeLoopType
LoopType(h, l, nodes) ==
  CASE h = l -> IF HasSuccessorOutside(h, nodes) THEN "POST_TESTED" ELSE "ENDLESS"
    [] h # l /\ IsTwoWay(l) /\ IsTwoWay(h) ->
         IF HasSuccessorOutside(l, nodes) THEN "POST_TESTED" ELSE "PRE_TESTED"
    [] h # l /\ IsTwoWay(l) /\ ~ IsTwoWay(h) -> "POST_TESTED"
    [] h # l /\ ~ IsTwoWay(l) /\ IsTwoWay(h) ->
         IF HasSuccessorOutside(h, nodes) THEN "PRE_TESTED" ELSE "ENDLESS"
    [] h # l /\ ~ IsTwoWay(l) /\ ~ IsTwoWay(h) -> "ENDLESS"

NoNode == -1

\* The first successor outside the loop, or else the last successor.
FindSuccessorNotInSet(v, nodes) ==
  LET out == cfg.out[v]
      outside == {i \in DOMAIN out : out[i] \notin nodes}
  IN  IF out = <<>> THEN NoNode
      ELSE IF outside = {} THEN out[Len(out)]
      ELSE out[CHOOSE i \in outside : \A j \in outside : i <= j]

\* getReversePostorder
ReversePostorder(g) == Reverse(PostOrder(g.size, g.out))

FirstInReversePostorder(S) ==
  LET order == ReversePostorder(cfg)
  IN  IF S = {} THEN NoNode
      ELSE order[CHOOSE i \in DOMAIN order : order[i] \in S /\ \A j \in DOMAIN order : order[j] \in S => i <= j]

\* Faulty variant: only switches have several edges.
ExitTargetsOfSwitches(nodes) ==
  UNION {Succs(cfg, v) \ nodes : v \in {u \in nodes : Len(cfg.out[u]) > 2}}

\* The successors outside the loop of the blocks with several edges.
ExitTargets(nodes) ==
  UNION {Succs(cfg, v) \ nodes : v \in {u \in nodes : Len(cfg.out[u]) >= 2}}

\* findFollowNodeId
FollowNode(type, h, l, nodes) ==
  CASE type = "PRE_TESTED"  -> FindSuccessorNotInSet(h, nodes)
    [] type = "POST_TESTED" -> FindSuccessorNotInSet(l, nodes)
    [] type = "ENDLESS"     -> FirstInReversePostorder(ExitTargets(nodes))

MakeLoop(h, l, nodes) ==
  LET type == LoopType(h, l, nodes)
  IN  [header |-> h, latching |-> l, nodes |-> nodes, type |-> type,
       follow |-> FollowNode(type, h, l, nodes)]

-----------------------------------------------------------------------------
(* structureLoops                                                          *)

\* map::insert: the first loop of a header stays.
InsertLoop(loop) ==
  [h \in DOMAIN loops \cup {loop.header} |->
     IF h \in DOMAIN loops THEN loops[h] ELSE loop]

\* The headers of the level in the order of the map.
IsNextHeader(h) ==
  /\ phase = "done"
  /\ level <= Len(sequence)
  /\ h \in DOMAIN sequence[level].intervals \ looked
  /\ \A k \in DOMAIN sequence[level].intervals \ looked : h <= k

StructureLoop(h) ==
  LET item == sequence[level]
  IN  /\ IsNextHeader(h)
      /\ \E latchingNode \in BackEdgeNodes(item, h) :
           LET pairs == OriginalPairs(item, h, latchingNode)
               pair == FirstPair(pairs)
           IN  /\ pairs # {}
               /\ \E nodes \in LoopNodesChoices(item, pair[1], pair[2], IntervalOriginalNodes(item, h)) :
                    loops' = InsertLoop(MakeLoop(pair[1], pair[2], nodes))
      /\ looked' = looked \cup {h}
      /\ UNCHANGED <<vars, level>>

PassInterval(h) ==
  LET item == sequence[level]
  IN  /\ IsNextHeader(h)
      /\ \/ BackEdgeNodes(item, h) = {}
         \/ \E latchingNode \in BackEdgeNodes(item, h) : OriginalPairs(item, h, latchingNode) = {}
      /\ looked' = looked \cup {h}
      /\ UNCHANGED <<vars, loops, level>>

NextLevel ==
  /\ phase = "done"
  /\ level <= Len(sequence)
  /\ looked = DOMAIN sequence[level].intervals
  /\ level' = level + 1
  /\ looked' = {}
  /\ UNCHANGED <<vars, loops>>

-----------------------------------------------------------------------------

LoopNext ==
  \/ Next /\ UNCHANGED loopVars
  \/ \E h \in Vertices(cfg) : StructureLoop(h) \/ PassInterval(h)
  \/ NextLevel

LoopSpec == LoopInit /\ [][LoopNext]_allVars

Finished == phase = "done" /\ level > Len(sequence)

-----------------------------------------------------------------------------
(* Properties                                                              *)

\* The blocks of every loop are blocks of the function, header and latching
\* block among them, and the follow block is one or missing.
LoopTypeOK ==
  /\ DOMAIN loops \subseteq Vertices(cfg)
  /\ \A h \in DOMAIN loops :
       /\ loops[h].header = h
       /\ {h, loops[h].latching} \subseteq loops[h].nodes
       /\ loops[h].nodes \subseteq Vertices(cfg)
       /\ loops[h].type \in LoopTypes
       /\ loops[h].follow \in Vertices(cfg) \cup {NoNode}
  /\ level \in 1 .. MaxLevels + 1
  /\ looked \subseteq Vertices(cfg)

\* Every block is reached, and no branch leads back to the entry.
Proper(g) == EntryNotTarget(g) /\ AllReachable(g)

\* The sources of the edges that lead back to a dominator.
LatchingBlocks(g, h) == {u \in Preds(g, h) : Dominates(g, h, u)}

\* The natural loop of header h.
NaturalLoop(h) ==
  {h} \cup UNION {ReachIn(Vertices(cfg) \ {h}, u) : u \in LatchingBlocks(cfg, h) \ {h}}

\* With one latching block, a loop is the natural loop of its back edge: each
\* block from which control returns to the header, however many loops are
\* nested in it and on whatever level of the sequence it was found.  With
\* several latching blocks some may be missing, but none is in excess.
NaturalLoops ==
  Proper(cfg) => \A h \in DOMAIN loops :
    /\ loops[h].nodes \subseteq NaturalLoop(h)
    /\ Cardinality(LatchingBlocks(cfg, h)) = 1 => loops[h].nodes = NaturalLoop(h)

\* Every loop of a reducible function is found, if no block branches to itself.
AllLoopsFound ==
  Finished /\ Proper(cfg) /\ Reducible(cfg) /\ NoSelfLoops(cfg) =>
    {h \in Vertices(cfg) : LatchingBlocks(cfg, h) # {}} = DOMAIN loops

\* A loop whose latching block is not in a loop nested inside it, and does not
\* branch to the header on both of its edges.
EndsAtLatching(h) ==
  /\ Cardinality(LatchingBlocks(cfg, h)) = 1
  /\ IsTwoWay(loops[h].latching) => Succs(cfg, loops[h].latching) # {h}
  /\ \A k \in loops[h].nodes \ {h} :
       LatchingBlocks(cfg, k) # {} => loops[h].latching \notin NaturalLoop(k)

\* Control leaves a tested loop by the test it was given, to the follow block,
\* and only a loop that is never left has none.  (If the latching block belongs
\* to a nested loop, its two successors can both be in the outer loop, which is
\* taken for tested all the same; so it is if both are the header.)
ExitsFollowed ==
  Proper(cfg) => \A h \in DOMAIN loops :
    LET loop == loops[h]
        tested == IF loop.type = "PRE_TESTED" THEN h ELSE loop.latching
    IN  /\ Reducible(cfg) /\ EndsAtLatching(h) =>
             loop.follow \in (IF loop.type = "ENDLESS" THEN Vertices(cfg) \cup {NoNode} ELSE Succs(cfg, tested)) \ loop.nodes
        /\ Cardinality(LatchingBlocks(cfg, h)) = 1 /\ loop.follow = NoNode =>
             \A v \in loop.nodes : Succs(cfg, v) \subseteq loop.nodes

=============================================================================
