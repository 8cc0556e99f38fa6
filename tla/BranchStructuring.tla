------------------------- MODULE BranchStructuring -------------------------
(***************************************************************************)
(* The passes of ControlFlowAnalyzer::applyControlFlowAnalysis that follow *)
(* the reduction of the graph, in their order: NWayStructurer gives every  *)
(* switch a follow block, LoopStructurer finds the loops, and              *)
(* ConditionalStructurer gives a follow block to the branches that are not *)
(* the test of a loop.                                                     *)
(***************************************************************************)
EXTENDS LoopStructuring

VARIABLES
  pass,          \* "switches", "loops", "conditionals", "in loops", "done" or "overflow"
  turn,          \* number of blocks the pass has visited, in postorder
  switches,      \* graphStructeringInfo->switches: header -> follow block
  conditionals,  \* graphStructeringInfo->conditionals: header -> follow, type
  unresolved     \* unresolvedNodesIds

branchVars == <<pass, turn, switches, conditionals, unresolved>>
structureVars == <<allVars, branchVars>>

ConditionalTypes == {"UNKNOWN_CONDITIONAL", "IF_THEN", "IF_THEN_ELSE"}

StructureInit ==
  /\ LoopInit
  /\ pass = "switches"
  /\ turn = 0
  /\ switches = [h \in {} |-> NoNode]
  /\ conditionals = [h \in {} |-> [follow |-> NoNode, type |-> "IF_THEN"]]
  /\ unresolved = {}

-----------------------------------------------------------------------------
(* NWayStructurer                                                          *)

VisitOrder == PostOrder(cfg.size, cfg.out)

NumberOfPreds(v) == Cardinality(Preds(cfg, v))

Joins(h) == {v \in ImmediatelyDominated(cfg, h) : NumberOfPreds(v) >= 2}

\* The join with most predecessors, the last one of several.
MainJoin(h) ==
  CHOOSE v \in Joins(h) :
    \A w \in Joins(h) : \/ NumberOfPreds(w) < NumberOfPreds(v)
                        \/ NumberOfPreds(w) = NumberOfPreds(v) /\ w <= v

\* Faulty variant: one of several predecessors will do.
GoesUpAnyway(h) == Joins(h) = {} /\ NumberOfPreds(h) >= 1

\* findFollowNodeId goes on with the predecessor of a block without a join.
GoesUp(h) == Joins(h) = {} /\ NumberOfPreds(h) = 1

Ancestor(h) ==
  LET Up[k \in 0 .. cfg.size] ==
        IF k = 0 THEN h
        ELSE LET x == Up[k - 1]
             IN  IF GoesUp(x) THEN CHOOSE p \in Preds(cfg, x) : TRUE ELSE x
  IN  Up[cfg.size]

NWayFollow(h) ==
  LET a == Ancestor(h)
  IN  IF Joins(a) = {} THEN NoNode ELSE MainJoin(a)

IsNWay(v) == cfg.nodeType[v] = "N_WAY_NODE"

VisitSwitch ==
  LET v == VisitOrder[turn + 1]
  IN  /\ pass = "switches"
      /\ turn < cfg.size
      /\ IsNWay(v)
      /\ ~ GoesUp(Ancestor(v))
      /\ switches' = [h \in DOMAIN switches \cup {v} |-> IF h = v THEN NWayFollow(v) ELSE switches[h]]
      /\ turn' = turn + 1
      /\ UNCHANGED <<allVars, pass, conditionals, unresolved>>

VisitOtherBlock ==
  /\ pass = "switches"
  /\ turn < cfg.size
  /\ ~ IsNWay(VisitOrder[turn + 1])
  /\ turn' = turn + 1
  /\ UNCHANGED <<allVars, pass, switches, conditionals, unresolved>>

\* The predecessors form a circle: the recursion has no end.
Overflow ==
  /\ pass = "switches"
  /\ turn < cfg.size
  /\ IsNWay(VisitOrder[turn + 1])
  /\ GoesUp(Ancestor(VisitOrder[turn + 1]))
  /\ pass' = "overflow"
  /\ UNCHANGED <<allVars, turn, switches, conditionals, unresolved>>

EndSwitches ==
  /\ pass = "switches"
  /\ turn = cfg.size
  /\ pass' = "loops"
  /\ UNCHANGED <<allVars, turn, switches, conditionals, unresolved>>

StructureLoops ==
  /\ pass = "loops"
  /\ LoopNext
  /\ UNCHANGED branchVars

EndLoops ==
  /\ pass = "loops"
  /\ Finished
  /\ pass' = "conditionals"
  /\ turn' = 0
  /\ UNCHANGED <<allVars, switches, conditionals, unresolved>>

-----------------------------------------------------------------------------
(* ConditionalStructurer                                                   *)

\* Faulty variant: a latching block is not excluded.
HeadsAnyLoop(v) == \E h \in DOMAIN loops : loops[h].type = "PRE_TESTED" /\ h = v

\* isHeaderNodeOfPretestedLoop, isLatchingNodeOfPosttestedLoop
TestsLoop(v) ==
  \E h \in DOMAIN loops :
    \/ loops[h].type = "PRE_TESTED" /\ h = v
    \/ loops[h].type = "POST_TESTED" /\ loops[h].latching = v

InDegree(v) == Cardinality({e \in Vertices(cfg) \X (1 .. cfg.size) :
                              e[2] \in DOMAIN cfg.out[e[1]] /\ cfg.out[e[1]][e[2]] = v})

\* getImmediatelyDominatedNodeWithMaxReversePostorder takes the least.
ConditionalFollow(v) ==
  FirstInReversePostorder({w \in ImmediatelyDominated(cfg, v) : InDegree(w) >= 2})

ConditionalType(h, follow) ==
  IF follow \in Succs(cfg, h) THEN "IF_THEN" ELSE "IF_THEN_ELSE"

\* An unresolved branch takes over the follow block of the next resolved one,
\* if its own id is smaller.
Inherited(u, follow) ==
  IF u >= follow THEN [follow |-> NoNode, type |-> "IF_THEN_ELSE"]
  ELSE [follow |-> follow, type |-> ConditionalType(u, follow)]

\* Faulty variant: branches without a follow block are dropped.
InsertResolved(new) ==
  [h \in DOMAIN conditionals \cup {x \in DOMAIN new : new[x].follow # NoNode} |->
     IF h \in DOMAIN conditionals THEN conditionals[h] ELSE new[h]]

\* map::insert, for several headers: the first entry of a header stays.
InsertConditionals(new) ==
  [h \in DOMAIN conditionals \cup DOMAIN new |->
     IF h \in DOMAIN conditionals THEN conditionals[h] ELSE new[h]]

IsConditional(v) == IsTwoWay(v) /\ ~ TestsLoop(v)

VisitConditional ==
  LET v == VisitOrder[turn + 1]
      follow == ConditionalFollow(v)
  IN  /\ pass = "conditionals"
      /\ turn < cfg.size
      /\ IsConditional(v)
      /\ IF follow = NoNode
         THEN /\ unresolved' = unresolved \cup {v}
              /\ UNCHANGED conditionals
         ELSE /\ conditionals' = InsertConditionals(
                   [h \in unresolved \cup {v} |->
                      IF h = v THEN [follow |-> follow, type |-> ConditionalType(v, follow)]
                      ELSE Inherited(h, follow)])
              /\ unresolved' = {}
      /\ turn' = turn + 1
      /\ UNCHANGED <<allVars, pass, switches>>

PassBlock ==
  /\ pass = "conditionals"
  /\ turn < cfg.size
  /\ ~ IsConditional(VisitOrder[turn + 1])
  /\ turn' = turn + 1
  /\ UNCHANGED <<allVars, pass, switches, conditionals, unresolved>>

EndConditionals ==
  /\ pass = "conditionals"
  /\ turn = cfg.size
  /\ pass' = "in loops"
  /\ UNCHANGED <<allVars, turn, switches, conditionals, unresolved>>

\* The paths from s to t that Dijkstra's algorithm may find when all edges
\* have weight 0: no block of a path has an edge to a later one but the next.
\* Empty if t cannot be reached.
SearchPaths(s, t) ==
  LET Extend(p) == {Append(p, w) : w \in {x \in Succs(cfg, p[Len(p)]) :
                                            \A i \in 1 .. Len(p) : p[i] # x /\ (i < Len(p) => x \notin Succs(cfg, p[i]))}}
      Paths[k \in 1 .. cfg.size] ==
        IF k = 1 THEN {<<s>>} ELSE UNION {Extend(p) : p \in Paths[k - 1]}
  IN  {p \in UNION {Paths[k] : k \in 1 .. cfg.size} : p[Len(p)] = t}

\* getCommonNodeId: the first block of one path that is on the other.
CommonNode(p, q) ==
  LET common == {i \in DOMAIN p : p[i] \in Range(q)}
  IN  IF common = {} THEN NoNode ELSE p[CHOOSE i \in common : \A j \in common : i <= j]

\* The loops that hold block u, and to whose header both successors lead.
ReturningLoops(u) ==
  {h \in DOMAIN loops :
     /\ u \in loops[h].nodes
     /\ \A i \in DOMAIN cfg.out[u] : SearchPaths(cfg.out[u][i], h) # {}}

FollowsInLoop(u, h) ==
  {CommonNode(p, q) : p \in SearchPaths(cfg.out[u][1], h), q \in SearchPaths(cfg.out[u][2], h)}

\* handleUnresolvedConditionalsInLoops, for the next block that is resolved
\* in this way; the first loop counts.
ResolveInLoop(u) ==
  /\ pass = "in loops"
  /\ u \in unresolved
  /\ \A x \in unresolved : ReturningLoops(x) # {} => u <= x
  /\ \E h \in ReturningLoops(u) :
       /\ \A k \in ReturningLoops(u) : h <= k
       /\ \E follow \in FollowsInLoop(u, h) :
            conditionals' = InsertConditionals(
              [x \in {u} |-> [follow |-> follow,
                              type |-> IF follow = NoNode THEN "IF_THEN_ELSE" ELSE ConditionalType(u, follow)]])
  /\ unresolved' = unresolved \ {u}
  /\ UNCHANGED <<allVars, pass, turn, switches>>

\* The branches that are left.
EndUnresolved ==
  /\ pass = "in loops"
  /\ \A u \in unresolved : ReturningLoops(u) = {}
  /\ conditionals' = InsertConditionals([u \in unresolved |-> [follow |-> NoNode, type |-> "UNKNOWN_CONDITIONAL"]])
  /\ pass' = "done"
  /\ UNCHANGED <<allVars, turn, switches, unresolved>>

-----------------------------------------------------------------------------

StructureNext ==
  \/ VisitSwitch \/ VisitOtherBlock \/ Overflow \/ EndSwitches
  \/ StructureLoops \/ EndLoops
  \/ VisitConditional \/ PassBlock \/ EndConditionals
  \/ \E u \in unresolved : ResolveInLoop(u)
  \/ EndUnresolved

StructureSpec == StructureInit /\ [][StructureNext]_structureVars

-----------------------------------------------------------------------------
(* Properties                                                              *)

BranchTypeOK ==
  /\ pass \in {"switches", "loops", "conditionals", "in loops", "done", "overflow"}
  /\ turn \in 0 .. cfg.size
  /\ switches \in [DOMAIN switches -> Vertices(cfg) \cup {NoNode}]
  /\ \A h \in DOMAIN conditionals :
       /\ IsTwoWay(h)
       /\ conditionals[h].follow \in Vertices(cfg) \cup {NoNode}
       /\ conditionals[h].type \in ConditionalTypes
  /\ unresolved \subseteq Vertices(cfg)

\* findFollowNodeId climbs from a switch to its predecessor as long as there
\* is one: it comes to an end, unless control may return to the entry or a
\* block is not reached.
SwitchesTerminate == Proper(cfg) => pass # "overflow"

\* In the end each two-way branch is the test of a loop or a conditional, and
\* not both; writeCode drops the successors of a branch that is neither.
EveryBranchStructured ==
  pass = "done" =>
    \A v \in Vertices(cfg) : IsTwoWay(v) => (v \in DOMAIN conditionals <=> ~ TestsLoop(v))

=============================================================================
