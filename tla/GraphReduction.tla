--------------------------- MODULE GraphReduction ---------------------------
(***************************************************************************)
(* The two passes with which ControlFlowAnalyzer::applyControlFlowAnalysis *)
(* reduces the control-flow graph before it structures it:                 *)
(* TrivialNodesEliminator::eliminateTrivialNodes removes the one-way       *)
(* blocks that hold no instruction, then                                   *)
(* CompoundConditionalStructurer::structureCompoundConditionals merges     *)
(* short-circuit conditions into one branch, in passes over a postorder    *)
(* computed at the start of each pass.                                     *)
(***************************************************************************)
EXTENDS ControlFlowGraph, BooleanConditions, GraphTraversal

CONSTANTS
  Charts,   \* flow charts: functions from 0 .. n-1 to basic blocks
  CaseOf    \* the value of the switch variable in each machine state

\* The flow chart of a function: block.succ are ids of its blocks, and what a
\* jump table names is one of them, or lies outside of the function.
IsFlowChart(chart) ==
  LET Blocks == DOMAIN chart
  IN  /\ IsFiniteSet(Blocks) /\ Blocks # {}
      /\ Blocks = 0 .. Cardinality(Blocks) - 1
      /\ \A i \in Blocks :
           /\ chart[i].succ \in Seq(Blocks)
           /\ chart[i].body \in BOOLEAN
           /\ chart[i].jump \in Jumps
           /\ chart[i].condition \in Condition
           /\ DOMAIN chart[i].cases \subseteq Range(chart[i].succ) \cup {NoBlock}
           /\ chart[i].defaultBlock \in Range(chart[i].succ) \cup {NoBlock}

ASSUME ChartsAssumption == \A chart \in Charts : IsFlowChart(chart)

VARIABLES
  size,       \* nodes->size()
  nodes,      \* the graph, a function on 0 .. size-1
  phase,      \* the statement control is at
  order,      \* the rest of the postorder the compound pass walks over
  merged,     \* ~structuringDone
  misrouted   \* history: has a step that can redirect a branch been taken?

vars == <<size, nodes, phase, order, merged, misrouted>>

\* "undefined": a dangling edge made updateGraph write outside its matrix
Phases == {"jumps", "trivial", "compound", "done", "undefined"}

Ids == 0 .. size - 1

\* The order of a set of ids.
Ascending(S) == [i \in 1 .. Cardinality(S) |-> CHOOSE x \in S : Cardinality({y \in S : y < x}) = i - 1]

OutEdges(b) ==
  CASE b.nodeType = "ONE_WAY_NODE" -> <<b.out["next"]>>
    [] b.nodeType = "TWO_WAY_NODE" -> <<b.out["true"], b.out["false"]>>
    [] OTHER -> Ascending(b.successorIDs)

\* CompoundConditionalStructurer::getPostOrder
GetPostOrder == PostOrder(size, [i \in Ids |-> OutEdges(nodes[i])])

\* controlFlowGraph->removeNode(removed), once the graph is g.
RemoveNode(g, removed) ==
  LET rest == WithoutNode(g, size, removed)
  IN  /\ size' = size - 1
      /\ IF IsClosed(rest)
         THEN nodes' = UpdateNodesPredecessors(rest) /\ phase' = phase
         ELSE nodes' = rest /\ phase' = "undefined"

Init ==
  \E chart \in Charts :
    /\ size = Cardinality(DOMAIN chart)
    /\ nodes = BuildGraph(chart)
    /\ phase = "jumps"
    /\ order = <<>>
    /\ merged = FALSE
    /\ misrouted = FALSE

-----------------------------------------------------------------------------
(* TrivialNodesEliminator                                                  *)

RemoveDirectJumpInstructions ==
  /\ phase = "jumps"
  /\ nodes' = [i \in Ids |->
                 IF nodes[i].jump = "DIRECT_JUMP" THEN [nodes[i] EXCEPT !.jump = "none"]
                                                  ELSE nodes[i]]
  /\ phase' = "trivial"
  /\ UNCHANGED <<size, order, merged, misrouted>>

EmptyOneWayNodes ==
  {i \in Ids : IsEmpty(nodes[i]) /\ nodes[i].nodeType = "ONE_WAY_NODE" /\ nodes[i].id # 0}

\* Faulty variant: the true edge of a branch is forgotten.
RedirectFalseEdgeOnly(p, e, next) ==
  CASE p.nodeType = "TWO_WAY_NODE" /\ p.out["false"] = e -> [p EXCEPT !.out["false"] = next]
    [] p.nodeType = "ONE_WAY_NODE" -> [p EXCEPT !.out["next"] = next]
    [] OTHER -> p

\* updateSuccessorsOfPredecessorNodes on one predecessor p of the empty
\* block e.  For a switch the two arms of the conditional are the wrong way
\* round: all its other edges are sent to e, which is about to go.
Redirect(p, e, next) ==
  LET SwitchEdge(x) == IF x # e THEN e ELSE next
  IN  CASE p.nodeType = "TWO_WAY_NODE" ->
             IF p.out["false"] = e THEN [p EXCEPT !.out["false"] = next]
             ELSE IF p.out["true"] = e THEN [p EXCEPT !.out["true"] = next]
             ELSE p
        [] p.nodeType = "ONE_WAY_NODE" -> [p EXCEPT !.out["next"] = next]
        [] p.nodeType = "N_WAY_NODE" ->
             [p EXCEPT !.successorIDs = {SwitchEdge(x) : x \in p.successorIDs},
                       !.cases = RenameKeys(p.cases, SwitchEdge),
                       !.defaultBlock = IF p.defaultBlock = e THEN next ELSE p.defaultBlock]
        [] OTHER -> p

UpdateSuccessorsOfPredecessorNodes(e) ==
  [i \in Ids |-> IF i \in nodes[e].predecessors
                 THEN Redirect(nodes[i], e, nodes[e].out["next"]) ELSE nodes[i]]

\* The removals after which a branch may lead elsewhere: a switch among the
\* predecessors, a branch both edges of which lead to e, and e its own
\* successor.
MisroutesPredecessors(e) ==
  \/ nodes[e].out["next"] = e
  \/ \E i \in nodes[e].predecessors :
       \/ nodes[i].nodeType = "N_WAY_NODE"
       \/ nodes[i].nodeType = "TWO_WAY_NODE" /\ nodes[i].out["true"] = nodes[i].out["false"]

EliminateTrivialNode(e) ==
  /\ phase = "trivial"
  /\ e \in EmptyOneWayNodes
  /\ \A i \in EmptyOneWayNodes : e <= i
  /\ RemoveNode(UpdateSuccessorsOfPredecessorNodes(e), nodes[e].id)
  /\ misrouted' = (misrouted \/ MisroutesPredecessors(e))
  /\ UNCHANGED <<order, merged>>

\* No empty one-way block is left: structureCompoundConditionals starts.
StartStructuring ==
  /\ phase = "trivial"
  /\ EmptyOneWayNodes = {}
  /\ phase' = "compound"
  /\ order' = GetPostOrder
  /\ UNCHANGED <<size, nodes, merged, misrouted>>

-----------------------------------------------------------------------------
(* CompoundConditionalStructurer                                           *)

\* s is a two-way block that holds its jump only and has one predecessor.
IsConditionOnly(s) ==
  /\ nodes[s].nodeType = "TWO_WAY_NODE"
  /\ ~ nodes[s].body
  /\ \E p \in nodes[s].predecessors : nodes[s].predecessors = {p}

OtherEdge(l) == IF l = "true" THEN "false" ELSE "true"

\* The branch of h labelled l leads to such a block, whose edge labelled m
\* leads to the other successor of h.
SharesSuccessor(h, l, m) ==
  /\ nodes[h].nodeType = "TWO_WAY_NODE"
  /\ IsConditionOnly(nodes[h].out[l])
  /\ nodes[h].out[OtherEdge(l)] = nodes[nodes[h].out[l]].out[m]

IsHeadOf_A_AND_B(h)     == SharesSuccessor(h, "true", "false")
IsHeadOf_NOT_A_OR_B(h)  == SharesSuccessor(h, "true", "true")
IsHeadOf_A_OR_B(h)      == SharesSuccessor(h, "false", "true")
IsHeadOf_NOT_A_AND_B(h) == SharesSuccessor(h, "false", "false")

IsHead(h) == \/ IsHeadOf_A_AND_B(h) \/ IsHeadOf_NOT_A_OR_B(h)
             \/ IsHeadOf_A_OR_B(h)  \/ IsHeadOf_NOT_A_AND_B(h)

\* The head gets a condition and edges, block s goes.
MergeInto(h, s, condition, yes, no) ==
  /\ RemoveNode([nodes EXCEPT ![h].condition = condition, ![h].out = TwoEdges(yes, no)],
                nodes[s].id)
  /\ order' = Tail(order)
  /\ merged' = TRUE

\* A block merged with itself, and the entry block merged into another one.
MisroutesMerge(h, s) == s = h \/ s = 0

Merge_A_AND_B(h) ==
  LET s == nodes[h].out["true"]
      A == nodes[h].condition
      B == nodes[s].condition
  IN  /\ IsHeadOf_A_AND_B(h)
      /\ MergeInto(h, s,
                   AssignUnlessNull(CompoundCondition_AND(A, B), PushedInto_AND(A, B)),
                   nodes[s].out["true"], nodes[h].out["false"])
      /\ misrouted' = (misrouted \/ MisroutesMerge(h, s))

\* Faulty variant: the first condition is not negated.
Merge_A_OR_B_OnTrueEdge(h) ==
  LET s == nodes[h].out["true"]
      A == nodes[h].condition
      B == nodes[s].condition
  IN  /\ IsHeadOf_NOT_A_OR_B(h)
      /\ MergeInto(h, s,
                   AssignUnlessNull(CompoundCondition_OR(A, B), PushedInto_OR(A, B)),
                   nodes[s].out["true"], nodes[s].out["false"])
      /\ misrouted' = (misrouted \/ MisroutesMerge(h, s) \/ A.kind = "AND_EXPRESSION")

\* The condition stays what getNegatedExpression made of A when the negation
\* of A already is an expression that B can be pushed into.
Merge_NOT_A_OR_B(h) ==
  LET s == nodes[h].out["true"]
      A == nodes[h].condition
      B == nodes[s].condition
  IN  /\ IsHeadOf_NOT_A_OR_B(h)
      /\ MergeInto(h, s,
                   AssignUnlessNull(CompoundCondition_OR(Negated(A), B), AfterNegation(A)),
                   nodes[s].out["true"], nodes[s].out["false"])
      /\ misrouted' = (misrouted \/ MisroutesMerge(h, s) \/ A.kind = "AND_EXPRESSION")

Merge_A_OR_B(h) ==
  LET s == nodes[h].out["false"]
      A == nodes[h].condition
      B == nodes[s].condition
  IN  /\ IsHeadOf_A_OR_B(h)
      /\ MergeInto(h, s,
                   AssignUnlessNull(CompoundCondition_OR(A, B), PushedInto_OR(A, B)),
                   nodes[h].out["true"], nodes[s].out["false"])
      /\ misrouted' = (misrouted \/ MisroutesMerge(h, s))

Merge_NOT_A_AND_B(h) ==
  LET s == nodes[h].out["false"]
      A == nodes[h].condition
      B == nodes[s].condition
  IN  /\ IsHeadOf_NOT_A_AND_B(h)
      /\ MergeInto(h, s,
                   AssignUnlessNull(CompoundCondition_AND(Negated(A), B), AfterNegation(A)),
                   nodes[s].out["true"], nodes[s].out["false"])
      /\ misrouted' = (misrouted \/ MisroutesMerge(h, s) \/ A.kind = "OR_EXPRESSION")

\* The patterns are tried in this order on the block that has the id now; the
\* order was computed before the ids above a merged block moved down.
Structure(h) ==
  \/ Merge_A_AND_B(h)
  \/ ~ IsHeadOf_A_AND_B(h) /\ Merge_NOT_A_OR_B(h)
  \/ ~ IsHeadOf_A_AND_B(h) /\ ~ IsHeadOf_NOT_A_OR_B(h) /\ Merge_A_OR_B(h)
  \/ /\ ~ (IsHeadOf_A_AND_B(h) \/ IsHeadOf_NOT_A_OR_B(h) \/ IsHeadOf_A_OR_B(h))
     /\ Merge_NOT_A_AND_B(h)

StructureNextBlock ==
  /\ phase = "compound"
  /\ order # <<>>
  /\ Head(order) \in Ids
  /\ Structure(Head(order))

\* *post_it is not below nodes->size() any more, or heads no pattern.
SkipNextBlock ==
  /\ phase = "compound"
  /\ order # <<>>
  /\ Head(order) \in Ids => ~ IsHead(Head(order))
  /\ order' = Tail(order)
  /\ UNCHANGED <<size, nodes, phase, merged, misrouted>>

\* Faulty variant: structuringDone is set before the loop only.
StartNextPassForever ==
  /\ phase = "compound"
  /\ order = <<>>
  /\ merged
  /\ order' = GetPostOrder
  /\ UNCHANGED <<size, nodes, phase, merged, misrouted>>

StartNextPass ==
  /\ phase = "compound"
  /\ order = <<>>
  /\ merged
  /\ merged' = FALSE
  /\ order' = GetPostOrder
  /\ UNCHANGED <<size, nodes, phase, misrouted>>

\* Faulty variant: one pass only.
FinishAfterOnePass ==
  /\ phase = "compound"
  /\ order = <<>>
  /\ phase' = "done"
  /\ UNCHANGED <<size, nodes, order, merged, misrouted>>

FinishStructuring ==
  /\ phase = "compound"
  /\ order = <<>>
  /\ ~ merged
  /\ phase' = "done"
  /\ UNCHANGED <<size, nodes, order, merged, misrouted>>

-----------------------------------------------------------------------------

Next ==
  \/ RemoveDirectJumpInstructions
  \/ \E e \in Ids : EliminateTrivialNode(e)
  \/ StartStructuring
  \/ StructureNextBlock
  \/ SkipNextBlock
  \/ StartNextPass
  \/ FinishStructuring

Spec == Init /\ [][Next]_vars

\* The analysis is one thread that runs until it returns.
FairSpec == Spec /\ WF_vars(Next)

-----------------------------------------------------------------------------
(* Properties                                                              *)

EdgeLabels ==
  [t \in {"Exit_NODE", "ONE_WAY_NODE", "TWO_WAY_NODE", "N_WAY_NODE"} |->
     CASE t = "ONE_WAY_NODE" -> {"next"}
       [] t = "TWO_WAY_NODE" -> {"true", "false"}
       [] OTHER -> {}]

BlockTypeOK(b) ==
  /\ {b.id, b.containing, b.startEA} \subseteq Nat
  /\ b.nodeType \in DOMAIN EdgeLabels
  /\ b.body \in BOOLEAN
  /\ b.jump \in Jumps
  /\ b.condition \in Condition
  /\ b.out \in [EdgeLabels[b.nodeType] -> Nat]
  /\ b.successorIDs \subseteq (IF b.nodeType = "N_WAY_NODE" THEN Nat ELSE {})
  /\ DOMAIN b.cases \subseteq Nat \cup {NoBlock}
  /\ b.defaultBlock \in Nat \cup {NoBlock}
  /\ b.predecessors \subseteq Nat

\* Every variable has its type, and a block has the edges of its node type.
TypeOK ==
  /\ size \in Nat
  /\ DOMAIN nodes = Ids
  /\ \A i \in Ids : BlockTypeOK(nodes[i])
  /\ phase \in Phases
  /\ merged \in BOOLEAN
  /\ misrouted \in BOOLEAN

\* Between two steps the graph has no dangling edge, a block is stored under
\* its own id, its instructions know that id, and the cached predecessor
\* sets are the inverse of the successor sets: what removeNode has to
\* restore after it moved every id above the removed block.
GraphConsistent ==
  phase # "undefined" =>
    /\ IsClosed(nodes)
    /\ \A i \in Ids : nodes[i].id = i /\ nodes[i].containing = i
    /\ \A i, j \in Ids : j \in nodes[i].predecessors <=> i \in Successors(nodes[j])

\* As long as no step has been taken that can redirect a branch, updateGraph is
\* never reached with an edge to an id that no block has, so that
\* getNodeDistances stays within its matrix.  Only an edge to the last block
\* becomes one when the block is removed; an edge to another removed block is
\* shifted to its neighbour, which ReducesByContraction excludes.
StaysDefined == ~ misrouted => phase # "undefined"

\* When the analysis is over no pass could have gone on: no empty one-way
\* block and no head of a compound condition is left, although a pass walks
\* over ids computed before its own merges moved them.
NothingLeftToReduce ==
  phase = "done" => EmptyOneWayNodes = {} /\ \A h \in Ids : ~ IsHead(h)

\* Both loops end: eliminateTrivialNodes runs until there is no empty block,
\* structureCompoundConditionals until a pass merges nothing.
Terminates == <>(phase \in {"done", "undefined"})

-----------------------------------------------------------------------------
(* The reduction implements BlockContraction.                              *)

\* The blocks that b continues in when it ends in machine state v.
Continues(b, v) ==
  CASE b.nodeType = "ONE_WAY_NODE" -> {b.out["next"]}
    [] b.nodeType = "TWO_WAY_NODE" ->
         {IF v \in b.condition.holds THEN b.out["true"] ELSE b.out["false"]}
    [] b.nodeType = "N_WAY_NODE" /\ b.jump = "INDIRECT_TABLE_JUMP" ->
         LET hits == {x \in DOMAIN b.cases : CaseOf[v] \in b.cases[x]}
         IN  (IF hits = {} THEN {b.defaultBlock} ELSE hits) \ {NoBlock}
    [] OTHER -> b.successorIDs

FlowOf(i, v) ==
  {<<nodes[i].startEA, v, nodes[j].startEA>> : j \in Continues(nodes[i], v)}

Blocks == {nodes[i].startEA : i \in Ids}
SilentBlocks == {nodes[i].startEA : i \in {j \in Ids : ~ nodes[j].body}}
EntryBlock == nodes[0].startEA
Flow == UNION {FlowOf(i, v) : i \in Ids, v \in Env}

Contraction ==
  INSTANCE BlockContraction WITH
    blocks <- Blocks, silent <- SilentBlocks, entry <- EntryBlock, flow <- Flow

\* As long as no step has been taken that can redirect a branch, every step
\* contracts one silent block and changes no branch of another block: in
\* every machine state each remaining block continues in the block that the
\* original program reaches from it, and the entry stays the entry.
ReducesByContraction ==
  /\ Contraction!Init
  /\ [][~ misrouted' => Contraction!Next \/ UNCHANGED Contraction!vars]_vars

=============================================================================
