-------------------------- MODULE ControlFlowGraph --------------------------
(***************************************************************************)
(* The control-flow graph the phases of the decompiler share               *)
(* (IntermediateRepresentation/ControlFlowGraph.cpp and Node/).            *)
(*                                                                         *)
(* A graph is a function from the block ids 0 .. n-1 to blocks:            *)
(*   id            Node::id, the key under which the block should be       *)
(*   containing    ContainingNodeId of the block's instructions            *)
(*   startEA       start address; the id given by the flow chart names it  *)
(*   nodeType      ExitNode, OneWayNode, TwoWayNode or N_WayNode           *)
(*   body          has the block instructions before its last jump?        *)
(*   jump          the jump that ends the instruction list, or "none"      *)
(*   condition     the condition of a CONDITIONAL_JUMP                     *)
(*   out           successorID, or trueSuccessorID and falseSuccessorID    *)
(*   successorIDs  the successors of an N_WayNode                          *)
(*   cases         nodeToCasesMap of an INDIRECT_TABLE_JUMP                *)
(*   defaultBlock  defaultBlockId of an INDIRECT_TABLE_JUMP                *)
(*   predecessors  the predecessor ids cached in the block                 *)
(***************************************************************************)
EXTENDS Integers, Sequences, Functions

NoBlock == -1

Jumps == {"none", "DIRECT_JUMP", "CONDITIONAL_JUMP", "INDIRECT_JUMP", "INDIRECT_TABLE_JUMP"}

NoEdges == <<>>
OneEdge(next) == [l \in {"next"} |-> next]
TwoEdges(yes, no) == [l \in {"true", "false"} |-> IF l = "true" THEN yes ELSE no]

\* instructions->empty()
IsEmpty(b) == ~ b.body /\ b.jump = "none"

\* Node::getSuccessors
Successors(b) == Range(b.out) \cup b.successorIDs

-----------------------------------------------------------------------------
(* addNode, doneAddingNodes: the graph of a flow chart.                    *)

Node(nodeId, nodeType, out, successorIDs, block) ==
  [id |-> nodeId, containing |-> nodeId, startEA |-> nodeId,
   nodeType |-> nodeType, body |-> block.body, jump |-> block.jump,
   condition |-> block.condition, out |-> out, successorIDs |-> successorIDs,
   cases |-> block.cases, defaultBlock |-> block.defaultBlock,
   predecessors |-> {}]

\* block.succ lists the successors in the flow chart, block.target is the
\* target of the conditional jump.
AddNode(nodeId, block) ==
  LET succ == block.succ
  IN  CASE Len(succ) = 0 -> Node(nodeId, "Exit_NODE", NoEdges, {}, block)
        [] Len(succ) = 1 -> Node(nodeId, "ONE_WAY_NODE", OneEdge(succ[1]), {}, block)
        [] Len(succ) = 2 /\ block.jump = "CONDITIONAL_JUMP" ->
             Node(nodeId, "TWO_WAY_NODE",
                  IF block.target = succ[1] THEN TwoEdges(succ[1], succ[2])
                                            ELSE TwoEdges(succ[2], succ[1]),
                  {}, block)
        [] OTHER -> Node(nodeId, "N_WAY_NODE", NoEdges, Range(succ), block)

\* Every successor is the id of a block; otherwise nodes->at() throws, after
\* getNodeDistances has written beyond its matrix.
IsClosed(g) == \A i \in DOMAIN g : Successors(g[i]) \subseteq DOMAIN g

UpdateNodesPredecessors(g) ==
  [i \in DOMAIN g |->
     [g[i] EXCEPT !.predecessors = {g[j].id : j \in {k \in DOMAIN g : i \in Successors(g[k])}}]]

BuildGraph(chart) ==
  UpdateNodesPredecessors([i \in DOMAIN chart |-> AddNode(i, chart[i])])

-----------------------------------------------------------------------------
(* removeNode: the ids above the removed one move down by one, in the      *)
(* blocks, in their edges and in their jump tables.                        *)

\* Faulty variant: every id moves down.
ShiftEveryId(x, removed) == x - 1

ShiftId(x, removed) == IF x > removed THEN x - 1 ELSE x

\* A jump table whose keys are renamed: the entries are visited in the order
\* of their old keys, and the last one that gets a key keeps it.
RenameKeys(cases, NewKey(_)) ==
  [k \in {NewKey(x) : x \in DOMAIN cases} |->
     cases[CHOOSE x \in DOMAIN cases :
             NewKey(x) = k /\ \A y \in DOMAIN cases : NewKey(y) = k => y <= x]]

\* A jump table is looked at in an N_WayNode only.
UpdateNodeEdges(b, removed) ==
  LET Shift(x) == ShiftId(x, removed)
      moved == [b EXCEPT !.out = [l \in DOMAIN b.out |-> Shift(b.out[l])],
                         !.successorIDs = {Shift(x) : x \in b.successorIDs}]
  IN  IF b.nodeType = "N_WAY_NODE"
      THEN [moved EXCEPT !.cases = RenameKeys(b.cases, Shift),
                         !.defaultBlock = Shift(b.defaultBlock)]
      ELSE moved

\* Faulty variant: the instructions keep the old ContainingNodeId.
RenumberBlockOnly(b, removed) ==
  IF b.id > removed THEN [b EXCEPT !.id = b.id - 1] ELSE b

\* currentNode->id--, updateContiningNode
Renumber(b, removed) ==
  IF b.id > removed THEN [b EXCEPT !.id = b.id - 1, !.containing = b.id - 1] ELSE b

\* The id a block had before the block with id removed left.
FormerId(i, removed) == IF i < removed THEN i ELSE i + 1

\* removeNode up to updateGraph, on a graph of n blocks.
WithoutNode(g, n, removed) ==
  [i \in 0 .. n - 2 |->
     Renumber(UpdateNodeEdges(g[FormerId(i, removed)], removed), removed)]

=============================================================================
