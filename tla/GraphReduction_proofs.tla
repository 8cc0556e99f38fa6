------------------------ MODULE GraphReduction_proofs ------------------------
(***************************************************************************)
(* Proofs about GraphReduction, for every set of flow charts.              *)
(***************************************************************************)
EXTENDS GraphReduction, GraphTraversal_proofs

-----------------------------------------------------------------------------
(* Blocks                                                                  *)

\* A block is a record with the fields of ControlFlowGraph!Node.
IsRecord(b) ==
  b = [id |-> b.id, containing |-> b.containing, startEA |-> b.startEA,
       nodeType |-> b.nodeType, body |-> b.body, jump |-> b.jump,
       condition |-> b.condition, out |-> b.out, successorIDs |-> b.successorIDs,
       cases |-> b.cases, defaultBlock |-> b.defaultBlock,
       predecessors |-> b.predecessors]

IsBlock(b) == IsRecord(b) /\ BlockTypeOK(b)

\* A graph of n blocks, each stored under its own id.
IsGraph(g, n) ==
  /\ DOMAIN g = 0 .. n - 1
  /\ \A i \in 0 .. n - 1 : IsBlock(g[i]) /\ g[i].id = i /\ g[i].containing = i

\* What a block computes and how it ends is the same in a and b.
SameContents(a, b) ==
  /\ a.startEA = b.startEA /\ a.nodeType = b.nodeType /\ a.body = b.body
  /\ a.jump = b.jump /\ a.condition = b.condition

(* The labels of the edges of a block of each node type (Node/).           *)
LEMMA Labels ==
  /\ DOMAIN EdgeLabels = {"Exit_NODE", "ONE_WAY_NODE", "TWO_WAY_NODE", "N_WAY_NODE"}
  /\ EdgeLabels["Exit_NODE"] = {}
  /\ EdgeLabels["ONE_WAY_NODE"] = {"next"}
  /\ EdgeLabels["TWO_WAY_NODE"] = {"true", "false"}
  /\ EdgeLabels["N_WAY_NODE"] = {}
BY DEF EdgeLabels

(* updateNodeEdges keeps a block a block, moves each of its successors, and *)
(* changes neither its id nor what it holds.                                *)
LEMMA UpdateNodeEdgesType ==
  ASSUME NEW b, IsBlock(b), NEW removed \in Nat
  PROVE  LET u == UpdateNodeEdges(b, removed)
         IN  /\ IsBlock(u)
             /\ Successors(u) = {ShiftId(x, removed) : x \in Successors(b)}
             /\ u.id = b.id /\ u.containing = b.containing /\ SameContents(u, b)
             /\ u.out = [l \in DOMAIN b.out |-> ShiftId(b.out[l], removed)]
<1> DEFINE Shift(x) == ShiftId(x, removed)
           out == [l \in DOMAIN b.out |-> Shift(b.out[l])]
           ids == {Shift(x) : x \in b.successorIDs}
           moved == [b EXCEPT !.out = out, !.successorIDs = ids]
           table == [moved EXCEPT !.cases = RenameKeys(b.cases, Shift),
                                  !.defaultBlock = Shift(b.defaultBlock)]
           u == UpdateNodeEdges(b, removed)
<1>1. u = IF b.nodeType = "N_WAY_NODE" THEN table ELSE moved
  BY DEF UpdateNodeEdges
<1>2. \A x \in Nat \cup {NoBlock} : Shift(x) \in Nat \cup {NoBlock} /\ (x \in Nat => Shift(x) \in Nat)
  BY DEF ShiftId, NoBlock
<1>3. out \in [EdgeLabels[b.nodeType] -> Nat]
  BY <1>2 DEF IsBlock, BlockTypeOK
<1>4. ids \subseteq (IF b.nodeType = "N_WAY_NODE" THEN Nat ELSE {})
  BY <1>2 DEF IsBlock, BlockTypeOK
<1>5. DOMAIN RenameKeys(b.cases, Shift) \subseteq Nat \cup {NoBlock}
  BY <1>2 DEF RenameKeys, IsBlock, BlockTypeOK
<1>6. Range(out) = {Shift(x) : x \in Range(b.out)}
  BY DEF Range
<1>7. /\ u = [id |-> b.id, containing |-> b.containing, startEA |-> b.startEA,
              nodeType |-> b.nodeType, body |-> b.body, jump |-> b.jump,
              condition |-> b.condition, out |-> out, successorIDs |-> ids,
              cases |-> u.cases, defaultBlock |-> u.defaultBlock,
              predecessors |-> b.predecessors]
      /\ DOMAIN u.cases \subseteq Nat \cup {NoBlock}
      /\ u.defaultBlock \in Nat \cup {NoBlock}
  <2> HIDE DEF out, ids, Shift
  <2>1. CASE b.nodeType = "N_WAY_NODE"
    <3>1. u = [id |-> b.id, containing |-> b.containing, startEA |-> b.startEA,
               nodeType |-> b.nodeType, body |-> b.body, jump |-> b.jump,
               condition |-> b.condition, out |-> out, successorIDs |-> ids,
               cases |-> RenameKeys(b.cases, Shift), defaultBlock |-> Shift(b.defaultBlock),
               predecessors |-> b.predecessors]
      BY <1>1, <2>1 DEF IsBlock, IsRecord
    <3> HIDE DEF u
    <3>2. u.cases = RenameKeys(b.cases, Shift) /\ u.defaultBlock = Shift(b.defaultBlock)
      BY <3>1
    <3>3. b.defaultBlock \in Nat \cup {NoBlock}
      BY DEF IsBlock, BlockTypeOK
    <3> QED  BY <3>1, <3>2, <3>3, <1>2, <1>5
  <2>2. CASE b.nodeType # "N_WAY_NODE"
    <3>1. u = [id |-> b.id, containing |-> b.containing, startEA |-> b.startEA,
               nodeType |-> b.nodeType, body |-> b.body, jump |-> b.jump,
               condition |-> b.condition, out |-> out, successorIDs |-> ids,
               cases |-> b.cases, defaultBlock |-> b.defaultBlock,
               predecessors |-> b.predecessors]
      BY <1>1, <2>2 DEF IsBlock, IsRecord
    <3> HIDE DEF u
    <3>2. u.cases = b.cases /\ u.defaultBlock = b.defaultBlock
      BY <3>1
    <3> QED  BY <3>1, <3>2 DEF IsBlock, BlockTypeOK
  <2> QED  BY <2>1, <2>2
<1>8. IsBlock(u)
  <2> HIDE DEF u, out, ids
  <2>1. /\ u.id = b.id /\ u.containing = b.containing /\ u.startEA = b.startEA
        /\ u.nodeType = b.nodeType /\ u.body = b.body /\ u.jump = b.jump
        /\ u.condition = b.condition /\ u.out = out /\ u.successorIDs = ids
        /\ u.predecessors = b.predecessors
    BY <1>7
  <2>2. IsRecord(u)
    BY <1>7, <2>1 DEF IsRecord
  <2> QED  BY <2>1, <2>2, <1>3, <1>4, <1>7 DEF IsBlock, BlockTypeOK
<1>9. Successors(u) = {Shift(x) : x \in Successors(b)}
  <2> HIDE DEF u
  <2>1. u.out = out /\ u.successorIDs = ids
    BY <1>7
  <2> QED  BY <2>1, <1>6 DEF Successors
<1>10. /\ u.id = b.id /\ u.containing = b.containing /\ SameContents(u, b)
       /\ u.out = out
  <2> HIDE DEF u
  <2> QED  BY <1>7 DEF SameContents
<1> QED
  BY <1>8, <1>9, <1>10

\* The edges of a switch and its jump table are the same in a and b.
SameTable(a, b) ==
  /\ a.successorIDs = b.successorIDs
  /\ a.cases = b.cases /\ a.defaultBlock = b.defaultBlock

\* The edges and the jump table of b are those of a, moved.  Two entries of
\* a could meet under one key only if one of them were the removed block.
TableMoved(b, a, removed) ==
  /\ b.successorIDs = {ShiftId(x, removed) : x \in a.successorIDs}
  /\ b.defaultBlock = ShiftId(a.defaultBlock, removed)
  /\ DOMAIN b.cases = {ShiftId(x, removed) : x \in DOMAIN a.cases}
  /\ removed \notin DOMAIN a.cases =>
       \A x \in DOMAIN a.cases : b.cases[ShiftId(x, removed)] = a.cases[x]

(* updateNodeEdges moves the jump table of a switch along with its edges,  *)
(* and keeps every entry apart when the table does not name the removed    *)
(* block.                                                                  *)
LEMMA UpdateNodeEdgesTable ==
  ASSUME NEW b, IsBlock(b), b.nodeType = "N_WAY_NODE", NEW removed \in Nat
  PROVE  TableMoved(UpdateNodeEdges(b, removed), b, removed)
<1> DEFINE Shift(x) == ShiftId(x, removed)
           out == [l \in DOMAIN b.out |-> Shift(b.out[l])]
           ids == {Shift(x) : x \in b.successorIDs}
           cases == RenameKeys(b.cases, Shift)
           u == UpdateNodeEdges(b, removed)
<1>1. u = [id |-> b.id, containing |-> b.containing, startEA |-> b.startEA,
           nodeType |-> b.nodeType, body |-> b.body, jump |-> b.jump,
           condition |-> b.condition, out |-> out, successorIDs |-> ids,
           cases |-> cases, defaultBlock |-> Shift(b.defaultBlock),
           predecessors |-> b.predecessors]
  BY DEF UpdateNodeEdges, IsBlock, IsRecord
<1>2. DOMAIN b.cases \subseteq Nat \cup {NoBlock}
  BY DEF IsBlock, BlockTypeOK
<1>3. /\ DOMAIN cases = {Shift(x) : x \in DOMAIN b.cases}
      /\ removed \notin DOMAIN b.cases =>
           \A x \in DOMAIN b.cases : cases[Shift(x)] = b.cases[x]
  <2>1. DOMAIN cases = {Shift(x) : x \in DOMAIN b.cases}
    BY DEF RenameKeys
  <2>2. ASSUME removed \notin DOMAIN b.cases, NEW x \in DOMAIN b.cases
        PROVE  cases[Shift(x)] = b.cases[x]
    <3> DEFINE Kept == CHOOSE z \in DOMAIN b.cases :
                         /\ Shift(z) = Shift(x)
                         /\ \A y \in DOMAIN b.cases : Shift(y) = Shift(x) => y <= z
    <3>1. \A y \in DOMAIN b.cases : Shift(y) = Shift(x) => y = x
      BY <1>2, <2>2 DEF ShiftId, NoBlock
    <3>2. x <= x
      BY <1>2 DEF NoBlock
    <3>3. Kept = x
      BY <3>1, <3>2
    <3>4. cases[Shift(x)] = b.cases[Kept]
      BY DEF RenameKeys
    <3> QED  BY <3>3, <3>4
  <2> QED  BY <2>1, <2>2
<1> HIDE DEF u, out, ids, cases
<1>4. u.successorIDs = ids /\ u.cases = cases /\ u.defaultBlock = Shift(b.defaultBlock)
  BY <1>1
<1> QED
  BY <1>3, <1>4 DEF TableMoved, u, ids

(* Moving a block down by one changes its id and nothing else.             *)
LEMMA RenumberType ==
  ASSUME NEW b, IsBlock(b), NEW removed \in Nat
  PROVE  LET u == Renumber(b, removed)
         IN  /\ IsBlock(u)
             /\ Successors(u) = Successors(b)
             /\ SameContents(u, b) /\ u.out = b.out /\ SameTable(u, b)
             /\ b.id > removed => u.id = b.id - 1 /\ u.containing = b.id - 1
             /\ ~ b.id > removed => u.id = b.id /\ u.containing = b.containing
<1> DEFINE u == Renumber(b, removed)
<1>1. CASE b.id > removed
  <2>1. u = [id |-> b.id - 1, containing |-> b.id - 1, startEA |-> b.startEA,
             nodeType |-> b.nodeType, body |-> b.body, jump |-> b.jump,
             condition |-> b.condition, out |-> b.out, successorIDs |-> b.successorIDs,
             cases |-> b.cases, defaultBlock |-> b.defaultBlock,
             predecessors |-> b.predecessors]
    BY <1>1 DEF Renumber, IsBlock, IsRecord
  <2> HIDE DEF u
  <2>2. b.id - 1 \in Nat
    BY <1>1 DEF IsBlock, BlockTypeOK
  <2>3. IsBlock(u)
    BY <2>1, <2>2 DEF IsBlock, IsRecord, BlockTypeOK
  <2>4. /\ Successors(u) = Successors(b) /\ SameContents(u, b) /\ u.out = b.out
        /\ SameTable(u, b) /\ u.id = b.id - 1 /\ u.containing = b.id - 1
    BY <2>1 DEF Successors, SameContents, SameTable
  <2> QED  BY <2>3, <2>4, <1>1 DEF u
<1>2. CASE ~ b.id > removed
  BY <1>2 DEF Renumber, SameContents, SameTable
<1> QED
  BY <1>1, <1>2

\* Block b is block k of g with its edges moved.
ComesFrom(b, g, k, n, removed) ==
  /\ k \in (0 .. n - 1) \ {removed}
  /\ Successors(b) = {ShiftId(x, removed) : x \in Successors(g[k])}
  /\ SameContents(b, g[k])
  /\ b.out = [l \in DOMAIN g[k].out |-> ShiftId(g[k].out[l], removed)]
  /\ g[k].nodeType = "N_WAY_NODE" => TableMoved(b, g[k], removed)

(* removeNode gives every remaining block the id it is stored under, and   *)
(* moves the edges accordingly.                                            *)
LEMMA WithoutNodeGraph ==
  ASSUME NEW n \in Nat, NEW g, IsGraph(g, n), NEW removed \in 0 .. n - 1,
         NEW rest, rest = WithoutNode(g, n, removed)
  PROVE  /\ IsGraph(rest, n - 1)
         /\ \A i \in 0 .. n - 2 : ComesFrom(rest[i], g, FormerId(i, removed), n, removed)
<1>1. ASSUME NEW i \in 0 .. n - 2
      PROVE  /\ ComesFrom(rest[i], g, FormerId(i, removed), n, removed)
             /\ IsBlock(rest[i]) /\ rest[i].id = i /\ rest[i].containing = i
  <2> DEFINE k == FormerId(i, removed)
             old == g[k]
             u == UpdateNodeEdges(old, removed)
  <2>1. /\ k \in (0 .. n - 1) \ {removed}
        /\ k > removed => k - 1 = i
        /\ ~ k > removed => k = i
    BY DEF FormerId
  <2>2. IsBlock(old) /\ old.id = k /\ old.containing = k
    BY <2>1 DEF IsGraph
  <2>3. rest[i] = Renumber(u, removed)
    BY DEF WithoutNode
  <2>4. removed \in Nat
    OBVIOUS
  <2> HIDE DEF k, old
  <2>5. /\ IsBlock(u)
        /\ Successors(u) = {ShiftId(x, removed) : x \in Successors(old)}
        /\ u.id = k /\ u.containing = k /\ SameContents(u, old)
        /\ u.out = [l \in DOMAIN old.out |-> ShiftId(old.out[l], removed)]
        /\ old.nodeType = "N_WAY_NODE" => TableMoved(u, old, removed)
    BY <2>2, <2>4, UpdateNodeEdgesType, UpdateNodeEdgesTable
  <2> HIDE DEF u
  <2>6. /\ IsBlock(rest[i]) /\ Successors(rest[i]) = Successors(u)
        /\ SameContents(rest[i], u) /\ rest[i].out = u.out /\ SameTable(rest[i], u)
        /\ u.id > removed => rest[i].id = u.id - 1 /\ rest[i].containing = u.id - 1
        /\ ~ u.id > removed => rest[i].id = u.id /\ rest[i].containing = u.containing
    <3> DEFINE w == Renumber(u, removed)
    <3>1. /\ IsBlock(w) /\ Successors(w) = Successors(u)
          /\ SameContents(w, u) /\ w.out = u.out /\ SameTable(w, u)
          /\ u.id > removed => w.id = u.id - 1 /\ w.containing = u.id - 1
          /\ ~ u.id > removed => w.id = u.id /\ w.containing = u.containing
      BY <2>4, <2>5, RenumberType
    <3>2. rest[i] = w
      BY <2>3
    <3> QED  BY <3>1, <3>2
  <2>7. rest[i].id = i /\ rest[i].containing = i
    BY <2>1, <2>5, <2>6
  <2>8. SameContents(rest[i], old)
    BY <2>5, <2>6 DEF SameContents
  <2>9. ComesFrom(rest[i], g, k, n, removed)
    BY <2>1, <2>5, <2>6, <2>8 DEF ComesFrom, old, SameTable, TableMoved
  <2> QED  BY <2>6, <2>5, <2>7, <2>9 DEF k
<1>2. DOMAIN rest = 0 .. (n - 1) - 1
  BY DEF WithoutNode
<1>3. (n - 1) - 1 = n - 2
  OBVIOUS
<1>4. IsGraph(rest, n - 1)
  BY <1>1, <1>2, <1>3 DEF IsGraph
<1> QED
  BY <1>1, <1>4

(* updateNodesPredecessors makes the cached predecessors the inverse of    *)
(* the successors and changes nothing else.                                *)
LEMMA UpdateNodesPredecessorsGraph ==
  ASSUME NEW n \in Nat, NEW g, IsGraph(g, n), NEW u, u = UpdateNodesPredecessors(g)
  PROVE  /\ IsGraph(u, n)
         /\ \A i \in 0 .. n - 1 :
              /\ Successors(u[i]) = Successors(g[i])
              /\ SameContents(u[i], g[i]) /\ u[i].out = g[i].out
              /\ SameTable(u[i], g[i])
         /\ \A i, j \in 0 .. n - 1 : j \in u[i].predecessors <=> i \in Successors(u[j])
<1> DEFINE preds == [i \in 0 .. n - 1 |-> {j \in 0 .. n - 1 : i \in Successors(g[j])}]
<1>1. ASSUME NEW i \in 0 .. n - 1
      PROVE  u[i] = [id |-> i, containing |-> i, startEA |-> g[i].startEA,
                     nodeType |-> g[i].nodeType, body |-> g[i].body, jump |-> g[i].jump,
                     condition |-> g[i].condition, out |-> g[i].out,
                     successorIDs |-> g[i].successorIDs,
                     cases |-> g[i].cases, defaultBlock |-> g[i].defaultBlock,
                     predecessors |-> preds[i]]
  <2> DEFINE ids == {g[j].id : j \in {k \in DOMAIN g : i \in Successors(g[k])}}
  <2>1. IsBlock(g[i]) /\ g[i].id = i /\ g[i].containing = i /\ i \in DOMAIN g
    BY DEF IsGraph
  <2>2. u[i] = [g[i] EXCEPT !.predecessors = ids]
    BY <2>1 DEF UpdateNodesPredecessors
  <2>3. ids = preds[i]
    BY DEF IsGraph
  <2> HIDE DEF preds, ids
  <2> QED  BY <2>1, <2>2, <2>3 DEF IsBlock, IsRecord
<1>2. DOMAIN u = 0 .. n - 1
  BY DEF UpdateNodesPredecessors, IsGraph
<1>3. \A i \in 0 .. n - 1 : preds[i] \subseteq Nat
  OBVIOUS
<1>4. ASSUME NEW i \in 0 .. n - 1
      PROVE  /\ u[i].id = i /\ u[i].containing = i /\ u[i].predecessors = preds[i]
             /\ u[i].out = g[i].out /\ u[i].successorIDs = g[i].successorIDs
             /\ u[i].cases = g[i].cases /\ u[i].defaultBlock = g[i].defaultBlock
             /\ SameContents(u[i], g[i])
             /\ IsRecord(u[i])
  <2> HIDE DEF preds
  <2> DEFINE b == u[i]
  <2>1. b = [id |-> i, containing |-> i, startEA |-> g[i].startEA,
             nodeType |-> g[i].nodeType, body |-> g[i].body, jump |-> g[i].jump,
             condition |-> g[i].condition, out |-> g[i].out,
             successorIDs |-> g[i].successorIDs,
             cases |-> g[i].cases, defaultBlock |-> g[i].defaultBlock,
             predecessors |-> preds[i]]
    BY <1>1
  <2> HIDE DEF b
  <2>2. /\ b.id = i /\ b.containing = i /\ b.predecessors = preds[i]
        /\ b.out = g[i].out /\ b.successorIDs = g[i].successorIDs
        /\ b.cases = g[i].cases /\ b.defaultBlock = g[i].defaultBlock
        /\ SameContents(b, g[i])
    BY <2>1 DEF SameContents
  <2>3. IsRecord(b)
    BY <2>1, <2>2 DEF IsRecord, SameContents
  <2> QED  BY <2>2, <2>3 DEF b
<1>5. ASSUME NEW i \in 0 .. n - 1
      PROVE  Successors(u[i]) = Successors(g[i])
  BY <1>4 DEF Successors
<1>6. ASSUME NEW i \in 0 .. n - 1
      PROVE  IsBlock(u[i])
  <2>1. BlockTypeOK(g[i])
    BY DEF IsGraph, IsBlock
  <2> HIDE DEF preds
  <2> QED  BY <1>3, <1>4, <2>1 DEF IsBlock, BlockTypeOK, SameContents
<1>7. IsGraph(u, n)
  BY <1>2, <1>4, <1>6 DEF IsGraph
<1>8. \A i, j \in 0 .. n - 1 : j \in u[i].predecessors <=> i \in Successors(u[j])
  <2>1. \A i, j \in 0 .. n - 1 : j \in preds[i] <=> i \in Successors(g[j])
    OBVIOUS
  <2> HIDE DEF preds
  <2> QED  BY <2>1, <1>4, <1>5
<1> QED
  BY <1>4, <1>5, <1>7, <1>8 DEF SameTable

(* A graph in which only the removed block may have itself as a successor  *)
(* stays free of dangling edges.                                           *)
LEMMA WithoutNodeClosed ==
  ASSUME NEW n \in Nat, NEW g, IsGraph(g, n), IsClosed(g), NEW removed \in 0 .. n - 1,
         \A i \in (0 .. n - 1) \ {removed} : removed \notin Successors(g[i])
  PROVE  IsClosed(WithoutNode(g, n, removed))
<1> DEFINE rest == WithoutNode(g, n, removed)
<1>1. DOMAIN rest = 0 .. n - 2 /\ DOMAIN g = 0 .. n - 1
  BY DEF WithoutNode, IsGraph
<1>2. ASSUME NEW i \in 0 .. n - 2
      PROVE  Successors(rest[i]) \subseteq 0 .. n - 2
  <2> DEFINE k == FormerId(i, removed)
  <2>1. ComesFrom(rest[i], g, k, n, removed)
    BY WithoutNodeGraph
  <2> HIDE DEF k, rest
  <2>2. \A x \in Successors(g[k]) : x \in 0 .. n - 1 /\ x # removed
    BY <1>1, <2>1 DEF IsClosed, ComesFrom
  <2>3. \A x \in Successors(g[k]) : ShiftId(x, removed) \in 0 .. n - 2
    BY <2>2 DEF ShiftId
  <2> QED  BY <2>1, <2>3 DEF ComesFrom
<1> QED
  BY <1>1, <1>2 DEF IsClosed

-----------------------------------------------------------------------------
(* removeNode                                                              *)

(* Removing a block from a graph leads to a graph again, one whose blocks  *)
(* are those of the old one but for the removed block.  The predecessors   *)
(* are brought up to date unless an edge dangles, and none does when only  *)
(* the removed block leads to itself.                                      *)
LEMMA RemoveNodeStep ==
  ASSUME size \in Nat,
         NEW g, IsGraph(g, size), NEW removed \in Ids, RemoveNode(g, removed)
  PROVE  /\ size' = size - 1 /\ size' \in Nat
         /\ IsGraph(nodes', size')
         /\ phase' \in {phase, "undefined"}
         /\ \A i \in Ids' : ComesFrom(nodes'[i], g, FormerId(i, removed), size, removed)
         /\ phase' # "undefined" =>
              /\ IsClosed(nodes')
              /\ \A i, j \in Ids' : j \in nodes'[i].predecessors <=> i \in Successors(nodes'[j])
         /\ IsClosed(g) /\ (\A i \in Ids \ {removed} : removed \notin Successors(g[i]))
              => phase' = phase
<1> DEFINE rest == WithoutNode(g, size, removed)
<1>1. /\ size' = size - 1
      /\ IF IsClosed(rest) THEN nodes' = UpdateNodesPredecessors(rest) /\ phase' = phase
                           ELSE nodes' = rest /\ phase' = "undefined"
  BY DEF RemoveNode
<1>2. size' \in Nat /\ Ids' = 0 .. size - 2 /\ Ids' = 0 .. size' - 1
  BY <1>1 DEF Ids
<1>3. /\ IsGraph(rest, size')
      /\ \A i \in Ids' : ComesFrom(rest[i], g, FormerId(i, removed), size, removed)
  BY <1>1, <1>2, WithoutNodeGraph DEF Ids
<1>4. IsClosed(g) /\ (\A i \in Ids \ {removed} : removed \notin Successors(g[i]))
        => IsClosed(rest)
  BY WithoutNodeClosed DEF Ids
<1> HIDE DEF rest
<1>5. CASE IsClosed(rest)
  <2>1. nodes' = UpdateNodesPredecessors(rest) /\ phase' = phase
    BY <1>1, <1>5
  <2>2. /\ IsGraph(nodes', size')
        /\ \A i \in Ids' : /\ Successors(nodes'[i]) = Successors(rest[i])
                           /\ SameContents(nodes'[i], rest[i])
                           /\ nodes'[i].out = rest[i].out
                           /\ SameTable(nodes'[i], rest[i])
        /\ \A i, j \in Ids' : j \in nodes'[i].predecessors <=> i \in Successors(nodes'[j])
    BY <2>1, <1>2, <1>3, UpdateNodesPredecessorsGraph
  <2>3. \A i \in Ids' : ComesFrom(nodes'[i], g, FormerId(i, removed), size, removed)
    BY <2>2, <1>3 DEF ComesFrom, SameContents, SameTable, TableMoved
  <2>4. IsClosed(nodes')
    <3>1. DOMAIN nodes' = Ids' /\ DOMAIN rest = Ids'
      BY <2>2, <1>2, <1>3 DEF IsGraph
    <3> QED  BY <3>1, <2>2, <1>5 DEF IsClosed
  <2> QED  BY <1>1, <1>2, <2>1, <2>2, <2>3, <2>4
<1>6. CASE ~ IsClosed(rest)
  BY <1>1, <1>2, <1>3, <1>4, <1>6
<1> QED
  BY <1>5, <1>6

-----------------------------------------------------------------------------
(* updateSuccessorsOfPredecessorNodes                                      *)

(* Edges of a block that is no switch.                                     *)
LEMMA SuccessorsByLabel ==
  ASSUME NEW b, IsBlock(b), b.nodeType # "N_WAY_NODE"
  PROVE  Successors(b) = {b.out[l] : l \in EdgeLabels[b.nodeType]}
<1>1. DOMAIN b.out = EdgeLabels[b.nodeType] /\ b.successorIDs = {}
  BY DEF IsBlock, BlockTypeOK
<1> QED
  BY <1>1 DEF Successors, Range

WithEdges(b, out, ids, cases, default, cond) ==
  [b EXCEPT !.out = out, !.successorIDs = ids, !.cases = cases,
            !.defaultBlock = default, !.condition = cond]

\* The edges and the jump table are those of a block of this node type.
EdgesTypeOK(nodeType, out, ids, cases, default) ==
  /\ out \in [EdgeLabels[nodeType] -> Nat]
  /\ ids \subseteq (IF nodeType = "N_WAY_NODE" THEN Nat ELSE {})
  /\ DOMAIN cases \subseteq Nat \cup {NoBlock}
  /\ default \in Nat \cup {NoBlock}

(* A block whose edges, condition and jump table are replaced by ones of   *)
(* the right type stays a block, and nothing else of it changes.           *)
LEMMA ReplaceEdgesType ==
  ASSUME NEW b, IsBlock(b), NEW out, NEW ids, NEW cases, NEW default,
         EdgesTypeOK(b.nodeType, out, ids, cases, default),
         NEW cond, cond \in Condition
  PROVE  LET u == WithEdges(b, out, ids, cases, default, cond)
         IN  /\ IsBlock(u)
             /\ u.id = b.id /\ u.containing = b.containing /\ u.startEA = b.startEA
             /\ u.nodeType = b.nodeType /\ u.body = b.body /\ u.jump = b.jump
             /\ u.condition = cond /\ u.out = out /\ u.successorIDs = ids
             /\ u.cases = cases /\ u.defaultBlock = default
<1> SUFFICES ASSUME NEW u, u = WithEdges(b, out, ids, cases, default, cond)
             PROVE  /\ IsBlock(u)
                    /\ u.id = b.id /\ u.containing = b.containing /\ u.startEA = b.startEA
                    /\ u.nodeType = b.nodeType /\ u.body = b.body /\ u.jump = b.jump
                    /\ u.condition = cond /\ u.out = out /\ u.successorIDs = ids
                    /\ u.cases = cases /\ u.defaultBlock = default
  OBVIOUS
<1>1. u = [id |-> b.id, containing |-> b.containing, startEA |-> b.startEA,
           nodeType |-> b.nodeType, body |-> b.body, jump |-> b.jump,
           condition |-> cond, out |-> out, successorIDs |-> ids,
           cases |-> cases, defaultBlock |-> default,
           predecessors |-> b.predecessors]
  BY DEF WithEdges, IsBlock, IsRecord
<1>2. /\ u.id = b.id /\ u.containing = b.containing /\ u.startEA = b.startEA
      /\ u.nodeType = b.nodeType /\ u.body = b.body /\ u.jump = b.jump
      /\ u.condition = cond /\ u.out = out /\ u.successorIDs = ids
      /\ u.cases = cases /\ u.defaultBlock = default
      /\ u.predecessors = b.predecessors
  BY <1>1
<1>3. IsRecord(u)
  BY <1>1, <1>2 DEF IsRecord
<1>4. BlockTypeOK(u)
  BY <1>2 DEF IsBlock, BlockTypeOK, EdgesTypeOK
<1> QED
  BY <1>2, <1>3, <1>4 DEF IsBlock

MovedEdges(out, e, next) == [l \in DOMAIN out |-> IF out[l] = e THEN next ELSE out[l]]

(* A predecessor of the empty block e that is no switch, and not a branch  *)
(* both edges of which lead to e, has its edge to e moved to next.  Any    *)
(* other block stays a block.                                              *)
LEMMA RedirectType ==
  ASSUME NEW p, IsBlock(p), NEW e, e \in Nat, NEW next, next \in Nat
  PROVE  LET r == Redirect(p, e, next)
         IN  /\ IsBlock(r) /\ r.id = p.id /\ r.containing = p.containing
             /\ SameContents(r, p)
             /\ /\ p.nodeType # "N_WAY_NODE"
                /\ e \in Successors(p)
                /\ p.nodeType = "TWO_WAY_NODE" => p.out["true"] # p.out["false"]
                => r.out = MovedEdges(p.out, e, next)
<1> SUFFICES ASSUME NEW r, r = Redirect(p, e, next)
             PROVE  /\ IsBlock(r) /\ r.id = p.id /\ r.containing = p.containing
                    /\ SameContents(r, p)
                    /\ /\ p.nodeType # "N_WAY_NODE"
                       /\ e \in Successors(p)
                       /\ p.nodeType = "TWO_WAY_NODE" => p.out["true"] # p.out["false"]
                       => r.out = MovedEdges(p.out, e, next)
  OBVIOUS
<1>1. /\ p.out \in [EdgeLabels[p.nodeType] -> Nat]
      /\ p.successorIDs \subseteq (IF p.nodeType = "N_WAY_NODE" THEN Nat ELSE {})
      /\ DOMAIN p.cases \subseteq Nat \cup {NoBlock}
      /\ p.defaultBlock \in Nat \cup {NoBlock}
      /\ p.condition \in Condition
      /\ p.nodeType \in {"Exit_NODE", "ONE_WAY_NODE", "TWO_WAY_NODE", "N_WAY_NODE"}
  BY Labels DEF IsBlock, BlockTypeOK
<1>2. CASE p.nodeType = "TWO_WAY_NODE"
  <2> DEFINE out == IF p.out["false"] = e THEN [p.out EXCEPT !["false"] = next]
                    ELSE IF p.out["true"] = e THEN [p.out EXCEPT !["true"] = next]
                    ELSE p.out
  <2>1. r = WithEdges(p, out, p.successorIDs, p.cases, p.defaultBlock, p.condition)
    BY <1>2 DEF Redirect, WithEdges, IsBlock, IsRecord
  <2>2. EdgesTypeOK(p.nodeType, out, p.successorIDs, p.cases, p.defaultBlock)
    BY <1>1, <1>2, Labels DEF EdgesTypeOK
  <2>3. Successors(p) = {p.out["true"], p.out["false"]}
    BY <1>2, Labels, SuccessorsByLabel
  <2>4. e \in Successors(p) /\ p.out["true"] # p.out["false"]
          => out = MovedEdges(p.out, e, next)
    BY <1>1, <1>2, <2>3, Labels DEF MovedEdges
  <2> HIDE DEF out
  <2>5. /\ IsBlock(r) /\ r.id = p.id /\ r.containing = p.containing
        /\ SameContents(r, p) /\ r.out = out
    <3>1. /\ IsBlock(r) /\ r.id = p.id /\ r.containing = p.containing
          /\ r.startEA = p.startEA /\ r.nodeType = p.nodeType /\ r.body = p.body
          /\ r.jump = p.jump /\ r.condition = p.condition /\ r.out = out
      BY <1>1, <2>1, <2>2, ReplaceEdgesType
    <3> QED  BY <3>1 DEF SameContents
  <2> QED  BY <2>4, <2>5, <1>2
<1>3. CASE p.nodeType = "ONE_WAY_NODE"
  <2> DEFINE out == [p.out EXCEPT !["next"] = next]
  <2>1. r = WithEdges(p, out, p.successorIDs, p.cases, p.defaultBlock, p.condition)
    BY <1>3 DEF Redirect, WithEdges, IsBlock, IsRecord
  <2>2. EdgesTypeOK(p.nodeType, out, p.successorIDs, p.cases, p.defaultBlock)
    BY <1>1, <1>3, Labels DEF EdgesTypeOK
  <2>3. Successors(p) = {p.out["next"]}
    BY <1>3, Labels, SuccessorsByLabel
  <2>4. e \in Successors(p)
          => out = MovedEdges(p.out, e, next)
    BY <1>1, <1>3, <2>3, Labels DEF MovedEdges
  <2> HIDE DEF out
  <2>5. /\ IsBlock(r) /\ r.id = p.id /\ r.containing = p.containing
        /\ SameContents(r, p) /\ r.out = out
    <3>1. /\ IsBlock(r) /\ r.id = p.id /\ r.containing = p.containing
          /\ r.startEA = p.startEA /\ r.nodeType = p.nodeType /\ r.body = p.body
          /\ r.jump = p.jump /\ r.condition = p.condition /\ r.out = out
      BY <1>1, <2>1, <2>2, ReplaceEdgesType
    <3> QED  BY <3>1 DEF SameContents
  <2> QED  BY <2>4, <2>5, <1>3
<1>4. CASE p.nodeType = "N_WAY_NODE"
  <2> DEFINE SwitchEdge(x) == IF x # e THEN e ELSE next
             ids == {SwitchEdge(x) : x \in p.successorIDs}
             cases == RenameKeys(p.cases, SwitchEdge)
             default == IF p.defaultBlock = e THEN next ELSE p.defaultBlock
  <2>1. r = WithEdges(p, p.out, ids, cases, default, p.condition)
    BY <1>4 DEF Redirect, WithEdges, IsBlock, IsRecord
  <2>2. ids \subseteq (IF p.nodeType = "N_WAY_NODE" THEN Nat ELSE {})
    BY <1>1, <1>4
  <2>3. DOMAIN cases \subseteq Nat \cup {NoBlock}
    BY DEF RenameKeys
  <2>4. default \in Nat \cup {NoBlock}
    BY <1>1
  <2> HIDE DEF ids, cases, default
  <2>5. EdgesTypeOK(p.nodeType, p.out, ids, cases, default)
    BY <1>1, <2>2, <2>3, <2>4 DEF EdgesTypeOK
  <2>6. /\ IsBlock(r) /\ r.id = p.id /\ r.containing = p.containing
        /\ r.startEA = p.startEA /\ r.nodeType = p.nodeType /\ r.body = p.body
        /\ r.jump = p.jump /\ r.condition = p.condition
    BY <1>1, <2>1, <2>5, ReplaceEdgesType
  <2> QED  BY <1>4, <2>6 DEF SameContents
<1>5. CASE p.nodeType = "Exit_NODE"
  <2>1. r = p
    BY <1>5 DEF Redirect
  <2>2. Successors(p) = {}
    BY <1>5, Labels, SuccessorsByLabel
  <2> QED  BY <2>1, <2>2, <1>5 DEF SameContents
<1> QED
  BY <1>1, <1>2, <1>3, <1>4, <1>5

-----------------------------------------------------------------------------
(* The inductive invariant: the type invariant with the shape of a block,  *)
(* and the consistency of the graph, which it needs because a dangling     *)
(* edge would make a merge read a block that does not exist.               *)

PredecessorsCached ==
  \A i, j \in Ids : j \in nodes[i].predecessors <=> i \in Successors(nodes[j])

IInv ==
  /\ size \in Nat
  /\ IsGraph(nodes, size)
  /\ phase \in Phases /\ merged \in BOOLEAN /\ misrouted \in BOOLEAN
  /\ phase # "undefined" => IsClosed(nodes) /\ PredecessorsCached
  /\ ~ misrouted => phase # "undefined"

(* addNode makes a block of a basic block of the flow chart.               *)
LEMMA AddNodeType ==
  ASSUME NEW chart \in Charts, NEW i \in DOMAIN chart,
         NEW b, b = AddNode(i, chart[i])
  PROVE  /\ IsBlock(b) /\ b.id = i /\ b.containing = i /\ b.startEA = i
         /\ Successors(b) \subseteq DOMAIN chart
<1> DEFINE block == chart[i]
           succ == block.succ
           n == Cardinality(DOMAIN chart)
<1>1. /\ n \in Nat /\ DOMAIN chart = 0 .. n - 1 /\ i \in Nat
      /\ succ \in Seq(DOMAIN chart)
      /\ block.body \in BOOLEAN /\ block.jump \in Jumps /\ block.condition \in Condition
      /\ DOMAIN block.cases \subseteq Range(succ) \cup {NoBlock}
      /\ block.defaultBlock \in Range(succ) \cup {NoBlock}
  BY ChartsAssumption, FS_CardinalityType DEF IsFlowChart
<1>2. /\ Range(succ) \subseteq DOMAIN chart /\ Range(succ) \subseteq Nat
      /\ \A k \in 1 .. Len(succ) : succ[k] \in DOMAIN chart
      /\ Len(succ) \in Nat
  BY <1>1 DEF Range
<1> HIDE DEF succ, n
<1>3. ASSUME NEW t \in DOMAIN EdgeLabels, NEW out \in [EdgeLabels[t] -> DOMAIN chart],
             NEW ids, ids \subseteq (IF t = "N_WAY_NODE" THEN DOMAIN chart ELSE {}),
             b = Node(i, t, out, ids, block)
      PROVE  /\ IsBlock(b) /\ b.id = i /\ b.containing = i /\ b.startEA = i
             /\ Successors(b) \subseteq DOMAIN chart
  <2>1. /\ b.id = i /\ b.containing = i /\ b.startEA = i /\ b.nodeType = t
        /\ b.body = block.body /\ b.jump = block.jump /\ b.condition = block.condition
        /\ b.out = out /\ b.successorIDs = ids /\ b.cases = block.cases
        /\ b.defaultBlock = block.defaultBlock /\ b.predecessors = {}
    BY <1>3 DEF Node
  <2>2. IsRecord(b)
    BY <1>3, <2>1 DEF Node, IsRecord
  <2>3. BlockTypeOK(b)
    BY <1>1, <1>2, <1>3, <2>1 DEF BlockTypeOK
  <2>4. Successors(b) \subseteq DOMAIN chart
    BY <1>3, <2>1 DEF Successors, Range
  <2> QED  BY <2>1, <2>2, <2>3, <2>4 DEF IsBlock
<1> HIDE DEF block
<1>4. CASE Len(succ) = 0
  <2>1. b = Node(i, "Exit_NODE", NoEdges, {}, block)
    BY <1>4 DEF AddNode, block, succ
  <2>2. NoEdges \in [EdgeLabels["Exit_NODE"] -> DOMAIN chart]
    BY Labels DEF NoEdges
  <2> QED  BY <1>3, <2>1, <2>2, Labels
<1>5. CASE Len(succ) = 1
  <2>1. b = Node(i, "ONE_WAY_NODE", OneEdge(succ[1]), {}, block)
    BY <1>5 DEF AddNode, block, succ
  <2>2. OneEdge(succ[1]) \in [EdgeLabels["ONE_WAY_NODE"] -> DOMAIN chart]
    BY <1>2, <1>5, Labels DEF OneEdge
  <2> QED  BY <1>3, <2>1, <2>2, Labels
<1>6. CASE Len(succ) = 2 /\ block.jump = "CONDITIONAL_JUMP"
  <2>1. PICK yes \in DOMAIN chart, no \in DOMAIN chart :
          b = Node(i, "TWO_WAY_NODE", TwoEdges(yes, no), {}, block)
    BY <1>2, <1>6 DEF AddNode, block, succ
  <2>2. TwoEdges(yes, no) \in [EdgeLabels["TWO_WAY_NODE"] -> DOMAIN chart]
    BY Labels DEF TwoEdges
  <2> QED  BY <1>3, <2>1, <2>2, Labels
<1>7. CASE ~ (Len(succ) = 0 \/ Len(succ) = 1 \/ (Len(succ) = 2 /\ block.jump = "CONDITIONAL_JUMP"))
  <2>1. b = Node(i, "N_WAY_NODE", NoEdges, Range(succ), block)
    BY <1>7 DEF AddNode, block, succ
  <2>2. NoEdges \in [EdgeLabels["N_WAY_NODE"] -> DOMAIN chart]
    BY Labels DEF NoEdges
  <2> QED  BY <1>2, <1>3, <2>1, <2>2, Labels
<1> QED
  BY <1>4, <1>5, <1>6, <1>7

(* The graph of a flow chart satisfies the inductive invariant.             *)
LEMMA InitInvariant == Init => IInv
<1> SUFFICES ASSUME Init PROVE IInv
  OBVIOUS
<1>1. PICK chart \in Charts :
        /\ size = Cardinality(DOMAIN chart)
        /\ nodes = BuildGraph(chart)
        /\ phase = "jumps" /\ merged = FALSE /\ misrouted = FALSE
  BY DEF Init
<1> DEFINE g == [i \in DOMAIN chart |-> AddNode(i, chart[i])]
<1>2. size \in Nat /\ DOMAIN chart = 0 .. size - 1
  BY <1>1, ChartsAssumption, FS_CardinalityType DEF IsFlowChart
<1>3. IsGraph(g, size) /\ IsClosed(g)
  BY <1>2, AddNodeType DEF IsGraph, IsClosed
<1>4. nodes = UpdateNodesPredecessors(g)
  BY <1>1 DEF BuildGraph
<1> HIDE DEF g
<1>5. /\ IsGraph(nodes, size)
      /\ \A i \in Ids : Successors(nodes[i]) = Successors(g[i])
      /\ PredecessorsCached
  BY <1>2, <1>3, <1>4, UpdateNodesPredecessorsGraph DEF Ids, PredecessorsCached
<1>6. IsClosed(nodes)
  BY <1>3, <1>5 DEF IsClosed, IsGraph, Ids
<1> QED
  BY <1>1, <1>2, <1>5, <1>6 DEF IInv, Phases

-----------------------------------------------------------------------------
(* The steps                                                               *)

(* eliminateTrivialNodes: as long as no branch may have been redirected,   *)
(* all edges to the empty block have been moved to its successor when it   *)
(* is removed.                                                             *)
LEMMA EliminateTrivialNodeStep ==
  ASSUME IInv, NEW e \in Ids, EliminateTrivialNode(e)
  PROVE  IInv'
<1> DEFINE g == UpdateSuccessorsOfPredecessorNodes(e)
           next == nodes[e].out["next"]
<1>1. /\ size \in Nat /\ IsGraph(nodes, size) /\ DOMAIN nodes = Ids /\ Ids = 0 .. size - 1
      /\ phase = "trivial" /\ IsClosed(nodes) /\ PredecessorsCached
      /\ e \in Nat
  BY DEF IInv, EliminateTrivialNode, IsGraph, Ids
<1>2. \A i \in Ids : IsBlock(nodes[i]) /\ nodes[i].id = i /\ nodes[i].containing = i
  BY <1>1 DEF IsGraph
<1>3. /\ nodes[e].nodeType = "ONE_WAY_NODE"
      /\ RemoveNode(g, e)
      /\ misrouted' = (misrouted \/ MisroutesPredecessors(e))
      /\ merged' = merged
  BY <1>2 DEF EliminateTrivialNode, EmptyOneWayNodes
<1>4. Successors(nodes[e]) = {next} /\ next \in Ids /\ next \in Nat
  <2>1. Successors(nodes[e]) = {next}
    BY <1>2, <1>3, SuccessorsByLabel, Labels
  <2>2. Successors(nodes[e]) \subseteq Ids
    BY <1>1 DEF IsClosed
  <2> QED  BY <2>1, <2>2 DEF Ids
<1>5. ASSUME NEW i \in Ids
      PROVE  /\ e \in Successors(nodes[i]) => g[i] = Redirect(nodes[i], e, next)
             /\ e \notin Successors(nodes[i]) => g[i] = nodes[i]
  BY <1>1 DEF UpdateSuccessorsOfPredecessorNodes, PredecessorsCached
<1>6. DOMAIN g = Ids
  BY DEF UpdateSuccessorsOfPredecessorNodes
<1> HIDE DEF g, next
<1>7. ASSUME NEW i \in Ids
      PROVE  /\ IsBlock(g[i]) /\ g[i].id = i /\ g[i].containing = i
  <2>1. CASE e \in Successors(nodes[i])
    <3>1. g[i] = Redirect(nodes[i], e, next)
      BY <1>5, <2>1
    <3>2. /\ IsBlock(nodes[i]) /\ nodes[i].id = i /\ nodes[i].containing = i
          /\ e \in Nat /\ next \in Nat
      BY <1>1, <1>2, <1>4
    <3> DEFINE r == Redirect(nodes[i], e, next)
    <3>3. IsBlock(r) /\ r.id = nodes[i].id /\ r.containing = nodes[i].containing
      BY ONLY <3>2, RedirectType
    <3> QED  BY ONLY <3>1, <3>2, <3>3
  <2>2. CASE e \notin Successors(nodes[i])
    BY <1>2, <1>5, <2>2
  <2> QED  BY <2>1, <2>2
<1>8. IsGraph(g, size)
  BY <1>1, <1>6, <1>7 DEF IsGraph
<1>9. ASSUME ~ MisroutesPredecessors(e)
      PROVE  IsClosed(g) /\ \A i \in Ids \ {e} : e \notin Successors(g[i])
  <2>1. next # e
    BY <1>9 DEF MisroutesPredecessors, next
  <2>2. ASSUME NEW i \in Ids, e \in Successors(nodes[i])
        PROVE  Successors(g[i]) \subseteq Ids /\ e \notin Successors(g[i])
    <3>1. i \in nodes[e].predecessors
      BY <1>1, <2>2 DEF PredecessorsCached
    <3>2. /\ nodes[i].nodeType # "N_WAY_NODE"
          /\ nodes[i].nodeType = "TWO_WAY_NODE" => nodes[i].out["true"] # nodes[i].out["false"]
      BY <1>9, <3>1 DEF MisroutesPredecessors
    <3>3. g[i].out = MovedEdges(nodes[i].out, e, next) /\ SameContents(g[i], nodes[i])
      <4>1. /\ g[i] = Redirect(nodes[i], e, next)
            /\ IsBlock(nodes[i]) /\ e \in Nat /\ next \in Nat /\ e \in Successors(nodes[i])
        BY <1>1, <1>2, <1>4, <1>5, <2>2
      <4> QED  BY ONLY <3>2, <4>1, RedirectType
    <3>4. /\ Successors(g[i]) = {g[i].out[l] : l \in EdgeLabels[nodes[i].nodeType]}
          /\ Successors(nodes[i]) = {nodes[i].out[l] : l \in EdgeLabels[nodes[i].nodeType]}
      BY <1>2, <1>7, <3>2, <3>3, SuccessorsByLabel DEF SameContents
    <3>5. DOMAIN nodes[i].out = EdgeLabels[nodes[i].nodeType]
      BY <1>2 DEF IsBlock, BlockTypeOK
    <3>6. Successors(nodes[i]) \subseteq Ids
      BY <1>1 DEF IsClosed
    <3> QED  BY <1>4, <2>1, <3>3, <3>4, <3>5, <3>6 DEF MovedEdges
  <2>3. ASSUME NEW i \in Ids, e \notin Successors(nodes[i])
        PROVE  Successors(g[i]) \subseteq Ids /\ e \notin Successors(g[i])
    BY <1>1, <1>5, <2>3 DEF IsClosed
  <2> QED  BY <1>6, <2>2, <2>3 DEF IsClosed
<1>10. /\ size' \in Nat /\ IsGraph(nodes', size')
       /\ phase' \in {phase, "undefined"}
       /\ phase' # "undefined" => IsClosed(nodes') /\ PredecessorsCached'
       /\ ~ MisroutesPredecessors(e) => phase' = phase
  BY <1>1, <1>3, <1>8, <1>9, RemoveNodeStep DEF PredecessorsCached
<1> QED
  BY <1>1, <1>3, <1>10 DEF IInv, Phases

(* What the test for a pattern tells: the successor s on the edge l holds  *)
(* its jump only, and unless h is its own successor, h is its only         *)
(* predecessor and no edge of s leads back to s.                           *)
LEMMA SharedSuccessor ==
  ASSUME IInv, phase = "compound", NEW h, h \in Ids,
         NEW l, l \in {"true", "false"}, NEW m, m \in {"true", "false"},
         SharesSuccessor(h, l, m)
  PROVE  LET s == nodes[h].out[l]
         IN  /\ s \in Ids /\ nodes[h].nodeType = "TWO_WAY_NODE"
             /\ nodes[s].nodeType = "TWO_WAY_NODE" /\ ~ nodes[s].body
             /\ nodes[s].out["true"] \in Ids /\ nodes[s].out["false"] \in Ids
             /\ nodes[h].out[OtherEdge(l)] = nodes[s].out[m]
             /\ nodes[h].condition \in Condition /\ nodes[s].condition \in Condition
             /\ nodes[h].id = h /\ nodes[s].id = s
             /\ s # h => /\ nodes[s].out["true"] # s /\ nodes[s].out["false"] # s
                         /\ \A i \in Ids \ {h} : s \notin Successors(nodes[i])
<1> DEFINE s == nodes[h].out[l]
<1>1. /\ IsGraph(nodes, size) /\ DOMAIN nodes = Ids /\ Ids = 0 .. size - 1
      /\ IsClosed(nodes) /\ PredecessorsCached
  BY DEF IInv, IsGraph, Ids
<1>2. \A i \in Ids : IsBlock(nodes[i]) /\ nodes[i].id = i
  BY <1>1 DEF IsGraph
<1>3. /\ nodes[h].nodeType = "TWO_WAY_NODE"
      /\ IsConditionOnly(s)
      /\ nodes[h].out[OtherEdge(l)] = nodes[s].out[m]
  BY DEF SharesSuccessor
<1>5. ASSUME NEW i \in Ids, nodes[i].nodeType = "TWO_WAY_NODE"
      PROVE  /\ Successors(nodes[i]) = {nodes[i].out["true"], nodes[i].out["false"]}
             /\ nodes[i].out["true"] \in Ids /\ nodes[i].out["false"] \in Ids
  <2>1. Successors(nodes[i]) = {nodes[i].out[x] : x \in {"true", "false"}}
    BY <1>2, <1>5, SuccessorsByLabel, Labels
  <2>2. Successors(nodes[i]) \subseteq Ids
    BY <1>1 DEF IsClosed
  <2> QED  BY <2>1, <2>2
<1>6. s \in Ids /\ s \in Successors(nodes[h])
  BY <1>3, <1>5
<1> HIDE DEF s
<1>7. /\ nodes[s].nodeType = "TWO_WAY_NODE" /\ ~ nodes[s].body
      /\ \E p \in nodes[s].predecessors : nodes[s].predecessors = {p}
  BY <1>3 DEF IsConditionOnly
<1>8. nodes[s].predecessors = {h}
  BY <1>1, <1>6, <1>7 DEF PredecessorsCached
<1>9. \A i \in Ids \ {h} : s \notin Successors(nodes[i])
  BY <1>1, <1>6, <1>8 DEF PredecessorsCached
<1>10. s # h => nodes[s].out["true"] # s /\ nodes[s].out["false"] # s
  BY <1>5, <1>6, <1>7, <1>9
<1>11. nodes[h].condition \in Condition /\ nodes[s].condition \in Condition
  BY <1>2, <1>6 DEF IsBlock, BlockTypeOK
<1> QED
  BY <1>2, <1>3, <1>5, <1>6, <1>7, <1>9, <1>10, <1>11 DEF s

(* A merge of s into h, provided that the new edges of h avoid s and that  *)
(* nobody else leads to s unless a branch may have been redirected.        *)
LEMMA MergeIntoStep ==
  ASSUME IInv, phase = "compound",
         NEW h \in Ids, NEW s \in Ids, nodes[h].nodeType = "TWO_WAY_NODE", nodes[s].id = s,
         NEW c \in Condition, NEW yes \in Ids, NEW no \in Ids,
         MergeInto(h, s, c, yes, no),
         misrouted' \in BOOLEAN,
         ~ misrouted' => /\ ~ misrouted
                         /\ yes # s /\ no # s
                         /\ \A i \in Ids \ {h} : s \notin Successors(nodes[i])
  PROVE  IInv'
<1> DEFINE g == [nodes EXCEPT ![h].condition = c, ![h].out = TwoEdges(yes, no)]
           b == WithEdges(nodes[h], TwoEdges(yes, no), nodes[h].successorIDs,
                          nodes[h].cases, nodes[h].defaultBlock, c)
<1>1. /\ size \in Nat /\ IsGraph(nodes, size) /\ DOMAIN nodes = Ids /\ Ids = 0 .. size - 1
      /\ IsClosed(nodes) /\ misrouted \in BOOLEAN
  BY DEF IInv, IsGraph, Ids
<1>2. \A i \in Ids : IsBlock(nodes[i]) /\ nodes[i].id = i /\ nodes[i].containing = i
  BY <1>1 DEF IsGraph
<1>3. RemoveNode(g, s) /\ merged' = TRUE
  BY DEF MergeInto
<1>4. /\ DOMAIN g = Ids
      /\ g[h] = b
      /\ \A i \in Ids \ {h} : g[i] = nodes[i]
  BY <1>1, <1>2 DEF WithEdges, IsBlock, IsRecord
<1>5. /\ IsBlock(b) /\ b.id = h /\ b.containing = h
      /\ b.nodeType = "TWO_WAY_NODE" /\ b.out = TwoEdges(yes, no)
  <2>1. EdgesTypeOK(nodes[h].nodeType, TwoEdges(yes, no), nodes[h].successorIDs,
                    nodes[h].cases, nodes[h].defaultBlock)
    BY <1>2, Labels DEF IsBlock, BlockTypeOK, EdgesTypeOK, TwoEdges, Ids
  <2> QED  BY <1>2, <2>1, ReplaceEdgesType
<1>6. Successors(b) = {yes, no}
  <2>1. Successors(b) = {b.out[x] : x \in {"true", "false"}}
    BY <1>5, SuccessorsByLabel, Labels
  <2> QED  BY <2>1, <1>5 DEF TwoEdges
<1> HIDE DEF g, b
<1>7. IsGraph(g, size)
  BY <1>1, <1>2, <1>4, <1>5 DEF IsGraph
<1>8. IsClosed(g)
  BY <1>1, <1>4, <1>6 DEF IsClosed
<1>9. ~ misrouted' => \A i \in Ids \ {s} : s \notin Successors(g[i])
  BY <1>4, <1>6
<1>10. /\ size' \in Nat /\ IsGraph(nodes', size')
       /\ phase' \in {phase, "undefined"}
       /\ phase' # "undefined" => IsClosed(nodes') /\ PredecessorsCached'
       /\ ~ misrouted' => phase' = phase
  BY <1>1, <1>3, <1>7, <1>8, <1>9, RemoveNodeStep DEF PredecessorsCached
<1> QED
  BY <1>3, <1>10 DEF IInv, Phases

(* The conditions that the merges build, and what they say.                *)
LEMMA CompoundConditions ==
  ASSUME NEW A \in Condition, NEW B \in Condition
  PROVE  /\ AssignUnlessNull(CompoundCondition_AND(A, B), PushedInto_AND(A, B)) \in Condition
         /\ AssignUnlessNull(CompoundCondition_OR(A, B), PushedInto_OR(A, B)) \in Condition
         /\ AssignUnlessNull(CompoundCondition_OR(Negated(A), B), AfterNegation(A)) \in Condition
         /\ AssignUnlessNull(CompoundCondition_AND(Negated(A), B), AfterNegation(A)) \in Condition
<1>1. \A X, Y \in Condition : Conjunction(X, Y) \in Condition /\ Disjunction(X, Y) \in Condition
  BY DEF Conjunction, Disjunction, Condition, Kinds
<1>2. Negated(A) \in Condition
  BY DEF Negated, NegatedKind, Condition, Kinds
<1>3. AfterNegation(A) \in Condition
  BY DEF AfterNegation, Condition
<1> QED
  BY <1>1, <1>2, <1>3 DEF AssignUnlessNull, CompoundCondition_AND, PushedInto_AND,
                          CompoundCondition_OR, PushedInto_OR

(* A merge of the shared successor s into h keeps the invariant whatever   *)
(* condition h gets, when the new edges of h are edges of s.               *)
LEMMA MergeSharedStep ==
  ASSUME IInv, phase = "compound", NEW h, h \in Ids,
         NEW l, l \in {"true", "false"}, NEW m, m \in {"true", "false"},
         SharesSuccessor(h, l, m),
         NEW s, s = nodes[h].out[l], NEW c, c \in Condition, NEW yes, NEW no,
         yes \in {nodes[s].out["true"], nodes[s].out["false"]},
         no \in {nodes[s].out["true"], nodes[s].out["false"]},
         MergeInto(h, s, c, yes, no),
         misrouted' \in BOOLEAN, ~ misrouted' => ~ misrouted /\ s # h
  PROVE  IInv'
<1>1. /\ s \in Ids /\ nodes[h].nodeType = "TWO_WAY_NODE" /\ nodes[s].id = s
      /\ nodes[s].out["true"] \in Ids /\ nodes[s].out["false"] \in Ids
      /\ s # h => /\ nodes[s].out["true"] # s /\ nodes[s].out["false"] # s
                  /\ \A i \in Ids \ {h} : s \notin Successors(nodes[i])
  BY SharedSuccessor
<1>2. /\ yes \in Ids /\ no \in Ids
      /\ ~ misrouted' => /\ ~ misrouted
                         /\ yes # s /\ no # s
                         /\ \A i \in Ids \ {h} : s \notin Successors(nodes[i])
  BY <1>1
<1> QED
  BY <1>1, <1>2, MergeIntoStep

(* The four merges of structureCompoundConditionals keep the invariant.     *)
LEMMA StructureStep ==
  ASSUME IInv, phase = "compound", NEW h \in Ids, Structure(h)
  PROVE  IInv'
<1>1. misrouted \in BOOLEAN
  BY DEF IInv
<1>2. CASE Merge_A_AND_B(h)
  <2> DEFINE s == nodes[h].out["true"]
             A == nodes[h].condition
             B == nodes[s].condition
             c == AssignUnlessNull(CompoundCondition_AND(A, B), PushedInto_AND(A, B))
  <2>1. /\ SharesSuccessor(h, "true", "false")
        /\ MergeInto(h, s, c, nodes[s].out["true"], nodes[h].out["false"])
        /\ misrouted' = (misrouted \/ MisroutesMerge(h, s))
    BY <1>2 DEF Merge_A_AND_B, IsHeadOf_A_AND_B
  <2>2. /\ A \in Condition /\ B \in Condition
        /\ nodes[h].out["false"] = nodes[s].out["false"]
    BY <2>1, SharedSuccessor DEF OtherEdge
  <2>3. c \in Condition
    BY <2>2, CompoundConditions
  <2>4. misrouted' \in BOOLEAN /\ (~ misrouted' => ~ misrouted /\ s # h)
    BY <1>1, <2>1 DEF MisroutesMerge
  <2> HIDE DEF s, A, B, c
  <2>5. s = nodes[h].out["true"]
    BY DEF s
  <2> QED  BY <2>1, <2>2, <2>3, <2>4, <2>5, MergeSharedStep
<1>3. CASE Merge_NOT_A_OR_B(h)
  <2> DEFINE s == nodes[h].out["true"]
             A == nodes[h].condition
             B == nodes[s].condition
             c == AssignUnlessNull(CompoundCondition_OR(Negated(A), B), AfterNegation(A))
  <2>1. /\ SharesSuccessor(h, "true", "true")
        /\ MergeInto(h, s, c, nodes[s].out["true"], nodes[s].out["false"])
        /\ misrouted' = (misrouted \/ MisroutesMerge(h, s) \/ A.kind = "AND_EXPRESSION")
    BY <1>3 DEF Merge_NOT_A_OR_B, IsHeadOf_NOT_A_OR_B
  <2>2. /\ A \in Condition /\ B \in Condition
        /\ nodes[h].out["false"] = nodes[s].out["true"]
    BY <2>1, SharedSuccessor DEF OtherEdge
  <2>3. c \in Condition
    BY <2>2, CompoundConditions
  <2>4. misrouted' \in BOOLEAN /\ (~ misrouted' => ~ misrouted /\ s # h)
    BY <1>1, <2>1 DEF MisroutesMerge
  <2> HIDE DEF s, A, B, c
  <2>5. s = nodes[h].out["true"]
    BY DEF s
  <2> QED  BY <2>1, <2>2, <2>3, <2>4, <2>5, MergeSharedStep
<1>4. CASE Merge_A_OR_B(h)
  <2> DEFINE s == nodes[h].out["false"]
             A == nodes[h].condition
             B == nodes[s].condition
             c == AssignUnlessNull(CompoundCondition_OR(A, B), PushedInto_OR(A, B))
  <2>1. /\ SharesSuccessor(h, "false", "true")
        /\ MergeInto(h, s, c, nodes[h].out["true"], nodes[s].out["false"])
        /\ misrouted' = (misrouted \/ MisroutesMerge(h, s))
    BY <1>4 DEF Merge_A_OR_B, IsHeadOf_A_OR_B
  <2>2. /\ A \in Condition /\ B \in Condition
        /\ nodes[h].out["true"] = nodes[s].out["true"]
    BY <2>1, SharedSuccessor DEF OtherEdge
  <2>3. c \in Condition
    BY <2>2, CompoundConditions
  <2>4. misrouted' \in BOOLEAN /\ (~ misrouted' => ~ misrouted /\ s # h)
    BY <1>1, <2>1 DEF MisroutesMerge
  <2> HIDE DEF s, A, B, c
  <2>5. s = nodes[h].out["false"]
    BY DEF s
  <2> QED  BY <2>1, <2>2, <2>3, <2>4, <2>5, MergeSharedStep
<1>5. CASE Merge_NOT_A_AND_B(h)
  <2> DEFINE s == nodes[h].out["false"]
             A == nodes[h].condition
             B == nodes[s].condition
             c == AssignUnlessNull(CompoundCondition_AND(Negated(A), B), AfterNegation(A))
  <2>1. /\ SharesSuccessor(h, "false", "false")
        /\ MergeInto(h, s, c, nodes[s].out["true"], nodes[s].out["false"])
        /\ misrouted' = (misrouted \/ MisroutesMerge(h, s) \/ A.kind = "OR_EXPRESSION")
    BY <1>5 DEF Merge_NOT_A_AND_B, IsHeadOf_NOT_A_AND_B
  <2>2. /\ A \in Condition /\ B \in Condition
        /\ nodes[h].out["true"] = nodes[s].out["false"]
    BY <2>1, SharedSuccessor DEF OtherEdge
  <2>3. c \in Condition
    BY <2>2, CompoundConditions
  <2>4. misrouted' \in BOOLEAN /\ (~ misrouted' => ~ misrouted /\ s # h)
    BY <1>1, <2>1 DEF MisroutesMerge
  <2> HIDE DEF s, A, B, c
  <2>5. s = nodes[h].out["false"]
    BY DEF s
  <2> QED  BY <2>1, <2>2, <2>3, <2>4, <2>5, MergeSharedStep
<1> QED
  BY <1>2, <1>3, <1>4, <1>5 DEF Structure

(* removeDirectJumpInstructions changes the jump that ends a block only.   *)
LEMMA RemoveDirectJumpInstructionsStep ==
  ASSUME IInv, RemoveDirectJumpInstructions
  PROVE  IInv'
<1>1. /\ size' = size /\ Ids' = Ids /\ Ids = 0 .. size - 1
      /\ DOMAIN nodes' = Ids /\ DOMAIN nodes = Ids
      /\ phase # "undefined"
  BY DEF RemoveDirectJumpInstructions, Ids, IInv, IsGraph
<1>2. ASSUME NEW i \in Ids
      PROVE  /\ IsBlock(nodes'[i]) /\ nodes'[i].id = i /\ nodes'[i].containing = i
             /\ Successors(nodes'[i]) = Successors(nodes[i])
             /\ nodes'[i].predecessors = nodes[i].predecessors
  <2>1. IsBlock(nodes[i]) /\ nodes[i].id = i /\ nodes[i].containing = i
    BY <1>1 DEF IInv, IsGraph
  <2>2. nodes'[i] \in {nodes[i], [nodes[i] EXCEPT !.jump = "none"]}
    BY DEF RemoveDirectJumpInstructions
  <2>3. CASE nodes'[i] = nodes[i]
    BY <2>1, <2>3
  <2>4. ASSUME NEW b, b = [nodes[i] EXCEPT !.jump = "none"], nodes'[i] = b
        PROVE  /\ IsBlock(b) /\ b.id = i /\ b.containing = i
               /\ Successors(b) = Successors(nodes[i])
               /\ b.predecessors = nodes[i].predecessors
    <3> DEFINE o == nodes[i]
    <3>1. b = [id |-> i, containing |-> i, startEA |-> o.startEA,
               nodeType |-> o.nodeType, body |-> o.body, jump |-> "none",
               condition |-> o.condition, out |-> o.out, successorIDs |-> o.successorIDs,
               cases |-> o.cases, defaultBlock |-> o.defaultBlock,
               predecessors |-> o.predecessors]
      BY <2>1, <2>4 DEF IsBlock, IsRecord
    <3> HIDE DEF o
    <3>2. /\ b.id = i /\ b.containing = i /\ b.startEA = o.startEA
          /\ b.nodeType = o.nodeType /\ b.body = o.body /\ b.jump = "none"
          /\ b.condition = o.condition /\ b.out = o.out
          /\ b.successorIDs = o.successorIDs /\ b.cases = o.cases
          /\ b.defaultBlock = o.defaultBlock /\ b.predecessors = o.predecessors
      BY <3>1
    <3>3. IsRecord(b)
      BY <3>1, <3>2 DEF IsRecord
    <3>4. BlockTypeOK(o) /\ o.id = i /\ o.containing = i
      BY <2>1 DEF IsBlock, o
    <3>5. BlockTypeOK(b)
      BY <3>2, <3>4 DEF BlockTypeOK, Jumps
    <3> QED  BY <3>2, <3>3, <3>5 DEF IsBlock, Successors, o
  <2> QED  BY <2>2, <2>3, <2>4
<1>3. IsGraph(nodes', size')
  BY <1>1, <1>2 DEF IsGraph
<1>4. IsClosed(nodes') /\ PredecessorsCached'
  BY <1>1, <1>2 DEF IInv, IsClosed, PredecessorsCached
<1> QED
  BY <1>1, <1>3, <1>4 DEF RemoveDirectJumpInstructions, IInv, Phases

(* Every step of the reduction keeps the inductive invariant.              *)
LEMMA NextInvariant == IInv /\ [Next]_vars => IInv'
<1> SUFFICES ASSUME IInv, [Next]_vars PROVE IInv'
  OBVIOUS
<1> USE DEF PredecessorsCached, Ids, Phases
<1>1. CASE RemoveDirectJumpInstructions
  BY <1>1, RemoveDirectJumpInstructionsStep
<1>2. ASSUME NEW e \in Ids, EliminateTrivialNode(e)
      PROVE  IInv'
  BY <1>2, EliminateTrivialNodeStep
<1>3. CASE StartStructuring
  BY <1>3 DEF StartStructuring, IInv
<1>4. CASE StructureNextBlock
  BY <1>4, StructureStep DEF StructureNextBlock
<1>5. CASE SkipNextBlock
  BY <1>5 DEF SkipNextBlock, IInv
<1>6. CASE StartNextPass
  BY <1>6 DEF StartNextPass, IInv
<1>7. CASE FinishStructuring
  BY <1>7 DEF FinishStructuring, IInv
<1>8. CASE UNCHANGED vars
  BY <1>8 DEF vars, IInv
<1> QED
  BY <1>1, <1>2, <1>3, <1>4, <1>5, <1>6, <1>7, <1>8 DEF Next

(* In every reachable state the inductive invariant holds.                 *)
THEOREM Invariant == Spec => []IInv
<1>1. Init => IInv
  BY InitInvariant
<1>2. IInv /\ [Next]_vars => IInv'
  BY NextInvariant
<1> QED
  BY <1>1, <1>2, PTL DEF Spec

(* The variables and every block of the graph have their types.            *)
THEOREM TypeCorrect == Spec => []TypeOK
<1>1. IInv => TypeOK
  BY DEF IInv, TypeOK, IsGraph, IsBlock, Ids
<1> QED
  BY <1>1, Invariant, PTL

(* However many blocks have been removed, no edge dangles, a block is      *)
(* stored under its own id, which its instructions know, and the cached    *)
(* predecessors are the inverse of the successors.                         *)
THEOREM Consistent == Spec => []GraphConsistent
<1>1. IInv => GraphConsistent
  BY DEF IInv, GraphConsistent, IsGraph, PredecessorsCached, Ids
<1> QED
  BY <1>1, Invariant, PTL

(* As long as no step has been taken that can redirect a branch,           *)
(* updateGraph is not reached with an edge to an id that no block has.     *)
THEOREM Defined == Spec => []StaysDefined
<1>1. IInv => StaysDefined
  BY DEF IInv, StaysDefined
<1> QED
  BY <1>1, Invariant, PTL

-----------------------------------------------------------------------------
(* The reduction implements BlockContraction as long as no branch may have *)
(* been redirected.                                                        *)

\* A jump table names successors of its block only.
TableMatches(b) ==
  b.nodeType = "N_WAY_NODE" =>
    /\ DOMAIN b.cases \subseteq b.successorIDs \cup {NoBlock}
    /\ b.defaultBlock \in b.successorIDs \cup {NoBlock}

\* The start address names the block.
Injective == \A i, j \in Ids : nodes[i].startEA = nodes[j].startEA => i = j

TablesMatch == \A i \in Ids : TableMatches(nodes[i])

\* The invariant that the refinement needs on top of IInv: the entry is left,
\* start addresses tell the blocks apart, and tables name successors.
Traceable == 0 \in Ids /\ Injective /\ TablesMatch

RInv == IInv /\ (~ misrouted => Traceable)

(* A block continues in one of its successors.                             *)
LEMMA ContinuesInSuccessors ==
  ASSUME NEW b, IsBlock(b), TableMatches(b), NEW v
  PROVE  Continues(b, v) \subseteq Successors(b)
<1>1. /\ b.nodeType \in {"Exit_NODE", "ONE_WAY_NODE", "TWO_WAY_NODE", "N_WAY_NODE"}
      /\ DOMAIN b.out = EdgeLabels[b.nodeType]
  BY Labels DEF IsBlock, BlockTypeOK
<1>2. /\ \A l \in DOMAIN b.out : b.out[l] \in Successors(b)
      /\ b.successorIDs \subseteq Successors(b)
  BY DEF Successors, Range
<1>3. CASE b.nodeType = "ONE_WAY_NODE"
  BY <1>1, <1>2, <1>3, Labels DEF Continues
<1>4. CASE b.nodeType = "TWO_WAY_NODE"
  BY <1>1, <1>2, <1>4, Labels DEF Continues
<1>5. CASE b.nodeType = "N_WAY_NODE"
  BY <1>2, <1>5 DEF Continues, TableMatches
<1>6. CASE b.nodeType = "Exit_NODE"
  BY <1>2, <1>6 DEF Continues
<1> QED
  BY <1>1, <1>3, <1>4, <1>5, <1>6

\* b continues where a does, once the ids above r have moved.
TargetsMoved(b, a, r) ==
  \A v : Continues(b, v) = {ShiftId(y, r) : y \in Continues(a, v)}

(* removeNode moves the targets of a block that does not lead to the       *)
(* removed one, and changes nothing about when it continues in which.      *)
LEMMA ContinuesMoved ==
  ASSUME NEW n \in Nat, NEW g, NEW k, NEW r \in Nat, NEW b, NEW a, a = g[k],
         IsBlock(a), IsBlock(b), TableMatches(a), ComesFrom(b, g, k, n, r),
         r \notin Successors(a)
  PROVE  TableMatches(b) /\ TargetsMoved(b, a, r)
<1> SUFFICES /\ TableMatches(b)
             /\ \A v : Continues(b, v) = {ShiftId(y, r) : y \in Continues(a, v)}
  BY DEF TargetsMoved
<1>1. /\ a.nodeType \in {"Exit_NODE", "ONE_WAY_NODE", "TWO_WAY_NODE", "N_WAY_NODE"}
      /\ DOMAIN a.out = EdgeLabels[a.nodeType]
      /\ a.successorIDs \subseteq Nat
      /\ a.nodeType # "N_WAY_NODE" => a.successorIDs = {} /\ b.successorIDs = {}
  BY Labels DEF IsBlock, BlockTypeOK, ComesFrom, SameContents
<1>2. /\ b.nodeType = a.nodeType /\ b.jump = a.jump /\ b.condition = a.condition
      /\ b.out = [l \in DOMAIN a.out |-> ShiftId(a.out[l], r)]
      /\ a.nodeType = "N_WAY_NODE" => TableMoved(b, a, r)
  BY DEF ComesFrom, SameContents
<1>3. a.successorIDs \subseteq Successors(a)
  BY DEF Successors
<1>5. CASE a.nodeType = "ONE_WAY_NODE"
  BY <1>1, <1>2, <1>5, Labels DEF Continues, TableMatches
<1>6. CASE a.nodeType = "TWO_WAY_NODE"
  BY <1>1, <1>2, <1>6, Labels DEF Continues, TableMatches
<1>7. CASE a.nodeType = "Exit_NODE"
  BY <1>1, <1>2, <1>7 DEF Continues, TableMatches
<1>8. CASE a.nodeType = "N_WAY_NODE"
  <2>1. /\ b.successorIDs = {ShiftId(x, r) : x \in a.successorIDs}
        /\ b.defaultBlock = ShiftId(a.defaultBlock, r)
        /\ DOMAIN b.cases = {ShiftId(x, r) : x \in DOMAIN a.cases}
        /\ r \notin DOMAIN a.cases =>
             \A x \in DOMAIN a.cases : b.cases[ShiftId(x, r)] = a.cases[x]
    BY <1>2, <1>8 DEF TableMoved
  <2>2. /\ DOMAIN a.cases \subseteq a.successorIDs \cup {NoBlock}
        /\ a.defaultBlock \in a.successorIDs \cup {NoBlock}
    BY <1>8 DEF TableMatches
  <2>3. r \notin DOMAIN a.cases
    BY <1>3, <2>2 DEF NoBlock
  <2>4. \A x \in Nat \cup {NoBlock} : ShiftId(x, r) = NoBlock <=> x = NoBlock
    BY DEF ShiftId, NoBlock
  <2>5. TableMatches(b)
    <3>1. \A x \in a.successorIDs \cup {NoBlock} : ShiftId(x, r) \in b.successorIDs \cup {NoBlock}
      BY <1>1, <2>1, <2>4
    <3>2. DOMAIN b.cases \subseteq b.successorIDs \cup {NoBlock}
      BY <2>1, <2>2, <3>1
    <3> QED  BY <2>1, <2>2, <3>1, <3>2 DEF TableMatches
  <2>6. ASSUME NEW v PROVE Continues(b, v) = {ShiftId(y, r) : y \in Continues(a, v)}
    <3>1. CASE a.jump # "INDIRECT_TABLE_JUMP"
      BY <1>2, <1>8, <2>1, <3>1 DEF Continues
    <3>2. CASE a.jump = "INDIRECT_TABLE_JUMP"
      <4> DEFINE Hits(c) == {x \in DOMAIN c.cases : CaseOf[v] \in c.cases[x]}
                 To(c) == IF Hits(c) = {} THEN {c.defaultBlock} ELSE Hits(c)
      <4>1. Continues(a, v) = To(a) \ {NoBlock} /\ Continues(b, v) = To(b) \ {NoBlock}
        BY <1>2, <1>8, <3>2 DEF Continues
      <4>2. Hits(b) = {ShiftId(x, r) : x \in Hits(a)}
        BY <2>1, <2>3
      <4> HIDE DEF Hits
      <4>3. To(b) = {ShiftId(x, r) : x \in To(a)}
        BY <2>1, <4>2
      <4>4. To(a) \subseteq Nat \cup {NoBlock}
        BY <1>1, <2>2 DEF Hits
      <4> HIDE DEF To
      <4> QED  BY <2>4, <4>1, <4>3, <4>4
    <3> QED  BY <3>1, <3>2
  <2> QED  BY <2>5, <2>6
<1> QED
  BY <1>1, <1>5, <1>6, <1>7, <1>8

(* Removing a silent block implements its contraction, provided that every *)
(* other block of the graph g it is removed from continues in g where it   *)
(* would have continued through the removed block.                         *)
LEMMA RemoveSilentStep ==
  ASSUME RInv, ~ misrouted,
         NEW g, IsGraph(g, size), NEW r \in Ids, r # 0, RemoveNode(g, r),
         ~ nodes[r].body,
         \A k \in Ids : g[k].startEA = nodes[k].startEA /\ g[k].body = nodes[k].body,
         \A k \in Ids \ {r} : TableMatches(g[k]) /\ r \notin Successors(g[k]),
         IsClosed(g),
         \A v \in Env : r \notin Continues(nodes[r], v),
         \A k \in Ids \ {r}, v \in Env : \A y :
           y \in Continues(g[k], v) <=>
             \/ y \in Continues(nodes[k], v) /\ y # r
             \/ r \in Continues(nodes[k], v) /\ y \in Continues(nodes[r], v)
  PROVE  /\ Traceable'
         /\ Contraction!Contract(nodes[r].startEA)
<1> DEFINE ea(k) == nodes[k].startEA
<1>1. /\ size \in Nat /\ Ids = 0 .. size - 1 /\ 0 \in Ids /\ r \in Nat /\ IsGraph(nodes, size)
      /\ \A i, j \in Ids : nodes[i].startEA = nodes[j].startEA => i = j
      /\ \A i \in Ids : IsBlock(g[i]) /\ TableMatches(nodes[i])
      /\ DOMAIN g = Ids
  BY DEF RInv, IInv, Traceable, Injective, TablesMatch, Ids, IsGraph
<1>2. /\ size' = size - 1 /\ Ids' = 0 .. size - 2 /\ IsGraph(nodes', size')
      /\ \A i \in Ids' : ComesFrom(nodes'[i], g, FormerId(i, r), size, r)
      /\ \A i \in Ids' : IsBlock(nodes'[i])
  <2>1. /\ size' = size - 1 /\ size' \in Nat /\ IsGraph(nodes', size')
        /\ \A i \in Ids' : ComesFrom(nodes'[i], g, FormerId(i, r), size, r)
    BY <1>1, RemoveNodeStep
  <2>2. Ids' = 0 .. size - 2 /\ Ids' = 0 .. size' - 1
    BY <1>1, <2>1 DEF Ids
  <2> QED  BY <2>1, <2>2 DEF IsGraph
<1>3. ASSUME NEW i \in Ids'
      PROVE  /\ FormerId(i, r) \in Ids \ {r} /\ ShiftId(FormerId(i, r), r) = i
             /\ nodes'[i].startEA = ea(FormerId(i, r))
             /\ nodes'[i].body = nodes[FormerId(i, r)].body
             /\ TableMatches(nodes'[i])
             /\ TargetsMoved(nodes'[i], g[FormerId(i, r)], r)
  <2> DEFINE k == FormerId(i, r)
  <2>1. k \in Ids \ {r} /\ ShiftId(k, r) = i
    BY <1>1, <1>2 DEF FormerId, ShiftId
  <2> HIDE DEF k
  <2>2. ComesFrom(nodes'[i], g, k, size, r)
    BY <1>2 DEF k
  <2>3. nodes'[i].startEA = ea(k) /\ nodes'[i].body = nodes[k].body
    BY <2>1, <2>2 DEF ComesFrom, SameContents
  <2>4. TableMatches(nodes'[i]) /\ TargetsMoved(nodes'[i], g[k], r)
    <3>1. /\ size \in Nat /\ r \in Nat /\ IsBlock(g[k]) /\ IsBlock(nodes'[i])
          /\ TableMatches(g[k]) /\ r \notin Successors(g[k])
      BY <1>1, <1>2, <2>1
    <3> QED  BY ONLY <2>2, <3>1, ContinuesMoved
  <2> QED  BY <2>1, <2>3, <2>4 DEF k
<1>4. ASSUME NEW k \in Ids \ {r}
      PROVE  ShiftId(k, r) \in Ids' /\ FormerId(ShiftId(k, r), r) = k
  BY <1>1, <1>2 DEF FormerId, ShiftId
<1>5. Injective'
  BY <1>1, <1>3 DEF Injective
<1>6. ASSUME NEW k \in Ids \ {r}, NEW v, NEW y \in Continues(g[k], v)
      PROVE  y \in Ids \ {r}
  <2>1. Continues(g[k], v) \subseteq Successors(g[k])
    BY <1>1, ContinuesInSuccessors
  <2> QED  BY <1>1, <2>1 DEF IsClosed
<1>7. \A b : b \in Blocks' <=> \E k \in Ids \ {r} : b = ea(k)
  BY <1>3, <1>4 DEF Blocks
<1>8. \A b : b \in SilentBlocks' <=> \E k \in Ids \ {r} : b = ea(k) /\ ~ nodes[k].body
  BY <1>3, <1>4 DEF SilentBlocks
<1>9. \A x : x \in Flow <=>
              \E k \in Ids, v \in Env : \E y \in Continues(nodes[k], v) : x = <<ea(k), v, ea(y)>>
  <2>1. \A i, v, x : x \in FlowOf(i, v) <=>
               \E j \in Continues(nodes[i], v) : x = <<ea(i), v, ea(j)>>
    BY DEF FlowOf
  <2>2. \A x : x \in Flow <=> \E i \in Ids, v \in Env : x \in FlowOf(i, v)
    BY DEF Flow
  <2> QED  BY <2>1, <2>2
<1>10. \A x : x \in Flow' <=>
               \E k \in Ids \ {r}, v \in Env : \E y \in Continues(g[k], v) : x = <<ea(k), v, ea(y)>>
  <2>0. \A i, v, x : x \in FlowOf(i, v)' <=>
               \E j \in Continues(nodes'[i], v) : x = <<nodes'[i].startEA, v, nodes'[j].startEA>>
    BY DEF FlowOf
  <2>1. \A x : x \in Flow' <=>
               \E i \in Ids', v \in Env : \E j \in Continues(nodes'[i], v) :
                 x = <<nodes'[i].startEA, v, nodes'[j].startEA>>
    BY <2>0 DEF Flow
  <2>2. ASSUME NEW i \in Ids', NEW v \in Env, NEW j \in Continues(nodes'[i], v)
        PROVE  \E y \in Continues(g[FormerId(i, r)], v) : nodes'[j].startEA = ea(y)
    <3>1. PICK y \in Continues(g[FormerId(i, r)], v) : j = ShiftId(y, r)
      BY <1>3, <2>2 DEF TargetsMoved
    <3>2. y \in Ids \ {r}
      BY <1>3, <1>6
    <3> QED  BY <1>3, <1>4, <3>1, <3>2
  <2>3. ASSUME NEW k \in Ids \ {r}, NEW v \in Env, NEW y \in Continues(g[k], v)
        PROVE  \E i \in Ids' : \E j \in Continues(nodes'[i], v) :
                 nodes'[i].startEA = ea(k) /\ nodes'[j].startEA = ea(y)
    <3>1. y \in Ids \ {r}
      BY <1>6
    <3>2. /\ ShiftId(k, r) \in Ids' /\ nodes'[ShiftId(k, r)].startEA = ea(k)
          /\ ShiftId(y, r) \in Continues(nodes'[ShiftId(k, r)], v)
      BY <1>3, <1>4 DEF TargetsMoved
    <3>3. ShiftId(y, r) \in Ids' /\ nodes'[ShiftId(y, r)].startEA = ea(y)
      BY <1>3, <1>4, <3>1
    <3> QED  BY <3>2, <3>3
  <2> QED  BY <1>3, <2>1, <2>2, <2>3
<1>11. \A k \in Ids, v \in Env : Continues(nodes[k], v) \subseteq Ids
  <2>1. ASSUME NEW k \in Ids, NEW v \in Env
        PROVE  Continues(nodes[k], v) \subseteq Ids
    <3>1. IsBlock(nodes[k]) /\ DOMAIN nodes = Ids /\ IsClosed(nodes)
      BY <1>1 DEF IsGraph, RInv, IInv
    <3>2. Continues(nodes[k], v) \subseteq Successors(nodes[k])
      BY <1>1, <3>1, ContinuesInSuccessors
    <3> QED  BY <3>1, <3>2 DEF IsClosed
  <2> QED  BY <2>1
<1>12. nodes[r].startEA \in SilentBlocks /\ nodes[r].startEA # EntryBlock
  BY <1>1 DEF SilentBlocks, EntryBlock
<1>13. \A e \in Flow : e[1] = ea(r) => e[3] # ea(r)
  BY <1>1, <1>9, <1>11
<1>14. Blocks' = Blocks \ {ea(r)}
  <2>1. \A b : b \in Blocks <=> \E k \in Ids : b = ea(k)
    BY DEF Blocks
  <2> QED  BY <1>1, <1>7, <2>1
<1>15. SilentBlocks' = SilentBlocks \ {ea(r)}
  <2>1. \A b : b \in SilentBlocks <=> \E k \in Ids : b = ea(k) /\ ~ nodes[k].body
    BY DEF SilentBlocks
  <2> QED  BY <1>1, <1>8, <2>1
<1>16. 0 \in Ids' /\ EntryBlock' = EntryBlock
  <2>1. 0 \in Ids' /\ FormerId(0, r) = 0
    BY <1>1, <1>2 DEF FormerId
  <2> QED  BY <1>3, <2>1 DEF EntryBlock
<1>17. Flow' = Contraction!Rerouted(ea(r))
  <2> DEFINE Kept == {e \in Flow : e[1] # ea(r) /\ e[3] # ea(r)}
             Through == {p \in Flow \X Flow : /\ p[1][1] # ea(r) /\ p[1][3] = ea(r)
                                              /\ p[2][1] = ea(r) /\ p[2][2] = p[1][2]}
             Joined == {<<p[1][1], p[1][2], p[2][3]>> : p \in Through}
  <2>1. Contraction!Rerouted(ea(r)) = Kept \cup Joined
    BY DEF Contraction!Rerouted
  <2>2. ASSUME NEW x \in Flow' PROVE x \in Kept \cup Joined
    <3>1. PICK k \in Ids \ {r}, v \in Env : \E y \in Continues(g[k], v) : x = <<ea(k), v, ea(y)>>
      BY <1>10
    <3>2. PICK y \in Continues(g[k], v) : x = <<ea(k), v, ea(y)>>
      BY <3>1
    <3>3. y \in Ids \ {r} /\ ea(k) # ea(r) /\ ea(y) # ea(r)
      BY <1>1, <1>6
    <3>4. CASE y \in Continues(nodes[k], v)
      BY <1>9, <3>2, <3>3, <3>4
    <3>5. CASE r \in Continues(nodes[k], v) /\ y \in Continues(nodes[r], v)
      <4> DEFINE a == <<ea(k), v, ea(r)>>
                 b == <<ea(r), v, ea(y)>>
      <4>1. a \in Flow /\ b \in Flow
        BY <1>9, <3>5
      <4>2. <<a, b>> \in Through
        BY <3>3, <4>1
      <4>3. x = << <<a, b>>[1][1], <<a, b>>[1][2], <<a, b>>[2][3] >>
        BY <3>2
      <4> HIDE DEF Through, a, b
      <4> QED  BY <4>2, <4>3
    <3> QED  BY <3>4, <3>5
  <2>3. ASSUME NEW x \in Kept PROVE x \in Flow'
    <3>1. PICK k \in Ids, v \in Env : \E y \in Continues(nodes[k], v) : x = <<ea(k), v, ea(y)>>
      BY <1>9
    <3>2. PICK y \in Continues(nodes[k], v) : x = <<ea(k), v, ea(y)>>
      BY <3>1
    <3>3. k # r /\ y # r
      BY <3>2
    <3>4. y \in Continues(g[k], v)
      BY <3>2, <3>3
    <3> QED  BY <1>10, <3>2, <3>3, <3>4
  <2>4. ASSUME NEW x \in Joined PROVE x \in Flow'
    <3>1. PICK p \in Through : x = <<p[1][1], p[1][2], p[2][3]>>
      OBVIOUS
    <3>2. /\ p[1] \in Flow /\ p[2] \in Flow
          /\ p[1][1] # ea(r) /\ p[1][3] = ea(r) /\ p[2][1] = ea(r) /\ p[2][2] = p[1][2]
      OBVIOUS
    <3>8. PICK k \in Ids, v \in Env : \E y \in Continues(nodes[k], v) : p[1] = <<ea(k), v, ea(y)>>
      BY <1>9, <3>2
    <3>3. PICK y \in Continues(nodes[k], v) : p[1] = <<ea(k), v, ea(y)>>
      BY <3>8
    <3>9. PICK k2 \in Ids, w \in Env : \E z \in Continues(nodes[k2], w) : p[2] = <<ea(k2), w, ea(z)>>
      BY <1>9, <3>2
    <3>4. PICK z \in Continues(nodes[k2], w) : p[2] = <<ea(k2), w, ea(z)>>
      BY <3>9
    <3>5. y \in Ids /\ z \in Ids
      BY <1>11, <3>3, <3>4
    <3>6. k # r /\ y = r /\ k2 = r /\ w = v
      BY <1>1, <3>2, <3>3, <3>4, <3>5
    <3>7. z \in Continues(g[k], v)
      BY <3>3, <3>4, <3>6
    <3> QED  BY <1>10, <3>1, <3>3, <3>4, <3>6, <3>7
  <2> HIDE DEF Kept, Joined
  <2> QED  BY <2>1, <2>2, <2>3, <2>4
<1>18. Contraction!Contract(nodes[r].startEA)
  BY <1>12, <1>13, <1>14, <1>15, <1>16, <1>17 DEF Contraction!Contract
<1> QED
  BY <1>3, <1>5, <1>16, <1>18 DEF Traceable, TablesMatch

(* eliminateTrivialNodes: who jumped to the empty block e jumps to where e *)
(* jumped.                                                                 *)
LEMMA EliminateTrivialNodeRefines ==
  ASSUME RInv, NEW e \in Ids, EliminateTrivialNode(e), ~ misrouted'
  PROVE  /\ Traceable'
         /\ Contraction!Next
<1> DEFINE g == UpdateSuccessorsOfPredecessorNodes(e)
           next == nodes[e].out["next"]
<1>1. /\ size \in Nat /\ IsGraph(nodes, size) /\ DOMAIN nodes = Ids /\ Ids = 0 .. size - 1
      /\ phase = "trivial" /\ IsClosed(nodes) /\ PredecessorsCached
      /\ e \in Nat
      /\ \A i \in Ids : IsBlock(nodes[i]) /\ nodes[i].id = i /\ nodes[i].containing = i
  BY DEF RInv, IInv, EliminateTrivialNode, IsGraph, Ids
<1>2. /\ nodes[e].nodeType = "ONE_WAY_NODE" /\ ~ nodes[e].body /\ e # 0
      /\ RemoveNode(g, e)
      /\ ~ misrouted /\ ~ MisroutesPredecessors(e)
  BY <1>1 DEF EliminateTrivialNode, EmptyOneWayNodes, IsEmpty
<1>3. \A i \in Ids : TableMatches(nodes[i])
  BY <1>2 DEF RInv, Traceable, TablesMatch
<1>4. next # e /\ Successors(nodes[e]) = {next} /\ next \in Ids /\ next \in Nat
  <2>1. next # e
    BY <1>2 DEF MisroutesPredecessors
  <2>2. Successors(nodes[e]) = {next}
    BY <1>1, <1>2, SuccessorsByLabel, Labels
  <2>3. Successors(nodes[e]) \subseteq Ids
    BY <1>1 DEF IsClosed
  <2> QED  BY <2>1, <2>2, <2>3 DEF Ids
<1>5. \A v : Continues(nodes[e], v) = {next}
  BY <1>2 DEF Continues
<1>6. DOMAIN g = Ids
  BY DEF UpdateSuccessorsOfPredecessorNodes
<1>7. ASSUME NEW i \in Ids
      PROVE  /\ e \in Successors(nodes[i]) => g[i] = Redirect(nodes[i], e, next)
             /\ e \notin Successors(nodes[i]) => g[i] = nodes[i]
  BY <1>1 DEF UpdateSuccessorsOfPredecessorNodes, PredecessorsCached
<1> HIDE DEF g, next
<1>8. ASSUME NEW i \in Ids
      PROVE  /\ IsBlock(g[i]) /\ g[i].id = i /\ g[i].containing = i
             /\ SameContents(g[i], nodes[i])
             /\ TableMatches(g[i])
             /\ Successors(g[i]) \subseteq Ids /\ e \notin Successors(g[i])
             /\ \A v, y : y \in Continues(g[i], v) <=>
                  \/ y \in Continues(nodes[i], v) /\ y # e
                  \/ e \in Continues(nodes[i], v) /\ y = next
  <2>1. CASE e \in Successors(nodes[i])
    <3>1. i \in nodes[e].predecessors
      BY <1>1, <2>1 DEF PredecessorsCached
    <3>2. /\ nodes[i].nodeType # "N_WAY_NODE"
          /\ nodes[i].nodeType = "TWO_WAY_NODE" => nodes[i].out["true"] # nodes[i].out["false"]
      BY <1>2, <3>1 DEF MisroutesPredecessors
    <3>3. /\ IsBlock(g[i]) /\ g[i].id = i /\ g[i].containing = i
          /\ g[i].out = MovedEdges(nodes[i].out, e, next) /\ SameContents(g[i], nodes[i])
      <4>1. /\ g[i] = Redirect(nodes[i], e, next) /\ nodes[i].id = i /\ nodes[i].containing = i
            /\ IsBlock(nodes[i]) /\ e \in Nat /\ next \in Nat /\ e \in Successors(nodes[i])
        BY <1>1, <1>4, <1>7, <2>1
      <4> QED  BY ONLY <3>2, <4>1, RedirectType
    <3>4. /\ Successors(g[i]) = {g[i].out[l] : l \in EdgeLabels[nodes[i].nodeType]}
          /\ Successors(nodes[i]) = {nodes[i].out[l] : l \in EdgeLabels[nodes[i].nodeType]}
      BY <1>1, <3>2, <3>3, SuccessorsByLabel DEF SameContents
    <3>5. /\ DOMAIN nodes[i].out = EdgeLabels[nodes[i].nodeType]
          /\ nodes[i].nodeType \in {"Exit_NODE", "ONE_WAY_NODE", "TWO_WAY_NODE"}
      BY <1>1, <3>2, Labels DEF IsBlock, BlockTypeOK
    <3>6. Successors(nodes[i]) \subseteq Ids
      BY <1>1 DEF IsClosed
    <3>7. Successors(g[i]) \subseteq Ids /\ e \notin Successors(g[i])
      BY <1>4, <3>3, <3>4, <3>5, <3>6 DEF MovedEdges
    <3>8. /\ TableMatches(g[i])
          /\ g[i].nodeType = nodes[i].nodeType /\ g[i].condition = nodes[i].condition
      BY <3>2, <3>3 DEF TableMatches, SameContents
    <3>9. CASE nodes[i].nodeType = "ONE_WAY_NODE"
      BY <1>4, <3>3, <3>5, <3>7, <3>8, <3>9, Labels DEF Continues, MovedEdges
    <3>10. CASE nodes[i].nodeType = "TWO_WAY_NODE"
      BY <1>4, <3>3, <3>5, <3>7, <3>8, <3>10, Labels DEF Continues, MovedEdges
    <3>11. CASE nodes[i].nodeType = "Exit_NODE"
      BY <2>1, <3>4, <3>11, Labels
    <3> QED  BY <3>5, <3>9, <3>10, <3>11
  <2>2. CASE e \notin Successors(nodes[i])
    <3>1. g[i] = nodes[i] /\ Successors(nodes[i]) \subseteq Ids
      BY <1>1, <1>7, <2>2 DEF IsClosed
    <3>2. \A v : Continues(nodes[i], v) \subseteq Successors(nodes[i])
      BY <1>1, <1>3, ContinuesInSuccessors
    <3> QED  BY <1>1, <1>3, <2>2, <3>1, <3>2 DEF SameContents
  <2> QED  BY <2>1, <2>2
<1>9. IsGraph(g, size) /\ IsClosed(g)
  BY <1>1, <1>6, <1>8 DEF IsGraph, IsClosed
<1>10. \A k \in Ids : g[k].startEA = nodes[k].startEA /\ g[k].body = nodes[k].body
  BY <1>8 DEF SameContents
<1>11. /\ \A k \in Ids \ {e} : TableMatches(g[k]) /\ e \notin Successors(g[k])
       /\ \A v \in Env : e \notin Continues(nodes[e], v)
       /\ \A k \in Ids \ {e}, v \in Env : \A y :
            y \in Continues(g[k], v) <=>
              \/ y \in Continues(nodes[k], v) /\ y # e
              \/ e \in Continues(nodes[k], v) /\ y \in Continues(nodes[e], v)
  BY <1>4, <1>5, <1>8
<1>12. /\ Traceable'
       /\ Contraction!Contract(nodes[e].startEA)
  BY <1>2, <1>9, <1>10, <1>11, RemoveSilentStep
<1>13. nodes[e].startEA \in SilentBlocks
  BY <1>2 DEF SilentBlocks
<1> QED
  BY <1>12, <1>13 DEF Contraction!Next

\* The edge that a branch takes in machine state v, and its target.
Taken(b, v) == IF v \in b.condition.holds THEN "true" ELSE "false"
Branch(b, v) == b.out[Taken(b, v)]

\* With condition c and edges to yes and no a branch leads where h led
\* through s, which is at its edge l.
LeadsThrough(h, s, l, c, yes, no) ==
  \A v \in Env : (IF v \in c.holds THEN yes ELSE no) =
                 IF Taken(nodes[h], v) = l THEN Branch(nodes[s], v)
                                           ELSE nodes[h].out[OtherEdge(l)]

(* A merge of s into h contracts s, when the condition and the edges that  *)
(* h gets lead in every machine state where the two branches led.          *)
LEMMA MergeRefines ==
  ASSUME RInv, phase = "compound", ~ misrouted, NEW h, h \in Ids,
         NEW l, l \in {"true", "false"}, NEW m, m \in {"true", "false"},
         SharesSuccessor(h, l, m),
         NEW s, s = nodes[h].out[l], s # h, s # 0,
         NEW c, c \in Condition, NEW yes, NEW no,
         yes \in {nodes[s].out["true"], nodes[s].out["false"]},
         no \in {nodes[s].out["true"], nodes[s].out["false"]},
         MergeInto(h, s, c, yes, no),
         LeadsThrough(h, s, l, c, yes, no)
  PROVE  /\ Traceable'
         /\ Contraction!Next
<1> DEFINE g == [nodes EXCEPT ![h].condition = c, ![h].out = TwoEdges(yes, no)]
           b == WithEdges(nodes[h], TwoEdges(yes, no), nodes[h].successorIDs,
                          nodes[h].cases, nodes[h].defaultBlock, c)
<1>1. /\ size \in Nat /\ IsGraph(nodes, size) /\ DOMAIN nodes = Ids /\ Ids = 0 .. size - 1
      /\ IsClosed(nodes) /\ IInv
      /\ \A i \in Ids : TableMatches(nodes[i])
      /\ \A i \in Ids : IsBlock(nodes[i]) /\ nodes[i].id = i /\ nodes[i].containing = i
  BY DEF RInv, IInv, Traceable, TablesMatch, IsGraph, Ids
<1>2. /\ s \in Ids /\ nodes[h].nodeType = "TWO_WAY_NODE"
      /\ nodes[s].nodeType = "TWO_WAY_NODE" /\ ~ nodes[s].body
      /\ nodes[s].out["true"] \in Ids /\ nodes[s].out["false"] \in Ids
      /\ nodes[h].out[OtherEdge(l)] = nodes[s].out[m]
      /\ nodes[s].out["true"] # s /\ nodes[s].out["false"] # s
      /\ \A i \in Ids \ {h} : s \notin Successors(nodes[i])
  <2>1. /\ IInv /\ phase = "compound" /\ h \in Ids /\ l \in {"true", "false"}
        /\ m \in {"true", "false"} /\ SharesSuccessor(h, l, m)
        /\ s = nodes[h].out[l] /\ s # h
    BY <1>1
  <2> QED  BY ONLY <2>1, SharedSuccessor
<1>3. RemoveNode(g, s)
  BY <1>1, <1>2 DEF MergeInto
<1>4. /\ DOMAIN g = Ids /\ g[h] = b
      /\ \A i \in Ids \ {h} : g[i] = nodes[i]
  BY <1>1 DEF WithEdges, IsBlock, IsRecord
<1>5. /\ IsBlock(b) /\ b.id = h /\ b.containing = h /\ b.startEA = nodes[h].startEA
      /\ b.nodeType = "TWO_WAY_NODE" /\ b.out = TwoEdges(yes, no)
      /\ b.body = nodes[h].body /\ b.condition = c
  <2>1. EdgesTypeOK(nodes[h].nodeType, TwoEdges(yes, no), nodes[h].successorIDs,
                    nodes[h].cases, nodes[h].defaultBlock)
    BY <1>1, <1>2, Labels DEF IsBlock, BlockTypeOK, EdgesTypeOK, TwoEdges, Ids
  <2> QED  BY <1>1, <1>2, <2>1, ReplaceEdgesType
<1>6. Successors(b) = {yes, no}
  <2>1. Successors(b) = {b.out[x] : x \in {"true", "false"}}
    BY <1>5, SuccessorsByLabel, Labels
  <2> QED  BY <2>1, <1>5 DEF TwoEdges
<1> HIDE DEF g, b
<1>7. IsGraph(g, size) /\ IsClosed(g)
  BY <1>1, <1>2, <1>4, <1>5, <1>6 DEF IsGraph, IsClosed
<1>8. \A k \in Ids : g[k].startEA = nodes[k].startEA /\ g[k].body = nodes[k].body
  BY <1>4, <1>5
<1>9. \A k \in Ids \ {s} : TableMatches(g[k]) /\ s \notin Successors(g[k])
  BY <1>1, <1>2, <1>4, <1>5, <1>6 DEF TableMatches
<1>10. \A v : Continues(nodes[s], v) = {Branch(nodes[s], v)}
  BY <1>2 DEF Continues, Branch, Taken
<1>11. \A v \in Env : s \notin Continues(nodes[s], v)
  <2>1. \A v : Taken(nodes[s], v) \in {"true", "false"}
    BY DEF Taken
  <2>2. \A v : Branch(nodes[s], v) # s
    BY <1>2, <2>1 DEF Branch
  <2> QED  BY <1>10, <2>2
<1>12. ASSUME NEW k \in Ids \ {s}, NEW v \in Env, NEW y
       PROVE  y \in Continues(g[k], v) <=>
                \/ y \in Continues(nodes[k], v) /\ y # s
                \/ s \in Continues(nodes[k], v) /\ y \in Continues(nodes[s], v)
  <2>1. CASE k = h
    <3>1. Continues(g[k], v) = {IF v \in c.holds THEN yes ELSE no}
      BY <1>4, <1>5, <2>1 DEF Continues, TwoEdges
    <3>2. Continues(nodes[k], v) = {nodes[h].out[Taken(nodes[h], v)]}
      BY <1>2, <2>1 DEF Continues, Taken
    <3>3. CASE Taken(nodes[h], v) = l
      BY <1>2, <1>10, <3>1, <3>2, <3>3 DEF LeadsThrough
    <3>4. CASE Taken(nodes[h], v) # l
      <4>1. Taken(nodes[h], v) = OtherEdge(l)
        BY <3>4 DEF Taken, OtherEdge
      <4>2. nodes[h].out[OtherEdge(l)] # s
        BY <1>2
      <4> QED  BY <3>1, <3>2, <3>4, <4>1, <4>2 DEF LeadsThrough
    <3> QED  BY <3>3, <3>4
  <2>2. CASE k # h
    <3>1. g[k] = nodes[k] /\ s \notin Successors(nodes[k])
      BY <1>2, <1>4, <2>2
    <3>2. Continues(nodes[k], v) \subseteq Successors(nodes[k])
      BY <1>1, ContinuesInSuccessors
    <3> QED  BY <3>1, <3>2
  <2> QED  BY <2>1, <2>2
<1>13. /\ Traceable'
       /\ Contraction!Contract(nodes[s].startEA)
  BY <1>2, <1>3, <1>7, <1>8, <1>9, <1>11, <1>12, RemoveSilentStep
<1>14. nodes[s].startEA \in SilentBlocks
  BY <1>2 DEF SilentBlocks
<1> QED
  BY <1>13, <1>14 DEF Contraction!Next

(* What the new condition of a merged branch says, as long as              *)
(* getNegatedExpression does not turn the first condition into an          *)
(* expression that the second one is pushed into.                          *)
LEMMA CompoundHolds ==
  ASSUME NEW A \in Condition, NEW B \in Condition
  PROVE  /\ AssignUnlessNull(CompoundCondition_AND(A, B), PushedInto_AND(A, B)).holds
              = A.holds \cap B.holds
         /\ AssignUnlessNull(CompoundCondition_OR(A, B), PushedInto_OR(A, B)).holds
              = A.holds \cup B.holds
         /\ A.kind # "AND_EXPRESSION" =>
              AssignUnlessNull(CompoundCondition_OR(Negated(A), B), AfterNegation(A)).holds
                = (Env \ A.holds) \cup B.holds
         /\ A.kind # "OR_EXPRESSION" =>
              AssignUnlessNull(CompoundCondition_AND(Negated(A), B), AfterNegation(A)).holds
                = (Env \ A.holds) \cap B.holds
<1>1. \A X, Y : /\ Conjunction(X, Y) # NullCondition /\ Conjunction(X, Y).holds = X.holds \cap Y.holds
               /\ Disjunction(X, Y) # NullCondition /\ Disjunction(X, Y).holds = X.holds \cup Y.holds
  BY DEF Conjunction, Disjunction, NullCondition
<1>2. /\ Negated(A).holds = Env \ A.holds
      /\ A.kind # "AND_EXPRESSION" => Negated(A).kind # "OR_EXPRESSION"
      /\ A.kind # "OR_EXPRESSION" => Negated(A).kind # "AND_EXPRESSION"
  BY DEF Negated, NegatedKind, Condition, Kinds
<1> QED
  BY <1>1, <1>2 DEF AssignUnlessNull, CompoundCondition_AND, PushedInto_AND,
                    CompoundCondition_OR, PushedInto_OR

(* The four merges contract the block they remove.                         *)
LEMMA StructureRefines ==
  ASSUME RInv, phase = "compound", NEW h \in Ids, Structure(h), ~ misrouted'
  PROVE  /\ Traceable'
         /\ Contraction!Next
<1>1. IInv
  BY DEF RInv
<1>2. CASE Merge_A_AND_B(h)
  <2> DEFINE s == nodes[h].out["true"]
             A == nodes[h].condition
             B == nodes[s].condition
             c == AssignUnlessNull(CompoundCondition_AND(A, B), PushedInto_AND(A, B))
  <2>1. /\ SharesSuccessor(h, "true", "false")
        /\ MergeInto(h, s, c, nodes[s].out["true"], nodes[h].out["false"])
        /\ ~ misrouted /\ s # h /\ s # 0
    BY <1>2 DEF Merge_A_AND_B, IsHeadOf_A_AND_B, MisroutesMerge
  <2>2. /\ A \in Condition /\ B \in Condition
        /\ nodes[h].out["false"] = nodes[s].out["false"]
    BY <1>1, <2>1, SharedSuccessor DEF OtherEdge
  <2>3. c \in Condition /\ c.holds = A.holds \cap B.holds
    BY <2>2, CompoundConditions, CompoundHolds
  <2> HIDE DEF c
  <2>4. LeadsThrough(h, s, "true", c, nodes[s].out["true"], nodes[h].out["false"])
    BY <2>2, <2>3 DEF LeadsThrough, Taken, Branch, OtherEdge
  <2> HIDE DEF s, A, B
  <2>5. s = nodes[h].out["true"]
    BY DEF s
  <2> QED  BY <2>1, <2>2, <2>3, <2>4, <2>5, MergeRefines
<1>3. CASE Merge_NOT_A_OR_B(h)
  <2> DEFINE s == nodes[h].out["true"]
             A == nodes[h].condition
             B == nodes[s].condition
             c == AssignUnlessNull(CompoundCondition_OR(Negated(A), B), AfterNegation(A))
  <2>1. /\ SharesSuccessor(h, "true", "true")
        /\ MergeInto(h, s, c, nodes[s].out["true"], nodes[s].out["false"])
        /\ ~ misrouted /\ s # h /\ s # 0 /\ A.kind # "AND_EXPRESSION"
    BY <1>3 DEF Merge_NOT_A_OR_B, IsHeadOf_NOT_A_OR_B, MisroutesMerge
  <2>2. /\ A \in Condition /\ B \in Condition
        /\ nodes[h].out["false"] = nodes[s].out["true"]
    BY <1>1, <2>1, SharedSuccessor DEF OtherEdge
  <2>3. c \in Condition /\ c.holds = (Env \ A.holds) \cup B.holds
    BY <2>1, <2>2, CompoundConditions, CompoundHolds
  <2> HIDE DEF c
  <2>4. LeadsThrough(h, s, "true", c, nodes[s].out["true"], nodes[s].out["false"])
    BY <2>2, <2>3 DEF LeadsThrough, Taken, Branch, OtherEdge
  <2> HIDE DEF s, A, B
  <2>5. s = nodes[h].out["true"]
    BY DEF s
  <2> QED  BY <2>1, <2>2, <2>3, <2>4, <2>5, MergeRefines
<1>4. CASE Merge_A_OR_B(h)
  <2> DEFINE s == nodes[h].out["false"]
             A == nodes[h].condition
             B == nodes[s].condition
             c == AssignUnlessNull(CompoundCondition_OR(A, B), PushedInto_OR(A, B))
  <2>1. /\ SharesSuccessor(h, "false", "true")
        /\ MergeInto(h, s, c, nodes[h].out["true"], nodes[s].out["false"])
        /\ ~ misrouted /\ s # h /\ s # 0
    BY <1>4 DEF Merge_A_OR_B, IsHeadOf_A_OR_B, MisroutesMerge
  <2>2. /\ A \in Condition /\ B \in Condition
        /\ nodes[h].out["true"] = nodes[s].out["true"]
    BY <1>1, <2>1, SharedSuccessor DEF OtherEdge
  <2>3. c \in Condition /\ c.holds = A.holds \cup B.holds
    BY <2>2, CompoundConditions, CompoundHolds
  <2> HIDE DEF c
  <2>4. LeadsThrough(h, s, "false", c, nodes[h].out["true"], nodes[s].out["false"])
    BY <2>2, <2>3 DEF LeadsThrough, Taken, Branch, OtherEdge
  <2> HIDE DEF s, A, B
  <2>5. s = nodes[h].out["false"]
    BY DEF s
  <2> QED  BY <2>1, <2>2, <2>3, <2>4, <2>5, MergeRefines
<1>5. CASE Merge_NOT_A_AND_B(h)
  <2> DEFINE s == nodes[h].out["false"]
             A == nodes[h].condition
             B == nodes[s].condition
             c == AssignUnlessNull(CompoundCondition_AND(Negated(A), B), AfterNegation(A))
  <2>1. /\ SharesSuccessor(h, "false", "false")
        /\ MergeInto(h, s, c, nodes[s].out["true"], nodes[s].out["false"])
        /\ ~ misrouted /\ s # h /\ s # 0 /\ A.kind # "OR_EXPRESSION"
    BY <1>5 DEF Merge_NOT_A_AND_B, IsHeadOf_NOT_A_AND_B, MisroutesMerge
  <2>2. /\ A \in Condition /\ B \in Condition
        /\ nodes[h].out["true"] = nodes[s].out["false"]
    BY <1>1, <2>1, SharedSuccessor DEF OtherEdge
  <2>3. c \in Condition /\ c.holds = (Env \ A.holds) \cap B.holds
    BY <2>1, <2>2, CompoundConditions, CompoundHolds
  <2> HIDE DEF c
  <2>4. LeadsThrough(h, s, "false", c, nodes[s].out["true"], nodes[s].out["false"])
    BY <2>2, <2>3 DEF LeadsThrough, Taken, Branch, OtherEdge
  <2> HIDE DEF s, A, B
  <2>5. s = nodes[h].out["false"]
    BY DEF s
  <2> QED  BY <2>1, <2>2, <2>3, <2>4, <2>5, MergeRefines
<1> QED
  BY <1>2, <1>3, <1>4, <1>5 DEF Structure

(* The jump table of a flow chart names successors of its block.            *)
LEMMA AddNodeTable ==
  ASSUME NEW chart \in Charts, NEW i \in DOMAIN chart,
         NEW b, b = AddNode(i, chart[i])
  PROVE  TableMatches(b)
<1> DEFINE block == chart[i]
<1>1. /\ DOMAIN block.cases \subseteq Range(block.succ) \cup {NoBlock}
      /\ block.defaultBlock \in Range(block.succ) \cup {NoBlock}
  BY ChartsAssumption DEF IsFlowChart
<1> HIDE DEF block
<1>2. CASE \E t \in DOMAIN EdgeLabels \ {"N_WAY_NODE"} : \E out : b = Node(i, t, out, {}, block)
  BY <1>2 DEF Node, TableMatches
<1>3. CASE b = Node(i, "N_WAY_NODE", NoEdges, Range(block.succ), block)
  BY <1>1, <1>3 DEF Node, TableMatches
<1> QED
  BY <1>2, <1>3, Labels DEF AddNode, block

(* The graph of a flow chart is an initial state of the contraction.       *)
LEMMA InitRefines == Init => RInv /\ Contraction!Init
<1> SUFFICES ASSUME Init PROVE RInv /\ Contraction!Init
  OBVIOUS
<1>1. PICK chart \in Charts :
        /\ size = Cardinality(DOMAIN chart)
        /\ nodes = BuildGraph(chart)
  BY DEF Init
<1> DEFINE g == [i \in DOMAIN chart |-> AddNode(i, chart[i])]
<1>2. size \in Nat /\ DOMAIN chart = 0 .. size - 1 /\ Ids = 0 .. size - 1 /\ DOMAIN chart # {}
  BY <1>1, ChartsAssumption, FS_CardinalityType DEF IsFlowChart, Ids
<1>3. \A i \in Ids : g[i].startEA = i /\ TableMatches(g[i])
  BY <1>2, AddNodeType, AddNodeTable
<1>4. IsGraph(g, size)
  BY <1>2, AddNodeType DEF IsGraph
<1>5. nodes = UpdateNodesPredecessors(g)
  BY <1>1 DEF BuildGraph
<1> HIDE DEF g
<1>6. \A i \in Ids : SameContents(nodes[i], g[i]) /\ SameTable(nodes[i], g[i])
  BY <1>2, <1>4, <1>5, UpdateNodesPredecessorsGraph
<1>7. \A i \in Ids : nodes[i].startEA = i /\ TableMatches(nodes[i])
  BY <1>3, <1>6 DEF SameContents, SameTable, TableMatches
<1>8. RInv
  BY <1>2, <1>7, InitInvariant DEF RInv, Traceable, Injective, TablesMatch
<1>9. Contraction!Init
  <2>1. /\ IsGraph(nodes, size) /\ IsClosed(nodes) /\ DOMAIN nodes = Ids
    BY <1>8, <1>2 DEF RInv, IInv, IsGraph, Init
  <2>2. SilentBlocks \subseteq Blocks
    BY DEF SilentBlocks, Blocks
  <2>3. EntryBlock \in Blocks
    BY <1>2 DEF EntryBlock, Blocks
  <2>4. ASSUME NEW e \in Flow PROVE e[1] \in Blocks /\ e[3] \in Blocks
    <3>1. PICK i \in Ids, v \in Env : e \in FlowOf(i, v)
      BY DEF Flow
    <3>2. PICK j \in Continues(nodes[i], v) : e = <<nodes[i].startEA, v, nodes[j].startEA>>
      BY <3>1 DEF FlowOf
    <3>3. Continues(nodes[i], v) \subseteq Successors(nodes[i])
      BY <1>2, <1>7, <2>1, ContinuesInSuccessors DEF IsGraph
    <3>4. j \in Ids
      BY <2>1, <3>3 DEF IsClosed
    <3> QED  BY <3>2, <3>4 DEF Blocks
  <2> QED  BY <2>2, <2>3, <2>4 DEF Contraction!Init
<1> QED
  BY <1>8, <1>9

(* A direct jump at the end of a block tells nothing that its edge does    *)
(* not: without it the program is the same.                                *)
LEMMA RemoveDirectJumpInstructionsRefines ==
  ASSUME RInv, RemoveDirectJumpInstructions, ~ misrouted'
  PROVE  /\ Traceable'
         /\ UNCHANGED Contraction!vars
<1>1. Ids' = Ids /\ ~ misrouted /\ size' = size
  BY DEF RemoveDirectJumpInstructions, Ids
<1>2. /\ IsGraph(nodes, size) /\ Injective /\ \A i \in Ids : TableMatches(nodes[i])
      /\ Ids = 0 .. size - 1 /\ 0 \in Ids
  BY <1>1 DEF RInv, IInv, Traceable, TablesMatch, Ids
<1>3. ASSUME NEW i \in Ids
      PROVE  /\ nodes'[i].startEA = nodes[i].startEA /\ nodes'[i].body = nodes[i].body
             /\ TableMatches(nodes'[i])
             /\ \A v : Continues(nodes'[i], v) = Continues(nodes[i], v)
  <2>1. IsRecord(nodes[i]) /\ TableMatches(nodes[i])
    BY <1>2 DEF IsGraph, IsBlock
  <2>2. \/ nodes'[i] = nodes[i]
        \/ nodes[i].jump = "DIRECT_JUMP" /\ nodes'[i] = [nodes[i] EXCEPT !.jump = "none"]
    BY DEF RemoveDirectJumpInstructions
  <2>3. CASE nodes'[i] = nodes[i]
    BY <2>1, <2>3
  <2>4. ASSUME NEW b, b = [nodes[i] EXCEPT !.jump = "none"], nodes'[i] = b,
               nodes[i].jump = "DIRECT_JUMP"
        PROVE  /\ b.startEA = nodes[i].startEA /\ b.body = nodes[i].body
               /\ TableMatches(b)
               /\ \A v : Continues(b, v) = Continues(nodes[i], v)
    <3> DEFINE o == nodes[i]
    <3>1. /\ b.startEA = o.startEA /\ b.nodeType = o.nodeType /\ b.body = o.body
          /\ b.condition = o.condition /\ b.out = o.out
          /\ b.successorIDs = o.successorIDs /\ b.cases = o.cases
          /\ b.defaultBlock = o.defaultBlock
          /\ b.jump # "INDIRECT_TABLE_JUMP" /\ o.jump # "INDIRECT_TABLE_JUMP"
      BY <2>1, <2>4 DEF IsRecord
    <3>2. TableMatches(b)
      BY <2>1, <3>1 DEF TableMatches
    <3>3. ASSUME NEW v PROVE Continues(b, v) = Continues(o, v)
      BY <3>1 DEF Continues
    <3> QED  BY <3>1, <3>2, <3>3
  <2> QED  BY <2>2, <2>3, <2>4
<1>4. Injective'
  BY <1>1, <1>2, <1>3 DEF Injective
<1>5. DOMAIN nodes = Ids /\ IsClosed(nodes)
  BY <1>2 DEF IsGraph, RInv, IInv, RemoveDirectJumpInstructions
<1>6. Blocks' = Blocks /\ SilentBlocks' = SilentBlocks
  BY <1>1, <1>3 DEF Blocks, SilentBlocks
<1>7. EntryBlock' = EntryBlock
  BY <1>2, <1>3 DEF EntryBlock
<1>8. Flow' = Flow
  <2>1. ASSUME NEW i \in Ids, NEW v
        PROVE  FlowOf(i, v)' = FlowOf(i, v)
    <3>1. \A j \in Continues(nodes[i], v) : j \in Ids
      <4>1. Continues(nodes[i], v) \subseteq Successors(nodes[i])
        BY <1>2, ContinuesInSuccessors DEF IsGraph
      <4> QED  BY <1>5, <4>1 DEF IsClosed
    <3> QED  BY <1>3, <3>1 DEF FlowOf
  <2> QED  BY <1>1, <2>1 DEF Flow
<1> QED
  BY <1>1, <1>2, <1>3, <1>4, <1>6, <1>7, <1>8 DEF Contraction!vars, Traceable, TablesMatch

(* Every step of the reduction keeps the invariant and, as long as no      *)
(* branch may have been redirected, contracts a block or changes nothing   *)
(* of the program.                                                         *)
LEMMA NextRefines ==
  ASSUME RInv, [Next]_vars
  PROVE  RInv' /\ (~ misrouted' => Contraction!Next \/ UNCHANGED Contraction!vars)
<1>1. IInv'
  BY NextInvariant DEF RInv
<1>2. CASE UNCHANGED <<size, nodes, misrouted>>
  <2>1. RInv'
    BY <1>1, <1>2 DEF RInv, Traceable, Injective, TablesMatch, Ids
  <2>2. UNCHANGED Contraction!vars
    BY <1>2 DEF Contraction!vars, Blocks, SilentBlocks, EntryBlock, Flow, FlowOf, Ids
  <2> QED  BY <2>1, <2>2
<1>3. CASE RemoveDirectJumpInstructions
  BY <1>1, <1>3, RemoveDirectJumpInstructionsRefines DEF RInv
<1>4. ASSUME NEW e \in Ids, EliminateTrivialNode(e)
      PROVE  RInv' /\ (~ misrouted' => Contraction!Next \/ UNCHANGED Contraction!vars)
  BY <1>1, <1>4, EliminateTrivialNodeRefines DEF RInv
<1>5. CASE StructureNextBlock
  BY <1>1, <1>5, StructureRefines DEF RInv, StructureNextBlock
<1> QED
  BY <1>2, <1>3, <1>4, <1>5 DEF Next, vars, StartStructuring, SkipNextBlock, StartNextPass,
                                FinishStructuring

(* The reduction implements BlockContraction: as long as no step has been  *)
(* taken that can redirect a branch, each step contracts one silent block  *)
(* or leaves the program alone, in every machine state.                    *)
THEOREM ImplementsContraction == Spec => ReducesByContraction
<1>1. Init => RInv /\ Contraction!Init
  BY InitRefines
<1>2. RInv /\ [Next]_vars =>
        RInv' /\ [~ misrouted' => Contraction!Next \/ UNCHANGED Contraction!vars]_vars
  BY NextRefines
<1> QED
  BY <1>1, <1>2, PTL DEF Spec, ReducesByContraction

-----------------------------------------------------------------------------
(* Nothing is left to reduce                                               *)

(* A set of ids in ascending order is a sequence of its elements.          *)
LEMMA AscendingSequence ==
  ASSUME NEW S, IsFiniteSet(S), S \subseteq Nat
  PROVE  Ascending(S) \in Seq(S)
<1> DEFINE c == Cardinality(S)
           below(x) == {y \in S : y < x}
           rank == [x \in S |-> Cardinality(below(x))]
<1>1. c \in Nat
  BY FS_CardinalityType
<1>2. ASSUME NEW x \in S
      PROVE  IsFiniteSet(below(x)) /\ Cardinality(below(x)) \in Nat /\ Cardinality(below(x)) <= c - 1 /\ x \notin below(x)
  <2>1. IsFiniteSet(S \ {x}) /\ Cardinality(S \ {x}) = c - 1
    BY FS_RemoveElement
  <2>2. x \notin below(x) /\ below(x) \in SUBSET (S \ {x})
    OBVIOUS
  <2> QED
    BY <2>1, <2>2, FS_Subset, FS_CardinalityType
<1>3. ASSUME NEW x \in S, NEW z \in S, x < z
      PROVE  Cardinality(below(x)) < Cardinality(below(z))
  <2>1. IsFiniteSet(below(x) \cup {x}) /\ Cardinality(below(x) \cup {x}) = Cardinality(below(x)) + 1
    BY <1>2, FS_AddElement
  <2>2. below(x) \cup {x} \in SUBSET below(z)
    <3>1. ASSUME NEW y \in below(x)
          PROVE  y \in below(z)
      <4>1. y \in S /\ y \in Nat /\ x \in Nat /\ z \in Nat /\ y < x
        OBVIOUS
      <4> QED
        BY <4>1, <1>3
    <3>2. x \in below(z)
      BY <1>3
    <3> QED
      BY <3>1, <3>2
  <2>3. Cardinality(below(x) \cup {x}) <= Cardinality(below(z))
    BY <2>2, <1>2, FS_Subset
  <2> HIDE DEF below
  <2> QED
    BY <2>1, <2>3, <1>2
<1>4. rank \in Injection(S, 0 .. c - 1)
  <2>1. rank \in [S -> 0 .. c - 1]
    BY <1>1, <1>2
  <2>2. ASSUME NEW x \in S, NEW z \in S, rank[x] = rank[z]
        PROVE  x = z
    <3>1. ~ x < z /\ ~ z < x
      <4>1. rank[x] = Cardinality(below(x)) /\ rank[z] = Cardinality(below(z))
        OBVIOUS
      <4>2. Cardinality(below(x)) \in Nat /\ Cardinality(below(z)) \in Nat
        BY <1>2
      <4>3. /\ x < z => Cardinality(below(x)) < Cardinality(below(z))
            /\ z < x => Cardinality(below(z)) < Cardinality(below(x))
        BY <1>3
      <4>4. Cardinality(below(x)) = Cardinality(below(z))
        BY <4>1, <2>2
      <4> QED
        BY ONLY <4>2, <4>3, <4>4
    <3> QED
      BY <3>1
  <2> HIDE DEF rank
  <2> QED
    BY <2>1, <2>2 DEF Injection, IsInjective
<1>5. rank \in Surjection(S, 0 .. c - 1)
  <2>1. IsFiniteSet(0 .. c - 1) /\ Cardinality(0 .. c - 1) = c
    <3> HIDE DEF c
    <3>1. 0 \in Int /\ c - 1 \in Int
      BY <1>1
    <3> QED
      BY <1>1, <3>1, FS_Interval
  <2> HIDE DEF rank
  <2> QED
    BY <1>4, <2>1, FS_Injection
<1>6. ASSUME NEW i \in 1 .. c
      PROVE  \E x \in S : Cardinality(below(x)) = i - 1
  <2>1. i - 1 \in 0 .. c - 1
    BY <1>1
  <2>2. PICK x \in S : rank[x] = i - 1
    <3> HIDE DEF rank
    <3> QED
      BY <1>5, <2>1 DEF Surjection
  <2> QED
    BY <2>2
<1>7. Ascending(S) \in [1 .. c -> S]
  <2>1. ASSUME NEW i \in 1 .. c
        PROVE  (CHOOSE x \in S : Cardinality(below(x)) = i - 1) \in S
    BY <1>6
  <2> QED
    BY <2>1 DEF Ascending
<1> QED
  BY <1>1, <1>7

(* The edges of each block are a list of ids, so that the search covers    *)
(* all blocks.                                                             *)
LEMMA PostOrderCoversBlocks ==
  ASSUME IInv, phase # "undefined"
  PROVE  /\ GetPostOrder \in Seq(Nat)
         /\ Ids \subseteq Range(GetPostOrder)
<1> DEFINE out == [i \in Ids |-> OutEdges(nodes[i])]
<1>1. size \in Nat /\ IsGraph(nodes, size) /\ DOMAIN nodes = Ids /\ Ids = 0 .. size - 1 /\ IsClosed(nodes)
  BY DEF IInv, IsGraph, Ids
<1>2. ASSUME NEW i \in Ids
      PROVE  OutEdges(nodes[i]) \in Seq(Ids)
  <2>1. IsBlock(nodes[i]) /\ Successors(nodes[i]) \subseteq Ids
    BY <1>1 DEF IsGraph, IsClosed
  <2>2. /\ nodes[i].nodeType \in {"Exit_NODE", "ONE_WAY_NODE", "TWO_WAY_NODE", "N_WAY_NODE"}
        /\ DOMAIN nodes[i].out = EdgeLabels[nodes[i].nodeType]
    BY <2>1, Labels DEF IsBlock, BlockTypeOK
  <2>3. nodes[i].successorIDs \subseteq Ids /\ \A l \in DOMAIN nodes[i].out : nodes[i].out[l] \in Ids
    BY <2>1 DEF Successors, Range
  <2>4. CASE nodes[i].nodeType = "ONE_WAY_NODE"
    <3>1. nodes[i].out["next"] \in Ids
      BY <2>2, <2>3, <2>4, Labels
    <3> QED
      BY <2>4, <3>1 DEF OutEdges
  <2>5. CASE nodes[i].nodeType = "TWO_WAY_NODE"
    <3>1. nodes[i].out["true"] \in Ids /\ nodes[i].out["false"] \in Ids
      BY <2>2, <2>3, <2>5, Labels
    <3> QED
      BY <2>5, <3>1 DEF OutEdges
  <2>6. CASE nodes[i].nodeType \notin {"ONE_WAY_NODE", "TWO_WAY_NODE"}
    <3> DEFINE S == nodes[i].successorIDs
    <3>1. OutEdges(nodes[i]) = Ascending(S)
      BY <2>6 DEF OutEdges
    <3>2. IsFiniteSet(S) /\ S \subseteq Nat
      <4>1. IsFiniteSet(Ids)
        BY <1>1, FS_Interval
      <4> QED
        BY <4>1, <2>3, <1>1, FS_Subset
    <3>3. Ascending(S) \in Seq(S)
      BY <3>2, AscendingSequence
    <3> HIDE DEF S
    <3>4. Seq(S) \subseteq Seq(Ids)
      BY <2>3 DEF S
    <3> QED
      BY <3>1, <3>3, <3>4
  <2> QED
    BY <2>4, <2>5, <2>6
<1>3. OutEdgesOK(size, out)
  BY <1>1, <1>2 DEF OutEdgesOK
<1>4. PICK o : o = GetPostOrder /\ IsOrder(size, o)
  BY <1>1, <1>3, PostOrderComplete DEF GetPostOrder
<1>5. o \in Seq(Nat)
  <2>1. o \in Seq(Ids)
    BY <1>4 DEF IsOrder, Ids
  <2>2. Len(o) \in Nat /\ o \in [1 .. Len(o) -> Ids]
    BY <2>1
  <2>3. o \in [1 .. Len(o) -> Nat]
    BY <2>2, <1>1
  <2> QED
    BY <2>2, <2>3
<1>6. Ids \subseteq Range(o)
  <2>1. DOMAIN o = 1 .. size /\ \A v \in Ids : \E i \in 1 .. size : o[i] = v
    BY <1>4 DEF IsOrder, Ids
  <2> QED
    BY <2>1 DEF Range
<1> QED
  BY <1>4, <1>5, <1>6

\* structureCompoundConditionals starts when no empty one-way block is left.
NoneEmpty == phase \in {"compound", "done"} => EmptyOneWayNodes = {}

\* In a pass that has merged nothing, each head of a pattern is still ahead.
HeadsAhead ==
  /\ phase = "compound" /\ ~ merged => \A h \in Ids : IsHead(h) => h \in Range(order)
  /\ phase = "done" => \A h \in Ids : ~ IsHead(h)

ReducedInv == IInv /\ order \in Seq(Nat) /\ NoneEmpty /\ HeadsAhead

(* removeNode takes away a block, but puts none into the graph that is     *)
(* empty.                                                                  *)
LEMMA RemovalLeavesNoneEmpty ==
  ASSUME IInv, NEW g, IsGraph(g, size), NEW s \in Ids, RemoveNode(g, s), phase' # "undefined",
         \A i \in Ids : IsEmpty(g[i]) /\ g[i].nodeType = "ONE_WAY_NODE" => i = 0
  PROVE  EmptyOneWayNodes' = {}
<1>1. size \in Nat /\ s \in 0 .. size - 1
  BY DEF IInv, Ids
<1> DEFINE rest == WithoutNode(g, size, s)
<1>2. IsGraph(rest, size - 1) /\ \A i \in 0 .. size - 2 : ComesFrom(rest[i], g, FormerId(i, s), size, s)
  BY <1>1, WithoutNodeGraph
<1>3. size' = size - 1 /\ nodes' = UpdateNodesPredecessors(rest)
  <2>1. size' = size - 1 /\ (IF IsClosed(rest) THEN nodes' = UpdateNodesPredecessors(rest) /\ phase' = phase
                             ELSE nodes' = rest /\ phase' = "undefined")
    BY DEF RemoveNode
  <2> QED
    BY <2>1
<1> HIDE DEF rest
<1>4. ASSUME NEW i \in EmptyOneWayNodes'
      PROVE  FALSE
  <2>1. i \in Ids' /\ IsEmpty(nodes'[i]) /\ nodes'[i].nodeType = "ONE_WAY_NODE" /\ nodes'[i].id # 0
    BY <1>4 DEF EmptyOneWayNodes
  <2>2. i \in 0 .. size - 2 /\ i \in DOMAIN rest
    BY <1>1, <1>2, <1>3, <2>1 DEF Ids, IsGraph
  <2>3. PICK P : nodes'[i] = [rest[i] EXCEPT !.predecessors = P]
    BY <1>3, <2>2 DEF UpdateNodesPredecessors
  <2>4. IsRecord(rest[i]) /\ rest[i].id = i
    BY <1>1, <1>2, <2>2 DEF IsGraph, IsBlock
  <2>5. /\ nodes'[i].body = rest[i].body /\ nodes'[i].jump = rest[i].jump
        /\ nodes'[i].nodeType = rest[i].nodeType /\ nodes'[i].id = rest[i].id
    <3>1. PICK b : b = rest[i]
      OBVIOUS
    <3>2. nodes'[i] = [b EXCEPT !.predecessors = P] /\ IsRecord(b)
      BY <2>3, <2>4, <3>1
    <3>3. /\ nodes'[i].body = b.body /\ nodes'[i].jump = b.jump
          /\ nodes'[i].nodeType = b.nodeType /\ nodes'[i].id = b.id
      BY ONLY <3>2 DEF IsRecord
    <3> QED
      BY <3>1, <3>3
  <2>6. i # 0
    BY <2>1, <2>4, <2>5
  <2>7. PICK k : k = FormerId(i, s)
    OBVIOUS
  <2>8. k \in Ids /\ SameContents(rest[i], g[k])
    BY <1>2, <2>2, <2>7 DEF ComesFrom, Ids
  <2>9. k # 0
    BY <1>1, <2>2, <2>6, <2>7 DEF FormerId
  <2>10. IsEmpty(g[k]) /\ g[k].nodeType = "ONE_WAY_NODE"
    BY <2>1, <2>5, <2>8 DEF IsEmpty, SameContents
  <2> QED
    BY <2>8, <2>9, <2>10
<1> QED
  BY <1>4

(* A merge changes a two-way block and removes another.                    *)
LEMMA MergeLeavesNoneEmpty ==
  ASSUME ReducedInv, phase = "compound", NEW h \in Ids, Structure(h)
  PROVE  phase' # "undefined" => EmptyOneWayNodes' = {}
<1>1. size \in Nat /\ IsGraph(nodes, size) /\ DOMAIN nodes = Ids /\ Ids = 0 .. size - 1 /\ EmptyOneWayNodes = {} /\ IInv
  BY DEF ReducedInv, NoneEmpty, IInv, IsGraph, Ids
<1>2. ASSUME NEW l \in {"true", "false"}, NEW m \in {"true", "false"}, SharesSuccessor(h, l, m),
             NEW s, s = nodes[h].out[l], NEW A, A = nodes[h].condition, NEW B, B = nodes[s].condition
      PROVE  /\ AssignUnlessNull(CompoundCondition_AND(A, B), PushedInto_AND(A, B)) \in Condition
             /\ AssignUnlessNull(CompoundCondition_OR(A, B), PushedInto_OR(A, B)) \in Condition
             /\ AssignUnlessNull(CompoundCondition_OR(Negated(A), B), AfterNegation(A)) \in Condition
             /\ AssignUnlessNull(CompoundCondition_AND(Negated(A), B), AfterNegation(A)) \in Condition
             /\ s \in Ids /\ nodes[s].id = s /\ nodes[h].nodeType = "TWO_WAY_NODE"
             /\ nodes[s].out["true"] \in Ids /\ nodes[s].out["false"] \in Ids /\ nodes[h].out[OtherEdge(l)] \in Ids
  <2>1. /\ s \in Ids /\ nodes[s].id = s /\ A \in Condition /\ B \in Condition /\ nodes[h].nodeType = "TWO_WAY_NODE"
        /\ nodes[s].out["true"] \in Ids /\ nodes[s].out["false"] \in Ids
        /\ nodes[h].out[OtherEdge(l)] = nodes[s].out[m]
    BY <1>1, <1>2, SharedSuccessor
  <2> QED
    BY <2>1, CompoundConditions
<1>3. PICK s \in Ids, c \in Condition, yes \in Ids, no \in Ids :
        /\ MergeInto(h, s, c, yes, no)
        /\ nodes[s].id = s /\ nodes[h].nodeType = "TWO_WAY_NODE"
  <2>1. OtherEdge("true") = "false" /\ OtherEdge("false") = "true"
    BY DEF OtherEdge
  <2>2. CASE Merge_A_AND_B(h)
    BY <2>1, <2>2, <1>2 DEF Merge_A_AND_B, IsHeadOf_A_AND_B
  <2>3. CASE Merge_NOT_A_OR_B(h)
    BY <2>1, <2>3, <1>2 DEF Merge_NOT_A_OR_B, IsHeadOf_NOT_A_OR_B
  <2>4. CASE Merge_A_OR_B(h)
    BY <2>1, <2>4, <1>2 DEF Merge_A_OR_B, IsHeadOf_A_OR_B
  <2>5. CASE Merge_NOT_A_AND_B(h)
    BY <2>1, <2>5, <1>2 DEF Merge_NOT_A_AND_B, IsHeadOf_NOT_A_AND_B
  <2> QED
    BY <2>2, <2>3, <2>4, <2>5 DEF Structure
<1> DEFINE g == [nodes EXCEPT ![h].condition = c, ![h].out = TwoEdges(yes, no)]
           b == WithEdges(nodes[h], TwoEdges(yes, no), nodes[h].successorIDs,
                          nodes[h].cases, nodes[h].defaultBlock, c)
<1>4. \A i \in Ids : IsBlock(nodes[i]) /\ nodes[i].id = i /\ nodes[i].containing = i
  BY <1>1 DEF IsGraph
<1>5. RemoveNode(g, s)
  BY <1>3 DEF MergeInto
<1>6. /\ DOMAIN g = Ids
      /\ g[h] = b
      /\ \A i \in Ids \ {h} : g[i] = nodes[i]
  BY <1>1, <1>4 DEF WithEdges, IsBlock, IsRecord
<1>7. /\ IsBlock(b) /\ b.id = h /\ b.containing = h
      /\ b.nodeType = "TWO_WAY_NODE"
  <2>1. EdgesTypeOK(nodes[h].nodeType, TwoEdges(yes, no), nodes[h].successorIDs,
                    nodes[h].cases, nodes[h].defaultBlock)
    BY <1>1, <1>3, <1>4, Labels DEF IsBlock, BlockTypeOK, EdgesTypeOK, TwoEdges, Ids
  <2> QED
    BY <1>3, <1>4, <2>1, ReplaceEdgesType
<1> HIDE DEF g, b
<1>8. IsGraph(g, size)
  BY <1>1, <1>4, <1>6, <1>7 DEF IsGraph
<1>9. ASSUME NEW i \in Ids, IsEmpty(g[i]), g[i].nodeType = "ONE_WAY_NODE"
      PROVE  i = 0
  <2>1. i # h /\ g[i] = nodes[i]
    BY <1>6, <1>7, <1>9
  <2>2. i \notin EmptyOneWayNodes /\ nodes[i].id = i
    BY <1>1, <1>4
  <2> QED
    BY <2>1, <2>2, <1>9 DEF EmptyOneWayNodes
<1> QED
  BY <1>1, <1>5, <1>8, <1>9, RemovalLeavesNoneEmpty

(* As long as a pass merges nothing, the blocks it has passed head no      *)
(* pattern, and it passes all blocks; a merge makes another pass follow.   *)
LEMMA ReducedInvariant == ReducedInv /\ [Next]_vars => ReducedInv'
<1> SUFFICES ASSUME ReducedInv, [Next]_vars PROVE ReducedInv'
  OBVIOUS
<1>1. IInv /\ order \in Seq(Nat) /\ NoneEmpty /\ HeadsAhead
  BY DEF ReducedInv
<1>2. IInv'
  BY <1>1, NextInvariant
<1>3. (Tail(order) \in Seq(Nat) /\ Range(order) \subseteq {Head(order)} \cup Range(Tail(order))) \/ order = <<>>
  <2> SUFFICES ASSUME order # <<>>
               PROVE  Tail(order) \in Seq(Nat) /\ Range(order) \subseteq {Head(order)} \cup Range(Tail(order))
    OBVIOUS
  <2>1. Tail(order) \in Seq(Nat)
    BY <1>1
  <2>2. ASSUME NEW x \in Range(order)
        PROVE  x \in {Head(order)} \cup Range(Tail(order))
    <3>1. PICK i \in 1 .. Len(order) : x = order[i]
      BY <1>1 DEF Range
    <3>2. CASE i = 1
      BY <3>1, <3>2, <1>1
    <3>3. CASE i # 1
      <4>1. Len(order) \in Nat /\ i - 1 \in 1 .. Len(Tail(order)) /\ DOMAIN Tail(order) = 1 .. Len(Tail(order)) /\ Tail(order)[i - 1] = order[i]
        BY <1>1, <3>1, <3>3
      <4> QED
        BY <4>1, <3>1 DEF Range
    <3> QED
      BY <3>2, <3>3
  <2> QED
    BY <2>1, <2>2
<1>4. CASE RemoveDirectJumpInstructions
  BY <1>1, <1>2, <1>4 DEF RemoveDirectJumpInstructions, ReducedInv, NoneEmpty, HeadsAhead
<1>5. ASSUME NEW e \in Ids, EliminateTrivialNode(e)
      PROVE  ReducedInv'
  <2>1. phase = "trivial" /\ order' = order /\ phase' \in {phase, "undefined"}
    BY <1>5 DEF EliminateTrivialNode, RemoveNode
  <2> QED
    BY <1>1, <1>2, <2>1 DEF ReducedInv, NoneEmpty, HeadsAhead
<1>6. CASE StartStructuring
  <2>1. phase = "trivial" /\ phase' = "compound" /\ order' = GetPostOrder /\ UNCHANGED <<size, nodes, merged>> /\ EmptyOneWayNodes = {}
    BY <1>6 DEF StartStructuring
  <2>2. order' \in Seq(Nat) /\ Ids \subseteq Range(order')
    BY <1>1, <2>1, PostOrderCoversBlocks
  <2>3. Ids' = Ids /\ EmptyOneWayNodes' = EmptyOneWayNodes
    BY <2>1 DEF Ids, EmptyOneWayNodes
  <2> QED
    BY <1>2, <2>1, <2>2, <2>3 DEF ReducedInv, NoneEmpty, HeadsAhead
<1>7. CASE StructureNextBlock
  <2>1. phase = "compound" /\ order # <<>> /\ Head(order) \in Ids /\ Structure(Head(order))
    BY <1>7 DEF StructureNextBlock
  <2>2. merged' = TRUE /\ order' = Tail(order) /\ phase' \in {phase, "undefined"}
    BY <2>1 DEF Structure, Merge_A_AND_B, Merge_NOT_A_OR_B, Merge_A_OR_B, Merge_NOT_A_AND_B, MergeInto, RemoveNode
  <2>3. phase' # "undefined" => EmptyOneWayNodes' = {}
    BY <2>1, MergeLeavesNoneEmpty
  <2> QED
    BY <1>2, <1>3, <2>1, <2>2, <2>3 DEF ReducedInv, NoneEmpty, HeadsAhead
<1>8. CASE SkipNextBlock
  <2>1. /\ phase = "compound" /\ order # <<>> /\ (Head(order) \in Ids => ~ IsHead(Head(order)))
        /\ order' = Tail(order) /\ UNCHANGED <<size, nodes, phase, merged>>
    BY <1>8 DEF SkipNextBlock
  <2>2. Ids' = Ids /\ EmptyOneWayNodes' = EmptyOneWayNodes /\ \A h : IsHead(h)' <=> IsHead(h)
    BY <2>1 DEF Ids, EmptyOneWayNodes, IsHead, IsHeadOf_A_AND_B, IsHeadOf_NOT_A_OR_B, IsHeadOf_A_OR_B, IsHeadOf_NOT_A_AND_B,
                SharesSuccessor, IsConditionOnly
  <2>3. \A h \in Ids : ~ merged /\ IsHead(h) => h \in Range(order')
    BY <1>1, <1>3, <2>1 DEF HeadsAhead
  <2> QED
    BY <1>1, <1>2, <1>3, <2>1, <2>2, <2>3 DEF ReducedInv, NoneEmpty, HeadsAhead
<1>9. CASE StartNextPass
  <2>1. phase = "compound" /\ phase' = phase /\ order' = GetPostOrder /\ UNCHANGED <<size, nodes>>
    BY <1>9 DEF StartNextPass
  <2>2. order' \in Seq(Nat) /\ Ids \subseteq Range(order')
    BY <1>1, <2>1, PostOrderCoversBlocks
  <2>3. Ids' = Ids /\ EmptyOneWayNodes' = EmptyOneWayNodes
    BY <2>1 DEF Ids, EmptyOneWayNodes
  <2> QED
    BY <1>1, <1>2, <2>1, <2>2, <2>3 DEF ReducedInv, NoneEmpty, HeadsAhead
<1>10. CASE FinishStructuring
  <2>1. phase = "compound" /\ phase' = "done" /\ order = <<>> /\ ~ merged /\ UNCHANGED <<size, nodes, order>>
    BY <1>10 DEF FinishStructuring
  <2>2. Ids' = Ids /\ EmptyOneWayNodes' = EmptyOneWayNodes /\ \A h : IsHead(h)' <=> IsHead(h)
    BY <2>1 DEF Ids, EmptyOneWayNodes, IsHead, IsHeadOf_A_AND_B, IsHeadOf_NOT_A_OR_B, IsHeadOf_A_OR_B, IsHeadOf_NOT_A_AND_B,
                SharesSuccessor, IsConditionOnly
  <2>3. \A h \in Ids : ~ IsHead(h)
    <3>1. Range(order) = {}
      BY <2>1 DEF Range
    <3> QED
      BY <3>1, <1>1, <2>1 DEF HeadsAhead
  <2> QED
    BY <1>1, <1>2, <2>1, <2>2, <2>3 DEF ReducedInv, NoneEmpty, HeadsAhead
<1>11. CASE UNCHANGED vars
  <2>1. UNCHANGED <<size, nodes, phase, order, merged>>
    BY <1>11 DEF vars
  <2>2. Ids' = Ids /\ EmptyOneWayNodes' = EmptyOneWayNodes /\ \A h : IsHead(h)' <=> IsHead(h)
    BY <2>1 DEF Ids, EmptyOneWayNodes, IsHead, IsHeadOf_A_AND_B, IsHeadOf_NOT_A_OR_B, IsHeadOf_A_OR_B, IsHeadOf_NOT_A_AND_B,
                SharesSuccessor, IsConditionOnly
  <2> QED
    BY <1>1, <1>2, <2>1, <2>2 DEF ReducedInv, NoneEmpty, HeadsAhead
<1> QED
  BY <1>4, <1>5, <1>6, <1>7, <1>8, <1>9, <1>10, <1>11 DEF Next

(* When the analysis is over, no empty one-way block and no head of a      *)
(* compound condition is left, in whatever order the blocks were visited   *)
(* and however merges moved their ids during a pass.                       *)
THEOREM ReducedAsFarAsPossible == Spec => []NothingLeftToReduce
<1>1. Init => ReducedInv
  <2> SUFFICES ASSUME Init PROVE ReducedInv
    OBVIOUS
  <2>1. IInv
    BY InitInvariant
  <2>2. phase = "jumps" /\ order = <<>>
    BY DEF Init
  <2> QED
    BY <2>1, <2>2 DEF ReducedInv, NoneEmpty, HeadsAhead
<1>2. ReducedInv /\ [Next]_vars => ReducedInv'
  BY ReducedInvariant
<1>3. ReducedInv => NothingLeftToReduce
  BY DEF ReducedInv, NoneEmpty, HeadsAhead, NothingLeftToReduce
<1> QED
  BY <1>1, <1>2, <1>3, PTL DEF Spec

=============================================================================
