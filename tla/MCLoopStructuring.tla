------------------------- MODULE MCLoopStructuring -------------------------
(***************************************************************************)
(* LoopStructuring on all graphs of up to three blocks, among them those   *)
(* with branches both edges of which lead to one block, on those of four   *)
(* blocks that have no switch or one at the entry, and on those of five    *)
(* blocks with a loop at block 1; and the graphs on which                  *)
(* BranchStructuring and CodeGeneration are checked.                       *)
(***************************************************************************)
EXTENDS LoopStructuring

\* The blocks whose successors are in T.
Straight(T) == {[type |-> "Exit_NODE", out |-> <<>>]}
               \cup {[type |-> "ONE_WAY_NODE", out |-> <<t>>] : t \in T}
Switches(T) == {[type |-> "N_WAY_NODE", out |-> SetToSortSeq(S, <)] : S \in {U \in SUBSET T : Cardinality(U) >= 2}}
TwoWay(pairs) == {[type |-> "TWO_WAY_NODE", out |-> p] : p \in pairs}

AnyOut(T) == Straight(T) \cup TwoWay({p \in T \X T : p[1] # p[2]})

\* The true successor of a branch has the smaller number.
OrderedOut(T) == Straight(T) \cup TwoWay({p \in T \X T : p[1] < p[2]})

\* The graph of blocks 0 .. n-1: all switches have a table or none has, and
\* the last successor of a switch is its default, or there is no default.
GraphOf(n, blocks, tables, defaults) ==
  [size |-> n,
   edges |-> UNION {{<<v, blocks[v].out[i]>> : i \in DOMAIN blocks[v].out} : v \in 0 .. n - 1},
   out |-> [v \in 0 .. n - 1 |-> blocks[v].out],
   nodeType |-> [v \in 0 .. n - 1 |-> blocks[v].type],
   table |-> [v \in 0 .. n - 1 |-> tables],
   default |-> [v \in 0 .. n - 1 |-> IF defaults /\ blocks[v].out # <<>> THEN Last(blocks[v].out) ELSE -1]]

\* Only the entry may be without a predecessor.
HasOneHeader(g) ==
  \A v \in 1 .. g.size - 1 : \E u \in 0 .. g.size - 1 : <<u, v>> \in g.edges

\* All graphs of up to three blocks, with their unreachable circles and
\* branches to the entry.
SmallGraphs ==
  UNION {{g \in {GraphOf(n, b, n > 2, FALSE) :
                    b \in [0 .. n - 1 -> AnyOut(0 .. n - 1) \cup Switches(0 .. n - 1)]} :
            HasOneHeader(g)} : n \in 1 .. 3}

\* The graphs of up to three blocks with a branch whose targets are the same,
\* as merging the blocks between can make them.
ParallelEdges ==
  UNION {{g \in {GraphOf(n, b, TRUE, FALSE) :
                    b \in [0 .. n - 1 -> Straight(0 .. n - 1) \cup TwoWay((0 .. n - 1) \X (0 .. n - 1))]} :
            HasOneHeader(g) /\ \E v \in 0 .. n - 1 : Len(g.out[v]) = 2 /\ g.out[v][1] = g.out[v][2]} : n \in 1 .. 3}

\* The graphs of four blocks whose entry is no branch target, ...
GraphsOfFour ==
  {g \in {GraphOf(4, b, TRUE, FALSE) : b \in [0 .. 3 -> AnyOut(1 .. 3)]} : HasOneHeader(g)}

\* ... those whose entry is a switch, ...
SwitchAtEntry ==
  {g \in {GraphOf(4, [v \in 0 .. 3 |-> IF v = 0 THEN s ELSE b[v]], TRUE, TRUE) :
             s \in Switches(1 .. 3), b \in [1 .. 3 -> OrderedOut(1 .. 3)]} : HasOneHeader(g)}

\* ... and those in which a switch may come anywhere.
SwitchesInside ==
  {g \in {GraphOf(4, b, TRUE, TRUE) : b \in [0 .. 3 -> OrderedOut(1 .. 3) \cup Switches(1 .. 3)]} :
     HasOneHeader(g) /\ \E v \in 1 .. 3 : g.nodeType[v] = "N_WAY_NODE"}

\* Those with branches to the entry, from which block 1 is entered and never
\* left.
BranchesToEntry ==
  LET Blocks == {(0 :> [type |-> "TWO_WAY_NODE", out |-> <<1, 2>>]) @@ (1 :> [type |-> "ONE_WAY_NODE", out |-> <<1>>])
                   @@ (2 :> b) @@ (3 :> c) : b \in OrderedOut(0 .. 3), c \in OrderedOut(0 .. 3)}
  IN  {g \in {GraphOf(4, b, TRUE, FALSE) : b \in Blocks} : HasOneHeader(g)}

\* The graphs of five blocks in which the entry goes to block 1, which is the
\* target of a branch: room for a loop with a break, or for two nested loops
\* with a block between.
GraphsOfFive ==
  LET Blocks == {[v \in 0 .. 4 |-> IF v = 0 THEN [type |-> "ONE_WAY_NODE", out |-> <<1>>] ELSE b[v]] :
                   b \in [1 .. 4 -> OrderedOut(1 .. 4)]}
  IN  {g \in {GraphOf(5, b, TRUE, FALSE) : b \in Blocks} :
         HasOneHeader(g) /\ \E u \in 1 .. 4 : <<u, 1>> \in g.edges}

\* The graphs of six blocks without a loop, numbered along their edges.
LoopFreeGraphs ==
  LET Blocks[v \in 0 .. 6] ==
        IF v = 6 THEN {<<>>} ELSE {<<b>> \o rest : b \in OrderedOut(v + 1 .. 5), rest \in Blocks[v + 1]}
  IN  {g \in {GraphOf(6, [v \in 0 .. 5 |-> b[v + 1]], TRUE, FALSE) : b \in Blocks[0]} : HasOneHeader(g)}

\* The graphs of seven blocks in which a branch of two exit blocks stands
\* beside a branch whose successors meet.
TwoParts ==
  {GraphOf(7, [v \in 0 .. 6 |->
                 CASE v = 0 -> [type |-> "TWO_WAY_NODE", out |-> top]
                   [] v = 1 -> [type |-> "TWO_WAY_NODE", out |-> <<3, 4>>]
                   [] v = 2 -> [type |-> "TWO_WAY_NODE", out |-> join]
                   [] v = 5 -> [type |-> "ONE_WAY_NODE", out |-> <<6>>]
                   [] OTHER -> [type |-> "Exit_NODE", out |-> <<>>]], TRUE, FALSE) :
     top \in {<<1, 2>>, <<2, 1>>}, join \in {<<5, 6>>, <<6, 5>>}}

-----------------------------------------------------------------------------

MCLoopGraphs ==
  SmallGraphs \cup ParallelEdges \cup {g \in GraphsOfFour \cup SwitchAtEntry \cup GraphsOfFive : AllReachable(g)}

\* A sequence that ends loses a vertex with every level.
MCMaxLevels == 7

=============================================================================
