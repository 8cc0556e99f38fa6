-------------------------- MODULE MCGraphReduction --------------------------
(***************************************************************************)
(* Instances of GraphReduction.  Block i branches on an atomic condition   *)
(* of its own, so that Env is the set of all valuations of the atoms, and  *)
(* even blocks compare (HighLevelCondition) while odd ones test flags      *)
(* (LowLevelCondition).                                                    *)
(***************************************************************************)
EXTENDS GraphReduction

Block(i, succ, body, jump) ==
  LET test == {v \in Env : i \in v}
  IN  [succ |-> succ, target |-> IF succ = <<>> THEN NoBlock ELSE succ[1],
       body |-> body, jump |-> jump,
       condition |-> IF i % 2 = 0 THEN HighLevelCondition(test) ELSE LowLevelCondition(test),
       cases |-> <<>>, defaultBlock |-> NoBlock]

Exit(i) == Block(i, <<>>, TRUE, "none")
Goto(i, next) == Block(i, <<next>>, FALSE, "DIRECT_JUMP")
Straight(i, next) == Block(i, <<next>>, TRUE, "none")
Branch(i, yes, no, body) == Block(i, <<yes, no>>, body, "CONDITIONAL_JUMP")

\* The flow chart may list the fall-through successor first.
BranchSwapped(i, yes, no) ==
  [Block(i, <<no, yes>>, TRUE, "CONDITIONAL_JUMP") EXCEPT !.target = yes]

\* Case 1 goes to the first successor, case 2 and the default to the second.
Switch(i, first, second) ==
  [Block(i, <<first, second>>, TRUE, "INDIRECT_TABLE_JUMP") EXCEPT
     !.cases = [k \in {first, second} |-> IF k = first THEN {1} ELSE {2}],
     !.defaultBlock = second]

Indirect(i, targets) ==
  Block(i, SetToSeq(targets), TRUE, "INDIRECT_JUMP")

\* At most one block is without predecessor: buildIntermediateRepresentation
\* refuses the function otherwise.
HasOneHeader(g) ==
  Cardinality(DOMAIN g \ UNION {Range(g[k].succ) : k \in DOMAIN g}) <= 1

\* The flow charts in which block i is one of BlocksAt(i).
ChartsOver(n, BlocksAt(_)) ==
  LET Extend(lists, i) == UNION {{Append(g, b) : b \in BlocksAt(i)} : g \in lists}
      lists == FoldLeft(Extend, {<<>>}, [k \in 1 .. n |-> k - 1])
      charts == {[i \in 0 .. n - 1 |-> g[i + 1]] : g \in lists}
  IN  {g \in charts : HasOneHeader(g)}

-----------------------------------------------------------------------------
\* Every flow chart of up to three blocks: loops of one block, switches and
\* indirect jumps included.

AnyBlock(n, i) ==
  LET Pairs == {p \in (0 .. n - 1) \X (0 .. n - 1) : p[1] # p[2]}
  IN  {Exit(i)} \cup {Goto(i, x) : x \in 0 .. n - 1}
      \cup {Straight(i, x) : x \in 0 .. n - 1}
      \cup {Branch(i, p[1], p[2], FALSE) : p \in Pairs}
      \cup {BranchSwapped(i, p[1], p[2]) : p \in {q \in Pairs : q[1] < q[2]}}
      \cup {Switch(i, p[1], p[2]) : p \in Pairs}
      \cup (IF n = 3 THEN {Indirect(i, 0 .. 2)} ELSE {})

SmallCharts ==
  UNION {LET At(i) == AnyBlock(n, i) IN ChartsOver(n, At) : n \in 1 .. 3}

\* The properties of this run do not depend on the machine state.
SmallEnv == SUBSET {0}

SmallCaseOf == [v \in SmallEnv |-> Cardinality(v)]

-----------------------------------------------------------------------------
\* The graphs that compilers emit for && and ||, and graphs of four blocks that
\* mix branches, empty blocks and loops.

\* Four branches and two exits, all edges forward: every chain of conditions
\* over four atoms.
Ladder(i) ==
  IF i \in {4, 5} THEN {Exit(i)}
  ELSE {Branch(i, p[1], p[2], FALSE) :
          p \in {q \in (i + 1 .. 5) \X (i + 1 .. 5) : q[1] # q[2]}}

\* Blocks 1 and 2 are a branch, with or without other instructions, or a
\* jump, to any blocks, back to themselves included.
Mixed(i) ==
  LET B == 0 .. 3
      Pairs == {p \in B \X B : p[1] # p[2]}
  IN  CASE i = 0 -> {Goto(0, 1)} \cup
                    {Branch(0, p[1], p[2], FALSE) : p \in {<<1, 2>>, <<2, 1>>, <<1, 3>>, <<3, 2>>}}
        [] i = 3 -> {Exit(3)}
        [] OTHER -> {Branch(i, p[1], p[2], body) : p \in Pairs, body \in BOOLEAN}
                    \cup {Goto(i, x) : x \in B}

ConditionCharts == ChartsOver(6, Ladder) \cup ChartsOver(4, Mixed)

ConditionEnv == SUBSET (0 .. 3)

\* No block is a switch.
ConditionCaseOf == [v \in ConditionEnv |-> 0]
=============================================================================
