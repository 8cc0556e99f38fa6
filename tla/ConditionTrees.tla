--------------------------- MODULE ConditionTrees ---------------------------
(***************************************************************************)
(* The expression trees behind BooleanConditions.  One branch condition is *)
(* built up by the merges of CompoundConditionalStructurer; beside the     *)
(* tree that ExpressionUtilities.cpp builds, with the operands it moves    *)
(* and the operators it negates in place, goes the description that        *)
(* GraphReduction works with.                                              *)
(***************************************************************************)
EXTENDS BooleanConditions, Naturals, Sequences, SequencesExt

CONSTANTS
  Atoms,       \* the comparisons and tests a branch consists of
  LowLevel,    \* those that are LowLevelConditions
  MaxOperands  \* bound: atoms in one condition

ASSUME AtomsAssumption == LowLevel \subseteq Atoms /\ Env = SUBSET Atoms /\ MaxOperands \in Nat \ {0}

VARIABLES
  tree,       \* ConditionalJump::condition of the head
  condition,  \* its description
  tested,     \* history: the atoms in the order the program tests them
  reordered   \* history: was an operand put after a later one, or dropped?

vars == <<tree, condition, tested, reordered>>

Leaf(a) ==
  [kind |-> IF a \in LowLevel THEN "LOWLEVEL_CONDITION" ELSE "HIGHLEVEL_CONDITION",
   atom |-> a, negated |-> FALSE, operands |-> <<>>]

Compound(kind, operands) ==
  [kind |-> kind, atom |-> "none", negated |-> FALSE, operands |-> operands]

-----------------------------------------------------------------------------
(* The trees                                                               *)

Connectives == {"AND_EXPRESSION", "OR_EXPRESSION"}

\* What stays of a branch condition that is no compound one, negated or not.
Literals ==
  {Leaf(a) : a \in Atoms}
    \cup {[Leaf(a) EXCEPT !.negated = TRUE] : a \in Atoms \ LowLevel}
    \cup {Compound("LOGICAL_NOT_EXPRESSION", <<Leaf(a)>>) : a \in LowLevel}

AtomOf(l) == IF l.kind = "LOGICAL_NOT_EXPRESSION" THEN l.operands[1].atom ELSE l.atom

\* Each merge nests a condition at most once more.
TreesOfDepth[d \in 0 .. MaxOperands] ==
  Literals \cup
  IF d = 0 THEN {}
  ELSE [kind : Connectives, atom : {"none"}, negated : {FALSE}, operands : Seq(TreesOfDepth[d - 1])]

Trees == TreesOfDepth[MaxOperands]

\* What a recursive function over trees returns, which is atLiteral at the
\* literals, and atOperands of what it returns for the operands.
OverTrees(atLiteral, atOperands) ==
  LET value[t \in Trees] ==
        IF t.kind \in Connectives
        THEN atOperands[t.kind][[i \in DOMAIN t.operands |-> value[t.operands[i]]]]
        ELSE atLiteral[t]
  IN  value

\* The tree with other literals and connectives.
Rewritten(t, literal, connective) ==
  OverTrees(literal, [k \in Connectives |-> [s \in Seq(Trees) |-> Compound(connective[k], s)]])[t]

\* getNegatedExpression: what it returns, and what is left of its argument.
Dual == [k \in Connectives |-> IF k = "AND_EXPRESSION" THEN "OR_EXPRESSION" ELSE "AND_EXPRESSION"]

NegatedLiteral ==
  [l \in Literals |->
     CASE l.kind = "LOGICAL_NOT_EXPRESSION" -> l.operands[1]
       [] l.kind = "LOWLEVEL_CONDITION"     -> Compound("LOGICAL_NOT_EXPRESSION", <<l>>)
       [] l.kind = "HIGHLEVEL_CONDITION"    -> [l EXCEPT !.negated = ~ @]]

NegatedTree(t) == Rewritten(t, NegatedLiteral, Dual)

LiteralAfterNegation ==
  [l \in Literals |-> IF l.kind = "HIGHLEVEL_CONDITION" THEN [l EXCEPT !.negated = ~ @] ELSE l]

TreeAfterNegation(t) == Rewritten(t, LiteralAfterNegation, [k \in Connectives |-> k])

\* getCompundCondition_AND for kind "AND_EXPRESSION", getCompundCondition_OR
\* for "OR_EXPRESSION": the tree returned, and a after the call.
NullTree == Compound("null", <<>>)

\* Faulty variant: the operands are stored the other way round.
SwappedTree(kind, a, b) ==
  IF a.kind = kind THEN NullTree
  ELSE IF b.kind = kind THEN Compound(kind, Append(b.operands, a)) ELSE Compound(kind, <<b, a>>)

\* Faulty variant: a is pushed into any compound expression b.
TreeOfEitherKind(kind, a, b) ==
  CASE a.kind = kind -> NullTree
    [] a.kind # kind /\ b.operands # <<>> -> [b EXCEPT !.operands = Append(@, a)]
    [] OTHER -> Compound(kind, <<a, b>>)

\* When only b is of that kind, a is stored behind the operands of b.
CompoundTree(kind, a, b) ==
  CASE a.kind = kind -> NullTree
    [] a.kind # kind /\ b.kind = kind -> Compound(kind, Append(b.operands, a))
    [] OTHER -> Compound(kind, <<a, b>>)

TreeAfterPush(kind, a, b) ==
  IF a.kind = kind THEN [a EXCEPT !.operands = Append(@, b)] ELSE a

TreeUnlessNull(t, current) == IF t = NullTree THEN current ELSE t

-----------------------------------------------------------------------------
(* What a tree says.                                                       *)

LiteralHolds ==
  [l \in Literals |-> {v \in Env : AtomOf(l) \in v <=> ~ (l.negated \/ l.kind = "LOGICAL_NOT_EXPRESSION")}]

Connected ==
  [k \in Connectives |->
     [s \in Seq(SUBSET Env) |->
        {v \in Env : IF k = "AND_EXPRESSION" THEN \A i \in DOMAIN s : v \in s[i] ELSE \E i \in DOMAIN s : v \in s[i]}]]

\* The states in which the tree is true.
Holds(t) == OverTrees(LiteralHolds, Connected)[t]

Description(t) == [kind |-> t.kind, holds |-> Holds(t), flipped |-> Holds(TreeAfterNegation(t))]

\* The atoms in the order in which && and || test them.
TestOrder(t) ==
  OverTrees([l \in Literals |-> <<AtomOf(l)>>], [k \in Connectives |-> [s \in Seq(Seq(Atoms)) |-> FlattenSeq(s)]])[t]

-----------------------------------------------------------------------------
(* The four merges on the condition of the head; b is the condition of the *)
(* successor, an atom or what an earlier merge made of two atoms.          *)

Atomic == {Leaf(a) : a \in Atoms}

Pair(kind, a, b) == Compound(kind, <<Leaf(a), Leaf(b)>>)

Operands ==
  Atomic \cup
  {Pair(k, p[1], p[2]) : k \in {"AND_EXPRESSION", "OR_EXPRESSION"},
                         p \in {q \in Atoms \X Atoms : q[1] # q[2]}}

\* Bound: the condition may still grow by the atoms of b.
Fits(b) == Len(tested) + Len(TestOrder(b)) <= MaxOperands

\* b goes to the condition of the program in any case; the tree is given it
\* behind a unless a comes to stand behind b or b is pushed into an
\* expression that nobody keeps.
Test(b, moves) ==
  /\ Fits(b)
  /\ tested' = tested \o TestOrder(b)
  /\ reordered' = (reordered \/ moves)

Merge_A_AND_B(b) ==
  /\ tree' = TreeUnlessNull(CompoundTree("AND_EXPRESSION", tree, b),
                            TreeAfterPush("AND_EXPRESSION", tree, b))
  /\ condition' = AssignUnlessNull(CompoundCondition_AND(condition, Description(b)),
                                   PushedInto_AND(condition, Description(b)))
  /\ Test(b, tree.kind # "AND_EXPRESSION" /\ b.kind = "AND_EXPRESSION")

Merge_A_OR_B(b) ==
  /\ tree' = TreeUnlessNull(CompoundTree("OR_EXPRESSION", tree, b),
                            TreeAfterPush("OR_EXPRESSION", tree, b))
  /\ condition' = AssignUnlessNull(CompoundCondition_OR(condition, Description(b)),
                                   PushedInto_OR(condition, Description(b)))
  /\ Test(b, tree.kind # "OR_EXPRESSION" /\ b.kind = "OR_EXPRESSION")

Merge_NOT_A_OR_B(b) ==
  /\ tree' = TreeUnlessNull(CompoundTree("OR_EXPRESSION", NegatedTree(tree), b),
                            TreeAfterNegation(tree))
  /\ condition' = AssignUnlessNull(CompoundCondition_OR(Negated(condition), Description(b)),
                                   AfterNegation(condition))
  /\ Test(b, tree.kind = "AND_EXPRESSION" \/ b.kind = "OR_EXPRESSION")

Merge_NOT_A_AND_B(b) ==
  /\ tree' = TreeUnlessNull(CompoundTree("AND_EXPRESSION", NegatedTree(tree), b),
                            TreeAfterNegation(tree))
  /\ condition' = AssignUnlessNull(CompoundCondition_AND(Negated(condition), Description(b)),
                                   AfterNegation(condition))
  /\ Test(b, tree.kind = "OR_EXPRESSION" \/ b.kind = "AND_EXPRESSION")

Init ==
  \E t \in Atomic :
    tree = t /\ condition = Description(t) /\ tested = TestOrder(t) /\ reordered = FALSE

Next ==
  \E b \in Operands :
    \/ Merge_A_AND_B(b)
    \/ Merge_A_OR_B(b)
    \/ Merge_NOT_A_OR_B(b)
    \/ Merge_NOT_A_AND_B(b)

Spec == Init /\ [][Next]_vars

-----------------------------------------------------------------------------
(* Properties                                                              *)

\* The description is that of the tree: pushing operands, negating in place
\* and dropping a null result on trees is what BooleanConditions says of
\* kinds and of sets of machine states.
Describes == condition = Description(tree)

\* The decompiled condition tests its atoms in the order of the program,
\* however often operands were pushed, nested and negated.  && and || stop
\* early, so an atom that guards another one has to stay in front of it.
TestsInOrder == ~ reordered => TestOrder(tree) = tested

-----------------------------------------------------------------------------
(* The instance for TLC: three atoms, one of which is a LowLevelCondition. *)

MCAtoms == 0 .. 2
MCLowLevel == {1}
MCEnv == SUBSET MCAtoms

=============================================================================
