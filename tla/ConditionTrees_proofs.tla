----------------------- MODULE ConditionTrees_proofs -----------------------
(***************************************************************************)
(* Proofs about ConditionTrees, for any atoms and conditions of any size:  *)
(* a branch condition is what its description says, and its atoms are      *)
(* tested in the order of the program.                                     *)
(***************************************************************************)
EXTENDS ConditionTrees, GraphTraversal_proofs

-----------------------------------------------------------------------------
(* Trees and recursive functions over trees                                *)

\* The compound conditions with operands in S.
Nodes(S) == [kind : Connectives, atom : {"none"}, negated : {FALSE}, operands : Seq(S)]

DepthsUpTo(n, f) == f = [d \in 0 .. n |-> Literals \cup IF d = 0 THEN {} ELSE Nodes(f[d - 1])]

(* The sets of trees of TreesOfDepth exist.                                *)
LEMMA DepthsExist ==
  ASSUME NEW n \in Nat
  PROVE  \E f : DepthsUpTo(n, f)
PROOF
  <1> DEFINE Bad == {m \in Nat : ~ \E f : DepthsUpTo(m, f)}
  <1> SUFFICES ASSUME Bad # {}
               PROVE  FALSE
    OBVIOUS
  <1>1. PICK m \in Bad : \A y \in Bad : m <= y
    BY SmallestNumber
  <1>2. m # 0
    <2> DEFINE f == [d \in 0 .. 0 |-> Literals \cup {}]
    <2>1. DepthsUpTo(0, f)
      BY DEF DepthsUpTo
    <2> QED
      BY <2>1
  <1>3. m \in Nat /\ m - 1 \in Nat /\ m - 1 \notin Bad
    BY <1>1, <1>2
  <1>4. PICK f : DepthsUpTo(m - 1, f)
    BY <1>3
  <1> DEFINE g == [d \in 0 .. m |-> IF d = m THEN Literals \cup Nodes(f[m - 1]) ELSE f[d]]
  <1>5. \A d \in 0 .. m - 1 : f[d] = Literals \cup IF d = 0 THEN {} ELSE Nodes(f[d - 1])
    BY <1>4 DEF DepthsUpTo
  <1>6. \A d \in 0 .. m : g[d] = Literals \cup IF d = 0 THEN {} ELSE Nodes(g[d - 1])
    BY <1>2, <1>3, <1>5
  <1>7. DepthsUpTo(m, g)
    <2>1. g = [d \in 0 .. m |-> g[d]]
      OBVIOUS
    <2> HIDE DEF g
    <2> QED
      BY <2>1, <1>6 DEF DepthsUpTo
  <1> QED
    BY <1>1, <1>7

(* What TreesOfDepth is.                                                   *)
LEMMA Depths ==
  ASSUME NEW d \in 0 .. MaxOperands
  PROVE  TreesOfDepth[d] = Literals \cup IF d = 0 THEN {} ELSE Nodes(TreesOfDepth[d - 1])
PROOF
  <1>1. TreesOfDepth = CHOOSE f : DepthsUpTo(MaxOperands, f)
    BY Zenon DEF TreesOfDepth, DepthsUpTo, Nodes
  <1>2. DepthsUpTo(MaxOperands, TreesOfDepth)
    BY <1>1, AtomsAssumption, DepthsExist
  <1> QED
    BY <1>2 DEF DepthsUpTo

(* More elements make more sequences, ...                                  *)
LEMMA SequencesGrow ==
  ASSUME NEW S, NEW T, S \subseteq T
  PROVE  Seq(S) \subseteq Seq(T)
PROOF
  <1> SUFFICES ASSUME NEW s \in Seq(S)
               PROVE  s \in Seq(T)
    OBVIOUS
  <1>1. Len(s) \in Nat /\ s \in [1 .. Len(s) -> T]
    OBVIOUS
  <1> QED
    BY <1>1

(* ... and more operands more compound conditions.                         *)
LEMMA NodesGrow ==
  ASSUME NEW S, NEW T, S \subseteq T
  PROVE  Nodes(S) \subseteq Nodes(T)
PROOF
  BY SequencesGrow DEF Nodes

(* Trees of a depth are trees of a greater depth.                          *)
LEMMA DepthsGrow ==
  ASSUME NEW d \in 0 .. MaxOperands, NEW e \in 0 .. d
  PROVE  TreesOfDepth[e] \subseteq TreesOfDepth[d]
PROOF
  <1> DEFINE Good(m) == \A x \in 0 .. m : TreesOfDepth[x] \subseteq TreesOfDepth[m]
             Bad == {m \in 0 .. MaxOperands : ~ Good(m)}
  <1> SUFFICES ASSUME Bad # {}
               PROVE  FALSE
    OBVIOUS
  <1>0. Bad \subseteq Nat
    BY AtomsAssumption
  <1>1. PICK m \in Bad : \A y \in Bad : m <= y
    <2> HIDE DEF Bad
    <2> QED
      BY <1>0, SmallestNumber
  <1>2. m \in 0 .. MaxOperands /\ ~ Good(m)
    OBVIOUS
  <1> HIDE DEF Good
  <1>3. PICK x \in 0 .. m : ~ TreesOfDepth[x] \subseteq TreesOfDepth[m]
    BY <1>2 DEF Good
  <1>4. x # 0 /\ x # m /\ m \in Nat /\ x \in Nat
    <2>1. m \in Nat /\ x \in Nat
      BY <1>2, <1>3, AtomsAssumption
    <2>2. 0 \in 0 .. MaxOperands
      BY AtomsAssumption
    <2>3. TreesOfDepth[0] \subseteq TreesOfDepth[m]
      BY <1>2, <2>2, Depths
    <2> QED
      BY <1>3, <2>1, <2>3
  <1>5. m - 1 \in 0 .. MaxOperands /\ x - 1 \in 0 .. m - 1 /\ x \in 0 .. MaxOperands /\ ~ m <= m - 1 /\ m # 0
    BY <1>2, <1>3, <1>4, AtomsAssumption
  <1>6. Good(m - 1)
    BY <1>1, <1>5
  <1>7. TreesOfDepth[x - 1] \subseteq TreesOfDepth[m - 1]
    BY <1>5, <1>6 DEF Good
  <1>8. Nodes(TreesOfDepth[x - 1]) \subseteq Nodes(TreesOfDepth[m - 1])
    BY <1>7, NodesGrow
  <1>9. /\ TreesOfDepth[x] = Literals \cup Nodes(TreesOfDepth[x - 1])
        /\ TreesOfDepth[m] = Literals \cup Nodes(TreesOfDepth[m - 1])
    BY <1>2, <1>4, <1>5, Depths
  <1> QED
    BY <1>3, <1>8, <1>9

(* A tree is a literal or has trees of a smaller depth for operands.       *)
LEMMA TreeCases ==
  ASSUME NEW d \in 0 .. MaxOperands, NEW t \in TreesOfDepth[d]
  PROVE  /\ t \in Trees
         /\ t.kind \notin Connectives => t \in Literals
         /\ t.kind \in Connectives => /\ d # 0 /\ t.operands \in Seq(TreesOfDepth[d - 1])
                                      /\ t = Compound(t.kind, t.operands) /\ t \in Nodes(TreesOfDepth[d - 1])
PROOF
  <1>1. MaxOperands \in 0 .. MaxOperands /\ d \in 0 .. MaxOperands
    BY AtomsAssumption
  <1>2. t \in Trees
    BY <1>1, DepthsGrow DEF Trees
  <1>3. \A l \in Literals : l.kind \notin Connectives
    <2> SUFFICES ASSUME NEW l \in Literals
                 PROVE  l.kind \in {"LOWLEVEL_CONDITION", "HIGHLEVEL_CONDITION", "LOGICAL_NOT_EXPRESSION"}
      BY DEF Connectives
    <2>1. ASSUME NEW a \in Atoms, l = Leaf(a)
          PROVE  l.kind \in {"LOWLEVEL_CONDITION", "HIGHLEVEL_CONDITION"}
      BY <2>1 DEF Leaf
    <2>2. ASSUME NEW a \in Atoms, l = [Leaf(a) EXCEPT !.negated = TRUE]
          PROVE  l.kind \in {"LOWLEVEL_CONDITION", "HIGHLEVEL_CONDITION"}
      BY <2>2 DEF Leaf
    <2>3. ASSUME NEW a \in LowLevel, l = Compound("LOGICAL_NOT_EXPRESSION", <<Leaf(a)>>)
          PROVE  l.kind = "LOGICAL_NOT_EXPRESSION"
      BY <2>3 DEF Compound
    <2> QED
      BY <2>1, <2>2, <2>3 DEF Literals
  <1>4. t \in Literals \/ (d # 0 /\ t \in Nodes(TreesOfDepth[d - 1]))
    BY Depths
  <1>5. ASSUME t \in Nodes(TreesOfDepth[d - 1])
        PROVE  /\ t.kind \in Connectives /\ t.operands \in Seq(TreesOfDepth[d - 1])
               /\ t = Compound(t.kind, t.operands)
    BY <1>5 DEF Nodes, Compound
  <1> QED
    BY <1>2, <1>3, <1>4, <1>5

(* Induction over trees: what holds of a tree as soon as it holds of its   *)
(* operands holds of all trees.                                            *)
LEMMA TreeInduction ==
  ASSUME NEW P,
         \A t \in Trees : (t.kind \in Connectives => \A i \in DOMAIN t.operands : t.operands[i] \in P) => t \in P
  PROVE  Trees \subseteq P
PROOF
  <1> DEFINE Bad == {d \in 0 .. MaxOperands : ~ TreesOfDepth[d] \subseteq P}
  <1>1. SUFFICES ASSUME Bad # {}
                 PROVE  FALSE
    <2>1. MaxOperands \in 0 .. MaxOperands
      BY AtomsAssumption
    <2> QED
      BY <1>1, <2>1 DEF Trees
  <1>2. PICK d \in Bad : \A y \in Bad : d <= y
    <2>1. Bad \subseteq Nat
      BY AtomsAssumption
    <2> HIDE DEF Bad
    <2> QED
      BY <1>1, <2>1, SmallestNumber
  <1>3. PICK t \in TreesOfDepth[d] : t \notin P
    OBVIOUS
  <1>4. d \in 0 .. MaxOperands /\ d \in Nat
    OBVIOUS
  <1>5. t \in Trees
    BY <1>3, <1>4, TreeCases
  <1>6. ASSUME t.kind \in Connectives
        PROVE  \A i \in DOMAIN t.operands : t.operands[i] \in P
    <2>1. d # 0 /\ t.operands \in Seq(TreesOfDepth[d - 1])
      BY <1>3, <1>4, <1>6, TreeCases
    <2>2. d - 1 \in 0 .. MaxOperands /\ ~ d <= d - 1
      BY <1>4, <2>1, AtomsAssumption
    <2>3. TreesOfDepth[d - 1] \subseteq P
      BY <1>2, <2>2
    <2> QED
      BY <2>1, <2>3
  <1> QED
    BY <1>3, <1>5, <1>6

IsValue(atLiteral, atOperands, S, f) ==
  f = [t \in S |-> IF t.kind \in Connectives
                   THEN atOperands[t.kind][[i \in DOMAIN t.operands |-> f[t.operands[i]]]]
                   ELSE atLiteral[t]]

(* A recursive function over trees exists.                                 *)
LEMMA ValuesExist ==
  ASSUME NEW atLiteral, NEW atOperands, NEW n \in 0 .. MaxOperands
  PROVE  \E f : IsValue(atLiteral, atOperands, TreesOfDepth[n], f)
PROOF
  <1> DEFINE Good(d) == \E f : IsValue(atLiteral, atOperands, TreesOfDepth[d], f)
             Bad == {d \in 0 .. MaxOperands : ~ Good(d)}
             At(f, t) == IF t.kind \in Connectives
                         THEN atOperands[t.kind][[i \in DOMAIN t.operands |-> f[t.operands[i]]]]
                         ELSE atLiteral[t]
  <1> SUFFICES ASSUME Bad # {}
               PROVE  FALSE
    OBVIOUS
  <1>1. PICK d \in Bad : \A y \in Bad : d <= y
    <2>1. Bad \subseteq Nat
      BY AtomsAssumption
    <2> HIDE DEF Bad
    <2> QED
      BY <2>1, SmallestNumber
  <1>2. d \in 0 .. MaxOperands /\ d \in Nat /\ ~ Good(d)
    OBVIOUS
  <1> SUFFICES ASSUME NEW f, d # 0 => IsValue(atLiteral, atOperands, TreesOfDepth[d - 1], f)
               PROVE  FALSE
    <2>1. CASE d = 0
      BY <2>1
    <2>2. CASE d # 0
      <3>1. d - 1 \in 0 .. MaxOperands /\ ~ d <= d - 1
        BY <1>2, <2>2, AtomsAssumption
      <3> HIDE DEF Good
      <3>2. Good(d - 1)
        BY <1>1, <3>1
      <3> QED
        BY <3>2 DEF Good
    <2> QED
      BY <2>1, <2>2
  <1> DEFINE g == [t \in TreesOfDepth[d] |-> At(f, t)]
  <1>3. ASSUME NEW t \in TreesOfDepth[d]
        PROVE  At(g, t) = At(f, t)
    <2> SUFFICES ASSUME t.kind \in Connectives
                 PROVE  [i \in DOMAIN t.operands |-> g[t.operands[i]]] = [i \in DOMAIN t.operands |-> f[t.operands[i]]]
      BY Zenon
    <2>1. d # 0 /\ t.operands \in Seq(TreesOfDepth[d - 1])
      BY <1>2, TreeCases
    <2>2. d - 1 \in 0 .. d
      BY <1>2, <2>1
    <2>3. TreesOfDepth[d - 1] \subseteq TreesOfDepth[d]
      BY <1>2, <2>2, DepthsGrow
    <2>4. \A u \in TreesOfDepth[d - 1] : f[u] = At(f, u)
      BY <2>1 DEF IsValue
    <2>5. \A u \in TreesOfDepth[d - 1] : g[u] = f[u]
      BY <2>3, <2>4
    <2>6. \A i \in DOMAIN t.operands : t.operands[i] \in TreesOfDepth[d - 1]
      BY <2>1
    <2>7. \A i \in DOMAIN t.operands : g[t.operands[i]] = f[t.operands[i]]
      <3> HIDE DEF g, At, Good, Bad
      <3> TAKE i \in DOMAIN t.operands
      <3>1. PICK u \in TreesOfDepth[d - 1] : u = t.operands[i]
        BY <2>6, Zenon
      <3> QED
        BY <2>5, <3>1, Zenon
    <2> HIDE DEF g, At, Good, Bad
    <2> QED
      BY <2>7, Zenon
  <1>4. g = [t \in TreesOfDepth[d] |-> At(g, t)]
    BY <1>3, Zenon
  <1>5. IsValue(atLiteral, atOperands, TreesOfDepth[d], g)
    BY <1>4, Zenon DEF IsValue
  <1> QED
    BY <1>2, <1>5

(* What a recursive function over trees returns.                           *)
LEMMA OverTreesAt ==
  ASSUME NEW atLiteral, NEW atOperands, NEW t \in Trees
  PROVE  OverTrees(atLiteral, atOperands)[t] =
           IF t.kind \in Connectives
           THEN atOperands[t.kind][[i \in DOMAIN t.operands |-> OverTrees(atLiteral, atOperands)[t.operands[i]]]]
           ELSE atLiteral[t]
PROOF
  <1> DEFINE f == OverTrees(atLiteral, atOperands)
  <1>1. f = CHOOSE g : IsValue(atLiteral, atOperands, Trees, g)
    BY Zenon DEF OverTrees, IsValue
  <1>2. MaxOperands \in 0 .. MaxOperands
    BY AtomsAssumption
  <1>3. IsValue(atLiteral, atOperands, Trees, f)
    <2>1. \E g : IsValue(atLiteral, atOperands, Trees, g)
      <3>1. PICK n \in 0 .. MaxOperands : Trees = TreesOfDepth[n]
        BY <1>2, Zenon DEF Trees
      <3>2. \E g : IsValue(atLiteral, atOperands, TreesOfDepth[n], g)
        BY ValuesExist
      <3> QED
        BY <3>1, <3>2, Zenon
    <2> QED
      BY ONLY <1>1, <2>1, Zenon
  <1> HIDE DEF f
  <1>4. f[t] = IF t.kind \in Connectives
               THEN atOperands[t.kind][[i \in DOMAIN t.operands |-> f[t.operands[i]]]]
               ELSE atLiteral[t]
    BY <1>3, Zenon DEF IsValue
  <1> QED
    BY <1>4 DEF f

-----------------------------------------------------------------------------
(* Rewritten trees                                                         *)

(* A tree and its rewritten operands.                                      *)
LEMMA RewrittenAt ==
  ASSUME NEW literal \in [Literals -> Literals], NEW connective \in [Connectives -> Connectives]
  PROVE  /\ \A t \in Trees :
              IF t.kind \in Connectives
              THEN Rewritten(t, literal, connective) =
                     Compound(connective[t.kind], [i \in DOMAIN t.operands |-> Rewritten(t.operands[i], literal, connective)])
              ELSE Rewritten(t, literal, connective) = literal[t]
         /\ \A d \in 0 .. MaxOperands : \A t \in TreesOfDepth[d] : Rewritten(t, literal, connective) \in TreesOfDepth[d]
PROOF
  <1> DEFINE R(t) == Rewritten(t, literal, connective)
             atOperands == [k \in Connectives |-> [s \in Seq(Trees) |-> Compound(connective[k], s)]]
             results(t) == [i \in DOMAIN t.operands |-> R(t.operands[i])]
             P == {t \in Trees : \A d \in 0 .. MaxOperands : t \in TreesOfDepth[d] => R(t) \in TreesOfDepth[d]}
  <1>1. ASSUME NEW t \in Trees
        PROVE  R(t) = IF t.kind \in Connectives THEN atOperands[t.kind][results(t)] ELSE literal[t]
    <2> HIDE DEF atOperands
    <2>1. \A u : R(u) = OverTrees(literal, atOperands)[u]
      BY DEF Rewritten, atOperands
    <2>2. results(t) = [i \in DOMAIN t.operands |-> OverTrees(literal, atOperands)[t.operands[i]]]
      BY <2>1
    <2>3. OverTrees(literal, atOperands)[t] =
            IF t.kind \in Connectives
            THEN atOperands[t.kind][[i \in DOMAIN t.operands |-> OverTrees(literal, atOperands)[t.operands[i]]]]
            ELSE literal[t]
      BY OverTreesAt
    <2> HIDE DEF R, results
    <2> QED
      BY <2>1, <2>2, <2>3, Zenon
  <1> HIDE DEF R
  <1>2. ASSUME NEW d \in 0 .. MaxOperands, NEW t \in TreesOfDepth[d], t.kind \in Connectives,
               \A i \in DOMAIN t.operands : t.operands[i] \in P
        PROVE  /\ results(t) \in Seq(TreesOfDepth[d - 1])
               /\ R(t) = Compound(connective[t.kind], results(t)) /\ R(t) \in TreesOfDepth[d]
    <2>1. d # 0 /\ t.operands \in Seq(TreesOfDepth[d - 1]) /\ t \in Trees
      BY <1>2, TreeCases
    <2>2. d - 1 \in 0 .. MaxOperands
      BY <2>1, AtomsAssumption
    <2>3. \A i \in DOMAIN t.operands : R(t.operands[i]) \in TreesOfDepth[d - 1]
      <3>1. \A i \in DOMAIN t.operands : t.operands[i] \in TreesOfDepth[d - 1]
        BY <2>1
      <3> QED
        BY <1>2, <2>2, <3>1
    <2>4. results(t) \in Seq(TreesOfDepth[d - 1])
      <3>1. Len(t.operands) \in Nat /\ DOMAIN t.operands = 1 .. Len(t.operands)
        BY <2>1
      <3> QED
        BY <2>3, <3>1
    <2> HIDE DEF results, P
    <2>5. TreesOfDepth[d - 1] \subseteq Trees
      BY <2>2, TreeCases
    <2>6. results(t) \in Seq(Trees)
      BY <2>4, <2>5, SequencesGrow
    <2>7. R(t) = Compound(connective[t.kind], results(t))
      BY <1>1, <1>2, <2>1, <2>6
    <2>8. Compound(connective[t.kind], results(t)) \in Nodes(TreesOfDepth[d - 1])
      BY <1>2, <2>4 DEF Compound, Nodes
    <2> QED
      BY <2>1, <2>4, <2>7, <2>8, Depths
  <1>3. ASSUME NEW t \in Trees, t.kind \in Connectives => \A i \in DOMAIN t.operands : t.operands[i] \in P
        PROVE  t \in P
    <2> SUFFICES ASSUME NEW d \in 0 .. MaxOperands, t \in TreesOfDepth[d]
                 PROVE  R(t) \in TreesOfDepth[d]
      OBVIOUS
    <2>1. CASE t.kind \in Connectives
      BY <1>2, <1>3, <2>1
    <2>2. CASE t.kind \notin Connectives
      <3>1. R(t) = literal[t] /\ t \in Literals
        BY <1>1, <2>2, TreeCases
      <3> QED
        BY <3>1, Depths
    <2> QED
      BY <2>1, <2>2
  <1>4. Trees \subseteq P
    <2> HIDE DEF P
    <2> QED
      BY <1>3, TreeInduction
  <1>5. ASSUME NEW t \in Trees, t.kind \in Connectives
        PROVE  R(t) = Compound(connective[t.kind], results(t))
    <2>1. MaxOperands \in 0 .. MaxOperands /\ t \in TreesOfDepth[MaxOperands]
      BY AtomsAssumption DEF Trees
    <2>2. \A i \in DOMAIN t.operands : t.operands[i] \in P
      <3>1. MaxOperands - 1 \in 0 .. MaxOperands /\ t.operands \in Seq(TreesOfDepth[MaxOperands - 1])
        BY <1>5, <2>1, TreeCases, AtomsAssumption
      <3>2. \A i \in DOMAIN t.operands : t.operands[i] \in TreesOfDepth[MaxOperands - 1]
        BY <3>1
      <3> HIDE DEF P
      <3> QED
        BY <1>4, <3>1, <3>2, TreeCases
    <2> HIDE DEF P, results
    <2> QED
      BY <1>2, <1>5, <2>1, <2>2
  <1>6. \A d \in 0 .. MaxOperands : \A t \in TreesOfDepth[d] : R(t) \in TreesOfDepth[d]
    BY <1>4, TreeCases
  <1> QED
    BY <1>1, <1>5, <1>6 DEF R

-----------------------------------------------------------------------------
(* Literals                                                                *)

High(a, n) == [kind |-> "HIGHLEVEL_CONDITION", atom |-> a, negated |-> n, operands |-> <<>>]
Low(a) == [kind |-> "LOWLEVEL_CONDITION", atom |-> a, negated |-> FALSE, operands |-> <<>>]
Not(a) == [kind |-> "LOGICAL_NOT_EXPRESSION", atom |-> "none", negated |-> FALSE, operands |-> <<Low(a)>>]

(* Another value in the field negated.                                     *)
LEMMA NegatedField ==
  ASSUME NEW a, NEW n, NEW l, l = High(a, n)
  PROVE  \A m : [l EXCEPT !.negated = m] = High(a, m)
PROOF
  BY DEF High

(* The four forms of a literal.                                            *)
LEMMA LiteralForms ==
  /\ \A a \in Atoms \ LowLevel : High(a, FALSE) \in Literals /\ High(a, TRUE) \in Literals
  /\ \A a \in LowLevel : Low(a) \in Literals /\ Not(a) \in Literals
  /\ \A l \in Literals : \/ \E a \in Atoms \ LowLevel : l = High(a, FALSE) \/ l = High(a, TRUE)
                         \/ \E a \in LowLevel : l = Low(a) \/ l = Not(a)
PROOF
  <1>1. \A a \in Atoms : Leaf(a) = IF a \in LowLevel THEN Low(a) ELSE High(a, FALSE)
    BY DEF Leaf, Low, High
  <1>2. ASSUME NEW a \in Atoms \ LowLevel
        PROVE  [Leaf(a) EXCEPT !.negated = TRUE] = High(a, TRUE)
    <2>1. Leaf(a) = High(a, FALSE)
      BY <1>1
    <2>2. \A m : [Leaf(a) EXCEPT !.negated = m] = High(a, m)
      <3>1. PICK n : n = FALSE
        OBVIOUS
      <3>2. Leaf(a) = High(a, n)
        BY <2>1, <3>1, Zenon
      <3> QED
        BY <3>2, NegatedField
    <2> QED
      BY <2>2, Zenon
  <1>3. \A a \in LowLevel : a \in Atoms /\ Compound("LOGICAL_NOT_EXPRESSION", <<Leaf(a)>>) = Not(a)
    BY <1>1, AtomsAssumption DEF Compound, Not
  <1> QED
    BY <1>1, <1>2, <1>3 DEF Literals

TrueOf(a) == {v \in Env : a \in v}

(* What getNegatedExpression does to the literals.                         *)
LEMMA LiteralsNegated ==
  /\ \A a \in Atoms \ LowLevel :
       /\ NegatedLiteral[High(a, FALSE)] = High(a, TRUE) /\ NegatedLiteral[High(a, TRUE)] = High(a, FALSE)
       /\ LiteralAfterNegation[High(a, FALSE)] = High(a, TRUE) /\ LiteralAfterNegation[High(a, TRUE)] = High(a, FALSE)
  /\ \A a \in LowLevel :
       /\ NegatedLiteral[Low(a)] = Not(a) /\ NegatedLiteral[Not(a)] = Low(a)
       /\ LiteralAfterNegation[Low(a)] = Low(a) /\ LiteralAfterNegation[Not(a)] = Not(a)
PROOF
  <1>1. ASSUME NEW a \in Atoms \ LowLevel, NEW l, NEW n, n \in {TRUE, FALSE}, l = High(a, n)
        PROVE  l \in Literals => NegatedLiteral[l] = High(a, ~ n) /\ LiteralAfterNegation[l] = High(a, ~ n)
    <2>1. l.kind = "HIGHLEVEL_CONDITION"
      BY <1>1 DEF High
    <2>2. [l EXCEPT !.negated = ~ @] = High(a, ~ n)
      <3>1. CASE n = TRUE
        <4>1. l.negated = TRUE /\ l = High(a, TRUE)
          BY <1>1, <3>1 DEF High
        <4>2. (~ l.negated) = FALSE
          BY <4>1, Zenon
        <4>3. [l EXCEPT !.negated = ~ @] = [l EXCEPT !.negated = FALSE]
          BY <4>2, Zenon
        <4>4. [l EXCEPT !.negated = FALSE] = High(a, FALSE)
          BY <4>1, NegatedField, Zenon
        <4>5. (~ n) = FALSE
          BY <3>1
        <4> QED
          BY <4>3, <4>4, <4>5, Zenon
      <3>2. CASE n = FALSE
        <4>1. l.negated = FALSE /\ l = High(a, FALSE)
          BY <1>1, <3>2 DEF High
        <4>2. (~ l.negated) = TRUE
          BY <4>1, Zenon
        <4>3. [l EXCEPT !.negated = ~ @] = [l EXCEPT !.negated = TRUE]
          BY <4>2, Zenon
        <4>4. [l EXCEPT !.negated = TRUE] = High(a, TRUE)
          BY <4>1, NegatedField, Zenon
        <4>5. (~ n) = TRUE
          BY <3>2
        <4> QED
          BY <4>3, <4>4, <4>5, Zenon
      <3> QED
        BY <1>1, <3>1, <3>2
    <2> QED
      BY <2>1, <2>2 DEF NegatedLiteral, LiteralAfterNegation
  <1>2. ASSUME NEW a \in LowLevel, NEW l, l = Low(a)
        PROVE  l \in Literals => NegatedLiteral[l] = Not(a) /\ LiteralAfterNegation[l] = l
    <2>1. l.kind = "LOWLEVEL_CONDITION" /\ Compound("LOGICAL_NOT_EXPRESSION", <<l>>) = Not(a)
      BY <1>2 DEF Low, Not, Compound
    <2> QED
      BY <2>1 DEF NegatedLiteral, LiteralAfterNegation
  <1>3. ASSUME NEW a \in LowLevel, NEW l, l = Not(a)
        PROVE  l \in Literals => NegatedLiteral[l] = Low(a) /\ LiteralAfterNegation[l] = l
    <2>1. l.kind = "LOGICAL_NOT_EXPRESSION" /\ l.operands[1] = Low(a)
      BY <1>3 DEF Not
    <2> QED
      BY <2>1 DEF NegatedLiteral, LiteralAfterNegation
  <1>4. ASSUME NEW a \in Atoms \ LowLevel
        PROVE  /\ NegatedLiteral[High(a, FALSE)] = High(a, TRUE) /\ LiteralAfterNegation[High(a, FALSE)] = High(a, TRUE)
               /\ NegatedLiteral[High(a, TRUE)] = High(a, FALSE) /\ LiteralAfterNegation[High(a, TRUE)] = High(a, FALSE)
    <2>1. (~ TRUE) = FALSE /\ (~ FALSE) = TRUE
      OBVIOUS
    <2> QED
      BY <1>1, <2>1, LiteralForms
  <1> QED
    BY <1>2, <1>3, <1>4, LiteralForms

(* When a literal is true, and the atom it tests.                          *)
LEMMA LiteralsRead ==
  /\ \A a \in Atoms \ LowLevel :
       /\ LiteralHolds[High(a, FALSE)] = TrueOf(a) /\ LiteralHolds[High(a, TRUE)] = Env \ TrueOf(a)
       /\ AtomOf(High(a, FALSE)) = a /\ AtomOf(High(a, TRUE)) = a
  /\ \A a \in LowLevel :
       /\ LiteralHolds[Low(a)] = TrueOf(a) /\ LiteralHolds[Not(a)] = Env \ TrueOf(a)
       /\ AtomOf(Low(a)) = a /\ AtomOf(Not(a)) = a
PROOF
  <1>1. \A a : AtomOf(High(a, FALSE)) = a /\ AtomOf(High(a, TRUE)) = a /\ AtomOf(Low(a)) = a /\ AtomOf(Not(a)) = a
    BY DEF AtomOf, High, Low, Not
  <1>2. ASSUME NEW l \in Literals, NEW a, AtomOf(l) = a
        PROVE  /\ ~ l.negated /\ l.kind # "LOGICAL_NOT_EXPRESSION" => LiteralHolds[l] = TrueOf(a)
               /\ l.negated => LiteralHolds[l] = Env \ TrueOf(a)
               /\ l.kind = "LOGICAL_NOT_EXPRESSION" => LiteralHolds[l] = Env \ TrueOf(a)
    <2>1. LiteralHolds[l] = {v \in Env : a \in v <=> ~ (l.negated \/ l.kind = "LOGICAL_NOT_EXPRESSION")}
      BY <1>2 DEF LiteralHolds
    <2> QED
      BY <2>1 DEF TrueOf
  <1>3. \A a : /\ ~ High(a, FALSE).negated /\ High(a, FALSE).kind # "LOGICAL_NOT_EXPRESSION"
               /\ High(a, TRUE).negated
               /\ ~ Low(a).negated /\ Low(a).kind # "LOGICAL_NOT_EXPRESSION"
               /\ Not(a).kind = "LOGICAL_NOT_EXPRESSION"
    BY DEF High, Low, Not
  <1>4. ASSUME NEW a \in Atoms \ LowLevel
        PROVE  LiteralHolds[High(a, FALSE)] = TrueOf(a) /\ LiteralHolds[High(a, TRUE)] = Env \ TrueOf(a)
    <2>1. High(a, FALSE) \in Literals /\ High(a, TRUE) \in Literals
      BY LiteralForms
    <2>2. LiteralHolds[High(a, FALSE)] = TrueOf(a)
      <3>1. PICK l \in Literals : l = High(a, FALSE)
        BY <2>1, Zenon
      <3>2. AtomOf(l) = a /\ ~ l.negated /\ l.kind # "LOGICAL_NOT_EXPRESSION"
        BY <1>1, <1>3, <3>1, Zenon
      <3> QED
        BY <1>2, <3>1, <3>2, Zenon
    <2>3. LiteralHolds[High(a, TRUE)] = Env \ TrueOf(a)
      BY <2>1, <1>1, <1>2, <1>3
    <2> QED
      BY <2>2, <2>3
  <1>5. ASSUME NEW a \in LowLevel
        PROVE  LiteralHolds[Low(a)] = TrueOf(a) /\ LiteralHolds[Not(a)] = Env \ TrueOf(a)
    <2>1. Low(a) \in Literals /\ Not(a) \in Literals
      BY LiteralForms
    <2>2. LiteralHolds[Low(a)] = TrueOf(a)
      <3>1. PICK l \in Literals : l = Low(a)
        BY <2>1, Zenon
      <3>2. AtomOf(l) = a /\ ~ l.negated /\ l.kind # "LOGICAL_NOT_EXPRESSION"
        BY <1>1, <1>3, <3>1, Zenon
      <3> QED
        BY <1>2, <3>1, <3>2, Zenon
    <2>3. LiteralHolds[Not(a)] = Env \ TrueOf(a)
      BY <2>1, <1>1, <1>2, <1>3
    <2> QED
      BY <2>2, <2>3
  <1> QED
    BY <1>1, <1>4, <1>5

(* getNegatedExpression returns and leaves trees.                          *)
LEMMA NegationType ==
  /\ NegatedLiteral \in [Literals -> Literals]
  /\ LiteralAfterNegation \in [Literals -> Literals]
  /\ Dual \in [Connectives -> Connectives]
  /\ [k \in Connectives |-> k] \in [Connectives -> Connectives]
PROOF
  <1>1. ASSUME NEW l \in Literals
        PROVE  NegatedLiteral[l] \in Literals /\ LiteralAfterNegation[l] \in Literals
    <2>1. CASE \E a \in Atoms \ LowLevel : l = High(a, FALSE) \/ l = High(a, TRUE)
      <3>0. PICK a \in Atoms \ LowLevel : l = High(a, FALSE) \/ l = High(a, TRUE)
        BY <2>1, Zenon
      <3>1. PICK x, y : x = High(a, FALSE) /\ y = High(a, TRUE) /\ (l = x \/ l = y)
        BY <3>0, Zenon
      <3>2. /\ NegatedLiteral[x] = y /\ NegatedLiteral[y] = x /\ LiteralAfterNegation[x] = y /\ LiteralAfterNegation[y] = x
            /\ x \in Literals /\ y \in Literals
        BY <3>1, LiteralsNegated, LiteralForms
      <3> QED
        BY <3>1, <3>2, Zenon
    <2>2. CASE \E a \in LowLevel : l = Low(a) \/ l = Not(a)
      <3>0. PICK a \in LowLevel : l = Low(a) \/ l = Not(a)
        BY <2>2, Zenon
      <3>1. PICK x, y : x = Low(a) /\ y = Not(a) /\ (l = x \/ l = y)
        BY <3>0, Zenon
      <3>2. /\ NegatedLiteral[x] = y /\ NegatedLiteral[y] = x /\ LiteralAfterNegation[x] = x /\ LiteralAfterNegation[y] = y
            /\ x \in Literals /\ y \in Literals
        BY <3>1, LiteralsNegated, LiteralForms
      <3> QED
        BY <3>1, <3>2, Zenon
    <2> QED
      BY <2>1, <2>2, LiteralForms, Zenon
  <1>2. /\ \E f : NegatedLiteral = [l \in Literals |-> f[l]]
        /\ \E f : LiteralAfterNegation = [l \in Literals |-> f[l]]
    <2>1. \A f : (\E S : \E g : f = [l \in S |-> g[l]]) => f = [l \in DOMAIN f |-> f[l]]
      OBVIOUS
    <2>2. DOMAIN NegatedLiteral = Literals /\ DOMAIN LiteralAfterNegation = Literals
      BY Zenon DEF NegatedLiteral, LiteralAfterNegation
    <2>3. NegatedLiteral = [l \in DOMAIN NegatedLiteral |-> NegatedLiteral[l]]
      <3> DEFINE n(l) == CASE l.kind = "LOGICAL_NOT_EXPRESSION" -> l.operands[1]
                           [] l.kind = "LOWLEVEL_CONDITION"     -> Compound("LOGICAL_NOT_EXPRESSION", <<l>>)
                           [] l.kind = "HIGHLEVEL_CONDITION"    -> [l EXCEPT !.negated = ~ @]
      <3>1. NegatedLiteral = [l \in Literals |-> n(l)]
        BY DEF NegatedLiteral
      <3> HIDE DEF n
      <3> QED
        BY <3>1
    <2>4. LiteralAfterNegation = [l \in DOMAIN LiteralAfterNegation |-> LiteralAfterNegation[l]]
      BY Zenon DEF LiteralAfterNegation
    <2> QED
      BY <2>2, <2>3, <2>4
  <1>3. Dual \in [Connectives -> Connectives]
    BY DEF Dual, Connectives
  <1> QED
    BY <1>1, <1>2, <1>3

-----------------------------------------------------------------------------
(* What a tree says                                                        *)

(* The operands of a tree are trees.                                       *)
LEMMA OperandsAreTrees ==
  ASSUME NEW t \in Trees, t.kind \in Connectives
  PROVE  /\ t.operands \in Seq(Trees)
         /\ \A i \in DOMAIN t.operands : t.operands[i] \in Trees
         /\ t = Compound(t.kind, t.operands)
PROOF
  <1>1. MaxOperands \in 0 .. MaxOperands /\ t \in TreesOfDepth[MaxOperands]
    BY AtomsAssumption DEF Trees
  <1>2. /\ MaxOperands - 1 \in 0 .. MaxOperands /\ t.operands \in Seq(TreesOfDepth[MaxOperands - 1])
        /\ t = Compound(t.kind, t.operands)
    BY <1>1, TreeCases, AtomsAssumption
  <1>3. TreesOfDepth[MaxOperands - 1] \subseteq Trees
    BY <1>2, TreeCases
  <1>4. t.operands \in Seq(Trees)
    BY <1>2, <1>3, SequencesGrow
  <1> QED
    BY <1>2, <1>4

(* A negated tree and a tree after the call, read from their operands.     *)
LEMMA NegatedAt ==
  /\ \A t \in Trees :
       IF t.kind \in Connectives
       THEN /\ NegatedTree(t) = Compound(Dual[t.kind], [i \in DOMAIN t.operands |-> NegatedTree(t.operands[i])])
            /\ TreeAfterNegation(t) = Compound(t.kind, [i \in DOMAIN t.operands |-> TreeAfterNegation(t.operands[i])])
       ELSE /\ NegatedTree(t) = NegatedLiteral[t]
            /\ TreeAfterNegation(t) = LiteralAfterNegation[t]
  /\ \A d \in 0 .. MaxOperands : \A t \in TreesOfDepth[d] :
       NegatedTree(t) \in TreesOfDepth[d] /\ TreeAfterNegation(t) \in TreesOfDepth[d]
  /\ \A t \in Trees : NegatedTree(t) \in Trees /\ TreeAfterNegation(t) \in Trees
PROOF
  <1> DEFINE same == [k \in Connectives |-> k]
  <1>1. \A k \in Connectives : same[k] = k
    OBVIOUS
  <1> HIDE DEF same
  <1>2. \A t : NegatedTree(t) = Rewritten(t, NegatedLiteral, Dual) /\ TreeAfterNegation(t) = Rewritten(t, LiteralAfterNegation, same)
    BY DEF NegatedTree, TreeAfterNegation, same
  <1>3. same \in [Connectives -> Connectives]
    BY NegationType DEF same
  <1>4. /\ \A t \in Trees :
             IF t.kind \in Connectives
             THEN Rewritten(t, NegatedLiteral, Dual) =
                    Compound(Dual[t.kind], [i \in DOMAIN t.operands |-> Rewritten(t.operands[i], NegatedLiteral, Dual)])
             ELSE Rewritten(t, NegatedLiteral, Dual) = NegatedLiteral[t]
        /\ \A d \in 0 .. MaxOperands : \A t \in TreesOfDepth[d] : Rewritten(t, NegatedLiteral, Dual) \in TreesOfDepth[d]
    BY NegationType, RewrittenAt
  <1>5. /\ \A t \in Trees :
             IF t.kind \in Connectives
             THEN Rewritten(t, LiteralAfterNegation, same) =
                    Compound(same[t.kind], [i \in DOMAIN t.operands |-> Rewritten(t.operands[i], LiteralAfterNegation, same)])
             ELSE Rewritten(t, LiteralAfterNegation, same) = LiteralAfterNegation[t]
        /\ \A d \in 0 .. MaxOperands : \A t \in TreesOfDepth[d] : Rewritten(t, LiteralAfterNegation, same) \in TreesOfDepth[d]
    BY <1>3, NegationType, RewrittenAt
  <1>6. MaxOperands \in 0 .. MaxOperands /\ Trees = TreesOfDepth[MaxOperands]
    BY AtomsAssumption DEF Trees
  <1>7. ASSUME NEW t \in Trees, t.kind \in Connectives
        PROVE  /\ NegatedTree(t) = Compound(Dual[t.kind], [i \in DOMAIN t.operands |-> NegatedTree(t.operands[i])])
               /\ TreeAfterNegation(t) = Compound(t.kind, [i \in DOMAIN t.operands |-> TreeAfterNegation(t.operands[i])])
    <2>1. [i \in DOMAIN t.operands |-> NegatedTree(t.operands[i])]
            = [i \in DOMAIN t.operands |-> Rewritten(t.operands[i], NegatedLiteral, Dual)]
      BY <1>2
    <2>2. [i \in DOMAIN t.operands |-> TreeAfterNegation(t.operands[i])]
            = [i \in DOMAIN t.operands |-> Rewritten(t.operands[i], LiteralAfterNegation, same)]
      BY <1>2
    <2>3. NegatedTree(t) = Compound(Dual[t.kind], [i \in DOMAIN t.operands |-> Rewritten(t.operands[i], NegatedLiteral, Dual)])
      BY <1>2, <1>4, <1>7, Zenon
    <2>4. TreeAfterNegation(t) = Compound(same[t.kind], [i \in DOMAIN t.operands |-> Rewritten(t.operands[i], LiteralAfterNegation, same)])
      BY <1>2, <1>5, <1>7, Zenon
    <2>5. same[t.kind] = t.kind
      BY <1>1, <1>7
    <2> QED
      BY <2>1, <2>2, <2>3, <2>4, <2>5, Zenon
  <1>8. ASSUME NEW t \in Trees, t.kind \notin Connectives
        PROVE  NegatedTree(t) = NegatedLiteral[t] /\ TreeAfterNegation(t) = LiteralAfterNegation[t]
    BY <1>2, <1>4, <1>5, <1>8, Zenon
  <1>9. \A d \in 0 .. MaxOperands : \A t \in TreesOfDepth[d] :
          NegatedTree(t) \in TreesOfDepth[d] /\ TreeAfterNegation(t) \in TreesOfDepth[d]
    BY <1>2, <1>4, <1>5, Zenon
  <1> QED
    BY <1>6, <1>7, <1>8, <1>9

(* The machine states in which a tree is true.                             *)
LEMMA HoldsAt ==
  ASSUME NEW t \in Trees
  PROVE  /\ Holds(t) \in SUBSET Env
         /\ t.kind \notin Connectives => Holds(t) = LiteralHolds[t]
         /\ t.kind = "AND_EXPRESSION" =>
              \A v \in Env : v \in Holds(t) <=> \A i \in DOMAIN t.operands : v \in Holds(t.operands[i])
         /\ t.kind = "OR_EXPRESSION" =>
              \A v \in Env : v \in Holds(t) <=> \E i \in DOMAIN t.operands : v \in Holds(t.operands[i])
PROOF
  <1> DEFINE P == {u \in Trees : Holds(u) \in SUBSET Env}
             values(u) == [i \in DOMAIN u.operands |-> Holds(u.operands[i])]
  <1>1. ASSUME NEW u \in Trees
        PROVE  Holds(u) = IF u.kind \in Connectives THEN Connected[u.kind][values(u)] ELSE LiteralHolds[u]
    <2>1. \A w : Holds(w) = OverTrees(LiteralHolds, Connected)[w]
      BY DEF Holds
    <2>2. values(u) = [i \in DOMAIN u.operands |-> OverTrees(LiteralHolds, Connected)[u.operands[i]]]
      BY <2>1
    <2>3. OverTrees(LiteralHolds, Connected)[u] =
            IF u.kind \in Connectives
            THEN Connected[u.kind][[i \in DOMAIN u.operands |-> OverTrees(LiteralHolds, Connected)[u.operands[i]]]]
            ELSE LiteralHolds[u]
      BY OverTreesAt
    <2> HIDE DEF values
    <2> QED
      BY <2>1, <2>2, <2>3, Zenon
  <1>2. ASSUME NEW u \in Trees, u.kind \in Connectives, \A i \in DOMAIN u.operands : u.operands[i] \in P
        PROVE  /\ Holds(u) = {v \in Env : IF u.kind = "AND_EXPRESSION"
                                          THEN \A i \in DOMAIN u.operands : v \in Holds(u.operands[i])
                                          ELSE \E i \in DOMAIN u.operands : v \in Holds(u.operands[i])}
    <2>1. PICK s : s = values(u)
      OBVIOUS
    <2>2. DOMAIN s = DOMAIN u.operands /\ \A i \in DOMAIN s : s[i] = Holds(u.operands[i]) /\ s[i] \in SUBSET Env
      BY <1>2, <2>1
    <2>3. s \in Seq(SUBSET Env)
      <3>1. u.operands \in Seq(Trees)
        BY <1>2, OperandsAreTrees
      <3>2. PICK n \in Nat : DOMAIN u.operands = 1 .. n
        BY <3>1
      <3>3. s = [i \in 1 .. n |-> s[i]]
        BY <2>1, <3>2
      <3>4. \A i \in 1 .. n : s[i] \in SUBSET Env
        BY <2>2, <3>2
      <3> QED
        BY <3>3, <3>4
    <2>4. Holds(u) = Connected[u.kind][s]
      BY <1>1, <1>2, <2>1, Zenon
    <2>5. Connected[u.kind][s] = {v \in Env : IF u.kind = "AND_EXPRESSION" THEN \A i \in DOMAIN s : v \in s[i]
                                              ELSE \E i \in DOMAIN s : v \in s[i]}
      BY <1>2, <2>3 DEF Connected
    <2>6. \A v : /\ (\A i \in DOMAIN s : v \in s[i]) <=> \A i \in DOMAIN u.operands : v \in Holds(u.operands[i])
                 /\ (\E i \in DOMAIN s : v \in s[i]) <=> \E i \in DOMAIN u.operands : v \in Holds(u.operands[i])
      BY <2>2
    <2> QED
      BY <2>4, <2>5, <2>6
  <1>3. Trees \subseteq P
    <2>1. ASSUME NEW u \in Trees, u.kind \in Connectives => \A i \in DOMAIN u.operands : u.operands[i] \in P
          PROVE  u \in P
      <3>1. CASE u.kind \in Connectives
        BY <1>2, <2>1, <3>1
      <3>2. CASE u.kind \notin Connectives
        <4>1. Holds(u) = LiteralHolds[u] /\ u \in Literals
          <5>1. MaxOperands \in 0 .. MaxOperands /\ u \in TreesOfDepth[MaxOperands]
            BY AtomsAssumption DEF Trees
          <5> QED
            BY <1>1, <3>2, <5>1, TreeCases
        <4>2. LiteralHolds[u] \subseteq Env
          BY <4>1 DEF LiteralHolds
        <4> QED
          BY <4>1, <4>2
      <3> QED
        BY <3>1, <3>2
    <2> HIDE DEF P
    <2> QED
      BY <2>1, TreeInduction
  <1>4. t.kind \in Connectives => \A i \in DOMAIN t.operands : t.operands[i] \in P
    <2> HIDE DEF P
    <2> QED
      BY <1>3, OperandsAreTrees
  <1>5. "AND_EXPRESSION" \in Connectives /\ "OR_EXPRESSION" \in Connectives /\ "OR_EXPRESSION" # "AND_EXPRESSION"
    BY DEF Connectives
  <1>6. Holds(t) \in SUBSET Env
    BY <1>3
  <1>7. t.kind \notin Connectives => Holds(t) = LiteralHolds[t]
    BY <1>1
  <1>8. t.kind \in Connectives =>
          Holds(t) = {v \in Env : IF t.kind = "AND_EXPRESSION"
                                  THEN \A i \in DOMAIN t.operands : v \in Holds(t.operands[i])
                                  ELSE \E i \in DOMAIN t.operands : v \in Holds(t.operands[i])}
    BY <1>2, <1>4
  <1> HIDE DEF P
  <1> QED
    BY <1>5, <1>6, <1>7, <1>8

(* The atoms a tree tests.                                                 *)
LEMMA OrderAt ==
  ASSUME NEW t \in Trees
  PROVE  /\ TestOrder(t) \in Seq(Atoms)
         /\ t.kind \notin Connectives => TestOrder(t) = <<AtomOf(t)>>
         /\ t.kind \in Connectives =>
              TestOrder(t) = FlattenSeq([i \in DOMAIN t.operands |-> TestOrder(t.operands[i])])
PROOF
  <1> DEFINE P == {u \in Trees : TestOrder(u) \in Seq(Atoms)}
             values(u) == [i \in DOMAIN u.operands |-> TestOrder(u.operands[i])]
             atLiteral == [l \in Literals |-> <<AtomOf(l)>>]
             atOperands == [k \in Connectives |-> [s \in Seq(Seq(Atoms)) |-> FlattenSeq(s)]]
  <1>1. ASSUME NEW u \in Trees
        PROVE  TestOrder(u) = IF u.kind \in Connectives THEN atOperands[u.kind][values(u)] ELSE atLiteral[u]
    <2> HIDE DEF atLiteral, atOperands
    <2>1. \A w : TestOrder(w) = OverTrees(atLiteral, atOperands)[w]
      BY DEF TestOrder, atLiteral, atOperands
    <2>2. values(u) = [i \in DOMAIN u.operands |-> OverTrees(atLiteral, atOperands)[u.operands[i]]]
      BY <2>1
    <2>3. OverTrees(atLiteral, atOperands)[u] =
            IF u.kind \in Connectives
            THEN atOperands[u.kind][[i \in DOMAIN u.operands |-> OverTrees(atLiteral, atOperands)[u.operands[i]]]]
            ELSE atLiteral[u]
      BY OverTreesAt
    <2> HIDE DEF values
    <2> QED
      BY <2>1, <2>2, <2>3, Zenon
  <1>2. ASSUME NEW u \in Trees, u.kind \in Connectives, \A i \in DOMAIN u.operands : u.operands[i] \in P
        PROVE  TestOrder(u) = FlattenSeq(values(u)) /\ TestOrder(u) \in Seq(Atoms)
    <2>1. PICK s : s = values(u)
      OBVIOUS
    <2>2. s \in Seq(Seq(Atoms))
      <3>1. u.operands \in Seq(Trees)
        BY <1>2, OperandsAreTrees
      <3>2. PICK n \in Nat : DOMAIN u.operands = 1 .. n
        BY <3>1
      <3>3. s = [i \in 1 .. n |-> s[i]]
        BY <2>1, <3>2
      <3>4. \A i \in 1 .. n : s[i] \in Seq(Atoms)
        BY <1>2, <2>1, <3>2
      <3> QED
        BY <3>3, <3>4
    <2>3. TestOrder(u) = atOperands[u.kind][s]
      BY <1>1, <1>2, <2>1, Zenon
    <2>4. atOperands[u.kind][s] = FlattenSeq(s)
      BY <1>2, <2>2
    <2> QED
      BY <2>1, <2>2, <2>3, <2>4, FlattenHasAll
  <1>3. ASSUME NEW u \in Trees, u.kind \notin Connectives
        PROVE  TestOrder(u) = <<AtomOf(u)>> /\ AtomOf(u) \in Atoms
    <2>1. u \in Literals
      <3>1. MaxOperands \in 0 .. MaxOperands /\ u \in TreesOfDepth[MaxOperands]
        BY AtomsAssumption DEF Trees
      <3> QED
        BY <1>3, <3>1, TreeCases
    <2>2. AtomOf(u) \in Atoms
      <3>1. CASE \E a \in Atoms \ LowLevel : u = High(a, FALSE) \/ u = High(a, TRUE)
        <4>1. PICK a \in Atoms \ LowLevel : u = High(a, FALSE) \/ u = High(a, TRUE)
          BY <3>1, Zenon
        <4>2. AtomOf(High(a, FALSE)) = a /\ AtomOf(High(a, TRUE)) = a /\ a \in Atoms
          BY LiteralsRead
        <4> QED
          BY <4>1, <4>2, Zenon
      <3>2. CASE \E a \in LowLevel : u = Low(a) \/ u = Not(a)
        <4>1. LowLevel \subseteq Atoms
          BY AtomsAssumption
        <4>2. PICK a \in LowLevel : u = Low(a) \/ u = Not(a)
          BY <3>2, Zenon
        <4>3. AtomOf(Low(a)) = a /\ AtomOf(Not(a)) = a /\ a \in Atoms
          BY <4>1, LiteralsRead
        <4> QED
          BY <4>2, <4>3, Zenon
      <3> QED
        BY <2>1, <3>1, <3>2, LiteralForms, Zenon
    <2> QED
      BY <1>1, <1>3, <2>1, <2>2
  <1> HIDE DEF values, atOperands, atLiteral
  <1>4. Trees \subseteq P
    <2>1. ASSUME NEW u \in Trees, u.kind \in Connectives => \A i \in DOMAIN u.operands : u.operands[i] \in P
          PROVE  u \in P
      <3>1. CASE u.kind \in Connectives
        BY <1>2, <2>1, <3>1
      <3>2. CASE u.kind \notin Connectives
        <4>1. PICK a : a \in Atoms /\ TestOrder(u) = <<a>>
          BY <1>3, <3>2
        <4>2. <<a>> \in Seq(Atoms)
          BY <4>1
        <4> QED
          BY <4>1, <4>2
      <3> QED
        BY <3>1, <3>2
    <2> HIDE DEF P
    <2> QED
      BY <2>1, TreeInduction
  <1>5. t.kind \in Connectives => \A i \in DOMAIN t.operands : t.operands[i] \in P
    <2> HIDE DEF P
    <2> QED
      BY <1>4, OperandsAreTrees
  <1> QED
    BY <1>2, <1>3, <1>4, <1>5 DEF values

-----------------------------------------------------------------------------
(* getNegatedExpression                                                    *)

(* The operands of a negated tree, and of a tree after the call.           *)
LEMMA NegatedOperands ==
  ASSUME NEW t \in Trees, t.kind \in Connectives
  PROVE  /\ NegatedTree(t).kind = Dual[t.kind] /\ Dual[t.kind] \in Connectives
         /\ DOMAIN NegatedTree(t).operands = DOMAIN t.operands
         /\ \A i \in DOMAIN t.operands : NegatedTree(t).operands[i] = NegatedTree(t.operands[i])
         /\ TreeAfterNegation(t).kind = t.kind
         /\ DOMAIN TreeAfterNegation(t).operands = DOMAIN t.operands
         /\ \A i \in DOMAIN t.operands : TreeAfterNegation(t).operands[i] = TreeAfterNegation(t.operands[i])
PROOF
  <1> DEFINE n == [i \in DOMAIN t.operands |-> NegatedTree(t.operands[i])]
             a == [i \in DOMAIN t.operands |-> TreeAfterNegation(t.operands[i])]
  <1>1. NegatedTree(t) = Compound(Dual[t.kind], n) /\ TreeAfterNegation(t) = Compound(t.kind, a)
    BY NegatedAt
  <1>2. /\ DOMAIN n = DOMAIN t.operands /\ \A i \in DOMAIN t.operands : n[i] = NegatedTree(t.operands[i])
        /\ DOMAIN a = DOMAIN t.operands /\ \A i \in DOMAIN t.operands : a[i] = TreeAfterNegation(t.operands[i])
    OBVIOUS
  <1> HIDE DEF n, a
  <1>3. \A k, s : Compound(k, s).kind = k /\ Compound(k, s).operands = s
    BY DEF Compound
  <1>4. Dual[t.kind] \in Connectives
    BY NegationType
  <1> QED
    BY <1>1, <1>2, <1>3, <1>4

(* The kinds of the trees.                                                 *)
LEMMA NegatedKinds ==
  ASSUME NEW t \in Trees
  PROVE  /\ t.kind \in Kinds
         /\ NegatedTree(t).kind = NegatedKind[t.kind]
         /\ TreeAfterNegation(t).kind = t.kind
PROOF
  <1>1. CASE t.kind \in Connectives
    <2>1. NegatedTree(t).kind = Dual[t.kind] /\ TreeAfterNegation(t).kind = t.kind
      BY <1>1, NegatedOperands
    <2>2. t.kind \in Kinds /\ NegatedKind[t.kind] = Dual[t.kind]
      BY <1>1 DEF Connectives, Kinds, NegatedKind, Dual
    <2> QED
      BY <2>1, <2>2
  <1>2. CASE t.kind \notin Connectives
    <2>1. t \in Literals
      <3>1. MaxOperands \in 0 .. MaxOperands /\ t \in TreesOfDepth[MaxOperands]
        BY AtomsAssumption DEF Trees
      <3> QED
        BY <1>2, <3>1, TreeCases
    <2>2. NegatedTree(t) = NegatedLiteral[t] /\ TreeAfterNegation(t) = LiteralAfterNegation[t]
      BY <1>2, NegatedAt
    <2>3. /\ NegatedKind["HIGHLEVEL_CONDITION"] = "HIGHLEVEL_CONDITION"
          /\ NegatedKind["LOWLEVEL_CONDITION"] = "LOGICAL_NOT_EXPRESSION"
          /\ NegatedKind["LOGICAL_NOT_EXPRESSION"] = "LOWLEVEL_CONDITION"
          /\ {"HIGHLEVEL_CONDITION", "LOWLEVEL_CONDITION", "LOGICAL_NOT_EXPRESSION"} \subseteq Kinds
      BY DEF NegatedKind, Kinds
    <2>4. \A a : /\ High(a, FALSE).kind = "HIGHLEVEL_CONDITION" /\ High(a, TRUE).kind = "HIGHLEVEL_CONDITION"
                 /\ Low(a).kind = "LOWLEVEL_CONDITION" /\ Not(a).kind = "LOGICAL_NOT_EXPRESSION"
      BY DEF High, Low, Not
    <2>5. CASE \E a \in Atoms \ LowLevel : t = High(a, FALSE) \/ t = High(a, TRUE)
      <3>1. ASSUME NEW a \in Atoms \ LowLevel, NEW p, NEW q, p = High(a, FALSE), q = High(a, TRUE), t = p \/ t = q
            PROVE  {t.kind, NegatedTree(t).kind, TreeAfterNegation(t).kind} = {"HIGHLEVEL_CONDITION"}
        <4>1. NegatedLiteral[p] = q /\ LiteralAfterNegation[p] = q /\ NegatedLiteral[q] = p /\ LiteralAfterNegation[q] = p
          BY <3>1, LiteralsNegated
        <4>2. p.kind = "HIGHLEVEL_CONDITION" /\ q.kind = "HIGHLEVEL_CONDITION"
          BY <2>4, <3>1
        <4> QED
          BY <2>2, <3>1, <4>1, <4>2
      <3> QED
        BY <2>3, <2>5, <3>1
    <2>6. CASE \E a \in LowLevel : t = Low(a) \/ t = Not(a)
      BY <2>2, <2>3, <2>4, <2>6, LiteralsNegated
    <2> QED
      BY <2>1, <2>5, <2>6, LiteralForms, Zenon
  <1> QED
    BY <1>1, <1>2

(* What is returned is true where its argument was false, and tests its    *)
(* atoms in the same order.  The argument is what it was before after a    *)
(* second call, and a negated tree is changed by a call as the tree is.    *)
LEMMA NegationLaws ==
  ASSUME NEW t \in Trees
  PROVE  /\ Holds(NegatedTree(t)) = Env \ Holds(t)
         /\ TreeAfterNegation(TreeAfterNegation(t)) = t
         /\ TreeAfterNegation(NegatedTree(t)) = NegatedTree(TreeAfterNegation(t))
         /\ TestOrder(NegatedTree(t)) = TestOrder(t)
PROOF
  <1> DEFINE Neg(u) == NegatedTree(u)
             After(u) == TreeAfterNegation(u)
             Law(u) == /\ Holds(Neg(u)) = Env \ Holds(u) /\ After(After(u)) = u
                       /\ After(Neg(u)) = Neg(After(u)) /\ TestOrder(Neg(u)) = TestOrder(u)
             P == {u \in Trees : Law(u)}
  <1>1. ASSUME NEW u \in Trees, u.kind \notin Connectives
        PROVE  Law(u)
    <2>1. u \in Literals
      <3>1. MaxOperands \in 0 .. MaxOperands /\ u \in TreesOfDepth[MaxOperands]
        BY AtomsAssumption DEF Trees
      <3> QED
        BY <1>1, <3>1, TreeCases
    <2>2. PICK n, a : n = NegatedLiteral[u] /\ a = LiteralAfterNegation[u] /\ n = Neg(u) /\ a = After(u) /\ n \in Literals /\ a \in Literals
      BY <1>1, <2>1, NegatedAt, NegationType
    <2>3. \A l \in Literals : l \in Trees /\ l.kind \notin Connectives
      <3> SUFFICES ASSUME NEW l \in Literals
                   PROVE  l \in Trees /\ l.kind \notin Connectives
        OBVIOUS
      <3>1. 0 \in 0 .. MaxOperands /\ l \in TreesOfDepth[0]
        BY Depths, AtomsAssumption
      <3> QED
        BY <3>1, TreeCases
    <2>4. \A l \in Literals : /\ Neg(l) = NegatedLiteral[l] /\ After(l) = LiteralAfterNegation[l]
                              /\ Holds(l) = LiteralHolds[l] /\ TestOrder(l) = <<AtomOf(l)>>
      BY <2>3, NegatedAt, HoldsAt, OrderAt
    <2> HIDE DEF Neg, After
    <2>5. ASSUME NEW x \in Atoms \ LowLevel, u = High(x, FALSE) \/ u = High(x, TRUE)
          PROVE  Law(u)
      <3>1. High(x, FALSE) \in Literals /\ High(x, TRUE) \in Literals
        BY LiteralForms
      <3>2. PICK p, q : p = High(x, FALSE) /\ q = High(x, TRUE) /\ p \in Literals /\ q \in Literals
        BY <3>1
      <3>3. Neg(p) = q /\ Neg(q) = p /\ After(p) = q /\ After(q) = p
        BY <2>4, <3>2, LiteralsNegated
      <3>4. Holds(p) = TrueOf(x) /\ Holds(q) = Env \ TrueOf(x) /\ TestOrder(p) = <<x>> /\ TestOrder(q) = <<x>>
        BY <2>4, <3>2, LiteralsRead
      <3>5. Env \ (Env \ TrueOf(x)) = TrueOf(x)
        BY DEF TrueOf
      <3> QED
        BY <2>5, <3>2, <3>3, <3>4, <3>5
    <2>6. ASSUME NEW x \in LowLevel, u = Low(x) \/ u = Not(x)
          PROVE  Law(u)
      <3>1. Low(x) \in Literals /\ Not(x) \in Literals
        BY LiteralForms
      <3>2. PICK p, q : p = Low(x) /\ q = Not(x) /\ p \in Literals /\ q \in Literals
        BY <3>1
      <3>3. Neg(p) = q /\ Neg(q) = p /\ After(p) = p /\ After(q) = q
        BY <2>4, <3>2, LiteralsNegated
      <3>4. Holds(p) = TrueOf(x) /\ Holds(q) = Env \ TrueOf(x) /\ TestOrder(p) = <<x>> /\ TestOrder(q) = <<x>>
        BY <2>4, <3>2, LiteralsRead
      <3>5. Env \ (Env \ TrueOf(x)) = TrueOf(x)
        BY DEF TrueOf
      <3> QED
        BY <2>6, <3>2, <3>3, <3>4, <3>5
    <2> HIDE DEF Law
    <2> QED
      BY <2>1, <2>5, <2>6, LiteralForms
  <1>2. ASSUME NEW u \in Trees, u.kind \in Connectives, \A i \in DOMAIN u.operands : u.operands[i] \in P
        PROVE  Law(u)
    <2>1. \A i \in DOMAIN u.operands : u.operands[i] \in Trees /\ Law(u.operands[i])
      BY <1>2
    <2>2. PICK D : D = DOMAIN u.operands
      OBVIOUS
    <2>3. PICK n, a : n = Neg(u) /\ a = After(u) /\ n \in Trees /\ a \in Trees
      BY NegatedAt
    <2>4. /\ n.kind = Dual[u.kind] /\ n.kind \in Connectives /\ DOMAIN n.operands = D
          /\ \A i \in D : n.operands[i] = Neg(u.operands[i])
          /\ a.kind = u.kind /\ a.kind \in Connectives /\ DOMAIN a.operands = D
          /\ \A i \in D : a.operands[i] = After(u.operands[i])
      BY <1>2, <2>2, <2>3, NegatedOperands
    <2>5. Holds(n) = Env \ Holds(u)
      <3>1. Holds(n) \in SUBSET Env /\ Holds(u) \in SUBSET Env
        BY <2>3, HoldsAt
      <3>2. \A i \in D : Holds(n.operands[i]) = Env \ Holds(u.operands[i])
        BY <2>1, <2>2, <2>4
      <3>3. CASE u.kind = "AND_EXPRESSION"
        <4>1. n.kind = "OR_EXPRESSION"
          BY <2>4, <3>3 DEF Dual, Connectives
        <4>2. \A v \in Env : v \in Holds(u) <=> \A i \in D : v \in Holds(u.operands[i])
          BY <2>2, <3>3, HoldsAt
        <4>3. \A v \in Env : v \in Holds(n) <=> \E i \in D : v \in Holds(n.operands[i])
          BY <2>3, <2>4, <4>1, HoldsAt
        <4>4. \A v \in Env : v \in Holds(n) <=> v \notin Holds(u)
          BY <3>2, <4>2, <4>3
        <4> QED
          BY <3>1, <4>4
      <3>4. CASE u.kind = "OR_EXPRESSION"
        <4>1. n.kind = "AND_EXPRESSION"
          BY <2>4, <3>4 DEF Dual, Connectives
        <4>2. \A v \in Env : v \in Holds(u) <=> \E i \in D : v \in Holds(u.operands[i])
          BY <2>2, <3>4, HoldsAt
        <4>3. \A v \in Env : v \in Holds(n) <=> \A i \in D : v \in Holds(n.operands[i])
          BY <2>3, <2>4, <4>1, HoldsAt
        <4>4. \A v \in Env : v \in Holds(n) <=> v \notin Holds(u)
          BY <3>2, <4>2, <4>3
        <4> QED
          BY <3>1, <4>4
      <3> QED
        BY <1>2, <3>3, <3>4 DEF Connectives
    <2>6. After(a) = u
      <3>1. After(a) = Compound(a.kind, [i \in DOMAIN a.operands |-> After(a.operands[i])])
        BY <2>3, <2>4, NegatedAt
      <3>2. [i \in DOMAIN a.operands |-> After(a.operands[i])] = [i \in D |-> u.operands[i]]
        <4>1. \A i \in D : After(a.operands[i]) = u.operands[i]
          BY <2>1, <2>2, <2>4
        <4> HIDE DEF After
        <4> QED
          BY <2>4, <4>1
      <3>3. u.operands = [i \in D |-> u.operands[i]]
        <4>1. u.operands \in Seq(Trees)
          BY <1>2, OperandsAreTrees
        <4> QED
          BY <2>2, <4>1
      <3>4. u = Compound(u.kind, u.operands)
        BY <1>2, OperandsAreTrees
      <3> HIDE DEF After
      <3> QED
        BY <2>4, <3>1, <3>2, <3>3, <3>4, Zenon
    <2>7. After(n) = Neg(a)
      <3>1. After(n) = Compound(n.kind, [i \in DOMAIN n.operands |-> After(n.operands[i])])
        BY <2>3, <2>4, NegatedAt
      <3>2. Neg(a) = Compound(Dual[a.kind], [i \in DOMAIN a.operands |-> Neg(a.operands[i])])
        BY <2>3, <2>4, NegatedAt
      <3>3. \A i \in D : After(n.operands[i]) = Neg(a.operands[i])
        BY <2>1, <2>2, <2>4
      <3> HIDE DEF After, Neg
      <3>4. [i \in DOMAIN n.operands |-> After(n.operands[i])] = [i \in DOMAIN a.operands |-> Neg(a.operands[i])]
        BY <2>4, <3>3
      <3> QED
        BY <2>4, <3>1, <3>2, <3>4, Zenon
    <2>8. TestOrder(n) = TestOrder(u)
      <3>1. TestOrder(n) = FlattenSeq([i \in DOMAIN n.operands |-> TestOrder(n.operands[i])])
        BY <2>3, <2>4, OrderAt
      <3>2. TestOrder(u) = FlattenSeq([i \in DOMAIN u.operands |-> TestOrder(u.operands[i])])
        BY <1>2, OrderAt
      <3>3. \A i \in D : TestOrder(n.operands[i]) = TestOrder(u.operands[i])
        BY <2>1, <2>2, <2>4
      <3>4. [i \in DOMAIN n.operands |-> TestOrder(n.operands[i])] = [i \in DOMAIN u.operands |-> TestOrder(u.operands[i])]
        BY <2>2, <2>4, <3>3
      <3> QED
        BY <3>1, <3>2, <3>4, Zenon
    <2> HIDE DEF Neg, After
    <2> QED
      BY <2>3, <2>5, <2>6, <2>7, <2>8
  <1> HIDE DEF Law
  <1>3. Trees \subseteq P
    <2>1. ASSUME NEW u \in Trees, u.kind \in Connectives => \A i \in DOMAIN u.operands : u.operands[i] \in P
          PROVE  u \in P
      BY <1>1, <1>2, <2>1
    <2> HIDE DEF P
    <2> QED
      BY <2>1, TreeInduction
  <1> QED
    BY <1>3 DEF Law

-----------------------------------------------------------------------------
(* getCompundCondition_AND and getCompundCondition_OR                      *)

\* The description of two conditions under a connective.
Both(k, c, d) == IF k = "AND_EXPRESSION" THEN Conjunction(c, d) ELSE Disjunction(c, d)

\* What a compound condition tests, when it is true, and when it would be
\* true after a call of getNegatedExpression.
ReadFrom(k, s, t) ==
  /\ t.kind = k /\ t.operands = s
  /\ TestOrder(t) = FlattenSeq([i \in DOMAIN s |-> TestOrder(s[i])])
  /\ \A v \in Env :
       /\ v \in Holds(t) <=> IF k = "AND_EXPRESSION" THEN \A i \in DOMAIN s : v \in Holds(s[i])
                                                     ELSE \E i \in DOMAIN s : v \in Holds(s[i])
       /\ v \in Holds(TreeAfterNegation(t)) <=>
            IF k = "AND_EXPRESSION" THEN \A i \in DOMAIN s : v \in Holds(TreeAfterNegation(s[i]))
                                    ELSE \E i \in DOMAIN s : v \in Holds(TreeAfterNegation(s[i]))

(* A compound condition is read from its operands.                         *)
LEMMA CompoundRead ==
  ASSUME NEW k \in Connectives, NEW s \in Seq(Trees), NEW t \in Trees, t = Compound(k, s)
  PROVE  ReadFrom(k, s, t)
PROOF
  <1>1. t.kind = k /\ t.operands = s
    BY DEF Compound
  <1>2. k # "AND_EXPRESSION" => k = "OR_EXPRESSION"
    BY DEF Connectives
  <1>3. TestOrder(t) = FlattenSeq([i \in DOMAIN s |-> TestOrder(s[i])])
    BY <1>1, OrderAt
  <1>4. \A v \in Env : v \in Holds(t) <=> IF k = "AND_EXPRESSION" THEN \A i \in DOMAIN s : v \in Holds(s[i])
                                                                  ELSE \E i \in DOMAIN s : v \in Holds(s[i])
    BY <1>1, <1>2, HoldsAt
  <1>5. PICK a \in Trees : a = TreeAfterNegation(t)
    BY NegatedAt
  <1>6. a.kind = k /\ DOMAIN a.operands = DOMAIN s /\ \A i \in DOMAIN s : a.operands[i] = TreeAfterNegation(s[i])
    BY <1>1, <1>5, NegatedOperands
  <1>7. \A v \in Env : v \in Holds(a) <=> IF k = "AND_EXPRESSION" THEN \A i \in DOMAIN s : v \in Holds(a.operands[i])
                                                                  ELSE \E i \in DOMAIN s : v \in Holds(a.operands[i])
    BY <1>2, <1>6, HoldsAt
  <1>8. \A v \in Env : v \in Holds(a) <=> IF k = "AND_EXPRESSION" THEN \A i \in DOMAIN s : v \in Holds(TreeAfterNegation(s[i]))
                                                                  ELSE \E i \in DOMAIN s : v \in Holds(TreeAfterNegation(s[i]))
    BY <1>6, <1>7
  <1> QED
    BY <1>1, <1>3, <1>4, <1>5, <1>8 DEF ReadFrom

(* The states of a tree are states of the machine.                         *)
LEMMA HoldsInEnv ==
  ASSUME NEW t \in Trees
  PROVE  Holds(t) \subseteq Env /\ Holds(TreeAfterNegation(t)) \subseteq Env
PROOF
  BY HoldsAt, NegatedAt

LEMMA AppendToOne ==
  ASSUME NEW S, NEW x \in S, NEW y \in S
  PROVE  Append(<<x>>, y) = <<x, y>>
PROOF
  <1>1. <<x>> \in Seq(S) /\ Len(<<x>>) = 1 /\ <<x>>[1] = x
    OBVIOUS
  <1>2. PICK z : z = Append(<<x>>, y)
    OBVIOUS
  <1>3. z \in Seq(S) /\ Len(z) = 1 + 1 /\ z[1] = x /\ z[1 + 1] = y
    BY <1>1, <1>2, AppendProperties
  <1>4. Len(z) = 2 /\ z[2] = y
    BY <1>3
  <1>5. z = [i \in {1, 2} |-> IF i = 1 THEN x ELSE y]
    BY <1>3, <1>4
  <1>6. <<x, y>> = [i \in {1, 2} |-> IF i = 1 THEN x ELSE y]
    OBVIOUS
  <1> QED
    BY <1>2, <1>5, <1>6

IsPair(s, a, b) == s = <<a, b>>

(* Two conditions under a connective.                                      *)
LEMMA PairDescribed ==
  ASSUME NEW k \in Connectives, NEW a \in Trees, NEW b \in Trees,
         NEW s, IsPair(s, a, b), NEW t \in Trees, t = Compound(k, s)
  PROVE  /\ Description(t) = Both(k, Description(a), Description(b))
         /\ TestOrder(t) = TestOrder(a) \o TestOrder(b)
PROOF
  <1>0. <<a, b>> \in Seq(Trees) /\ DOMAIN <<a, b>> = {1, 2} /\ <<a, b>>[1] = a /\ <<a, b>>[2] = b
    OBVIOUS
  <1>1. s \in Seq(Trees) /\ DOMAIN s = {1, 2} /\ s[1] = a /\ s[2] = b
    BY <1>0 DEF IsPair
  <1>2. ReadFrom(k, s, t)
    BY <1>1, CompoundRead
  <1>3. k # "AND_EXPRESSION" => k = "OR_EXPRESSION"
    BY DEF Connectives
  <1>4. /\ t.kind = k
        /\ \A v \in Env :
             /\ v \in Holds(t) <=> IF k = "AND_EXPRESSION" THEN v \in Holds(a) /\ v \in Holds(b)
                                                           ELSE v \in Holds(a) \/ v \in Holds(b)
             /\ v \in Holds(TreeAfterNegation(t)) <=>
                  IF k = "AND_EXPRESSION" THEN v \in Holds(TreeAfterNegation(a)) /\ v \in Holds(TreeAfterNegation(b))
                                          ELSE v \in Holds(TreeAfterNegation(a)) \/ v \in Holds(TreeAfterNegation(b))
    <2>1. \A v : /\ (\A i \in DOMAIN s : v \in Holds(s[i])) <=> v \in Holds(a) /\ v \in Holds(b)
                 /\ (\E i \in DOMAIN s : v \in Holds(s[i])) <=> v \in Holds(a) \/ v \in Holds(b)
      BY <1>1
    <2>2. \A v : /\ (\A i \in DOMAIN s : v \in Holds(TreeAfterNegation(s[i])))
                      <=> v \in Holds(TreeAfterNegation(a)) /\ v \in Holds(TreeAfterNegation(b))
                 /\ (\E i \in DOMAIN s : v \in Holds(TreeAfterNegation(s[i])))
                      <=> v \in Holds(TreeAfterNegation(a)) \/ v \in Holds(TreeAfterNegation(b))
      BY <1>1
    <2> QED
      BY <1>2, <2>1, <2>2 DEF ReadFrom
  <1>5. Description(t) = Both(k, Description(a), Description(b))
    <2>1. /\ Holds(a) \subseteq Env /\ Holds(TreeAfterNegation(a)) \subseteq Env
          /\ Holds(b) \subseteq Env /\ Holds(TreeAfterNegation(b)) \subseteq Env
          /\ Holds(t) \subseteq Env /\ Holds(TreeAfterNegation(t)) \subseteq Env
      BY HoldsInEnv
    <2>2. CASE k = "AND_EXPRESSION"
      <3>1. Holds(t) = Holds(a) \cap Holds(b)
        BY <1>4, <2>1, <2>2
      <3>2. Holds(TreeAfterNegation(t)) = Holds(TreeAfterNegation(a)) \cap Holds(TreeAfterNegation(b))
        BY <1>4, <2>1, <2>2
      <3>3. t.kind = "AND_EXPRESSION"
        BY <1>4, <2>2
      <3> QED
        BY <2>2, <3>1, <3>2, <3>3 DEF Description, Both, Conjunction
    <2>3. CASE k = "OR_EXPRESSION"
      <3>1. Holds(t) = Holds(a) \cup Holds(b)
        BY <1>4, <2>1, <2>3
      <3>2. Holds(TreeAfterNegation(t)) = Holds(TreeAfterNegation(a)) \cup Holds(TreeAfterNegation(b))
        BY <1>4, <2>1, <2>3
      <3>3. t.kind = "OR_EXPRESSION"
        BY <1>4, <2>3
      <3> QED
        BY <2>3, <3>1, <3>2, <3>3 DEF Description, Both, Disjunction
    <2> QED
      BY <1>3, <2>2, <2>3
  <1>6. TestOrder(t) = TestOrder(a) \o TestOrder(b)
    <2>1. PICK x \in Seq(Atoms), y \in Seq(Atoms) : x = TestOrder(a) /\ y = TestOrder(b)
      BY OrderAt
    <2>2. TestOrder(t) = FlattenSeq([i \in DOMAIN s |-> TestOrder(s[i])])
      BY <1>2 DEF ReadFrom
    <2>3. [i \in DOMAIN s |-> TestOrder(s[i])] = <<x, y>>
      <3>1. \A i \in {1, 2} : TestOrder(s[i]) = IF i = 1 THEN x ELSE y
        BY <1>1, <2>1
      <3>2. [i \in {1, 2} |-> IF i = 1 THEN x ELSE y] = <<x, y>>
        OBVIOUS
      <3> QED
        BY <1>1, <3>1, <3>2
    <2>4. FlattenSeq(<<x, y>>) = x \o y
      <3>1. <<>> \in Seq(Seq(Atoms)) /\ <<x>> \in Seq(Seq(Atoms))
        OBVIOUS
      <3>2. FlattenSeq(<<>>) = <<>>
        BY EmptySeq, Zenon DEF FlattenSeq
      <3>3. Append(<<>>, x) = <<x>>
        OBVIOUS
      <3>4. <<>> \o x = x /\ <<>> \in Seq(Atoms)
        OBVIOUS
      <3>5. FlattenSeq(Append(<<>>, x)) = <<>> \o x
        BY <3>1, <3>2, <3>4, FlattenAppend
      <3>6. FlattenSeq(<<x>>) = x
        BY <3>3, <3>4, <3>5, Zenon
      <3>7. FlattenSeq(Append(<<x>>, y)) = FlattenSeq(<<x>>) \o y
        BY <3>1, <3>6, FlattenAppend
      <3>8. Append(<<x>>, y) = <<x, y>>
        BY AppendToOne
      <3> QED
        BY <3>6, <3>7, <3>8, Zenon
    <2> QED
      BY <2>1, <2>2, <2>3, <2>4, Zenon
  <1> QED
    BY <1>5, <1>6

(* A condition behind the operands of a compound one.                      *)
LEMMA PushDescribed ==
  ASSUME NEW k \in Connectives, NEW a \in Trees, a.kind = k, NEW b \in Trees,
         NEW t \in Trees, t = Compound(k, Append(a.operands, b))
  PROVE  /\ Description(t) = Both(k, Description(a), Description(b))
         /\ Description(t) = Both(k, Description(b), Description(a))
         /\ TestOrder(t) = TestOrder(a) \o TestOrder(b)
PROOF
  <1>1. a.operands \in Seq(Trees) /\ a = Compound(k, a.operands)
    BY OperandsAreTrees
  <1>2. PICK r \in Seq(Trees), n \in Nat : r = a.operands /\ DOMAIN r = 1 .. n /\ n = Len(r)
    BY <1>1
  <1>3. PICK s \in Seq(Trees) : s = Append(r, b)
    BY AppendProperties
  <1>4. DOMAIN s = 1 .. n + 1 /\ s[n + 1] = b /\ \A i \in 1 .. n : s[i] = r[i]
    BY <1>2, <1>3, AppendProperties
  <1>5. t = Compound(k, s) /\ a = Compound(k, r)
    BY <1>1, <1>2, <1>3
  <1>6. k # "AND_EXPRESSION" => k = "OR_EXPRESSION"
    BY DEF Connectives
  <1>7. ReadFrom(k, r, a)
    BY <1>2, <1>5, CompoundRead
  <1>8. ReadFrom(k, s, t) /\ t.kind = k
    BY <1>5, CompoundRead DEF ReadFrom
  <1>9. \A i \in 1 .. n + 1 : i \in 1 .. n \/ i = n + 1
    BY <1>2
  <1>10. n + 1 \in 1 .. n + 1 /\ \A i \in 1 .. n : i \in 1 .. n + 1
    BY <1>2
  <1>11. /\ Holds(a) \subseteq Env /\ Holds(TreeAfterNegation(a)) \subseteq Env
         /\ Holds(b) \subseteq Env /\ Holds(TreeAfterNegation(b)) \subseteq Env
         /\ Holds(t) \subseteq Env /\ Holds(TreeAfterNegation(t)) \subseteq Env
    BY HoldsInEnv
  <1>12. ASSUME k = "AND_EXPRESSION"
        PROVE  /\ Description(t) = Both(k, Description(a), Description(b))
               /\ Description(t) = Both(k, Description(b), Description(a))
    <2>1. \A v \in Env : v \in Holds(t) <=> v \in Holds(a) /\ v \in Holds(b)
      BY <1>2, <1>4, <1>7, <1>8, <1>9, <1>10, <1>12 DEF ReadFrom
    <2>2. \A v \in Env : v \in Holds(TreeAfterNegation(t)) <=> v \in Holds(TreeAfterNegation(a)) /\ v \in Holds(TreeAfterNegation(b))
      BY <1>2, <1>4, <1>7, <1>8, <1>9, <1>10, <1>12 DEF ReadFrom
    <2>3. Holds(t) = Holds(a) \cap Holds(b) /\ Holds(t) = Holds(b) \cap Holds(a)
      BY <1>11, <2>1
    <2>4. /\ Holds(TreeAfterNegation(t)) = Holds(TreeAfterNegation(a)) \cap Holds(TreeAfterNegation(b))
          /\ Holds(TreeAfterNegation(t)) = Holds(TreeAfterNegation(b)) \cap Holds(TreeAfterNegation(a))
      BY <1>11, <2>2
    <2>5. t.kind = "AND_EXPRESSION"
      BY <1>8, <1>12
    <2> QED
      <3>1. \A c, d : Both(k, c, d) = Conjunction(c, d)
        BY <1>12 DEF Both
      <3>2. Description(t) = Conjunction(Description(a), Description(b))
        BY <2>3, <2>4, <2>5 DEF Description, Conjunction
      <3>3. Description(t) = Conjunction(Description(b), Description(a))
        BY <2>3, <2>4, <2>5 DEF Description, Conjunction
      <3> QED
        BY <3>1, <3>2, <3>3
  <1>13. ASSUME k = "OR_EXPRESSION"
        PROVE  /\ Description(t) = Both(k, Description(a), Description(b))
               /\ Description(t) = Both(k, Description(b), Description(a))
    <2>1. \A v \in Env : v \in Holds(t) <=> v \in Holds(a) \/ v \in Holds(b)
      BY <1>2, <1>4, <1>7, <1>8, <1>9, <1>10, <1>13 DEF ReadFrom
    <2>2. \A v \in Env : v \in Holds(TreeAfterNegation(t)) <=> v \in Holds(TreeAfterNegation(a)) \/ v \in Holds(TreeAfterNegation(b))
      BY <1>2, <1>4, <1>7, <1>8, <1>9, <1>10, <1>13 DEF ReadFrom
    <2>3. Holds(t) = Holds(a) \cup Holds(b) /\ Holds(t) = Holds(b) \cup Holds(a)
      BY <1>11, <2>1
    <2>4. /\ Holds(TreeAfterNegation(t)) = Holds(TreeAfterNegation(a)) \cup Holds(TreeAfterNegation(b))
          /\ Holds(TreeAfterNegation(t)) = Holds(TreeAfterNegation(b)) \cup Holds(TreeAfterNegation(a))
      BY <1>11, <2>2
    <2>5. t.kind = "OR_EXPRESSION" /\ "OR_EXPRESSION" # "AND_EXPRESSION"
      BY <1>8, <1>13
    <2> QED
      <3>1. \A c, d : Both(k, c, d) = Disjunction(c, d)
        BY <1>13 DEF Both
      <3>2. Description(t) = Disjunction(Description(a), Description(b))
        BY <2>3, <2>4, <2>5 DEF Description, Disjunction
      <3>3. Description(t) = Disjunction(Description(b), Description(a))
        BY <2>3, <2>4, <2>5 DEF Description, Disjunction
      <3> QED
        BY <3>1, <3>2, <3>3
  <1>14. TestOrder(t) = TestOrder(a) \o TestOrder(b)
    <2>1. PICK y \in Seq(Atoms) : y = TestOrder(b)
      BY OrderAt
    <2>2. PICK x : x = [i \in DOMAIN r |-> TestOrder(r[i])]
      OBVIOUS
    <2>3. x = [i \in 1 .. n |-> x[i]] /\ \A i \in 1 .. n : x[i] = TestOrder(r[i]) /\ x[i] \in Seq(Atoms)
      <3>1. \A i \in 1 .. n : r[i] \in Trees
        BY <1>2
      <3> QED
        BY <1>2, <2>2, <3>1, OrderAt
    <2>4. x \in Seq(Seq(Atoms)) /\ Len(x) = n
      <3>1. x = [i \in 1 .. n |-> x[i]]
        BY <2>3
      <3>2. PICK S : S = Seq(Atoms) /\ \A i \in 1 .. n : x[i] \in S
        BY <2>3
      <3>3. x \in Seq(S)
        <4>1. x \in [1 .. n -> S]
          BY <3>1, <3>2
        <4> QED
          BY <4>1, SeqDef
      <3>4. Len(x) = n
        BY <3>1, <3>3
      <3> QED
        BY <3>2, <3>3, <3>4, Zenon
    <2>5. /\ Append(x, y) = [i \in 1 .. n + 1 |-> Append(x, y)[i]]
          /\ Append(x, y)[n + 1] = y /\ \A i \in 1 .. n : Append(x, y)[i] = x[i]
      <3>1. PICK z : z = Append(x, y)
        OBVIOUS
      <3>2. /\ z \in Seq(Seq(Atoms)) /\ Len(z) = n + 1 /\ z[n + 1] = y
            /\ \A i \in 1 .. n : z[i] = x[i]
        BY <2>1, <2>4, <3>1, AppendProperties
      <3>3. z = [i \in 1 .. n + 1 |-> z[i]]
        BY <3>2
      <3> QED
        BY <3>1, <3>2, <3>3
    <2>6. [i \in DOMAIN s |-> TestOrder(s[i])] = Append(x, y)
      <3>1. \A i \in 1 .. n + 1 : TestOrder(s[i]) = Append(x, y)[i]
        BY <1>4, <1>9, <2>1, <2>3, <2>5
      <3> QED
        BY <1>4, <2>5, <3>1
    <2>7. FlattenSeq(x) \in Seq(Atoms)
      BY <2>4, FlattenHasAll
    <2>8. FlattenSeq(Append(x, y)) = FlattenSeq(x) \o y
      BY <2>1, <2>4, <2>7, FlattenAppend
    <2>9. /\ TestOrder(a) = FlattenSeq([i \in DOMAIN r |-> TestOrder(r[i])])
          /\ TestOrder(t) = FlattenSeq([i \in DOMAIN s |-> TestOrder(s[i])])
      BY <1>7, <1>8 DEF ReadFrom
    <2> QED
      BY <2>1, <2>2, <2>6, <2>8, <2>9, Zenon
  <1> QED
    BY <1>6, <1>12, <1>13, <1>14

(* How deep a compound condition is.                                       *)
LEMMA CompoundDepth ==
  ASSUME NEW n \in Nat \ {0}, NEW m \in Nat \ {0}, n + m <= MaxOperands,
         NEW a \in TreesOfDepth[n - 1], NEW b \in TreesOfDepth[m - 1], NEW k \in Connectives
  PROVE  /\ n - 1 \in 0 .. MaxOperands /\ m - 1 \in 0 .. MaxOperands /\ n + m - 1 \in 0 .. MaxOperands
         /\ Compound(k, <<a, b>>) \in TreesOfDepth[n + m - 1]
         /\ a.kind = k => Compound(k, Append(a.operands, b)) \in TreesOfDepth[n + m - 1]
         /\ b.kind = k => Compound(k, Append(b.operands, a)) \in TreesOfDepth[n + m - 1]
PROOF
  <1>1. PICK d \in 0 .. MaxOperands : d = n + m - 1 /\ d # 0 /\ d - 1 \in 0 .. MaxOperands
    BY AtomsAssumption
  <1>2. n - 1 \in 0 .. MaxOperands /\ m - 1 \in 0 .. MaxOperands /\ n - 1 \in 0 .. d - 1 /\ m - 1 \in 0 .. d - 1
    BY <1>1, AtomsAssumption
  <1>3. PICK S : S = TreesOfDepth[d - 1]
    OBVIOUS
  <1>4. a \in S /\ b \in S
    BY <1>1, <1>2, <1>3, DepthsGrow
  <1>5. ASSUME NEW s \in Seq(S)
        PROVE  Compound(k, s) \in TreesOfDepth[d]
    <2>1. Compound(k, s) \in Nodes(S)
      BY DEF Compound, Nodes
    <2> QED
      BY <1>1, <1>3, <2>1, Depths
  <1>6. <<a, b>> \in Seq(S)
    BY <1>4
  <1>7. ASSUME NEW x \in 0 .. MaxOperands, x \in 0 .. d - 1, NEW t \in TreesOfDepth[x], t.kind = k, NEW u \in S
        PROVE  Append(t.operands, u) \in Seq(S)
    <2>1. x # 0 /\ t.operands \in Seq(TreesOfDepth[x - 1])
      BY <1>7, TreeCases
    <2>2. x - 1 \in 0 .. d - 1
      BY <1>1, <1>7, <2>1
    <2>3. TreesOfDepth[x - 1] \subseteq S
      BY <1>1, <1>3, <2>2, DepthsGrow
    <2>4. PICK s \in Seq(S) : s = t.operands
      BY <2>1, <2>3, SequencesGrow
    <2> QED
      BY <2>4, AppendProperties
  <1>8. a.kind = k => Append(a.operands, b) \in Seq(S)
    BY <1>2, <1>4, <1>7
  <1>9. b.kind = k => Append(b.operands, a) \in Seq(S)
    BY <1>2, <1>4, <1>7
  <1> QED
    BY <1>1, <1>2, <1>5, <1>6, <1>8, <1>9

(* Other operands in a tree.                                               *)
LEMMA OperandsField ==
  ASSUME NEW k, NEW a, NEW n, NEW s, NEW t, t = [kind |-> k, atom |-> a, negated |-> n, operands |-> s]
  PROVE  \A r : [t EXCEPT !.operands = r] = [kind |-> k, atom |-> a, negated |-> n, operands |-> r]
PROOF
  OBVIOUS

\* A tree with n + m atoms that stands for a and b under the connective k.
Joins(t, k, a, b, n, m) ==
  /\ t \in TreesOfDepth[n + m - 1] /\ t \in Trees
  /\ Description(t) = Both(k, Description(a), Description(b))

\* What becomes of a and b: the call changes a, or returns an expression.
MergedInto(k, a, b, other, n, m) ==
  /\ a.kind = k =>
       /\ TreeUnlessNull(CompoundTree(k, a, b), other) = other
       /\ Joins(TreeAfterPush(k, a, b), k, a, b, n, m)
       /\ TestOrder(TreeAfterPush(k, a, b)) = TestOrder(a) \o TestOrder(b)
  /\ a.kind # k =>
       /\ TreeUnlessNull(CompoundTree(k, a, b), other) = CompoundTree(k, a, b)
       /\ Joins(CompoundTree(k, a, b), k, a, b, n, m)
       /\ b.kind # k => TestOrder(CompoundTree(k, a, b)) = TestOrder(a) \o TestOrder(b)

(* What becomes of two conditions.                                         *)
LEMMA Merged ==
  ASSUME NEW n \in Nat \ {0}, NEW m \in Nat \ {0}, n + m <= MaxOperands,
         NEW a \in TreesOfDepth[n - 1], NEW b \in TreesOfDepth[m - 1], NEW k \in Connectives,
         NEW other
  PROVE  MergedInto(k, a, b, other, n, m)
PROOF
  <1>1. PICK d \in 0 .. MaxOperands : d = n + m - 1
    BY CompoundDepth
  <1>2. a \in Trees /\ b \in Trees /\ \A t \in TreesOfDepth[d] : t \in Trees
    BY CompoundDepth, TreeCases
  <1>3. \A s : Compound(k, s) # NullTree
    BY DEF Compound, NullTree, Connectives
  <1>4. ASSUME a.kind = k
        PROVE  /\ TreeUnlessNull(CompoundTree(k, a, b), other) = other
               /\ Joins(TreeAfterPush(k, a, b), k, a, b, n, m)
               /\ TestOrder(TreeAfterPush(k, a, b)) = TestOrder(a) \o TestOrder(b)
    <2>1. CompoundTree(k, a, b) = NullTree
      BY <1>4 DEF CompoundTree
    <2>2. TreeAfterPush(k, a, b) = Compound(k, Append(a.operands, b))
      <3>1. PICK s : s = a.operands
        OBVIOUS
      <3>2. a = Compound(k, s)
        BY <1>2, <1>4, <3>1, OperandsAreTrees
      <3>3. \A r : [a EXCEPT !.operands = r] = Compound(k, r)
        <4>1. PICK x, y : x = "none" /\ y = FALSE
          OBVIOUS
        <4>2. \A r : Compound(k, r) = [kind |-> k, atom |-> x, negated |-> y, operands |-> r]
          BY <4>1, Zenon DEF Compound
        <4>3. a = [kind |-> k, atom |-> x, negated |-> y, operands |-> s]
          BY <3>2, <4>2, Zenon
        <4> QED
          BY <4>2, <4>3, OperandsField
      <3>4. TreeAfterPush(k, a, b) = [a EXCEPT !.operands = Append(a.operands, b)]
        BY <1>4, Zenon DEF TreeAfterPush
      <3> QED
        BY <3>3, <3>4, Zenon
    <2>3. PICK t : t = TreeAfterPush(k, a, b) /\ t = Compound(k, Append(a.operands, b)) /\ t \in TreesOfDepth[d] /\ t \in Trees
      BY <1>1, <1>2, <1>4, <2>2, CompoundDepth
    <2>4. /\ Description(t) = Both(k, Description(a), Description(b))
          /\ TestOrder(t) = TestOrder(a) \o TestOrder(b)
      BY <1>2, <1>4, <2>3, PushDescribed
    <2> QED
      BY <1>1, <2>1, <2>3, <2>4 DEF TreeUnlessNull, Joins
  <1>5. ASSUME a.kind # k
        PROVE  /\ TreeUnlessNull(CompoundTree(k, a, b), other) = CompoundTree(k, a, b)
               /\ Joins(CompoundTree(k, a, b), k, a, b, n, m)
               /\ b.kind # k => TestOrder(CompoundTree(k, a, b)) = TestOrder(a) \o TestOrder(b)
    <2>1. CASE b.kind = k
      <3>1. CompoundTree(k, a, b) = Compound(k, Append(b.operands, a))
        BY <1>5, <2>1 DEF CompoundTree
      <3>2. PICK t : t = CompoundTree(k, a, b) /\ t = Compound(k, Append(b.operands, a)) /\ t \in TreesOfDepth[d] /\ t \in Trees
        BY <1>1, <1>2, <2>1, <3>1, CompoundDepth
      <3>3. Description(t) = Both(k, Description(a), Description(b))
        BY <1>2, <2>1, <3>2, PushDescribed
      <3>4. t # NullTree
        BY <1>3, <3>2
      <3> QED
        BY <1>1, <2>1, <3>2, <3>3, <3>4 DEF TreeUnlessNull, Joins
    <2>2. CASE b.kind # k
      <3>1. CompoundTree(k, a, b) = Compound(k, <<a, b>>)
        BY <1>5, <2>2 DEF CompoundTree
      <3>2. PICK t : t = CompoundTree(k, a, b) /\ t = Compound(k, <<a, b>>) /\ t \in TreesOfDepth[d] /\ t \in Trees
        BY <1>1, <1>2, <3>1, CompoundDepth
      <3>3. /\ Description(t) = Both(k, Description(a), Description(b))
            /\ TestOrder(t) = TestOrder(a) \o TestOrder(b)
        <4>1. PICK s : IsPair(s, a, b)
          BY DEF IsPair
        <4>2. a \in Trees /\ b \in Trees /\ t \in Trees /\ t = Compound(k, s)
          BY <1>2, <3>2, <4>1 DEF IsPair
        <4> QED
          BY <4>1, <4>2, PairDescribed
      <3>4. t # NullTree
        BY <1>3, <3>2
      <3> QED
        BY <1>1, <3>2, <3>3, <3>4 DEF TreeUnlessNull, Joins
    <2> QED
      BY <2>1, <2>2
  <1> QED
    BY <1>4, <1>5 DEF MergedInto

(* What becomes of their descriptions.                                     *)
LEMMA DescriptionsMerged ==
  ASSUME NEW c, NEW d
  PROVE  /\ AssignUnlessNull(CompoundCondition_AND(c, d), PushedInto_AND(c, d)) = Both("AND_EXPRESSION", c, d)
         /\ AssignUnlessNull(CompoundCondition_OR(c, d), PushedInto_OR(c, d)) = Both("OR_EXPRESSION", c, d)
         /\ \A other :
              /\ AssignUnlessNull(CompoundCondition_AND(c, d), other) =
                   IF c.kind = "AND_EXPRESSION" THEN other ELSE Both("AND_EXPRESSION", c, d)
              /\ AssignUnlessNull(CompoundCondition_OR(c, d), other) =
                   IF c.kind = "OR_EXPRESSION" THEN other ELSE Both("OR_EXPRESSION", c, d)
PROOF
  <1>1. Both("AND_EXPRESSION", c, d) = Conjunction(c, d) /\ Both("OR_EXPRESSION", c, d) = Disjunction(c, d)
    BY DEF Both
  <1>2. Conjunction(c, d) # NullCondition
    <2>1. Conjunction(c, d).kind = "AND_EXPRESSION" /\ NullCondition.kind = "null"
      BY DEF Conjunction, NullCondition
    <2> QED
      BY <2>1
  <1>3. Disjunction(c, d) # NullCondition
    <2>1. Disjunction(c, d).kind = "OR_EXPRESSION" /\ NullCondition.kind = "null"
      BY DEF Disjunction, NullCondition
    <2> QED
      BY <2>1
  <1> HIDE DEF Conjunction, Disjunction, NullCondition, Both
  <1> QED
    BY <1>1, <1>2, <1>3, Zenon
       DEF AssignUnlessNull, CompoundCondition_AND, CompoundCondition_OR, PushedInto_AND, PushedInto_OR

(* The descriptions of a negated tree and of a tree after the call.        *)
LEMMA NegationDescribed ==
  ASSUME NEW t \in Trees
  PROVE  /\ Description(t).kind = t.kind
         /\ Negated(Description(t)) = Description(NegatedTree(t))
         /\ AfterNegation(Description(t)) = Description(TreeAfterNegation(t))
PROOF
  <1>1. PICK n \in Trees, a \in Trees : n = NegatedTree(t) /\ a = TreeAfterNegation(t)
    BY NegatedAt
  <1>2. t.kind \in Kinds /\ n.kind = NegatedKind[t.kind] /\ a.kind = t.kind
    BY <1>1, NegatedKinds
  <1>3. Holds(n) = Env \ Holds(t) /\ TreeAfterNegation(a) = t /\ TreeAfterNegation(n) = NegatedTree(a)
    BY <1>1, NegationLaws
  <1>4. Holds(TreeAfterNegation(n)) = Env \ Holds(a)
    BY <1>1, <1>3, NegationLaws
  <1>5. PICK h, f : h = Holds(t) /\ f = Holds(a)
    OBVIOUS
  <1>6. Description(t) = [kind |-> t.kind, holds |-> h, flipped |-> f]
    BY <1>1, <1>5 DEF Description
  <1>7. Negated(Description(t)) = Description(n)
    BY <1>2, <1>3, <1>4, <1>5, <1>6 DEF Negated, Description
  <1>8. AfterNegation(Description(t)) = Description(a)
    <2>1. Description(a) = [kind |-> t.kind, holds |-> f, flipped |-> h]
      BY <1>2, <1>3, <1>5, Zenon DEF Description
    <2>2. PICK c, k : c = Description(t) /\ k = t.kind /\ c = [kind |-> k, holds |-> h, flipped |-> f]
      BY <1>6
    <2>3. [c EXCEPT !.holds = c.flipped, !.flipped = c.holds] = [kind |-> k, holds |-> f, flipped |-> h]
      <3>1. PICK p, q : p = c.flipped /\ q = c.holds
        OBVIOUS
      <3>2. p = f /\ q = h
        BY <2>2, <3>1
      <3>3. [c EXCEPT !.holds = p, !.flipped = q] = [kind |-> k, holds |-> p, flipped |-> q]
        <4>1. c = [kind |-> k, holds |-> h, flipped |-> f]
          BY <2>2
        <4>2. PICK e : e = [c EXCEPT !.holds = p]
          OBVIOUS
        <4>3. e = [kind |-> k, holds |-> p, flipped |-> f]
          BY ONLY <4>1, <4>2
        <4>4. [e EXCEPT !.flipped = q] = [kind |-> k, holds |-> p, flipped |-> q]
          BY ONLY <4>3
        <4>5. [c EXCEPT !.holds = p, !.flipped = q] = [e EXCEPT !.flipped = q]
          BY ONLY <4>2
        <4> QED
          BY <4>4, <4>5
      <3> QED
        BY <3>1, <3>2, <3>3, Zenon
    <2> QED
      BY <2>1, <2>2, <2>3, Zenon DEF AfterNegation
  <1> QED
    BY <1>1, <1>6, <1>7, <1>8

-----------------------------------------------------------------------------
(* The condition of a branch                                               *)

(* The conditions of successors: an atom, or two of them.                  *)
LEMMA OperandShape ==
  ASSUME NEW b \in Operands
  PROVE  /\ b \in Trees /\ TestOrder(b) \in Seq(Atoms) /\ Len(TestOrder(b)) \in Nat \ {0}
         /\ Len(TestOrder(b)) <= MaxOperands => b \in TreesOfDepth[Len(TestOrder(b)) - 1]
         /\ b \in Atomic => Len(TestOrder(b)) = 1
PROOF
  <1>1. 0 \in 0 .. MaxOperands /\ 1 \in 0 .. MaxOperands
    BY AtomsAssumption
  <1>2. TreesOfDepth[0] \subseteq Trees /\ TreesOfDepth[1] \subseteq Trees
    BY <1>1, TreeCases
  <1>3. ASSUME NEW a \in Atoms
        PROVE  Leaf(a) \in TreesOfDepth[0] /\ Leaf(a) \in Trees /\ TestOrder(Leaf(a)) = <<a>>
    <2>1. Leaf(a) \in Literals
      BY DEF Literals
    <2>2. Leaf(a).kind \notin Connectives /\ AtomOf(Leaf(a)) = a
      BY DEF Leaf, Connectives, AtomOf
    <2>3. Leaf(a) \in TreesOfDepth[0]
      BY <1>1, <2>1, Depths
    <2> QED
      BY <1>2, <2>2, <2>3, OrderAt
  <1>4. ASSUME NEW a \in Atoms, NEW c \in Atoms, NEW k \in Connectives
        PROVE  Pair(k, a, c) \in TreesOfDepth[1] /\ TestOrder(Pair(k, a, c)) = <<a>> \o <<c>>
    <2>1. PICK x, y : x = Leaf(a) /\ y = Leaf(c) /\ x \in TreesOfDepth[0] /\ y \in TreesOfDepth[0] /\ x \in Trees /\ y \in Trees
      BY <1>3
    <2>2. PICK s : IsPair(s, x, y)
      BY DEF IsPair
    <2>3. s \in Seq(TreesOfDepth[0])
      <3>1. ASSUME NEW S, NEW u \in S, NEW v \in S
            PROVE  <<u, v>> \in Seq(S)
        OBVIOUS
      <3>2. <<x, y>> \in Seq(TreesOfDepth[0])
        BY <2>1, <3>1
      <3> QED
        BY <2>2, <3>2 DEF IsPair
    <2>4. PICK t : t = Compound(k, s) /\ t = Pair(k, a, c)
      BY <2>1, <2>2 DEF IsPair, Pair
    <2>5. t \in Nodes(TreesOfDepth[0])
      BY <2>3, <2>4 DEF Compound, Nodes
    <2>6. t \in TreesOfDepth[1]
      <3>1. 1 # 0 /\ 1 - 1 = 0
        OBVIOUS
      <3>2. TreesOfDepth[1] = Literals \cup Nodes(TreesOfDepth[1 - 1])
        BY <1>1, <3>1, Depths
      <3> QED
        BY <2>5, <3>1, <3>2
    <2>7. t \in Trees
      BY <1>2, <2>6
    <2>8. TestOrder(t) = TestOrder(x) \o TestOrder(y)
      <3>1. x \in Trees /\ y \in Trees /\ t \in Trees /\ t = Compound(k, s)
        BY <2>1, <2>4, <2>7
      <3> QED
        BY ONLY <2>2, <3>1, k \in Connectives, PairDescribed
    <2>9. TestOrder(x) = <<a>> /\ TestOrder(y) = <<c>>
      BY <1>3, <2>1
    <2> QED
      BY <2>4, <2>6, <2>8, <2>9, Zenon
  <1>5. ASSUME NEW a \in Atoms, b = Leaf(a)
        PROVE  b \in Trees /\ b \in TreesOfDepth[0] /\ TestOrder(b) \in Seq(Atoms) /\ Len(TestOrder(b)) = 1
    <2>1. b \in Trees /\ b \in TreesOfDepth[0] /\ TestOrder(b) = <<a>>
      BY <1>3, <1>5
    <2>2. <<a>> \in Seq(Atoms) /\ Len(<<a>>) = 1
      OBVIOUS
    <2> QED
      BY <2>1, <2>2
  <1>6. ASSUME NEW a \in Atoms, NEW c \in Atoms, NEW k \in Connectives, b = Pair(k, a, c)
        PROVE  b \in Trees /\ b \in TreesOfDepth[1] /\ TestOrder(b) \in Seq(Atoms) /\ Len(TestOrder(b)) = 2
    <2>1. b \in TreesOfDepth[1] /\ TestOrder(b) = <<a>> \o <<c>>
      BY <1>4, <1>6
    <2>2. PICK x \in Seq(Atoms), y \in Seq(Atoms) : x = <<a>> /\ y = <<c>> /\ Len(x) = 1 /\ Len(y) = 1
      <3>1. <<a>> \in Seq(Atoms) /\ Len(<<a>>) = 1
        OBVIOUS
      <3>2. <<c>> \in Seq(Atoms) /\ Len(<<c>>) = 1
        OBVIOUS
      <3> QED
        BY <3>1, <3>2
    <2>3. x \o y \in Seq(Atoms) /\ Len(x \o y) = Len(x) + Len(y)
      BY ConcatProperties
    <2> QED
      BY <1>2, <2>1, <2>2, <2>3
  <1>7. CASE b \in Atomic
    <2>1. PICK a \in Atoms : b = Leaf(a)
      BY <1>7 DEF Atomic
    <2>2. b \in Trees /\ b \in TreesOfDepth[0] /\ TestOrder(b) \in Seq(Atoms) /\ Len(TestOrder(b)) = 1
      BY <1>5, <2>1
    <2> QED
      BY <2>2
  <1>8. CASE b \notin Atomic
    <2>1. PICK k \in Connectives, a \in Atoms, c \in Atoms : b = Pair(k, a, c)
      BY <1>8 DEF Operands, Connectives
    <2>2. b \in Trees /\ b \in TreesOfDepth[1] /\ TestOrder(b) \in Seq(Atoms) /\ Len(TestOrder(b)) = 2
      BY <1>6, <2>1
    <2> QED
      BY <1>8, <2>2
  <1> QED
    BY <1>7, <1>8

\* A tree, its description and the atoms of the program that it stands for.
Standing(t, c, order, moved) ==
  /\ order \in Seq(Atoms) /\ Len(order) \in 1 .. MaxOperands
  /\ t \in TreesOfDepth[Len(order) - 1]
  /\ c = Description(t)
  /\ ~ moved => TestOrder(t) = order

TreeInv == Standing(tree, condition, tested, reordered)

(* One more condition under a connective.                                  *)
LEMMA StandingMerged ==
  ASSUME NEW t, NEW c, NEW order, NEW moved, Standing(t, c, order, moved),
         NEW b \in Operands, Len(order) + Len(TestOrder(b)) <= MaxOperands, NEW k \in Connectives,
         NEW moves, t.kind # k /\ b.kind = k => moves
  PROVE  Standing(TreeUnlessNull(CompoundTree(k, t, b), TreeAfterPush(k, t, b)),
                  Both(k, c, Description(b)), order \o TestOrder(b), moved \/ moves)
PROOF
  <1>1. PICK n \in Nat \ {0}, m \in Nat \ {0} : n = Len(order) /\ m = Len(TestOrder(b)) /\ n + m <= MaxOperands
    BY OperandShape DEF Standing
  <1>2. m <= MaxOperands
    BY <1>1, AtomsAssumption
  <1>3. t \in TreesOfDepth[n - 1] /\ b \in TreesOfDepth[m - 1] /\ c = Description(t)
    BY <1>1, <1>2, OperandShape DEF Standing
  <1>4. PICK u : u = TreeUnlessNull(CompoundTree(k, t, b), TreeAfterPush(k, t, b))
    OBVIOUS
  <1>5. /\ Joins(u, k, t, b, n, m)
        /\ (t.kind # k /\ b.kind = k) \/ TestOrder(u) = TestOrder(t) \o TestOrder(b)
    <2>1. MergedInto(k, t, b, TreeAfterPush(k, t, b), n, m)
      BY <1>1, <1>3, Merged
    <2> QED
      BY <1>4, <2>1, Zenon DEF MergedInto
  <1>6. PICK x \in Seq(Atoms), y \in Seq(Atoms) : x = order /\ y = TestOrder(b) /\ Len(x) = n /\ Len(y) = m
    BY <1>1, OperandShape DEF Standing
  <1>7. x \o y \in Seq(Atoms) /\ Len(x \o y) = n + m
    BY <1>6, ConcatProperties
  <1>8. n + m \in 1 .. MaxOperands
    BY <1>1, AtomsAssumption
  <1>9. ~ (moved \/ moves) => TestOrder(u) = order \o TestOrder(b)
    <2> SUFFICES ASSUME ~ moved, ~ moves
                 PROVE  TestOrder(u) = order \o TestOrder(b)
      BY Zenon
    <2>1. TestOrder(t) = order
      BY Zenon DEF Standing
    <2>2. ~ (t.kind # k /\ b.kind = k)
      BY Zenon
    <2> QED
      BY <1>5, <2>1, <2>2, Zenon
  <1>10. u \in TreesOfDepth[n + m - 1] /\ Both(k, c, Description(b)) = Description(u)
    BY <1>3, <1>5, Zenon DEF Joins
  <1>11. PICK o : o = order \o TestOrder(b) /\ o \in Seq(Atoms) /\ Len(o) = n + m
    BY <1>6, <1>7
  <1>12. o \in Seq(Atoms) /\ Len(o) \in 1 .. MaxOperands /\ u \in TreesOfDepth[Len(o) - 1]
    BY <1>8, <1>10, <1>11
  <1> QED
    BY <1>4, <1>9, <1>10, <1>11, <1>12, Zenon DEF Standing

(* The description of a negated condition and one more condition.          *)
MergedNegation(k, c, b) ==
  IF NegatedKind[c.kind] = k THEN AfterNegation(c) ELSE Both(k, Negated(c), Description(b))

(* One more condition under a connective with the negation of the first    *)
(* one: when nothing is returned, the first one stays as the call left it. *)
LEMMA StandingNegated ==
  ASSUME NEW t, NEW c, NEW order, NEW moved, Standing(t, c, order, moved),
         NEW b \in Operands, Len(order) + Len(TestOrder(b)) <= MaxOperands, NEW k \in Connectives,
         NEW moves, NegatedKind[t.kind] = k \/ b.kind = k => moves
  PROVE  Standing(TreeUnlessNull(CompoundTree(k, NegatedTree(t), b), TreeAfterNegation(t)),
                  MergedNegation(k, c, b), order \o TestOrder(b), moved \/ moves)
PROOF
  <1>1. PICK n \in Nat \ {0}, m \in Nat \ {0} : n = Len(order) /\ m = Len(TestOrder(b)) /\ n + m <= MaxOperands
    BY OperandShape DEF Standing
  <1>2. m <= MaxOperands /\ n - 1 \in 0 .. MaxOperands
    BY <1>1, AtomsAssumption
  <1>3. t \in TreesOfDepth[n - 1] /\ b \in TreesOfDepth[m - 1] /\ c = Description(t) /\ t \in Trees
    BY <1>1, <1>2, OperandShape, TreeCases DEF Standing
  <1>4. PICK g \in TreesOfDepth[n - 1], a \in TreesOfDepth[n - 1] : g = NegatedTree(t) /\ a = TreeAfterNegation(t)
    BY <1>2, <1>3, NegatedAt
  <1>5. /\ g.kind = NegatedKind[t.kind] /\ c.kind = t.kind
        /\ Negated(c) = Description(g) /\ AfterNegation(c) = Description(a)
    BY <1>3, <1>4, NegatedKinds, NegationDescribed
  <1>6. TestOrder(g) = TestOrder(t)
    BY <1>3, <1>4, NegationLaws
  <1>7. PICK u, d : u = TreeUnlessNull(CompoundTree(k, g, b), a) /\ d = MergedNegation(k, c, b)
    OBVIOUS
  <1>8. /\ u \in TreesOfDepth[n + m - 1] /\ d = Description(u)
        /\ g.kind = k \/ b.kind = k \/ TestOrder(u) = TestOrder(t) \o TestOrder(b)
    <2>0. MergedInto(k, g, b, a, n, m)
      BY <1>1, <1>3, Merged
    <2>1. CASE g.kind = k
      <3>1. u = a
        BY <1>7, <2>0, <2>1, Zenon DEF MergedInto
      <3>2. d = Description(a)
        BY <1>5, <1>7, <2>1, Zenon DEF MergedNegation
      <3>3. n + m - 1 \in 0 .. MaxOperands /\ n - 1 \in 0 .. n + m - 1
        BY <1>1, AtomsAssumption
      <3>4. a \in TreesOfDepth[n + m - 1]
        BY <3>3, DepthsGrow
      <3> QED
        BY <2>1, <3>1, <3>2, <3>4
    <2>2. CASE g.kind # k
      <3>1. u = CompoundTree(k, g, b) /\ Joins(u, k, g, b, n, m) /\ (b.kind # k => TestOrder(u) = TestOrder(g) \o TestOrder(b))
        BY <1>7, <2>0, <2>2, Zenon DEF MergedInto
      <3>2. d = Both(k, Description(g), Description(b))
        BY <1>5, <1>7, <2>2, Zenon DEF MergedNegation
      <3> QED
        BY <1>6, <3>1, <3>2, Zenon DEF Joins
    <2> QED
      BY <2>1, <2>2
  <1>9. PICK x \in Seq(Atoms), y \in Seq(Atoms) : x = order /\ y = TestOrder(b) /\ Len(x) = n /\ Len(y) = m
    BY <1>1, OperandShape DEF Standing
  <1>10. x \o y \in Seq(Atoms) /\ Len(x \o y) = n + m
    BY <1>9, ConcatProperties
  <1>11. n + m \in 1 .. MaxOperands
    BY <1>1, AtomsAssumption
  <1>12. ~ (moved \/ moves) => TestOrder(u) = order \o TestOrder(b)
    <2> SUFFICES ASSUME ~ moved, ~ moves
                 PROVE  TestOrder(u) = order \o TestOrder(b)
      BY Zenon
    <2>1. TestOrder(t) = order
      BY Zenon DEF Standing
    <2>2. ~ (g.kind = k \/ b.kind = k)
      BY <1>5, Zenon
    <2> QED
      BY <1>8, <2>1, <2>2, Zenon
  <1>13. PICK o : o = order \o TestOrder(b) /\ o \in Seq(Atoms) /\ Len(o) = n + m
    BY <1>9, <1>10
  <1>14. o \in Seq(Atoms) /\ Len(o) \in 1 .. MaxOperands /\ u \in TreesOfDepth[Len(o) - 1]
    BY <1>8, <1>11, <1>13
  <1> QED
    BY <1>4, <1>7, <1>8, <1>12, <1>13, <1>14, Zenon DEF Standing

LEMMA TreeInvInit ==
  Init => TreeInv
PROOF
  <1> SUFFICES ASSUME NEW t \in Atomic, tree = t, condition = Description(t), tested = TestOrder(t), reordered = FALSE
               PROVE  TreeInv
    BY DEF Init
  <1>1. /\ TestOrder(t) \in Seq(Atoms) /\ Len(TestOrder(t)) = 1 /\ 1 <= MaxOperands
        /\ t \in TreesOfDepth[Len(TestOrder(t)) - 1]
    BY OperandShape, AtomsAssumption DEF Operands
  <1> QED
    BY <1>1, AtomsAssumption DEF TreeInv, Standing

LEMMA TreeInvStep ==
  TreeInv /\ [Next]_vars => TreeInv'
PROOF
  <1> SUFFICES ASSUME TreeInv, [Next]_vars
               PROVE  TreeInv'
    OBVIOUS
  <1>1. condition.kind = tree.kind /\ tree \in Trees /\ tree.kind \in Kinds
    <2>1. tree \in Trees
      <3>1. Len(tested) - 1 \in 0 .. MaxOperands /\ tree \in TreesOfDepth[Len(tested) - 1]
        BY AtomsAssumption DEF TreeInv, Standing
      <3> QED
        BY <3>1, TreeCases
    <2> QED
      BY <2>1, NegationDescribed, NegatedKinds DEF TreeInv, Standing
  <1>2. \A k \in Kinds : /\ NegatedKind[k] = "AND_EXPRESSION" <=> k = "OR_EXPRESSION"
                         /\ NegatedKind[k] = "OR_EXPRESSION" <=> k = "AND_EXPRESSION"
    BY DEF Kinds, NegatedKind
  <1>3. Negated(condition).kind = NegatedKind[tree.kind]
    BY <1>1 DEF Negated
  <1>4. "AND_EXPRESSION" \in Connectives /\ "OR_EXPRESSION" \in Connectives
    BY DEF Connectives
  <1>5. ASSUME NEW b \in Operands, Merge_A_AND_B(b)
        PROVE  TreeInv'
    <2>1. condition' = Both("AND_EXPRESSION", condition, Description(b))
      BY <1>5, DescriptionsMerged, Zenon DEF Merge_A_AND_B
    <2> QED
      BY <1>4, <1>5, <2>1, StandingMerged DEF Merge_A_AND_B, Test, Fits, TreeInv
  <1>6. ASSUME NEW b \in Operands, Merge_A_OR_B(b)
        PROVE  TreeInv'
    <2>1. condition' = Both("OR_EXPRESSION", condition, Description(b))
      BY <1>6, DescriptionsMerged, Zenon DEF Merge_A_OR_B
    <2> QED
      BY <1>4, <1>6, <2>1, StandingMerged DEF Merge_A_OR_B, Test, Fits, TreeInv
  <1>7. ASSUME NEW b \in Operands, Merge_NOT_A_OR_B(b)
        PROVE  TreeInv'
    <2>1. condition' = MergedNegation("OR_EXPRESSION", condition, b)
      BY <1>1, <1>3, <1>7, DescriptionsMerged, Zenon DEF Merge_NOT_A_OR_B, MergedNegation
    <2> QED
      BY <1>1, <1>2, <1>4, <1>7, <2>1, StandingNegated DEF Merge_NOT_A_OR_B, Test, Fits, TreeInv
  <1>8. ASSUME NEW b \in Operands, Merge_NOT_A_AND_B(b)
        PROVE  TreeInv'
    <2>1. condition' = MergedNegation("AND_EXPRESSION", condition, b)
      BY <1>1, <1>3, <1>8, DescriptionsMerged, Zenon DEF Merge_NOT_A_AND_B, MergedNegation
    <2> QED
      BY <1>1, <1>2, <1>4, <1>8, <2>1, StandingNegated DEF Merge_NOT_A_AND_B, Test, Fits, TreeInv
  <1>9. CASE UNCHANGED vars
    BY <1>9 DEF TreeInv, vars
  <1> QED
    BY <1>5, <1>6, <1>7, <1>8, <1>9 DEF Next

LEMMA TreeInvAlways ==
  Spec => []TreeInv
PROOF
  BY TreeInvInit, TreeInvStep, PTL DEF Spec

(* The description of a branch condition that GraphReduction works with is *)
(* that of the expression tree, after any merges: pushing operands,        *)
(* negating operators in place and dropping a null result included.        *)
THEOREM TreesDescribed ==
  Spec => []Describes
PROOF
  <1>1. TreeInv => Describes
    BY DEF TreeInv, Standing, Describes
  <1> QED
    BY <1>1, TreeInvAlways, PTL

(* Unless an operand was put after a later one or dropped, a condition     *)
(* tests its atoms in the order of the program.                            *)
THEOREM OrderKept ==
  Spec => []TestsInOrder
PROOF
  <1>1. TreeInv => TestsInOrder
    BY Zenon DEF TreeInv, Standing, TestsInOrder
  <1> QED
    BY <1>1, TreeInvAlways, PTL

=============================================================================
