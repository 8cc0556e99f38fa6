----------------------------- MODULE SSAProgram -----------------------------
(***************************************************************************)
(* The instructions of a function in SSA form, what they use and define,   *)
(* and the two maps that the data-flow algorithms share: definitionsMap    *)
(* (here defs) and usesMap (here uses).  A variable is a pair of a name    *)
(* and a subscript.  Names are numbers, ordered like the strings.  An      *)
(* expression is a sum of variables with factors and of a constant; the    *)
(* order of its operands and the nesting of sums are left out.             *)
(***************************************************************************)
EXTENDS Dominance, SequencesExt

CONSTANTS
  Kind,          \* the type of the expression a name stands for
  Address,       \* the variables in the address of a POINTER
  Related,       \* relatedRegistersMap
  StackPointer,  \* the name of esp
  Width          \* size_in_bytes of the related registers

NO_SUBSCRIPT == -1

\* Names made by the back translation are local variables.
KindOf(n) == IF n \in DOMAIN Kind THEN Kind[n] ELSE "LOCAL_VARIABLE"
AddressOf(n) == IF n \in DOMAIN Address THEN Address[n] ELSE <<>>
RelatedTo(n) == IF n \in DOMAIN Related THEN Related[n] ELSE {}

\* A register, its lower half, and the halves of that: each is a part of, or
\* has a part in, the registers it is mapped to.  ah and al are not related.
RegisterFamily(e, x, h, l) == (e :> {x, h, l}) @@ (x :> {e, h, l}) @@ (h :> {e, x}) @@ (l :> {e, x})
RegisterPair(e, x) == (e :> {x}) @@ (x :> {e})

IsMemoryVariable(v) == KindOf(v[1]) \in {"POINTER", "GLOBAL_VARIABLE"}
IsStackPointer(v) == v[1] = StackPointer

\* The order of the maps.
Before(v, w) == v[1] < w[1] \/ (v[1] = w[1] /\ v[2] < w[2])
RECURSIVE InVariableOrder(_)
InVariableOrder(S) ==
  IF S = {} THEN <<>>
  ELSE LET v == CHOOSE x \in S : \A y \in S \ {x} : Before(x, y) IN <<v>> \o InVariableOrder(S \ {v})
InOrder(S) == LET pairs == InVariableOrder({<<n, 0>> : n \in S}) IN [i \in DOMAIN pairs |-> pairs[i][1]]

-----------------------------------------------------------------------------
(* Expressions.                                                            *)

Sum(terms, constant) == [terms |-> terms, constant |-> constant]
Use(v) == Sum(<<<<1, v>>>>, 0)
Constant(c) == Sum(<<>>, c)

VariablesOf(e) == [i \in DOMAIN e.terms |-> e.terms[i][2]]
IsVariable(e) == Len(e.terms) = 1 /\ e.terms[1][1] = 1 /\ e.constant = 0
IsAddition(e) == Len(e.terms) > 1 \/ (e.terms # <<>> /\ e.constant # 0)
HasConstant(e) == e.constant # 0 \/ e.terms = <<>> \/ \E i \in DOMAIN e.terms : e.terms[i][1] # 1

\* createExpressionElements: a pointer stands for itself and its address.
ElementsOf(e) == FlattenSeq([i \in DOMAIN e.terms |-> <<e.terms[i][2]>> \o AddressOf(e.terms[i][2][1])])
\* getExpressionElements leaves out the expression itself.
ChildElementsOf(e) == IF IsVariable(e) THEN AddressOf(e.terms[1][2][1]) ELSE ElementsOf(e)
\* What there is in constants; only the first one counts as an element.
Constants(e) == IF HasConstant(e) THEN 1 ELSE 0

\* replaceChildExpressionNoSimplification
Replaced(e, v, by) ==
  FoldLeft(LAMBDA sum, t :
             IF v[2] # NO_SUBSCRIPT /\ t[2] = v
             THEN Sum(sum.terms \o [i \in DOMAIN by.terms |-> <<t[1] * by.terms[i][1], by.terms[i][2]>>],
                      sum.constant + t[1] * by.constant)
             ELSE Sum(Append(sum.terms, t), sum.constant),
           Constant(e.constant), e.terms)

\* simplifyExpression: equal operands become one with a factor.
Simplified(e) ==
  LET Factor(v) == FoldLeft(LAMBDA s, t : IF t[2] = v THEN s + t[1] ELSE s, 0, e.terms)
      Merge(kept, t) ==
        IF Factor(t[2]) = 0 \/ \E i \in DOMAIN kept : kept[i][2] = t[2] THEN kept
        ELSE Append(kept, <<Factor(t[2]), t[2]>>)
  IN  Sum(FoldLeft(Merge, <<>>, e.terms), e.constant)

-----------------------------------------------------------------------------
(* Instructions: the variables they define, the expressions they evaluate, *)
(* and for phi functions the arguments with the blocks they come from.     *)

Assign(v, e) == [type |-> "ASSIGNMENT", defs |-> <<v>>, exprs |-> <<e>>, args |-> <<>>]
Phi(v, args) == [type |-> "PHI_FUNCTION", defs |-> <<v>>, exprs |-> <<>>, args |-> args]
Call(returns, params) == [type |-> "CALL", defs |-> returns, exprs |-> params, args |-> <<>>]
Macro(flags, operand) == [type |-> "FLAG_MACRO", defs |-> flags, exprs |-> <<operand>>, args |-> <<>>]
Jump(condition) == [type |-> "CONDITIONAL_JUMP", defs |-> <<>>, exprs |-> <<condition>>, args |-> <<>>]
TableJump(v) == [type |-> "INDIRECT_TABLE_JUMP", defs |-> <<>>, exprs |-> <<Use(v)>>, args |-> <<>>]
Return(e) == [type |-> "RETURN", defs |-> <<>>, exprs |-> <<e>>, args |-> <<>>]

IsPhi(inst) == inst.type = "PHI_FUNCTION"
Arguments(phi) == [i \in DOMAIN phi.args |-> phi.args[i].var]

\* getUsedElements.  The address of a defined pointer is used.
UsedElements(inst) ==
  FlattenSeq([i \in DOMAIN inst.exprs |-> ElementsOf(inst.exprs[i])])
  \o FlattenSeq([i \in DOMAIN inst.args |-> <<inst.args[i].var>> \o AddressOf(inst.args[i].var[1])])
  \o FlattenSeq([i \in DOMAIN inst.defs |-> AddressOf(inst.defs[i][1])])
DefinedElements(inst) == inst.defs
Elements(inst) == DefinedElements(inst) \o UsedElements(inst)

\* isOverwritingStatement: an instruction uses the name it defines.
IsOverwritingStatement(inst) ==
  \E d \in ToSet(DefinedElements(inst)), u \in ToSet(UsedElements(inst)) : d[1] = u[1]

\* replaceUse.  A flag macro replaces operands, not what is inside them.
ReplaceUse(inst, v, by) ==
  IF IsPhi(inst)
  THEN [inst EXCEPT !.args = [i \in DOMAIN @ |-> IF @[i].var = v THEN [@[i] EXCEPT !.var = by] ELSE @[i]]]
  ELSE [inst EXCEPT !.exprs = [i \in DOMAIN @ |->
          IF inst.type = "FLAG_MACRO" /\ ~ IsVariable(@[i]) THEN @[i] ELSE Replaced(@[i], v, Use(by))]]

\* replaceDefinition
ReplaceDefinition(inst, v, by) ==
  [inst EXCEPT !.defs = [i \in DOMAIN @ |-> IF @[i] = v /\ v[2] # NO_SUBSCRIPT THEN by ELSE @[i]]]

\* replaceUsedChildExpression, which flag macros and phi functions do not have.
ReplaceUsedChild(inst, v, by) ==
  IF inst.type \in {"FLAG_MACRO", "PHI_FUNCTION"} THEN inst
  ELSE [inst EXCEPT !.exprs = [i \in DOMAIN @ |-> Simplified(Replaced(@[i], v, by))]]

-----------------------------------------------------------------------------
(* A function: the instructions by number, the numbers in each block, the  *)
(* block an instruction says it is in, and the maps.                       *)

NoInstruction == 0

Inst(ir, id) == ir.inst[id]
PhisOf(ir, b) == {id \in ToSet(ir.code[b]) : IsPhi(ir.inst[id])}

\* The place of an instruction in a block, after the last one if it is gone.
IndexIn(ir, id, b) ==
  IF Contains(ir.code[b], id) THEN SelectInSeq(ir.code[b], LAMBDA x : x = id) ELSE Len(ir.code[b]) + 1

Uses(ir, v) == IF v \in DOMAIN ir.uses THEN ir.uses[v] ELSE <<>>
Definition(ir, v) == IF v \in DOMAIN ir.defs THEN ir.defs[v] ELSE NoInstruction

AddUse(ir, v, id) == [ir EXCEPT !.uses = (v :> Append(Uses(ir, v), id)) @@ @]
DeleteUse(ir, v, id) == [ir EXCEPT !.uses = (v :> RemoveFirst(Uses(ir, v), id)) @@ @]
ClearUses(ir, v) == [ir EXCEPT !.uses = (v :> <<>>) @@ @]
Define(ir, v, id) == [ir EXCEPT !.defs = (v :> id) @@ @]
UpdateInst(ir, id, inst) == [ir EXCEPT !.inst[id] = inst]

\* Every use of v becomes a use of another variable.
ReplaceUses(ir, v, by) ==
  ClearUses(FoldLeft(LAMBDA r, id : AddUse(UpdateInst(r, id, ReplaceUse(Inst(r, id), v, by)), by, id),
                     ir, Uses(ir, v)), v)

\* removeInstruction looks in the block that the instruction names: copies
\* that were inserted later name none.
RemoveInstruction(ir, id) ==
  IF ir.blockOf[id] \notin DOMAIN ir.code THEN ir
  ELSE [ir EXCEPT !.code[ir.blockOf[id]] = Remove(@, id)]

\* The variables the maps give the same defining instruction, in the order of
\* the maps; undefined variables all share the null instruction.
RelatedDefinitions(ir, v) ==
  {w \in DOMAIN ir.defs : w[1] \in RelatedTo(v[1]) /\ ir.defs[w] = Definition(ir, v)}

NoRelatedRegisterUsed(ir, v) == \A w \in RelatedDefinitions(ir, v) : Uses(ir, w) = <<>>
IsVariableDead(ir, v) == Uses(ir, v) = <<>> /\ NoRelatedRegisterUsed(ir, v)
IsVariableDefined(ir, v) == v[2] # NO_SUBSCRIPT /\ \E w \in DOMAIN ir.defs : w[1] = v[1]

\* Blocks from which a path leads.  nodeDistances is 0 from a block to itself,
\* unless there are no edges: then it is -1 throughout.
PathExists(ir, b, c) ==
  LET Within[k \in Nat] ==
        IF k = 0 THEN {b} ELSE LET S == Within[k - 1] IN S \cup UNION {Succs(ir.graph, x) : x \in S}
  IN  ir.graph.edges # {} /\ c \in Within[ir.graph.size]

\* cfgPathExists: from src to dst by way of mid.
CfgPathExists(ir, src, dst, mid) ==
  LET b == ir.blockOf[src]
      c == ir.blockOf[dst]
      m == ir.blockOf[mid]
  IN  IF b = c /\ IndexIn(ir, src, b) < IndexIn(ir, dst, b)
      THEN m = b /\ IndexIn(ir, src, b) < IndexIn(ir, mid, b) /\ IndexIn(ir, mid, b) < IndexIn(ir, dst, b)
      ELSE PathExists(ir, b, m) /\ PathExists(ir, m, c)

=============================================================================
