----------------------- MODULE ExpressionPropagation -----------------------
(***************************************************************************)
(* The propagation of definitions into the instructions that use them.     *)
(* Address expressions (&x) and the pointer of a call are left out, and    *)
(* every pointer reads a double word.                                      *)
(***************************************************************************)
EXTENDS SSAProgram

MAXIMUM_EXPRESSION_LENGTH == 3

ContainsMemoryVariable(inst) == \E v \in ToSet(Elements(inst)) : IsMemoryVariable(v)
IncludesStackPointer(elements) == \E v \in ToSet(elements) : IsStackPointer(v)

\* Pointers are not simple, and the constants count once.
NumberOfSimple(elements, constants) ==
  Len(SelectSeq(elements, LAMBDA v : KindOf(v[1]) # "POINTER")) + (IF constants THEN 1 ELSE 0)
HasConstants(inst) == \E i \in DOMAIN inst.exprs : HasConstant(inst.exprs[i])
SimpleIn(inst) == NumberOfSimple(UsedElements(inst), HasConstants(inst))

\* How many elements an operand has below itself.
Below(e) == Len(ChildElementsOf(e)) + (IF IsAddition(e) /\ HasConstant(e) THEN 1 ELSE 0)

-----------------------------------------------------------------------------
(* canPropagateDefinitionToUse, with its tests.  id assigns the defined     *)
(* variable, use is an instruction in whose list of uses it is.            *)

Defined(ir, id) == Inst(ir, id).defs[1]
Rhs(ir, id) == Inst(ir, id).exprs[1]

\* A pointer would come to stand inside another one.
ResultsInMultiplePointers(ir, v, id, use) ==
  /\ \E w \in ToSet(ElementsOf(Rhs(ir, id))) : KindOf(w[1]) = "POINTER"
  /\ \E w \in ToSet(Elements(Inst(ir, use))) : v \in ToSet(AddressOf(w[1]))

RECURSIVE PhiArgumentChain(_, _, _)
PhiArgumentChain(ir, phi, chain) ==
  FoldLeft(LAMBDA c, arg :
             IF arg \in c THEN c
             ELSE LET id == Definition(ir, arg)
                  IN  IF id # NoInstruction /\ IsPhi(Inst(ir, id)) THEN PhiArgumentChain(ir, id, c \cup {arg})
                      ELSE c \cup {arg},
           chain, Arguments(Inst(ir, phi)))

\* The expression holds the target of a phi function, and an argument of that is
\* overwritten by the assignment itself or on the way to the use.
PropagatesThroughOverwriting(ir, id, use) ==
  \E v \in ToSet(ElementsOf(Rhs(ir, id))) :
    LET phi == Definition(ir, v)
    IN  /\ phi # NoInstruction /\ IsPhi(Inst(ir, phi))
        /\ \E arg \in PhiArgumentChain(ir, phi, {}) :
             LET overwriting == Definition(ir, arg)
             IN  /\ overwriting # NoInstruction
                 /\ IsOverwritingStatement(Inst(ir, overwriting))
                 /\ overwriting = id \/ CfgPathExists(ir, id, use, overwriting)

\* A phi function that uses what is propagated lies on the way to the use.
PropagatesOverPhi(ir, id, use) ==
  \E v \in ToSet(ElementsOf(Rhs(ir, id))) :
    \E phi \in ToSet(Uses(ir, v)) : IsPhi(Inst(ir, phi)) /\ CfgPathExists(ir, id, use, phi)

UsesOnly(inst, n) == \A v \in ToSet(UsedElements(inst)) : v[1] = n
IsConstantUpdate(inst) ==
  /\ KindOf(inst.defs[1][1]) # "POINTER"
  /\ IsAddition(inst.exprs[1])
  /\ \A i \in DOMAIN inst.exprs[1].terms : inst.exprs[1].terms[i][1] = 1 /\ inst.exprs[1].terms[i][2][1] = inst.defs[1][1]

HasMultipleUsesAndExpressions(ir, id) ==
  LET v == Defined(ir, id)
      uses == SelectSeq(Uses(ir, v), LAMBDA u : Inst(ir, u).type \notin {"FLAG_MACRO", "PHI_FUNCTION"})
      elements == ChildElementsOf(Rhs(ir, id))
  IN  /\ ~ IsStackPointer(v)
      /\ Len(uses) > 1
      /\ ~ (IsConstantUpdate(Inst(ir, id)) /\ \A u \in ToSet(uses) : UsesOnly(Inst(ir, u), v[1]))
      /\ NumberOfSimple(elements, IsAddition(Rhs(ir, id)) /\ HasConstant(Rhs(ir, id))) > 1

ExceedsMaximumLength(ir, id, use) ==
  LET v == Defined(ir, id)
      elements == ElementsOf(Rhs(ir, id))
      target == Inst(ir, use)
      Total(other, constants) == NumberOfSimple(elements \o other, constants \/ HasConstant(Rhs(ir, id)))
  IN  /\ target.type # "CALL"
      /\ ~ IncludesStackPointer(elements)
      /\ Below(Rhs(ir, id)) > Len(AddressOf(v[1]))
      /\ CASE target.type = "ASSIGNMENT" /\ v \in ToSet(ElementsOf(target.exprs[1])) ->
                Total(ElementsOf(target.exprs[1]), HasConstant(target.exprs[1])) > MAXIMUM_EXPRESSION_LENGTH + 1
           [] target.type = "ASSIGNMENT" /\ v \in ToSet(ElementsOf(Use(target.defs[1]))) ->
                Total(ElementsOf(Use(target.defs[1])), FALSE) > MAXIMUM_EXPRESSION_LENGTH + 1
           [] OTHER ->
                /\ ~ IncludesStackPointer(UsedElements(target))
                /\ Total(UsedElements(target), HasConstants(target)) > MAXIMUM_EXPRESSION_LENGTH

SimplifiesInstruction(ir, v, id, use) ==
  SimpleIn(ReplaceUsedChild(Inst(ir, use), v, Rhs(ir, id))) < SimpleIn(Inst(ir, use))

CanPropagate(ir, v, id, use) ==
  \/ IsStackPointer(Defined(ir, id))
  \/ IncludesStackPointer(AddressOf(Defined(ir, id)[1]))
  \/ /\ ~ ResultsInMultiplePointers(ir, v, id, use)
     /\ ~ PropagatesThroughOverwriting(ir, id, use)
     /\ \/ ~ HasMultipleUsesAndExpressions(ir, id) /\ ~ ExceedsMaximumLength(ir, id, use)
        \/ SimplifiesInstruction(ir, v, id, use)
     /\ ~ PropagatesOverPhi(ir, id, use)
     /\ KindOf(Defined(ir, id)[1]) # "GLOBAL_VARIABLE"

-----------------------------------------------------------------------------
(* The propagation of one definition.                                      *)

Without(s, t) == FoldLeft(LAMBDA r, v : RemoveFirst(r, v), s, t)
Subscripted(elements) == SelectSeq(elements, LAMBDA v : v[2] # NO_SUBSCRIPT)

\* Mutant: the elements that are gone keep their use.
PropagateKeepingUses(ir, v, id, use) ==
  LET changed == ReplaceUsedChild(Inst(ir, use), v, Rhs(ir, id))
      added == Without(Subscripted(UsedElements(changed)), Subscripted(UsedElements(Inst(ir, use))))
  IN  IF IsPhi(Inst(ir, use)) THEN ir
      ELSE FoldLeft(LAMBDA r, w : AddUse(r, w, use), UpdateInst(ir, use, changed),
                    SelectSeq(added, LAMBDA w : IsVariableDefined(ir, w)))

\* Elements that are new in the instruction gain a use, those that are gone
\* lose one.
PropagateToUse(ir, v, id, use) ==
  LET inst == Inst(ir, use)
      changed == ReplaceUsedChild(inst, v, Rhs(ir, id))
      before == Subscripted(UsedElements(inst))
      after == Subscripted(UsedElements(changed))
      added == SelectSeq(Without(after, before), LAMBDA w : IsVariableDefined(ir, w))
      with == FoldLeft(LAMBDA r, w : AddUse(r, w, use), UpdateInst(ir, use, changed), added)
  IN  IF IsPhi(inst) THEN ir
      ELSE FoldLeft(LAMBDA r, w : DeleteUse(r, w, use), with, Without(before, after))

\* propagateDefinition.  Whether it counts as successful is decided by the last
\* use that it was propagated to.
PropagateDefinition(ir, v) ==
  LET id == Definition(ir, v)
      Step(r, use) ==
        IF ~ CanPropagate(r.ir, v, id, use) THEN r
        ELSE LET next == PropagateToUse(r.ir, v, id, use)
             IN  [ir |-> next, successful |-> Inst(next, use) # Inst(r.ir, use)]
  IN  IF id = NoInstruction \/ IsVariableDead(ir, v) \/ Inst(ir, id).type # "ASSIGNMENT"
      THEN [ir |-> ir, successful |-> FALSE]
      ELSE FoldLeft(Step, [ir |-> ir, successful |-> FALSE], Uses(ir, v))

\* Without memory variables, definitions that mention one are passed over.
IsPropagated(ir, v, withMemory) ==
  withMemory \/ Definition(ir, v) = NoInstruction \/ ~ ContainsMemoryVariable(Inst(ir, Definition(ir, v)))

=============================================================================
