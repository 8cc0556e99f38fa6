------------------------ MODULE DeadCodeElimination ------------------------
(***************************************************************************)
(* The operations of the dead-code elimination on a function in SSA form.  *)
(* Each takes the function and its maps and returns them changed.          *)
(***************************************************************************)
EXTENDS SSAProgram

Forget(ir, v) == Define(ir, v, NoInstruction)

\* Mutant: stores to global variables go as well.
CanRemoveGlobals(v) == KindOf(v[1]) # "POINTER" \/ (v[2] # NO_SUBSCRIPT /\ \A w \in ToSet(AddressOf(v[1])) : IsStackPointer(w))

\* Memory is kept, but for memory at a fixed place of the stack frame.
CanRemoveExpression(v) ==
  CASE KindOf(v[1]) = "GLOBAL_VARIABLE" -> FALSE
    [] KindOf(v[1]) = "POINTER" -> v[2] # NO_SUBSCRIPT /\ \A w \in ToSet(AddressOf(v[1])) : IsStackPointer(w)
    [] OTHER -> TRUE
CanRemoveInstruction(inst) == \A v \in ToSet(DefinedElements(inst)) : CanRemoveExpression(v)

\* The definition is forgotten before its related registers are looked up by
\* it: the map keeps the removed instruction for them.
UpdateRelatedDefinitions(ir, v) ==
  [ir EXCEPT !.defs = [w \in RelatedDefinitions(ir, v) |-> NoInstruction] @@ @]

RECURSIVE RemoveDefinitionIfDead(_, _), RemoveUsesOf(_, _, _)

\* removeExpressionsFromUsingInstruction
RemoveUsesOf(ir, id, elements) ==
  IF elements = <<>> THEN ir
  ELSE LET v == Head(elements)
           without == IF IsVariableDefined(ir, v) THEN DeleteUse(ir, v, id) ELSE ir
           next == IF IsVariableDefined(ir, v) /\ CanRemoveExpression(v) /\ v[2] # 0
                   THEN RemoveDefinitionIfDead(without, v) ELSE without
       IN  RemoveUsesOf(next, id, Tail(elements))

\* Mutant: what becomes dead is not removed.
RemoveOnlyUses(ir, id) == FoldLeft(LAMBDA r, v : DeleteUse(r, v, id), ir, UsedElements(Inst(ir, id)))
RemoveInstructionFromUsesMap(ir, id) == RemoveUsesOf(ir, id, UsedElements(Inst(ir, id)))

RemoveDefinitionFromFunctionReturns(ir, v, id) ==
  IF v \notin ToSet(Inst(ir, id).defs) THEN ir
  ELSE Forget(UpdateInst(ir, id, [Inst(ir, id) EXCEPT !.defs = RemoveFirst(@, v)]), v)

RemoveDeadFlag(ir, v, id) ==
  LET kept == SelectSeq(Inst(ir, id).defs, LAMBDA w : w[1] # v[1])
      without == IF kept = Inst(ir, id).defs THEN ir
                 ELSE Forget(UpdateInst(ir, id, [Inst(ir, id) EXCEPT !.defs = kept]), v)
  IN  IF kept # <<>> THEN without
      ELSE RemoveInstruction(RemoveInstructionFromUsesMap(without, id), id)

RemoveDeadDefinition(ir, v, id) ==
  RemoveInstruction(
    UpdateRelatedDefinitions(RemoveInstructionFromUsesMap(Forget(ir, v), id), v), id)

RemoveDefinitionIfDead(ir, v) ==
  LET id == Definition(ir, v)
  IN  CASE id = NoInstruction \/ ~ IsVariableDead(ir, v) -> ir
        [] Inst(ir, id).type = "CALL" -> RemoveDefinitionFromFunctionReturns(ir, v, id)
        [] Inst(ir, id).type = "FLAG_MACRO" -> RemoveDeadFlag(ir, v, id)
        [] OTHER -> IF CanRemoveInstruction(Inst(ir, id)) THEN RemoveDeadDefinition(ir, v, id) ELSE ir

-----------------------------------------------------------------------------
(* Phi functions whose arguments are copies of one variable.               *)

IsCopyOfLocals(ir, id) ==
  /\ id # NoInstruction
  /\ Inst(ir, id).type = "ASSIGNMENT"
  /\ IsVariable(Inst(ir, id).exprs[1])
  /\ \A v \in {Inst(ir, id).defs[1], VariablesOf(Inst(ir, id).exprs[1])[1]} :
       KindOf(v[1]) \in {"REGISTER", "LOCAL_VARIABLE"}

\* What a variable is a copy of, and what that is a copy of.
RECURSIVE CopyChain(_, _)
CopyChain(ir, v) ==
  LET id == Definition(ir, v)
  IN  IF IsCopyOfLocals(ir, id) THEN <<v>> \o CopyChain(ir, VariablesOf(Inst(ir, id).exprs[1])[1]) ELSE <<v>>

\* The uses of the target, and then of each argument, become uses of v.
ReplacePhiFunctionByVariable(ir, phi, v) ==
  FoldLeft(LAMBDA r, i : LET arg == Inst(r, phi).args[i].var IN IF arg = v THEN r ELSE ReplaceUses(r, arg, v),
           ReplaceUses(ir, Inst(ir, phi).defs[1], v), [i \in DOMAIN Inst(ir, phi).args |-> i])

ReplaceEqualParameters(ir, phi) ==
  LET chains == [i \in DOMAIN Inst(ir, phi).args |-> CopyChain(ir, Inst(ir, phi).args[i].var)]
      Common(v) == \A i \in DOMAIN chains : v \in ToSet(chains[i])
  IN  FoldLeft(LAMBDA r, v : ReplacePhiFunctionByVariable(r, phi, v), ir, SelectSeq(chains[1], Common))

\* Arguments with the subscript of the target are taken for the target.
RemovePhiArgumentsSameAsTarget(ir, phi) ==
  LET replaced == ReplaceEqualParameters(ir, phi)
      inst == Inst(replaced, phi)
      Same(arg) == arg.var[2] = inst.defs[1][2]
      without == FoldLeft(LAMBDA r, arg : IF Same(arg) THEN DeleteUse(r, arg.var, phi) ELSE r, replaced, inst.args)
  IN  UpdateInst(without, phi, [inst EXCEPT !.args = SelectSeq(@, LAMBDA arg : ~ Same(arg))])

-----------------------------------------------------------------------------
(* Phi functions and copies that only feed each other.                     *)

IsESPIncDec(inst) ==
  LET e == inst.exprs[1]
  IN  /\ IsStackPointer(inst.defs[1])
      /\ Len(e.terms) = 1 /\ e.constant # 0
      /\ e.terms[1][1] = 1 /\ IsStackPointer(e.terms[1][2])

IsCopyStatement(inst) ==
  /\ inst.type = "ASSIGNMENT"
  /\ \/ IsVariable(inst.exprs[1]) /\ inst.exprs[1].terms[1][2][1] = inst.defs[1][1]
     \/ IsESPIncDec(inst)

OnlyFeedsPhisAndCopies(ir, v) ==
  /\ \A id \in ToSet(Uses(ir, v)) : IsPhi(Inst(ir, id)) \/ IsCopyStatement(Inst(ir, id))
  /\ NoRelatedRegisterUsed(ir, v)

\* isInTrivialPhiChain: the instructions that the phi function feeds, all of
\* which may go.
RECURSIVE FedBy(_, _)
FedBy(ir, chain) ==
  LET next == chain \cup UNION {ToSet(Uses(ir, Inst(ir, id).defs[1])) :
                                  id \in {c \in chain : OnlyFeedsPhisAndCopies(ir, Inst(ir, c).defs[1])}}
  IN  IF next = chain THEN chain ELSE FedBy(ir, next)

IsInTrivialPhiChain(ir, phi) ==
  \A id \in FedBy(ir, {phi}) :
    CanRemoveExpression(Inst(ir, id).defs[1]) /\ OnlyFeedsPhisAndCopies(ir, Inst(ir, id).defs[1])

\* Phi functions are looked for up to the first other instruction of a block.
LeadingPhis(ir, b) ==
  {ir.code[b][k] : k \in {i \in DOMAIN ir.code[b] : \A j \in 1 .. i : IsPhi(Inst(ir, ir.code[b][j]))}}

TrivialPhiChainElements(ir) ==
  UNION {FedBy(ir, {phi}) : phi \in {p \in UNION {LeadingPhis(ir, b) : b \in DOMAIN ir.code} : IsInTrivialPhiChain(ir, p)}}

\* Only the target of a phi function is forgotten, not the copies' targets.
RemoveTrivial(ir, id) ==
  LET without == FoldLeft(LAMBDA r, v : DeleteUse(r, v, id), ir, UsedElements(Inst(ir, id)))
  IN  RemoveInstruction(IF IsPhi(Inst(ir, id)) THEN Forget(without, Inst(ir, id).defs[1]) ELSE without, id)

RemoveTrivialPhiChains(ir) ==
  FoldFunction(LAMBDA id, r : RemoveTrivial(r, id), ir, [id \in TrivialPhiChainElements(ir) |-> id])

=============================================================================
