------------------------ MODULE ExpressionRewriting ------------------------
(***************************************************************************)
(* A piece of a program in SSA form, in which definitions are propagated   *)
(* to their uses one after the other, in any order.  Every instruction has *)
(* to stay worth what it was; where the code is known to go wrong,         *)
(* `deviations` says why, and the piece is left as it is.                  *)
(***************************************************************************)
EXTENDS ExpressionSimplification

\* The pieces, each a sequence of sets of instructions, and the values that the
\* variables that are not defined in a piece may have, with the memory.
CONSTANTS Tasks, Valuations

VARIABLES program,        \* the instructions
          deviations,     \* why the last propagation went wrong
          original        \* what the instructions were worth at first

vars == <<program, deviations, original>>

\* What is assigned to or called, and the right-hand side, the operand, the
\* condition or the parameters.
Instruction(type, to, operands) == [type |-> type, to |-> to, operands |-> operands]
Assignment(to, from) == Instruction("ASSIGNMENT", to, <<from>>)
Return(e) == Instruction("RETURN", NullExpression, <<e>>)
ConditionalJump(condition) == Instruction("CONDITIONAL_JUMP", NullExpression, <<condition>>)
Call(functionPointer, parameters) == Instruction("CALL", functionPointer, parameters)

-----------------------------------------------------------------------------

\* Right-hand sides and what is returned are replaced like parameters, but a local
\* simplification is the end of it.
ReplaceParameter(e, v, by) == Simplify(IF e = v THEN by ELSE ReplaceChild(e, v, by))
ReplaceRoot(e, v, by) == OrElse(applyLocalSimplifications(e, v, by), ReplaceParameter(e, v, by))
ReplaceWithin(e, v, by) == Simplify(ReplaceChild(e, v, by))

replaceUsedChildExpression(inst, v, by) ==
  CASE inst.type \in {"ASSIGNMENT", "RETURN"} ->
         [inst EXCEPT !.operands = <<ReplaceRoot(@[1], v, by)>>, !.to = ReplaceWithin(@, v, by)]
    [] inst.type = "CONDITIONAL_JUMP" -> [inst EXCEPT !.operands = <<ReplaceWithin(@[1], v, by)>>]
    [] inst.type = "CALL" ->
         [inst EXCEPT !.operands = [i \in DOMAIN @ |-> ReplaceParameter(@[i], v, by)], !.to = IF @ = v THEN by ELSE @]

InstructionDeviations(inst) == UNION {DeviationsIn(e) : e \in {inst.to} \cup ToSet(inst.operands)}
IsDefinition(inst) == inst.type = "ASSIGNMENT" /\ inst.to.type = "REGISTER"

Propagate(i, j) ==
  /\ deviations = {}
  /\ IsDefinition(program[i])
  /\ \E changed \in {replaceUsedChildExpression(program[j], program[i].to, program[i].operands[1])} :
       /\ changed # program[j]
       /\ deviations' = InstructionDeviations(changed)
       /\ program' = IF deviations' = {} THEN [program EXCEPT ![j] = changed] ELSE program
  /\ UNCHANGED original

-----------------------------------------------------------------------------

\* What the instructions are worth, for values of the variables and the memory.
InstructionWorth(inst, m) ==
  <<CASE inst.type = "CALL" -> Value(inst.to, m)
      [] inst.to.type = "POINTER" -> Location(inst.to, m)
      [] OTHER -> 0,
    [i \in DOMAIN inst.operands |-> Value(inst.operands[i], m)]>>
Worth(instructions, valuation) ==
  LET step(r, inst) ==
        LET worth == InstructionWorth(inst, r.m)
        IN [worth |-> Append(r.worth, worth),
            m |-> IF IsDefinition(inst) THEN [r.m EXCEPT !.reg = (inst.to.name :> worth[2][1]) @@ @] ELSE r.m]
  IN FoldLeft(step, [worth |-> <<>>, m |-> valuation], instructions).worth
WorthOf(instructions) == [v \in Valuations |-> Worth(instructions, v)]

Init ==
  /\ \E task \in Tasks : program \in {p \in [DOMAIN task -> UNION Range(task)] : \A i \in DOMAIN task : p[i] \in task[i]}
  /\ deviations = {}
  /\ original = WorthOf(program)

Next == \E i, j \in DOMAIN program : i < j /\ Propagate(i, j)

Spec == Init /\ [][Next]_vars

-----------------------------------------------------------------------------

\* Replacing variables by their definitions and simplifying what comes out
\* (replaceUsedChildExpression), as often and in whatever order, changes neither
\* a value that is computed, nor a place that is written to, nor a condition, nor
\* an argument of a call; but for the places that are marked.  The cast of a sum's
\* constants never meets a negated one, for a negation never keeps a constant.
SimplificationPreserves ==
  /\ "a negated constant" \notin deviations
  /\ deviations = {} => WorthOf(program) = original
=============================================================================
