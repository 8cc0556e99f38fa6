----------------------- MODULE ConditionCodePropagation -----------------------
(***************************************************************************)
(* The comparison that a condition on flags stands for, found from the     *)
(* instructions that define the flags.  A definition is such an            *)
(* instruction with its number in the program, its operands as they were   *)
(* when it ran (SSA form keeps them) and the definition of AH then: the    *)
(* flags of the FPU that AH holds, if it does, are defined by `fpu`.       *)
(* Flags that a phi function defines are left out.                         *)
(***************************************************************************)
EXTENDS InstructionDecoding

NullInstruction == [type |-> "NONE"]
Definition(id, instruction, fpu) == [id |-> id, instruction |-> instruction, fpu |-> fpu]
Undefined == Definition(0, NullInstruction, NullInstruction)

IsMacro(instruction, type) == instruction.type = "FLAG_MACRO" /\ instruction.flagMacroType = type

getComparisonOperand(branchType, flagMacroType) ==
  LET among(types) == flagMacroType \in types
      compares == among({"SUBFLAGS", "FCOMFLAGS"})
      subOrLogical == among({"SUBFLAGS", "LOGICALFLAGS"})
      negated == among({"NEGFLAGS"})
  IN CASE branchType = "Above" /\ compares -> ">"
       [] branchType = "Above_or_Equal" /\ compares -> ">="
       [] branchType \in {"Above", "Above_or_Equal"} /\ negated -> "=="
       [] branchType = "Below" /\ compares -> "<"
       [] branchType = "Below" /\ negated -> "!="
       [] branchType = "Below_or_Equal" /\ compares -> "<="
       [] branchType = "Below_or_Equal" /\ among({"LOGICALFLAGS"}) -> "=="
       [] branchType = "Equal" /\ among({"SUBFLAGS", "LOGICALFLAGS", "FCOMFLAGS", "ADDFLAGS"}) -> "=="
       [] branchType = "Greater" /\ among({"SUBFLAGS"}) -> ">"
       [] branchType \in {"Greater_or_Equal", "Not_Signed"} /\ subOrLogical -> ">="
       [] branchType \in {"Less", "Signed"} /\ subOrLogical -> "<"
       [] branchType = "Less_or_Equal" /\ subOrLogical -> "<="
       [] branchType = "Not_Equal" /\ among({"SUBFLAGS", "LOGICALFLAGS", "ADDFLAGS"}) -> "!="
       [] OTHER -> "COMPARISON_ERROR"

\* Mutant: the comparisons with "or equal" are forgotten.
isStrictUnsignedCompare(condition) == condition.name \in {"Below", "Above"}
isUnsignedCompare(condition) == condition.name \in {"Below", "Below_or_Equal", "Above", "Above_or_Equal"}

TestedFlags(condition) == {condition.operands[i].name : i \in DOMAIN condition.operands}
onlyTest_OF_CF(condition) == TestedFlags(condition) \subseteq {"CF", "OF"}

getHighLevelConditionFromSUBFlagMacro(condition, macro) ==
  LET operand == getComparisonOperand(condition.name, "SUBFLAGS")
      compare(a, b) == HighLevelCondition(operand, a, b, isUnsignedCompare(condition))
      hasOperands == macro.first # NullExpression /\ macro.second # NullExpression
  IN IF macro.result # NullExpression /\ ~ (condition.name = "Below" /\ hasOperands) THEN compare(macro.result, Zero)
     ELSE compare(macro.first, macro.second)

getHighLevelConditionFromLogicalFlagMacro(condition, macro) ==
  LET operand == getComparisonOperand(condition.name, "LOGICALFLAGS")
  IN IF onlyTest_OF_CF(condition) THEN HighLevelCondition("!=", Zero, Zero, FALSE)
     ELSE IF macro.result # NullExpression THEN HighLevelCondition(operand, macro.result, Zero, FALSE)
     ELSE HighLevelCondition(operand, macro.first, macro.second, FALSE)

getHighLevelConditionFromNEGFlagMacro(condition, macro) ==
  HighLevelCondition(getComparisonOperand(condition.name, "NEGFLAGS"), macro.first, Zero, FALSE)

getHighLevelConditionFromFCOMFlagMacro(condition, macro) ==
  HighLevelCondition(getComparisonOperand(condition.name, "FCOMFLAGS"), macro.first, macro.second, FALSE)

getHighLevelConditionFromADDFlagMacro(condition, macro) ==
  IF macro.result = NullExpression THEN NullExpression
  ELSE HighLevelCondition(getComparisonOperand(condition.name, "ADDFLAGS"), macro.result, Zero, FALSE)

getHighLevelConditionFromFlagMacro(condition, macro) ==
  CASE macro.flagMacroType = "SUBFLAGS" -> getHighLevelConditionFromSUBFlagMacro(condition, macro)
    [] macro.flagMacroType = "LOGICALFLAGS" -> getHighLevelConditionFromLogicalFlagMacro(condition, macro)
    [] macro.flagMacroType = "NEGFLAGS" -> getHighLevelConditionFromNEGFlagMacro(condition, macro)
    [] macro.flagMacroType = "FCOMFLAGS" -> getHighLevelConditionFromFCOMFlagMacro(condition, macro)
    [] macro.flagMacroType = "ADDFLAGS" -> getHighLevelConditionFromADDFlagMacro(condition, macro)

sameDefiningInstruction(condition, defs) == Cardinality({defs[f].id : f \in TestedFlags(condition)}) = 1

getEFLAGSHighLevelCondition(condition, defs) ==
  LET definition == defs[condition.operands[1].name]
  IN IF sameDefiningInstruction(condition, defs) /\ definition.instruction.type = "FLAG_MACRO"
     THEN getHighLevelConditionFromFlagMacro(condition, definition.instruction)
     ELSE NullExpression

-----------------------------------------------------------------------------
\* Comparisons of the FPU, whose flags get to the CPU through AH.

IsAH(e) == e = Register("ah")

getFloatingPointHighLevelCondition_SAHF(condition, definition) ==
  IF definition.instruction.type = "ASSIGNMENT" /\ IsMacro(definition.fpu, "FCOMFLAGS")
  THEN getHighLevelConditionFromFCOMFlagMacro(condition, definition.fpu)
  ELSE NullExpression

doesLogicalFlagMacroCompare_AH_Constant(instruction) ==
  /\ IsMacro(instruction, "LOGICALFLAGS")
  /\ IsAH(instruction.first)
  /\ instruction.second.type = "NUMERIC_CONSTANT"

\* The masks select C0 (0x01), C2 (0x04) and C3 (0x40).
getFloatingPointComparisonOperand(branchType, bitMask) ==
  LET clear == branchType \in {"Equal", "Parity"}
      set == branchType \in {"Not_Equal", "Not_Parity"}
      choose(a, b) == IF clear THEN a ELSE IF set THEN b ELSE "ERROR"
  IN CASE bitMask = 65 -> choose(">", "<=")
       [] bitMask \in {5, 1} -> choose(">=", "<")
       [] bitMask \in {64, 68} -> choose("!=", "==")
       [] OTHER -> "ERROR"

getFloatingPointHighLevelCondition_BitMask(condition, definition) ==
  LET macro == definition.instruction
  IN IF doesLogicalFlagMacroCompare_AH_Constant(macro) /\ IsMacro(definition.fpu, "FCOMFLAGS")
     THEN HighLevelCondition(getFloatingPointComparisonOperand(condition.name, macro.second.number),
                             definition.fpu.first, definition.fpu.second, FALSE)
     ELSE NullExpression

getFloatingPointHighLevelCondition(condition, defs) ==
  LET definition == defs[condition.operands[1].name]
      sahf == getFloatingPointHighLevelCondition_SAHF(condition, definition)
  IN IF sahf # NullExpression THEN sahf ELSE getFloatingPointHighLevelCondition_BitMask(condition, definition)

translateCondition(condition, defs) ==
  LET float == getFloatingPointHighLevelCondition(condition, defs)
  IN IF float # NullExpression THEN float ELSE getEFLAGSHighLevelCondition(condition, defs)

\* A conditional jump or an assignment with the comparison in the place of the
\* flags.
replaceLowLevelCondition(condition, defs) ==
  LET translated == translateCondition(condition, defs)
  IN IF translated = NullExpression THEN condition ELSE translated
replaceLowLevelConditionInConditionalJump(jump, defs) ==
  IF jump.condition.type = "LOWLEVEL_CONDITION"
  THEN [jump EXCEPT !.condition = replaceLowLevelCondition(@, defs)] ELSE jump
replaceLowLevelConditionInAssignment(assignment, defs) ==
  IF assignment.from.type = "TERNARY" /\ assignment.from.operands[1].type = "LOWLEVEL_CONDITION"
  THEN [assignment EXCEPT !.from.operands[1] = replaceLowLevelCondition(@, defs)] ELSE assignment
=============================================================================
