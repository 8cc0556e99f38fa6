------------------------- MODULE InstructionHandler -------------------------
(***************************************************************************)
(* What a decoded instruction becomes in the intermediate representation:  *)
(* one operator per handler, which returns the instructions it appends, on *)
(* the expressions of its operands (the operand handler is the first part).*)
(* Switch idioms and the blocks that jumps lead to are left out, and so    *)
(* are types other than signed and unsigned.                               *)
(***************************************************************************)
EXTENDS Expressions

-----------------------------------------------------------------------------
(* The expression for an operand of a decoded instruction.  An operand has *)
(* the fields of IDA's op_t that the code looks at.  In a SIB byte the     *)
(* base bp also says that there is no base and the index sp that there is  *)
(* no index; `based` tells which, and the code does not look at it.        *)
(* Strings, names and references of immediates are left out.               *)

NoSIB == [base |-> "", index |-> "", scale |-> 0, based |-> FALSE]
SIB(base, index, scale) == [base |-> base, index |-> index, scale |-> scale, based |-> TRUE]
IndexOnly(index, scale) == [SIB("bp", index, scale) EXCEPT !.based = FALSE]

Operand(type, reg, value, addr, sib, var) ==
  [type |-> type, reg |-> reg, value |-> value, addr |-> addr, sib |-> sib, var |-> var]
NotAVariable == -1
o_reg(r) == Operand("o_reg", r, 0, 0, NoSIB, NotAVariable)
o_imm(n) == Operand("o_imm", "", n, 0, NoSIB, NotAVariable)
o_mem(addr, sib) == Operand("o_mem", "", 0, addr, sib, NotAVariable)
o_displ(r, addr, sib) == Operand("o_displ", r, 0, addr, sib, NotAVariable)
o_fpreg(i) == Operand("o_fpreg", "", i, 0, NoSIB, NotAVariable)
o_near(addr) == Operand("o_near", "", 0, addr, NoSIB, NotAVariable)
\* IDA knows the operand as the stack variable at an address of the frame.
StkVar(operand, address) == [operand EXCEPT !.var = address]
hasSIB(operand) == operand.sib # NoSIB

getSIBExpression(operand) ==
  LET sib == operand.sib
      index == Register(sib.index)
      scaled == IF sib.scale = 0 THEN index ELSE Multiplication(<<index, NumericConstant(2 ^ sib.scale)>>)
  IN IF sib.base # "bp" /\ sib.index # "sp"
     THEN IF sib.base = sib.index
          THEN Multiplication(<<index, NumericConstant(2 ^ sib.scale + 1)>>)
          ELSE Addition(<<Register(sib.base), scaled>>)
     ELSE scaled

isEspOrEbp(e) == e.type = "REGISTER" /\ e.name \in {"sp", "bp"}

updateSIBExpression(sib, added) ==
  IF sib.type = "ADDITION" THEN [sib EXCEPT !.operands = Append(@, added)] ELSE Addition(<<sib, added>>)

createStackVariable(operand) == StackVariable(operand.var)
createGlobalVariable(addr) == GlobalVariable(addr)

StackOperand(itype, operand) ==
  LET variable == createStackVariable(operand)
      sib == getSIBExpression(operand)
      element == updateSIBExpression(sib, AddressExpression(variable))
  IN IF hasSIB(operand) /\ ~ isEspOrEbp(sib)
     THEN IF itype = "lea" THEN element ELSE PointerExp(element)
     ELSE IF itype = "lea" THEN AddressExpression(variable) ELSE variable

handle_o_mem(itype, operand) ==
  LET global == createGlobalVariable(operand.addr)
      result == IF itype = "lea" THEN AddressExpression(global) ELSE global
  IN IF hasSIB(operand) THEN PointerExp(updateSIBExpression(getSIBExpression(operand), result)) ELSE result

handle_o_displ(itype, operand) ==
  LET base == IF hasSIB(operand) THEN getSIBExpression(operand) ELSE Register(operand.reg)
      result == IF operand.addr = 0 THEN base ELSE updateSIBExpression(base, NumericConstant(operand.addr))
  IN IF itype = "lea" THEN result ELSE PointerExp(result)

handle_o_fpreg(operand) == FPURegister(operand.value)

ExpressionFromOperand(itype, operand) ==
  CASE operand.var # NotAVariable -> StackOperand(itype, operand)
    [] operand.type = "o_reg" -> Register(operand.reg)
    [] operand.type = "o_imm" -> NumericConstant(operand.value)
    [] operand.type \in {"o_mem", "o_near"} -> handle_o_mem(itype, operand)
    [] operand.type = "o_displ" -> handle_o_displ(itype, operand)
    [] operand.type = "o_fpreg" -> handle_o_fpreg(operand)

\* Two operands with a SIB byte compare equal whatever registers it names.
operandsEqual(a, b) ==
  /\ a.type = b.type
  /\ a.type \in {"o_reg", "o_displ"} => a.reg = b.reg
  /\ a.type \in {"o_imm", "o_fpreg"} => a.value = b.value
  /\ a.type \in {"o_mem", "o_near", "o_displ"} => a.addr = b.addr

-----------------------------------------------------------------------------
(* Instructions.                                                           *)

FPU_Registers_Num == 8

\* A signature: where the arguments are, and what the callee removes.  A call
\* has the one that IDA knows and the one of the function called.
NoSignature == [known |-> FALSE, registers |-> <<>>, offsets |-> <<>>, purged |-> 0]
Instruction(itype, operands) ==
  [itype |-> itype, operands |-> operands, size |-> 1, prefix |-> "", condition |-> "",
   signature |-> NoSignature, callee |-> NoSignature, fallsThrough |-> FALSE]

Assignment(to, from) == [type |-> "ASSIGNMENT", to |-> to, from |-> from, isFloat |-> FALSE]
FlagMacro(type, first, second, result, definedFlags) ==
  [type |-> "FLAG_MACRO", flagMacroType |-> type, first |-> first, second |-> second, result |-> result,
   definedFlags |-> definedFlags]
ConditionalJump(condition) == [type |-> "CONDITIONAL_JUMP", condition |-> condition]
Jump == [type |-> "JUMP"]
Call(function, arguments, returns) ==
  [type |-> "CALL", function |-> function, arguments |-> arguments, returns |-> returns]
Return(e) == [type |-> "RETURN", returned |-> e]

SUBFlagMacro(first, second, result, affectsCarry) ==
  FlagMacro("SUBFLAGS", first, second, result, {"AF", "OF", "PF", "SF", "ZF"} \cup IF affectsCarry THEN {"CF"} ELSE {})
ADDFlagMacro(first, second, result) ==
  FlagMacro("ADDFLAGS", first, second, result, {"AF", "CF", "OF", "PF", "SF", "ZF"})
LogicalFlagMacro(first, second, result) ==
  FlagMacro("LOGICALFLAGS", first, second, result, {"CF", "OF", "PF", "SF", "ZF"})
NEGFlagMacro(e) ==
  FlagMacro("NEGFLAGS", e, NullExpression, NullExpression, {"AF", "CF", "OF", "PF", "SF", "ZF"})
FCOMFlagMacro(first, second, setEFLAGS) ==
  FlagMacro("FCOMFLAGS", first, second, NullExpression, IF setEFLAGS THEN {"ZF", "PF", "CF"} ELSE {"C0", "C2", "C3"})

-----------------------------------------------------------------------------

Expression(inst, i) == ExpressionFromOperand(inst.itype, inst.operands[i])
First(inst) == Expression(inst, 1)
Second(inst) == Expression(inst, 2)
SameOperands(inst) == operandsEqual(inst.operands[1], inst.operands[2])
IsImmediate(inst, n) == inst.operands[2].type = "o_imm" /\ inst.operands[2].value = n
\* Every instruction that needs one has a tmp of its own.
Tmp == LocalVariable("tmp")
Zero == NumericConstant(0)
One == NumericConstant(1)
MinusOne == NumericConstant(-1)

insertAssignmentWithAssociativeCommutativeExpression(mathematicalOperator, inst) ==
  <<Assignment(Tmp, First(inst)),
    Assignment(First(inst), Node(mathematicalOperator, <<First(inst), Second(inst)>>, "", 0))>>

getSubtractionExpression(a, b) ==
  Addition(<<a, IF b.type = "NUMERIC_CONSTANT" THEN NumericConstant(-b.number) ELSE Negation(b)>>)

insertAssignmentWithSubtraction(inst) ==
  <<Assignment(Tmp, First(inst)), Assignment(First(inst), getSubtractionExpression(First(inst), Second(inst)))>>

handle_ADD(inst) ==
  IF IsImmediate(inst, 0) THEN <<>>
  ELSE IF SameOperands(inst)
  THEN <<Assignment(First(inst), Multiplication(<<NumericConstant(2), First(inst)>>)),
         ADDFlagMacro(NullExpression, NullExpression, First(inst))>>
  ELSE insertAssignmentWithAssociativeCommutativeExpression("ADDITION", inst)
         \o <<ADDFlagMacro(Tmp, Second(inst), First(inst))>>

handle_AND(inst) ==
  IF IsImmediate(inst, 0)
  THEN <<Assignment(First(inst), Zero), LogicalFlagMacro(NullExpression, NullExpression, Zero)>>
  ELSE IF inst.operands[1].type = "o_reg" /\ inst.operands[1].reg = "sp" THEN <<>>
  ELSE insertAssignmentWithAssociativeCommutativeExpression("AND", inst)
         \o <<LogicalFlagMacro(Tmp, Second(inst), First(inst))>>

decrementStackPointer(inst) ==
  <<Assignment(Register("sp"), Addition(<<Register("sp"), NumericConstant(-inst.size)>>))>>
saveExpressionOnStack(e) == <<Assignment(PointerExp(Register("sp")), e)>>

StackArgument(offset) ==
  PointerExp(IF offset = 0 THEN Register("sp") ELSE Addition(<<Register("sp"), NumericConstant(offset)>>))

handle_CALL(inst) ==
  IF inst.fallsThrough THEN decrementStackPointer(inst) \o saveExpressionOnStack(First(inst))
  ELSE LET signature == inst.signature
           registers == [i \in DOMAIN signature.registers |-> Register(signature.registers[i])]
           onStack == [i \in DOMAIN signature.offsets |-> StackArgument(signature.offsets[i])]
           call == Call("callee", registers \o onStack, <<Register("ax")>>)
       IN IF signature.purged = 0 THEN <<call>>
          ELSE <<call, Assignment(Register("sp"), Addition(<<Register("sp"), NumericConstant(signature.purged)>>))>>

handle_CMP(inst) == <<SUBFlagMacro(First(inst), Second(inst), NullExpression, TRUE)>>

handle_DEC(inst) ==
  <<Assignment(First(inst), Addition(<<First(inst), MinusOne>>)),
    SUBFlagMacro(NullExpression, NullExpression, First(inst), FALSE)>>

SignOf(inst, unsignedType) == IF inst.itype = unsignedType THEN "unsigned" ELSE "signed"

\* The quotient has no type of its own; it is taken as one of the target's.
handle_DIV(inst) ==
  <<Assignment(Register("dx"), Remainder(First(inst), Second(inst), SignOf(inst, "div"))),
    Assignment(First(inst), Division(First(inst), Second(inst), SignOf(inst, "div")))>>

handle_INC(inst) ==
  <<Assignment(First(inst), Addition(<<First(inst), One>>)), ADDFlagMacro(NullExpression, NullExpression, First(inst))>>

handle_ConditionalJump(condition) == <<ConditionalJump(condition)>>
handle_JCXZ(inst) == <<ConditionalJump(HighLevelCondition("==", Register("cx"), Zero, FALSE))>>
handle_JMP(inst) == <<Jump>>
handle_LOOP(inst) == <<ConditionalJump(HighLevelCondition("!=", Register("cx"), Zero, FALSE))>>

handle_MOV(inst) == IF SameOperands(inst) THEN <<>> ELSE <<Assignment(First(inst), Second(inst))>>

\* With one operand in the program, the first one here is eax.
handle_IMUL(inst) ==
  <<Assignment(First(inst), Multiplication(IF Len(inst.operands) = 2 THEN <<First(inst), Second(inst)>>
                                           ELSE <<Second(inst), Expression(inst, 3)>>))>>
handle_MUL(inst) == <<Assignment(First(inst), Multiplication(<<First(inst), Second(inst)>>))>>

handle_NEG(inst) == <<Assignment(First(inst), Negation(First(inst))), NEGFlagMacro(First(inst))>>
handle_NOT(inst) == <<Assignment(First(inst), LogicalNot(First(inst)))>>

handle_OR(inst) ==
  IF IsImmediate(inst, Modulus - 1)
  THEN <<Assignment(First(inst), MinusOne), LogicalFlagMacro(NullExpression, NullExpression, MinusOne)>>
  ELSE insertAssignmentWithAssociativeCommutativeExpression("OR", inst)
         \o <<LogicalFlagMacro(Tmp, Second(inst), First(inst))>>

\* Mutant: the stack pointer is moved first.
PopLate(inst) ==
  <<Assignment(Register("sp"), Addition(<<Register("sp"), NumericConstant(inst.size)>>)),
    Assignment(First(inst), PointerExp(Register("sp")))>>
handle_POP(inst) ==
  <<Assignment(First(inst), PointerExp(Register("sp"))),
    Assignment(Register("sp"), Addition(<<Register("sp"), NumericConstant(inst.size)>>))>>
handle_PUSH(inst) == decrementStackPointer(inst) \o saveExpressionOnStack(First(inst))
handle_RET(inst) == <<Return(Register("ax"))>>
\* All rotations call the same function.
handle_ROTATE(inst) == <<Call("rotFunctionName", <<First(inst), Second(inst)>>, <<First(inst)>>)>>
handle_SAR(inst) == <<Assignment(First(inst), Shift(First(inst), Second(inst), SignOf(inst, "shr"), TRUE))>>
handle_SAL(inst) == <<Assignment(First(inst), Shift(First(inst), Second(inst), SignOf(inst, "shl"), FALSE))>>

handle_SETCond(condition, inst) == <<Assignment(First(inst), Ternary(condition, One, Zero))>>
handle_SAHF(inst) == <<Assignment(FlagConcatenation("CPU_FLAG"), Register("ah"))>>

Borrow == LowLevelCondition(<<"CF">>, "Below")
handle_SBB(inst) ==
  (IF SameOperands(inst) THEN <<Assignment(First(inst), Ternary(Borrow, MinusOne, Zero))>>
   ELSE <<Assignment(Tmp, Ternary(Borrow, Addition(<<First(inst), MinusOne>>), First(inst))),
          Assignment(First(inst), Addition(<<Tmp, Negation(Second(inst))>>))>>)
  \o <<SUBFlagMacro(NullExpression, NullExpression, First(inst), TRUE)>>

handle_SUB(inst) ==
  IF SameOperands(inst)
  THEN <<Assignment(First(inst), Zero), SUBFlagMacro(NullExpression, NullExpression, Zero, TRUE)>>
  ELSE IF Second(inst) = Zero THEN <<SUBFlagMacro(NullExpression, NullExpression, First(inst), TRUE)>>
  ELSE insertAssignmentWithSubtraction(inst) \o <<SUBFlagMacro(Tmp, Second(inst), First(inst), TRUE)>>

handle_TEST(inst) ==
  IF IsImmediate(inst, 0) THEN <<LogicalFlagMacro(NullExpression, NullExpression, Zero)>>
  ELSE IF SameOperands(inst) THEN <<LogicalFlagMacro(NullExpression, NullExpression, First(inst))>>
  ELSE <<LogicalFlagMacro(First(inst), Second(inst), NullExpression)>>

handle_XCHG(inst) ==
  <<Assignment(Tmp, First(inst)), Assignment(First(inst), Second(inst)), Assignment(Second(inst), Tmp)>>

handle_XOR(inst) ==
  IF SameOperands(inst)
  THEN <<Assignment(First(inst), Zero), LogicalFlagMacro(NullExpression, NullExpression, Zero)>>
  ELSE insertAssignmentWithAssociativeCommutativeExpression("XOR", inst)
         \o <<LogicalFlagMacro(Tmp, Second(inst), First(inst))>>

-----------------------------------------------------------------------------
\* String instructions.  The direction flag is not looked at.

isREP_Prefix(inst) == inst.prefix = "rep"
isREPNE_Prefix(inst) == inst.prefix = "repne"

getLengthForStringInstructions(inst) ==
  IF ~ isREP_Prefix(inst) THEN NumericConstant(inst.size)
  ELSE IF inst.size = 1 THEN Register("cx") ELSE Multiplication(<<Register("cx"), NumericConstant(inst.size)>>)
getIncDecExpression(inst) == getLengthForStringInstructions(inst)

StringResult == LocalVariable("strcmp_result")
getStringFunction(functionName, inst) ==
  Call(functionName,
       <<Register("di"), Register(IF functionName = "memset" THEN "ax" ELSE "si"), getLengthForStringInstructions(inst)>>,
       IF functionName = "memncmp" THEN <<StringResult>> ELSE <<>>)

Advance(r, inst) == Assignment(Register(r), Addition(<<Register(r), getIncDecExpression(inst)>>))
ClearCounter(inst) == IF isREP_Prefix(inst) THEN <<Assignment(Register("cx"), Zero)>> ELSE <<>>

handle_MOVS(inst) ==
  <<getStringFunction("memcpy", inst), Advance("di", inst), Advance("si", inst)>> \o ClearCounter(inst)
handle_CMPS(inst) ==
  <<getStringFunction("memncmp", inst), SUBFlagMacro(NullExpression, NullExpression, StringResult, TRUE),
    Advance("di", inst), Advance("si", inst)>> \o ClearCounter(inst)
handle_STOS(inst) == <<getStringFunction("memset", inst), Advance("di", inst)>> \o ClearCounter(inst)
\* "still needs to modify edi", says the code.
handle_SCAS(inst) ==
  LET length == LocalVariable("len")
  IN IF isREP_Prefix(inst) \/ isREPNE_Prefix(inst)
     THEN <<Call(IF isREPNE_Prefix(inst) THEN "len_first_match" ELSE "len_first_mismatch",
                 <<Register("di"), Register("ax")>>, <<length>>),
            Assignment(Register("cx"), Addition(<<Register("cx"), Negation(length)>>))>>
     ELSE <<SUBFlagMacro(PointerExp(Register("di")), Register("ax"), NullExpression, TRUE)>>

-----------------------------------------------------------------------------
\* Floating-point instructions.  In the intermediate representation st0 is always
\* the top of the stack: a push or a pop copies every register to its neighbour.

FloatAssignment(to, from) == [Assignment(to, from) EXCEPT !.isFloat = TRUE]
st(i) == FPURegister(i)
Ftmp == LocalVariable("ftmp")

Push == [k \in 1 .. FPU_Registers_Num - 1 |-> FloatAssignment(st(FPU_Registers_Num - k), st(FPU_Registers_Num - k - 1))]
Pops(n) == [k \in 1 .. FPU_Registers_Num - n |-> FloatAssignment(st(k - 1), st(k - 1 + n))]
insertFPUStackAssignments(isPush) == IF isPush THEN Push ELSE Pops(1)

handle_F2XM1(inst) ==
  <<FloatAssignment(First(inst), Addition(<<MathFunction("TWO_X", First(inst)), MinusOne>>))>>
handle_FABS(inst) == <<FloatAssignment(First(inst), MathFunction("ABS", First(inst)))>>
handle_FCHS(inst) == <<FloatAssignment(First(inst), Negation(First(inst)))>>
handle_FCOS(inst) == <<FloatAssignment(First(inst), MathFunction("COS", First(inst)))>>
handle_FSIN == <<FloatAssignment(st(0), MathFunction("SIN", st(0)))>>
handle_FRNDINT == <<FloatAssignment(st(0), MathFunction("RNDINT", st(0)))>>

handle_FADD(inst) == <<FloatAssignment(First(inst), Addition(<<First(inst), Second(inst)>>))>>
handle_FADDP(inst) == handle_FADD(inst) \o Pops(1)
handle_FMUL(inst) == <<FloatAssignment(First(inst), Multiplication(<<First(inst), Second(inst)>>))>>
handle_FMULP(inst) == handle_FMUL(inst) \o Pops(1)

\* Whatever is to be divided, the operands of the instruction are.
getDivisionExpression(inst, dividend, divisor) == Division(First(inst), Second(inst), "signed")

handle_FDIV(inst, isReverse) ==
  <<FloatAssignment(First(inst),
      IF isReverse THEN getDivisionExpression(inst, Second(inst), First(inst))
      ELSE getDivisionExpression(inst, First(inst), Second(inst)))>>
handle_FDIVP(inst, isReverse) == handle_FDIV(inst, isReverse) \o Pops(1)

handle_FSUB(inst, isReverse) ==
  <<FloatAssignment(First(inst),
      IF isReverse THEN getSubtractionExpression(Second(inst), First(inst))
      ELSE getSubtractionExpression(First(inst), Second(inst)))>>
handle_FSUBP(inst, isReverse) == handle_FSUB(inst, isReverse) \o Pops(1)

handle_FCOM(inst, setEFLAGS, numPops) ==
  <<FCOMFlagMacro(First(inst), Second(inst), setEFLAGS)>> \o IF numPops = 0 THEN <<>> ELSE Pops(numPops)
handle_FTST(inst) == <<FCOMFlagMacro(First(inst), Zero, FALSE)>>

\* The truncated number does not get to memory.
handle_FISTTP(inst) == <<FloatAssignment(First(inst), MathFunction("TRUNCATE", First(inst)))>> \o Pops(1)

handle_FLD(inst) ==
  IF inst.operands[2].type # "o_fpreg" THEN Push \o <<FloatAssignment(First(inst), Second(inst))>>
  ELSE IF SameOperands(inst) THEN Push
  ELSE <<FloatAssignment(Ftmp, Second(inst))>> \o Push \o <<FloatAssignment(First(inst), Ftmp)>>
handle_FLDConstant(constant, inst) == Push \o <<FloatAssignment(First(inst), constant)>>

handle_FST(inst) == IF SameOperands(inst) THEN <<>> ELSE <<FloatAssignment(Second(inst), First(inst))>>
handle_FSTP(inst) == handle_FST(inst) \o Pops(1)
handle_FSTSW(inst) == <<Assignment(First(inst), FlagConcatenation("FPU_FLAG"))>>
handle_FXCH(inst) ==
  IF SameOperands(inst) THEN <<>>
  ELSE <<FloatAssignment(Ftmp, Second(inst)), FloatAssignment(Second(inst), First(inst)), FloatAssignment(First(inst), Ftmp)>>

handle_FPATAN(inst) ==
  <<FloatAssignment(st(1), MathFunction("ARCTAN", getDivisionExpression(inst, st(1), st(0))))>> \o Pops(1)
handle_FPTAN(inst) == <<FloatAssignment(st(0), MathFunction("TAN", st(0)))>> \o handle_FLDConstant(One, inst)
handle_FSINCOS ==
  <<FloatAssignment(Ftmp, MathFunction("COS", st(0)))>> \o handle_FSIN \o Push \o <<FloatAssignment(st(0), Ftmp)>>
handle_FYL2X ==
  <<FloatAssignment(st(1), Multiplication(<<st(1), MathFunction("LOG_2", st(0))>>))>> \o Pops(1)
handle_FYL2XP1 ==
  <<FloatAssignment(st(1), Multiplication(<<st(1), MathFunction("LOG_2", Addition(<<st(0), One>>))>>))>> \o Pops(1)
=============================================================================
