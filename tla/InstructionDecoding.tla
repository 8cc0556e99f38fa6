------------------------- MODULE InstructionDecoding -------------------------
(***************************************************************************)
(* Which handler an instruction goes to.  A conditional jump and a SETcc   *)
(* carry their condition code; synonyms (jz and je) are one code.          *)
(***************************************************************************)
EXTENDS InstructionHandler

\* The conditions of jumps.
UnsignedJumps ==
  [a |-> LowLevelCondition(<<"CF", "ZF">>, "Above"), ae |-> LowLevelCondition(<<"CF">>, "Above_or_Equal"),
   b |-> LowLevelCondition(<<"CF">>, "Below"), be |-> LowLevelCondition(<<"CF", "ZF">>, "Below_or_Equal")]
SignedJumps ==
  [e |-> LowLevelCondition(<<"ZF">>, "Equal"),
   g |-> LowLevelCondition(<<"ZF", "SF", "OF">>, "Greater"), ge |-> LowLevelCondition(<<"SF", "OF">>, "Greater_or_Equal"),
   l |-> LowLevelCondition(<<"SF", "OF">>, "Less"), le |-> LowLevelCondition(<<"ZF", "SF", "OF">>, "Less_or_Equal")]
FlagJumps ==
  [ne |-> LowLevelCondition(<<"ZF">>, "Not_Equal"),
   no |-> LowLevelCondition(<<"OF">>, "Not_Overflow"), np |-> LowLevelCondition(<<"PF">>, "Not_Parity"),
   ns |-> LowLevelCondition(<<"SF">>, "Not_Signed"), o |-> LowLevelCondition(<<"OF">>, "Overflow"),
   p |-> LowLevelCondition(<<"PF">>, "Parity"), s |-> LowLevelCondition(<<"SF">>, "Signed")]
ConditionCodes == DOMAIN UnsignedJumps \cup DOMAIN SignedJumps \cup DOMAIN FlagJumps
Condition == UnsignedJumps @@ SignedJumps @@ FlagJumps

LiftJump(inst) ==
  CASE inst.itype = "jcc" -> handle_ConditionalJump(Condition[inst.condition])
    [] inst.itype = "jcxz" -> handle_JCXZ(inst)
    [] inst.itype = "jmp" -> handle_JMP(inst)
    [] inst.itype = "loop" -> handle_LOOP(inst)

\* The handler of setae appends a jump as well.
LiftUnsignedSet(inst) ==
  (IF inst.condition = "ae" THEN handle_ConditionalJump(Condition[inst.condition]) ELSE <<>>)
    \o handle_SETCond(Condition[inst.condition], inst)
LiftSignedSet(inst) == handle_SETCond(Condition[inst.condition], inst)
LiftSet(inst) == IF inst.condition \in DOMAIN UnsignedJumps THEN LiftUnsignedSet(inst) ELSE LiftSignedSet(inst)

\* add to enter.  The idiv after a cdq is expected to do without it.
LiftFirst(inst) ==
  CASE inst.itype = "add" -> handle_ADD(inst)
    [] inst.itype = "and" -> handle_AND(inst)
    [] inst.itype = "call" -> handle_CALL(inst)
    [] inst.itype = "cmp" -> handle_CMP(inst)
    [] inst.itype = "cmps" -> handle_CMPS(inst)
    [] inst.itype \in {"cdq", "enter", "leave", "nop"} -> <<>>
    [] inst.itype = "dec" -> handle_DEC(inst)
    [] inst.itype \in {"div", "idiv"} -> handle_DIV(inst)

\* leave to sar.
LiftMiddle(inst) ==
  CASE inst.itype = "inc" -> handle_INC(inst)
    [] inst.itype \in {"lea", "mov"} -> handle_MOV(inst)
    [] inst.itype = "movs" -> handle_MOVS(inst)
    [] inst.itype = "imul" -> handle_IMUL(inst)
    [] inst.itype = "mul" -> handle_MUL(inst)
    [] inst.itype = "neg" -> handle_NEG(inst)
    [] inst.itype = "not" -> handle_NOT(inst)
    [] inst.itype = "or" -> handle_OR(inst)
    [] inst.itype = "pop" -> handle_POP(inst)
    [] inst.itype = "push" -> handle_PUSH(inst)
    [] inst.itype = "retn" -> handle_RET(inst)
    [] inst.itype \in {"rcl", "rcr", "rol", "ror"} -> handle_ROTATE(inst)
    [] inst.itype = "sahf" -> handle_SAHF(inst)
    [] inst.itype = "sbb" -> handle_SBB(inst)
    [] inst.itype = "scas" -> handle_SCAS(inst)
    [] inst.itype \in {"sal", "shl"} -> handle_SAL(inst)
    [] inst.itype \in {"sar", "shr"} -> handle_SAR(inst)

LiftLast(inst) ==
  CASE inst.itype = "stos" -> handle_STOS(inst)
    [] inst.itype = "sub" -> handle_SUB(inst)
    [] inst.itype = "test" -> handle_TEST(inst)
    [] inst.itype = "xchg" -> handle_XCHG(inst)
    [] inst.itype = "xor" -> handle_XOR(inst)

FloatConstants ==
  [fld1 |-> One, fldl2e |-> MathFunction("LOG_2", SymbolicConstant("E")),
   fldl2t |-> MathFunction("LOG_2", NumericConstant(10)), fldlg2 |-> MathFunction("LOG_10", NumericConstant(2)),
   fldln2 |-> MathFunction("LN", NumericConstant(2)), fldpi |-> SymbolicConstant("PI"), fldz |-> Zero]

\* How the comparisons differ: whether they set the flags of the CPU, and
\* how many registers they pop.
Comparisons ==
  [fcom |-> <<FALSE, 0>>, fcomi |-> <<TRUE, 0>>, fcomp |-> <<FALSE, 1>>, fcomip |-> <<TRUE, 1>>, fcompp |-> <<FALSE, 2>>]

LiftFloatFirst(inst) ==
  CASE inst.itype = "f2xm1" -> handle_F2XM1(inst)
    [] inst.itype = "fabs" -> handle_FABS(inst)
    [] inst.itype = "fadd" -> handle_FADD(inst)
    [] inst.itype = "faddp" -> handle_FADDP(inst)
    [] inst.itype = "fchs" -> handle_FCHS(inst)
    [] inst.itype = "fcos" -> handle_FCOS(inst)
    [] inst.itype \in DOMAIN Comparisons -> handle_FCOM(inst, Comparisons[inst.itype][1], Comparisons[inst.itype][2])
    [] inst.itype = "fdiv" -> handle_FDIV(inst, FALSE)
    [] inst.itype = "fdivr" -> handle_FDIV(inst, TRUE)
    [] inst.itype = "fdivp" -> handle_FDIVP(inst, FALSE)
    [] inst.itype = "fdivrp" -> handle_FDIVP(inst, TRUE)
    [] inst.itype = "fisttp" -> handle_FISTTP(inst)

LiftFloatLoad(inst) ==
  IF inst.itype \in {"fbld", "fild", "fld"} THEN handle_FLD(inst)
  ELSE handle_FLDConstant(FloatConstants[inst.itype], inst)

LiftFloatLast(inst) ==
  CASE inst.itype = "fmul" -> handle_FMUL(inst)
    [] inst.itype = "fmulp" -> handle_FMULP(inst)
    [] inst.itype = "fpatan" -> handle_FPATAN(inst)
    [] inst.itype = "fptan" -> handle_FPTAN(inst)
    [] inst.itype = "frndint" -> handle_FRNDINT
    [] inst.itype = "fsin" -> handle_FSIN
    [] inst.itype = "fsincos" -> handle_FSINCOS
    [] inst.itype \in {"fist", "fst"} -> handle_FST(inst)
    [] inst.itype = "fnstsw" -> handle_FSTSW(inst)
    [] inst.itype \in {"fbstp", "fistp", "fstp"} -> handle_FSTP(inst)
    [] inst.itype = "fsub" -> handle_FSUB(inst, FALSE)
    [] inst.itype = "fsubp" -> handle_FSUBP(inst, FALSE)
    [] inst.itype = "fsubr" -> handle_FSUB(inst, TRUE)
    [] inst.itype = "fsubrp" -> handle_FSUBP(inst, TRUE)
    [] inst.itype = "ftst" -> handle_FTST(inst)
    [] inst.itype = "fxch" -> handle_FXCH(inst)
    [] inst.itype = "fyl2x" -> handle_FYL2X
    [] inst.itype = "fyl2xp1" -> handle_FYL2XP1

Jumps == {"jcc", "jcxz", "jmp", "loop"}
FirstInstructions == {"add", "and", "call", "cmp", "cmps", "cdq", "enter", "leave", "nop", "dec", "div", "idiv"}
LastInstructions == {"stos", "sub", "test", "xchg", "xor"}
FloatFirst == DOMAIN Comparisons \cup
  {"f2xm1", "fabs", "fadd", "faddp", "fchs", "fcos", "fdiv", "fdivr", "fdivp", "fdivrp", "fisttp"}
FloatLoads == DOMAIN FloatConstants \cup {"fbld", "fild", "fld"}
FloatLast ==
  {"fmul", "fmulp", "fpatan", "fptan", "frndint", "fsin", "fsincos", "fist", "fst", "fnstsw", "fbstp", "fistp", "fstp",
   "fsub", "fsubp", "fsubr", "fsubrp", "ftst", "fxch", "fyl2x", "fyl2xp1"}

updateInstructionList(inst) ==
  CASE inst.itype \in Jumps -> LiftJump(inst)
    [] inst.itype = "setcc" -> LiftSet(inst)
    [] inst.itype \in FirstInstructions -> LiftFirst(inst)
    [] inst.itype \in LastInstructions -> LiftLast(inst)
    [] inst.itype \in FloatFirst -> LiftFloatFirst(inst)
    [] inst.itype \in FloatLoads -> LiftFloatLoad(inst)
    [] inst.itype \in FloatLast -> LiftFloatLast(inst)
    [] OTHER -> LiftMiddle(inst)
=============================================================================
