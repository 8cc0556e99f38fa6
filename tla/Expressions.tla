---------------------------- MODULE Expressions ----------------------------
(***************************************************************************)
(* The expressions of the intermediate representation, and what they       *)
(* stand for on a machine whose words have WordBits bits.  A node has the  *)
(* type of the expression, its operands, a name and a number; a node that  *)
(* needs no name or number has an empty one.                               *)
(***************************************************************************)
EXTENDS Integers, Sequences, SequencesExt, FiniteSetsExt

CONSTANT WordBits

Modulus == 2 ^ WordBits
Word(n) == n % Modulus
Signed(n) == IF n >= Modulus \div 2 THEN n - Modulus ELSE n
Words == 0 .. Modulus - 1

-----------------------------------------------------------------------------

Node(type, operands, name, number) == [type |-> type, operands |-> operands, name |-> name, number |-> number]
NullExpression == Node("null", <<>>, "", 0)

Register(r) == Node("REGISTER", <<>>, r, 0)
FPURegister(i) == Node("REGISTER", <<>>, "st", i)
Flag(f) == Node("FLAG", <<>>, f, 0)
NumericConstant(n) == Node("NUMERIC_CONSTANT", <<>>, "", n)
SymbolicConstant(c) == Node("SYMBOLIC_CONSTANT", <<>>, c, 0)
LocalVariable(name) == Node("LOCAL_VARIABLE", <<>>, name, 0)
StackVariable(address) == Node("STACK_VARIABLE", <<>>, "", address)
GlobalVariable(address) == Node("GLOBAL_VARIABLE", <<>>, "", address)
PointerExp(e) == Node("POINTER", <<e>>, "", 0)
AddressExpression(e) == Node("ADDRESS", <<e>>, "", 0)
Addition(operands) == Node("ADDITION", operands, "", 0)
Multiplication(operands) == Node("MULTIPLICATION", operands, "", 0)
Exponentiation(e, exponent) == Node("EXPONENTIATION", <<e, exponent>>, "", 0)
Negation(e) == Node("NEGATION", <<e>>, "", 0)
LogicalNot(e) == Node("LOGICAL_NOT", <<e>>, "", 0)
\* The name is the type of the operands, "signed" or "unsigned".
Shift(e, count, type, isRight) == Node(IF isRight THEN "SHIFT_RIGHT" ELSE "SHIFT_LEFT", <<e, count>>, type, 0)
Division(a, b, type) == Node("DIVISION", <<a, b>>, type, 0)
Remainder(a, b, type) == Node("REMAINDER", <<a, b>>, type, 0)
Ternary(c, a, b) == Node("TERNARY", <<c, a, b>>, "", 0)
MathFunction(f, e) == Node("MATH_FUNCTION", <<e>>, f, 0)
HighLevelCondition(operand, a, b, isUnsigned) ==
  Node("HIGHLEVEL_CONDITION", <<a, b>>, operand, IF isUnsigned THEN 1 ELSE 0)
LowLevelCondition(flags, branchType) ==
  Node("LOWLEVEL_CONDITION", [i \in DOMAIN flags |-> Flag(flags[i])], branchType, 0)
\* FlagConcatenation of CPU flags or of FPU flags.
FlagConcatenation(flagType) == Node("BIT_CONCATENATION", <<>>, flagType, 0)
\* What an expression was worth when it was evaluated: in SSA form its
\* variables keep that value.
Frozen(e, value) == Node("FROZEN", <<e>>, "", value)

-----------------------------------------------------------------------------

\* Functions on the bits of words.
RECURSIVE Bitwise2(_, _, _, _)
Bitwise2(f, a, b, n) ==
  IF n = 0 THEN 0 ELSE f[a % 2, b % 2] + 2 * Bitwise2(f, a \div 2, b \div 2, n - 1)
AndBits(a, b) == Bitwise2([x \in 0 .. 1, y \in 0 .. 1 |-> x * y], a, b, WordBits)
OrBits(a, b) == Bitwise2([x \in 0 .. 1, y \in 0 .. 1 |-> x + y - x * y], a, b, WordBits)
XorBits(a, b) == Bitwise2([x \in 0 .. 1, y \in 0 .. 1 |-> (x + y) % 2], a, b, WordBits)

\* Division as in C, which rounds towards zero.
Quotient(a, b) == LET q == (IF a < 0 THEN -a ELSE a) \div (IF b < 0 THEN -b ELSE b)
                  IN IF (a < 0) = (b < 0) THEN q ELSE -q
Typed(n, type) == IF type = "signed" THEN Signed(n) ELSE n
ShiftedRight(n, count, type) ==
  LET m == Typed(n, type) IN Word(IF count >= WordBits THEN IF m < 0 THEN -1 ELSE 0 ELSE m \div 2 ^ count)
ShiftedLeft(n, count) == IF count >= WordBits THEN 0 ELSE Word(n * 2 ^ count)
Compared(operand, a, b) ==
  CASE operand = "==" -> a = b
    [] operand = "!=" -> a # b
    [] operand = "<" -> a < b
    [] operand = "<=" -> a <= b
    [] operand = ">" -> a > b
    [] operand = ">=" -> a >= b
    [] OTHER -> FALSE
ComparisonOperands == {"==", "!=", "<", "<=", ">", ">="}

\* The value of an expression in a machine state with registers reg, memory
\* mem and local variables local.  Conditions are worth 1 or 0.
RECURSIVE Value(_, _), Location(_, _)
Value(e, m) ==
  LET operand(i) == Value(e.operands[i], m)
      each == [i \in DOMAIN e.operands |-> operand(i)]
  IN
  CASE e.type \in {"NUMERIC_CONSTANT", "FROZEN"} -> Word(e.number)
    [] e.type = "REGISTER" -> m.reg[e.name]
    [] e.type = "LOCAL_VARIABLE" -> m.local[e.name]
    [] e.type \in {"STACK_VARIABLE", "GLOBAL_VARIABLE", "POINTER"} -> m.mem[Location(e, m)]
    [] e.type = "ADDRESS" -> Location(e.operands[1], m)
    [] e.type = "ADDITION" -> Word(FoldLeft(LAMBDA x, y : x + y, 0, each))
    [] e.type = "MULTIPLICATION" -> Word(FoldLeft(LAMBDA x, y : Word(x * y), 1, each))
    \* The exponents that come about are numbers.
    [] e.type = "EXPONENTIATION" ->
         FoldLeft(LAMBDA x, i : Word(x * operand(1)), 1, [i \in 1 .. e.operands[2].number |-> i])
    [] e.type = "AND" -> FoldLeft(AndBits, Modulus - 1, each)
    [] e.type = "OR" -> FoldLeft(OrBits, 0, each)
    [] e.type = "XOR" -> FoldLeft(XorBits, 0, each)
    [] e.type = "NEGATION" -> Word(-operand(1))
    [] e.type = "LOGICAL_NOT" -> Modulus - 1 - operand(1)
    [] e.type = "SHIFT_RIGHT" -> ShiftedRight(operand(1), operand(2), e.name)
    [] e.type = "SHIFT_LEFT" -> ShiftedLeft(operand(1), operand(2))
    [] e.type = "DIVISION" -> Word(Quotient(Typed(operand(1), e.name), Typed(operand(2), e.name)))
    [] e.type = "REMAINDER" -> LET a == Typed(operand(1), e.name)
                                   b == Typed(operand(2), e.name) IN Word(a - b * Quotient(a, b))
    [] e.type = "TERNARY" -> IF operand(1) # 0 THEN operand(2) ELSE operand(3)
    [] e.type = "HIGHLEVEL_CONDITION" ->
         LET type == IF e.number = 1 THEN "unsigned" ELSE "signed"
         IN IF Compared(e.name, Typed(operand(1), type), Typed(operand(2), type)) THEN 1 ELSE 0

\* Where a memory location is.  A global variable with something added to it
\* is an array, which stands for its address.
Location(e, m) ==
  IF e.type \in {"STACK_VARIABLE", "GLOBAL_VARIABLE"} THEN e.number
  ELSE LET address == e.operands[1]
           asArray(x) == IF x.type = "GLOBAL_VARIABLE" THEN AddressExpression(x) ELSE x
       IN Value(IF address.type = "ADDITION" THEN Addition([i \in DOMAIN address.operands |-> asArray(address.operands[i])])
                ELSE address, m)
=============================================================================
