------------------------------ MODULE Processor ------------------------------
(***************************************************************************)
(* What the processor does with an instruction.  This is not code of the   *)
(* repository but what its translation is held against.  The state of the  *)
(* processor has the registers, the memory, the flags with the number of   *)
(* the instruction that wrote each of them last, the stack of the FPU      *)
(* (its top is the first element, numbers are symbolic terms), memory that *)
(* holds such numbers, the bits of the FPU's status word in AH, and        *)
(* whether a jump was taken.  Flags that an instruction leaves undefined   *)
(* or that no run tests are only marked as written.                        *)
(***************************************************************************)
EXTENDS InstructionDecoding

NaN == SymbolicConstant("NaN")
StatusFlags == {"C0", "C2", "C3"}
CPUFlags == {"CF", "ZF", "SF", "OF", "PF"}
Unknown == {"unknown"}

SIBAddress(cpu, sib) ==
  (IF sib.based THEN cpu.reg[sib.base] ELSE 0) + IF sib.index = "sp" THEN 0 ELSE cpu.reg[sib.index] * 2 ^ sib.scale
Address(cpu, operand) ==
  Word(operand.addr + CASE hasSIB(operand) -> SIBAddress(cpu, operand.sib)
                        [] ~ hasSIB(operand) /\ operand.type = "o_displ" -> cpu.reg[operand.reg]
                        [] OTHER -> 0)
Read(cpu, operand) ==
  CASE operand.type = "o_reg" -> cpu.reg[operand.reg]
    [] operand.type = "o_imm" -> Word(operand.value)
    [] OTHER -> cpu.mem[Address(cpu, operand)]
Written(cpu, operand, value) ==
  IF operand.type = "o_reg" THEN [cpu EXCEPT !.reg[operand.reg] = value]
  ELSE [cpu EXCEPT !.mem[Address(cpu, operand)] = value]

\* The values that some flags get.  Marked flags have a value nobody knows.
WithFlags(cpu, n, values) ==
  [cpu EXCEPT !.flag = values @@ @, !.setBy = [f \in DOMAIN values |-> n] @@ @]
Marked(cpu, n) == WithFlags(cpu, n, [f \in CPUFlags |-> FALSE])

EvenParity(v) == FoldLeft(LAMBDA x, i : x + ((v \div 2 ^ (i - 1)) % 2), 0, [i \in 1 .. WordBits |-> i]) \in {n \in 0 .. WordBits : n % 2 = 0}
ResultFlags(v) == [ZF |-> v = 0, SF |-> Signed(v) < 0, PF |-> EvenParity(v)]
Representable(n) == n \in -(Modulus \div 2) .. Modulus \div 2 - 1
SumFlags(a, b) ==
  ResultFlags(Word(a + b)) @@ [CF |-> a + b >= Modulus, OF |-> ~ Representable(Signed(a) + Signed(b))]
DifferenceFlags(a, b, borrow) ==
  ResultFlags(Word(a - b - borrow))
    @@ [CF |-> a < b + borrow, OF |-> ~ Representable(Signed(a) - Signed(b) - borrow)]
LogicalFlags(v) == ResultFlags(v) @@ [CF |-> FALSE, OF |-> FALSE]
ButCarry(flags) == [f \in DOMAIN flags \ {"CF"} |-> flags[f]]

Taken(code, flag) ==
  CASE code = "a" -> ~ flag["CF"] /\ ~ flag["ZF"]
    [] code = "ae" -> ~ flag["CF"]
    [] code = "b" -> flag["CF"]
    [] code = "be" -> flag["CF"] \/ flag["ZF"]
    [] code = "e" -> flag["ZF"]
    [] code = "ne" -> ~ flag["ZF"]
    [] code = "g" -> ~ flag["ZF"] /\ flag["SF"] = flag["OF"]
    [] code = "ge" -> flag["SF"] = flag["OF"]
    [] code = "l" -> flag["SF"] # flag["OF"]
    [] code = "le" -> flag["ZF"] \/ flag["SF"] # flag["OF"]
    [] code = "o" -> flag["OF"]
    [] code = "no" -> ~ flag["OF"]
    [] code = "p" -> flag["PF"]
    [] code = "np" -> ~ flag["PF"]
    [] code = "s" -> flag["SF"]
    [] code = "ns" -> ~ flag["SF"]

-----------------------------------------------------------------------------

\* What a called function returns, whatever it does with its arguments.
Callee(arguments) == Word(FoldLeft(LAMBDA x, y : 3 * x + y, 1, arguments))

Dividend(cpu, type) ==
  IF type = "signed" THEN Signed(cpu.reg["dx"]) * Modulus + cpu.reg["ax"] ELSE cpu.reg["dx"] * Modulus + cpu.reg["ax"]
Divides(cpu, inst) ==
  LET type == SignOf(inst, "div")
      divisor == Typed(Read(cpu, inst.operands[2]), type)
  IN divisor # 0 /\ LET q == Quotient(Dividend(cpu, type), divisor)
                    IN IF type = "signed" THEN Representable(q) ELSE q \in Words

Pushed(cpu, value) == LET sp == Word(cpu.reg["sp"] - 1)
                      IN [cpu EXCEPT !.reg["sp"] = sp, !.mem[sp] = value]

\* The first operand is overwritten with a value, and the flags are set.
Arithmetic(cpu, inst, n) ==
  LET a == Read(cpu, inst.operands[1])
      b == Read(cpu, inst.operands[2])
      borrow == IF cpu.flag["CF"] THEN 1 ELSE 0
      count == b % WordBits
      result(v, flags) == WithFlags(Written(cpu, inst.operands[1], v), n, flags)
      unary(v) == Written(cpu, inst.operands[1], v)
  IN
  CASE inst.itype = "add" -> result(Word(a + b), SumFlags(a, b))
    [] inst.itype = "sub" -> result(Word(a - b), DifferenceFlags(a, b, 0))
    [] inst.itype = "sbb" -> result(Word(a - b - borrow), DifferenceFlags(a, b, borrow))
    [] inst.itype = "cmp" -> WithFlags(cpu, n, DifferenceFlags(a, b, 0))
    [] inst.itype = "and" -> result(AndBits(a, b), LogicalFlags(AndBits(a, b)))
    [] inst.itype = "or" -> result(OrBits(a, b), LogicalFlags(OrBits(a, b)))
    [] inst.itype = "xor" -> result(XorBits(a, b), LogicalFlags(XorBits(a, b)))
    [] inst.itype = "test" -> WithFlags(cpu, n, LogicalFlags(AndBits(a, b)))
    [] inst.itype = "inc" -> result(Word(a + 1), ButCarry(SumFlags(a, 1)))
    [] inst.itype = "dec" -> result(Word(a - 1), ButCarry(DifferenceFlags(a, 1, 0)))
    [] inst.itype = "neg" -> result(Word(-a), DifferenceFlags(0, a, 0))
    [] inst.itype = "not" -> unary(Modulus - 1 - a)
    [] inst.itype \in {"sal", "shl"} -> Marked(unary(ShiftedLeft(a, count)), n)
    [] inst.itype = "sar" -> Marked(unary(ShiftedRight(a, count, "signed")), n)
    [] inst.itype = "shr" -> Marked(unary(ShiftedRight(a, count, "unsigned")), n)
    [] inst.itype = "imul" -> Marked(unary(Word(IF Len(inst.operands) = 2 THEN a * b ELSE b * Read(cpu, inst.operands[3]))), n)
    [] inst.itype = "mul" -> Marked([cpu EXCEPT !.reg["ax"] = Word(a * b), !.reg["dx"] = (a * b) \div Modulus], n)
    [] inst.itype \in {"div", "idiv"} ->
         LET type == SignOf(inst, "div")
             q == Quotient(Dividend(cpu, type), Typed(b, type))
         IN Marked([cpu EXCEPT !.reg["ax"] = Word(q), !.reg["dx"] = Word(Dividend(cpu, type) - q * Typed(b, type))], n)

Transfer(cpu, inst, n) ==
  LET first == inst.operands[1]
      second == inst.operands[2]
      sp == cpu.reg["sp"]
  IN
  CASE inst.itype = "mov" -> Written(cpu, first, Read(cpu, second))
    [] inst.itype = "lea" -> Written(cpu, first, Address(cpu, second))
    [] inst.itype = "xchg" ->
         LET stored == Written(cpu, second, Read(cpu, first))
         IN IF first.type = "o_reg" THEN Written(stored, first, Read(cpu, second))
            ELSE [stored EXCEPT !.mem[Address(cpu, first)] = Read(cpu, second)]
    [] inst.itype = "push" -> Pushed(cpu, Read(cpu, first))
    [] inst.itype = "pop" -> Written([cpu EXCEPT !.reg["sp"] = Word(sp + 1)], first, cpu.mem[sp])
    [] inst.itype = "setcc" -> Written(cpu, first, IF Taken(inst.condition, cpu.flag) THEN 1 ELSE 0)
    [] inst.itype = "cdq" -> [cpu EXCEPT !.reg["dx"] = IF Signed(cpu.reg["ax"]) < 0 THEN Modulus - 1 ELSE 0]
    [] inst.itype = "call" ->
         LET actual == inst.callee
             inRegisters == [i \in DOMAIN actual.registers |-> cpu.reg[actual.registers[i]]]
             onStack == [i \in DOMAIN actual.offsets |-> cpu.mem[Word(sp + actual.offsets[i])]]
         IN [cpu EXCEPT !.reg["ax"] = Callee(inRegisters \o onStack), !.reg["sp"] = Word(sp + actual.purged)]
    [] inst.itype \in {"nop", "jmp", "retn"} -> cpu

\* The string instructions go upwards.
Cell(start, i) == Word(start + i)
FirstMismatch(cpu, length) ==
  LET differ == {i \in 0 .. length - 1 : cpu.mem[Cell(cpu.reg["si"], i)] # cpu.mem[Cell(cpu.reg["di"], i)]}
  IN IF differ = {} THEN length - 1 ELSE Min(differ)
RECURSIVE Copied(_, _, _, _)
Copied(mem, to, from, count) ==
  IF count = 0 THEN mem ELSE Copied([mem EXCEPT ![to] = mem[from]], Cell(to, 1), Cell(from, 1), count - 1)
StringInstruction(cpu, inst, n) ==
  LET repeated == isREP_Prefix(inst)
      si == cpu.reg["si"]
      di == cpu.reg["di"]
      length == IF repeated THEN cpu.reg["cx"] ELSE 1
      compared == IF length = 0 THEN 0 ELSE FirstMismatch(cpu, length) + 1
      moved(count, both) ==
        [cpu EXCEPT !.reg["di"] = Cell(di, count), !.reg["si"] = IF both THEN Cell(si, count) ELSE si,
                    !.reg["cx"] = IF repeated THEN @ - count ELSE @]
  IN
  CASE inst.itype = "movs" -> [moved(length, TRUE) EXCEPT !.mem = Copied(@, di, si, length)]
    [] inst.itype = "stos" ->
         [moved(length, FALSE) EXCEPT !.mem = [a \in Words |-> IF \E i \in 0 .. length - 1 : a = Cell(di, i)
                                                              THEN cpu.reg["ax"] ELSE cpu.mem[a]]]
    [] inst.itype = "cmps" /\ length = 0 -> cpu
    [] inst.itype = "cmps" /\ length > 0 ->
         WithFlags(moved(compared, TRUE), n,
                   DifferenceFlags(cpu.mem[Cell(si, compared - 1)], cpu.mem[Cell(di, compared - 1)], 0))

Branch(cpu, inst) ==
  CASE inst.itype = "jcc" -> [cpu EXCEPT !.taken = {Taken(inst.condition, cpu.flag)}]
    [] inst.itype = "jcxz" -> [cpu EXCEPT !.taken = {cpu.reg["cx"] = 0}]
    [] inst.itype = "loop" ->
         [cpu EXCEPT !.reg["cx"] = Word(@ - 1), !.taken = {Word(cpu.reg["cx"] - 1) # 0}]

-----------------------------------------------------------------------------

\* Numbers of the FPU.
ReadFloat(cpu, operand) == IF operand.type = "o_fpreg" THEN cpu.st[operand.value + 1] ELSE cpu.fmem[Address(cpu, operand)]
WrittenFloat(cpu, operand, t) ==
  IF operand.type = "o_fpreg" THEN [cpu EXCEPT !.st[operand.value + 1] = t]
  ELSE [cpu EXCEPT !.fmem[Address(cpu, operand)] = t]
PushedFloat(cpu, t) == [cpu EXCEPT !.st = <<t>> \o @]
PoppedFloat(cpu, n) == [cpu EXCEPT !.st = SubSeq(@, n + 1, Len(@))]
Top(cpu, t) == [cpu EXCEPT !.st[1] = t]

Unordered(a, b) == NaN \in {a, b}
Status(a, b) ==
  IF Unordered(a, b) THEN StatusFlags
  ELSE IF a.number < b.number THEN {"C0"} ELSE IF a = b THEN {"C3"} ELSE {}
CompareFloat(cpu, a, b, setEFLAGS, n) ==
  LET status == Status(a, b)
  IN IF setEFLAGS
     THEN WithFlags(cpu, n, [CF |-> "C0" \in status, PF |-> "C2" \in status, ZF |-> "C3" \in status])
     ELSE WithFlags(cpu, n, [f \in StatusFlags |-> f \in status])

FloatOperation(a, b, itype) ==
  CASE itype \in {"fadd", "faddp"} -> Addition(<<a, b>>)
    [] itype \in {"fmul", "fmulp"} -> Multiplication(<<a, b>>)
    [] itype \in {"fsub", "fsubp"} -> Addition(<<a, Negation(b)>>)
    [] itype \in {"fsubr", "fsubrp"} -> Addition(<<b, Negation(a)>>)
    [] itype \in {"fdiv", "fdivp"} -> Division(a, b, "signed")
    [] itype \in {"fdivr", "fdivrp"} -> Division(b, a, "signed")
FloatFunctions == [fabs |-> "ABS", fcos |-> "COS", fsin |-> "SIN", frndint |-> "RNDINT"]
FloatArithmetic == {"fadd", "fmul", "fsub", "fsubr", "fdiv", "fdivr"}
FloatArithmeticP == {"faddp", "fmulp", "fsubp", "fsubrp", "fdivp", "fdivrp"}

FloatInstruction(cpu, inst, n) ==
  LET a == ReadFloat(cpu, inst.operands[1])
      b == ReadFloat(cpu, inst.operands[2])
      top == cpu.st[1]
      next == cpu.st[2]
      binary == WrittenFloat(cpu, inst.operands[1], FloatOperation(a, b, inst.itype))
      under(t) == PoppedFloat([cpu EXCEPT !.st[2] = t], 1)
  IN
  CASE inst.itype \in FloatArithmetic -> binary
    [] inst.itype \in FloatArithmeticP -> PoppedFloat(binary, 1)
    [] inst.itype \in DOMAIN FloatFunctions -> Top(cpu, MathFunction(FloatFunctions[inst.itype], top))
    [] inst.itype = "fchs" -> Top(cpu, Negation(top))
    [] inst.itype = "f2xm1" -> Top(cpu, Addition(<<MathFunction("TWO_X", top), MinusOne>>))
    [] inst.itype \in DOMAIN Comparisons ->
         PoppedFloat(CompareFloat(cpu, a, b, Comparisons[inst.itype][1], n), Comparisons[inst.itype][2])
    [] inst.itype = "ftst" -> CompareFloat(cpu, top, Zero, FALSE, n)
    [] inst.itype \in {"fld", "fild"} -> PushedFloat(cpu, b)
    [] inst.itype \in DOMAIN FloatConstants -> PushedFloat(cpu, FloatConstants[inst.itype])
    [] inst.itype = "fst" -> WrittenFloat(cpu, inst.operands[2], top)
    [] inst.itype = "fstp" -> PoppedFloat(WrittenFloat(cpu, inst.operands[2], top), 1)
    [] inst.itype = "fisttp" -> PoppedFloat(WrittenFloat(cpu, inst.operands[2], MathFunction("TRUNCATE", top)), 1)
    [] inst.itype = "fist" -> WrittenFloat(cpu, inst.operands[2], MathFunction("RNDINT", top))
    [] inst.itype \in {"fistp", "fbstp"} -> PoppedFloat(WrittenFloat(cpu, inst.operands[2], MathFunction("RNDINT", top)), 1)
    [] inst.itype = "fxch" -> WrittenFloat(Top(cpu, b), inst.operands[2], top)
    [] inst.itype = "fpatan" -> under(MathFunction("ARCTAN", Division(next, top, "signed")))
    [] inst.itype = "fyl2x" -> under(Multiplication(<<next, MathFunction("LOG_2", top)>>))
    [] inst.itype = "fyl2xp1" -> under(Multiplication(<<next, MathFunction("LOG_2", Addition(<<top, One>>))>>))
    [] inst.itype = "fptan" -> PushedFloat(Top(cpu, MathFunction("TAN", top)), One)
    [] inst.itype = "fsincos" -> PushedFloat(Top(cpu, MathFunction("SIN", top)), MathFunction("COS", top))
    \* AX itself is left alone: no run looks at the status word as a number.
    [] inst.itype = "fnstsw" -> [cpu EXCEPT !.ah = {f \in StatusFlags : cpu.flag[f]}]
    [] inst.itype = "sahf" ->
         WithFlags(cpu, n, [CF |-> "C0" \in cpu.ah, PF |-> "C2" \in cpu.ah, ZF |-> "C3" \in cpu.ah])

\* test ah, mask.
TestsAH(inst) == inst.itype = "test" /\ inst.operands[1] = o_reg("ah")
Masked(mask) == {f \in StatusFlags : LET bit == [C0 |-> 1, C2 |-> 4, C3 |-> 64][f] IN ((mask \div bit) % 2) = 1}
TestAH(cpu, inst, n) ==
  LET bits == cpu.ah \cap Masked(inst.operands[2].value)
  IN WithFlags(cpu, n, [CF |-> FALSE, OF |-> FALSE, SF |-> FALSE, ZF |-> bits = {}, PF |-> Cardinality(bits) \in {0, 2}])

Strings == {"movs", "cmps", "stos"}
Branches == {"jcc", "jcxz", "loop"}
Arithmetics ==
  {"add", "sub", "sbb", "cmp", "and", "or", "xor", "test", "inc", "dec", "neg", "not", "sal", "shl", "sar", "shr",
   "imul", "mul", "div", "idiv"}
Floats == (FloatFirst \cup FloatLoads \cup FloatLast \cup {"sahf"})

Execute(cpu, inst, n) ==
  CASE TestsAH(inst) -> TestAH(cpu, inst, n)
    [] inst.itype \in Arithmetics /\ ~ TestsAH(inst) -> Arithmetic(cpu, inst, n)
    [] inst.itype \in Strings -> StringInstruction(cpu, inst, n)
    [] inst.itype \in Branches -> Branch(cpu, inst)
    [] inst.itype \in Floats -> FloatInstruction(cpu, inst, n)
    [] OTHER -> Transfer(cpu, inst, n)
=============================================================================
