--------------------------- MODULE LiftedExecution ---------------------------
(***************************************************************************)
(* A straight piece of a program run twice: by the processor, and as the   *)
(* intermediate code that InstructionHandler makes of it, with the         *)
(* conditions that ConditionCodePropagation puts in.  Where the two are    *)
(* known to differ, `deviations` says why, and the run stops there.        *)
(*                                                                         *)
(* The intermediate code runs on registers, memory and local variables,    *)
(* on the registers st0 to st7, and on the definitions of the flags, with  *)
(* the comparison of the FPU whose flags AH holds.                         *)
(***************************************************************************)
EXTENDS ConditionCodePropagation, Processor

\* Each task has a sequence of sets, one instruction of each of which makes a
\* program, and the states the processor starts in.
CONSTANT Tasks

VARIABLES program,         \* the sets that the instructions are picked from
          cpu,             \* the processor
          ir,              \* the intermediate code's state
          steps,           \* the number of instructions run
          deviations       \* why the last instruction need not have the same effect

vars == <<program, cpu, ir, steps, deviations>>

-----------------------------------------------------------------------------
\* The execution of intermediate code.

RECURSIVE FloatValue(_, _)
FloatValue(e, m) ==
  CASE e.type = "REGISTER" -> m.st[e.number]
    [] e.type = "LOCAL_VARIABLE" -> m.flocal
    [] e.type \in {"GLOBAL_VARIABLE", "STACK_VARIABLE", "POINTER"} -> m.fmem[Location(e, m)]
    [] OTHER -> [e EXCEPT !.operands = [i \in DOMAIN @ |-> FloatValue(@[i], m)]]

\* What a flag macro keeps of an operand.
Kept(e, m) == IF e = NullExpression \/ e.type = "NUMERIC_CONSTANT" \/ IsAH(e) THEN e ELSE Frozen(e, Value(e, m))
FloatKept(e, m) == Node("FLOAT", <<FloatValue(e, m)>>, "", 0)

FloatCompared(operand, a, b) ==
  IF Unordered(a, b) THEN operand = "!=" ELSE Compared(operand, a.number, b.number)
Holds(e, m) ==
  IF e.operands[1].type = "FLOAT" THEN FloatCompared(e.name, e.operands[1].operands[1], e.operands[2].operands[1])
  ELSE Value(e, m) = 1

DefineFlags(m, macro, n) ==
  LET kept == IF macro.flagMacroType = "FCOMFLAGS"
              THEN [macro EXCEPT !.first = FloatKept(@, m), !.second = FloatKept(@, m)]
              ELSE [macro EXCEPT !.first = Kept(@, m), !.second = Kept(@, m), !.result = Kept(@, m)]
      fpu == IF IsAH(macro.first) THEN m.ah ELSE NullInstruction
  IN [m EXCEPT !.defs = [f \in macro.definedFlags |-> Definition(n, kept, fpu)] @@ @]

Stored(m, to, value) ==
  CASE to.type = "REGISTER" -> [m EXCEPT !.reg[to.name] = value]
    [] to.type = "LOCAL_VARIABLE" -> [m EXCEPT !.local[to.name] = value]
    [] OTHER -> [m EXCEPT !.mem[Location(to, m)] = value]
StoredFloat(m, to, t) ==
  CASE to.type = "REGISTER" -> [m EXCEPT !.st[to.number] = t]
    [] to.type = "LOCAL_VARIABLE" -> [m EXCEPT !.flocal = t]
    [] OTHER -> [m EXCEPT !.fmem[Location(to, m)] = t]

Assigned(m, assignment, n) ==
  LET to == assignment.to
      from == replaceLowLevelConditionInAssignment(assignment, m.defs).from
  IN CASE assignment.isFloat -> StoredFloat(m, to, FloatValue(from, m))
       [] from.type = "BIT_CONCATENATION" -> [m EXCEPT !.ah = m.defs["C0"].instruction]
       [] to.type = "BIT_CONCATENATION" ->
            [m EXCEPT !.defs = [f \in {"CF", "PF", "AF", "ZF", "SF"} |-> Definition(n, assignment, m.ah)] @@ @]
       [] from.type = "TERNARY" -> Stored(m, to, Value(from.operands[IF Holds(from.operands[1], m) THEN 2 ELSE 3], m))
       [] OTHER -> Stored(m, to, Value(from, m))

\* The C library's functions on strings.
Called(m, call) ==
  LET args == [i \in DOMAIN call.arguments |-> Value(call.arguments[i], m)]
      at(start, i) == m.mem[Cell(start, i)]
      within(start, a) == Word(a - start) < args[3]
  IN
  CASE call.function = "memcpy" ->
         [m EXCEPT !.mem = [a \in Words |-> IF within(args[1], a) THEN at(args[2], a - args[1]) ELSE @[a]]]
    [] call.function = "memset" -> [m EXCEPT !.mem = [a \in Words |-> IF within(args[1], a) THEN args[2] ELSE @[a]]]
    [] call.function = "memncmp" ->
         LET differ == {i \in 0 .. args[3] - 1 : at(args[1], i) # at(args[2], i)}
             i == Min(differ)
         IN Stored(m, call.returns[1],
                   IF differ = {} THEN 0 ELSE IF at(args[1], i) < at(args[2], i) THEN Modulus - 1 ELSE 1)
    [] call.function = "rotFunctionName" -> Stored(m, call.returns[1], args[1])
    [] OTHER -> Stored(m, call.returns[1], Callee(args))

Run(m, instruction, n) ==
  CASE instruction.type = "ASSIGNMENT" -> Assigned(m, instruction, n)
    [] instruction.type = "FLAG_MACRO" -> DefineFlags(m, instruction, n)
    [] instruction.type = "CALL" -> Called(m, instruction)
    [] instruction.type = "CONDITIONAL_JUMP" ->
         [m EXCEPT !.taken = {Holds(replaceLowLevelConditionInConditionalJump(instruction, m.defs).condition, m)}]
    [] OTHER -> m

RunAll(m, inst, n) == FoldLeft(LAMBDA x, instruction : Run(x, instruction, n), m, updateInstructionList(inst))

-----------------------------------------------------------------------------
\* Where the translation is known not to be exact.

Why(holds, reason) == IF holds THEN {reason} ELSE {}

\* Comparisons of NaN that come out right: by the flags of the CPU, and by a
\* mask on AH.
UnorderedIsRight ==
  {"Above", "Above_or_Equal"} \X {0}
    \cup {<<"Equal", 65>>, <<"Not_Parity", 65>>, <<"Equal", 5>>, <<"Not_Parity", 5>>, <<"Equal", 1>>, <<"Parity", 1>>,
          <<"Parity", 68>>, <<"Not_Parity", 68>>}

\* A condition on flags, and the comparison it is translated to.
ConditionDeviations(condition) ==
  LET branchType == condition.name
      definition == ir.defs[condition.operands[1].name]
      macro == definition.instruction
      translated == translateCondition(condition, ir.defs)
      isFloat == translated.operands[1].type = "FLOAT"
      mask == IF IsMacro(macro, "LOGICALFLAGS") THEN macro.second.number ELSE 0
      onResult == macro.result # NullExpression /\ ~ (branchType = "Below" /\ macro.first # NullExpression)
      ofStrings == onResult /\ macro.result.type = "FROZEN" /\ macro.result.operands[1] = StringResult
  IN
  IF \E f \in TestedFlags(condition) : ir.defs[f].id # cpu.setBy[f] THEN {"flags of another instruction"}
  ELSE IF translated = NullExpression \/ translated.name \notin ComparisonOperands THEN {"not translated"}
  ELSE IF isFloat
  THEN Why(Unordered(translated.operands[1].operands[1], translated.operands[2].operands[1])
             /\ <<branchType, mask>> \notin UnorderedIsRight, "NaN")
  ELSE CASE IsMacro(macro, "SUBFLAGS") ->
              Why(onResult /\ isUnsignedCompare(condition) /\ cpu.flag["CF"], "the difference is below zero")
                \cup Why(onResult /\ {"SF", "OF"} \subseteq TestedFlags(condition) /\ cpu.flag["OF"], "the difference overflows")
                \cup Why(~ onResult /\ TestedFlags(condition) = {"SF"} /\ cpu.flag["OF"], "the sign of the difference")
                \cup Why(ofStrings /\ branchType \notin {"Equal", "Not_Equal"}, "the order of strings")
         [] IsMacro(macro, "LOGICALFLAGS") ->
              Why(branchType \in {"Above_or_Equal", "Not_Overflow"}, "a flag that is clear")
                \cup Why(macro.result = NullExpression /\ ~ onlyTest_OF_CF(condition), "a test of two operands")
         [] IsMacro(macro, "NEGFLAGS") -> Why(branchType = "Above", "above after neg")
         [] OTHER -> {}

\* The registers in the address of an operand that the code keeps as a pointer.
AddressRegisters(operand) ==
  LET sib == operand.sib
      index == {sib.index} \ {"sp", ""}
  IN CASE operand.var # NotAVariable -> index
       [] hasSIB(operand) -> index \cup IF sib.based THEN {sib.base} ELSE {}
       [] operand.type = "o_displ" /\ ~ hasSIB(operand) -> {operand.reg}
       [] OTHER -> {}

OperandDeviations(inst, operand) ==
  LET sib == operand.sib
      isVariable == operand.var # NotAVariable
  IN IF ~ hasSIB(operand) THEN {}
     ELSE Why(~ isVariable /\ sib.based /\ sib.base = "bp", "the base of an address is dropped")
            \cup Why(~ isVariable /\ sib.index = "sp" /\ sib.base # "sp", "an address without an index")
            \cup Why(isVariable /\ sib.base = "sp" /\ sib.index # "sp", "the stack pointer counted twice")
            \cup Why(inst.itype = "lea" /\ operand.type = "o_mem", "lea reads memory")

UsesStackPointer(operand) == operand = o_reg("sp") \/ "sp" \in AddressRegisters(operand)

\* The second operand's address holds the register the first one overwrites.
Entangled(inst) == inst.operands[1].type = "o_reg" /\ inst.operands[1].reg \in AddressRegisters(inst.operands[2])

StringDeviations(inst) ==
  LET length == IF isREP_Prefix(inst) THEN cpu.reg["cx"] ELSE 1
      from == {Cell(cpu.reg["si"], i) : i \in 0 .. length - 1}
      to == {Cell(cpu.reg["di"], i) : i \in 0 .. length - 1}
  IN Why(inst.itype = "movs" /\ from \cap to # {}, "memcpy of areas that overlap")
       \cup Why(inst.itype = "cmps" /\ length > 0 /\ FirstMismatch(cpu, length) # length - 1, "a comparison that ends early")

ArithmeticDeviations(inst) ==
  LET second == inst.operands[2]
      type == SignOf(inst, "div")
      extended == IF type = "signed" /\ Signed(cpu.reg["ax"]) < 0 THEN Modulus - 1 ELSE 0
  IN
  CASE inst.itype \in {"sal", "shl", "sar", "shr"} -> Why(Read(cpu, second) >= WordBits, "a shift by the width")
    [] inst.itype \in {"rcl", "rcr", "rol", "ror"} -> {"a rotation"}
    [] inst.itype = "mul" -> Why((cpu.reg["ax"] * Read(cpu, second)) \div Modulus # cpu.reg["dx"], "the upper half of a product")
    [] inst.itype \in {"div", "idiv"} ->
         Why(cpu.reg["dx"] # extended, "a dividend of two words")
           \cup Why(second = o_reg("dx") \/ "dx" \in AddressRegisters(second), "the remainder overwrites the divisor")
    [] inst.itype = "and" -> Why(inst.operands[1] = o_reg("sp"), "the stack pointer is aligned")
    [] inst.itype = "sub" -> Why(Entangled(inst), "the subtrahend is read again")
    [] inst.itype = "cdq" -> Why(cpu.reg["dx"] # extended, "cdq")
    [] OTHER -> {}

TransferDeviations(inst) ==
  CASE inst.itype \in {"push", "pop"} -> Why(UsesStackPointer(inst.operands[1]), "an operand that uses the stack pointer")
    [] inst.itype = "xchg" -> Why(Entangled(inst), "the address changes during an exchange")
    [] inst.itype = "call" -> Why(inst.fallsThrough \/ inst.signature # inst.callee, "the callee's signature")
    [] inst.itype = "loop" -> {"the counter of a loop"}
    [] inst.itype \in {"enter", "leave", "scas"} -> {"not lifted"}
    [] inst.itype = "setcc" -> Why(inst.condition = "ae", "setae jumps")
    [] inst.itype \in {"fdivr", "fdivrp"} -> {"a reversed division"}
    [] inst.itype \in {"fisttp", "fist", "fistp", "fbstp"} -> {"a rounded number is stored"}
    [] OTHER -> {}

\* The conditions that an instruction tests.
Conditions(inst) ==
  CASE inst.itype \in {"jcc", "setcc"} -> {Condition[inst.condition]}
    [] inst.itype = "sbb" -> {Borrow}
    [] OTHER -> {}

Deviations(inst) ==
  UNION {OperandDeviations(inst, inst.operands[i]) : i \in DOMAIN inst.operands}
    \cup UNION {ConditionDeviations(condition) : condition \in Conditions(inst)}
    \cup (IF inst.itype \in Strings THEN StringDeviations(inst) ELSE {})
    \cup ArithmeticDeviations(inst) \cup TransferDeviations(inst)

-----------------------------------------------------------------------------
\* What the processor can run, and what IDA knows of it: an operand that it
\* shows as a stack variable is at that variable's address.

IsVariable(operand) ==
  operand.var # NotAVariable
    => operand.var = Word(operand.addr + cpu.reg[IF hasSIB(operand) THEN operand.sib.base ELSE operand.reg])

Tests(inst) == UNION {TestedFlags(condition) : condition \in Conditions(inst)}

FloatRuns(inst) ==
  LET uses(i) == i \in DOMAIN inst.operands /\ inst.operands[i].type = "o_fpreg"
      number(i) == inst.operands[i].type = "o_mem" \/ ReadFloat(cpu, inst.operands[i]).type \in {"NUMERIC_CONSTANT", "SYMBOLIC_CONSTANT"}
      takesTwo == {"fpatan", "fyl2x", "fyl2xp1", "fcompp"}
  IN /\ \A i \in 1 .. 2 : uses(i) => inst.operands[i].value < Len(cpu.st)
     /\ inst.itype \in FloatLoads \cup {"fptan", "fsincos"} => Len(cpu.st) < FPU_Registers_Num
     /\ inst.itype \in Floats \ (FloatLoads \cup {"sahf", "fnstsw"}) => cpu.st # <<>>
     /\ inst.itype \in takesTwo => Len(cpu.st) >= 2
     /\ inst.itype \in DOMAIN Comparisons => number(1) /\ number(2)
     /\ inst.itype = "ftst" => number(1)
     /\ inst.itype = "fnstsw" => \A f \in StatusFlags : cpu.setBy[f] # 0
     /\ inst.itype = "sahf" \/ TestsAH(inst) => cpu.ah # Unknown

Runs(inst) ==
  /\ \A i \in DOMAIN inst.operands : IsVariable(inst.operands[i])
  /\ \A f \in Tests(inst) : cpu.setBy[f] # 0
  /\ inst.itype \in {"div", "idiv"} => Divides(cpu, inst)
  /\ inst.itype \in Floats \/ TestsAH(inst) => FloatRuns(inst)

-----------------------------------------------------------------------------

Lifted(start) ==
  [reg |-> start.reg, mem |-> start.mem, fmem |-> start.fmem, taken |-> {}, ah |-> NullInstruction,
   local |-> [x \in {"tmp", "strcmp_result", "len"} |-> 0], flocal |-> Zero,
   st |-> [i \in 0 .. FPU_Registers_Num - 1 |-> IF i < Len(start.st) THEN start.st[i + 1] ELSE Zero],
   defs |-> [f \in CPUFlags \cup StatusFlags \cup {"AF"} |-> Undefined]]

Init ==
  /\ \E task \in Tasks : program = task.program /\ cpu \in task.starts
  /\ ir = Lifted(cpu)
  /\ steps = 0
  /\ deviations = {}

\* One instruction, run on both sides.
Step(inst) ==
  /\ deviations = {}
  /\ Runs(inst)
  /\ deviations' = Deviations(inst)
  /\ IF deviations' = {}
     THEN /\ cpu' = Execute(cpu, inst, steps + 1)
          /\ ir' = RunAll(ir, inst, steps + 1)
     ELSE UNCHANGED <<cpu, ir>>
  /\ steps' = steps + 1
  /\ UNCHANGED program

Next == steps < Len(program) /\ \E inst \in program[steps + 1] : Step(inst)

Spec == Init /\ [][Next]_vars

-----------------------------------------------------------------------------

\* The intermediate code leaves the registers, the memory and the stack of the
\* FPU as the processor does, whatever instructions were lifted, but for the
\* deviations.  The handlers assign one operand after the other, and one of
\* them may be read again after it was overwritten.
ComputesTheSame ==
  deviations = {} =>
    /\ ir.reg = cpu.reg
    /\ ir.mem = cpu.mem
    /\ ir.fmem = cpu.fmem
    /\ \A i \in 1 .. Len(cpu.st) : ir.st[i - 1] = cpu.st[i]

\* A conditional jump goes the same way: the comparison put in the place of the
\* flags is the one that the processor's flags stand for.
BranchesTheSame == deviations = {} => ir.taken = cpu.taken
=============================================================================
