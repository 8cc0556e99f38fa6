------------------------------ MODULE MCLifting ------------------------------
(***************************************************************************)
(* Words of three bits, which are also the addresses.  The programs set    *)
(* flags and test them, move data, use the stack, strings and the FPU.     *)
(***************************************************************************)
EXTENDS LiftedExecution

ax == o_reg("ax")
cx == o_reg("cx")
dx == o_reg("dx")
sp == o_reg("sp")
global == o_mem(1, NoSIB)
I(itype, operands) == Instruction(itype, operands)

Jcc == {[I("jcc", <<o_near(0)>>) EXCEPT !.condition = c] : c \in ConditionCodes}
Setcc == {[I("setcc", <<cx>>) EXCEPT !.condition = c] : c \in ConditionCodes}
Borrows == {I("sbb", <<ax, cx>>), I("sbb", <<ax, ax>>), I("sbb", <<ax, o_imm(3)>>)}

TwoOperands == {<<ax, cx>>, <<ax, ax>>, <<ax, o_imm(0)>>, <<ax, o_imm(3)>>, <<global, ax>>, <<ax, o_displ("ax", 0, NoSIB)>>}
Compute ==
  {I(itype, operands) : itype \in {"add", "sub", "and", "or", "xor", "cmp", "test"}, operands \in TwoOperands}
    \cup {I("or", <<ax, o_imm(Modulus - 1)>>)}
    \cup {I(itype, <<operand>>) : itype \in {"inc", "dec", "neg", "not"}, operand \in {ax, global}}
Products ==
  {I(itype, <<ax, operand>>) : itype \in {"mul", "imul", "div", "idiv"}, operand \in {cx, dx, global}}
    \cup {I("imul", <<ax, cx, o_imm(3)>>), I("cdq", <<>>)}
    \cup {I(itype, <<ax, count>>) : itype \in {"sal", "shl", "sar", "shr", "rol", "rcr"}, count \in {cx, o_imm(1)}}

Places ==
  {global, o_mem(1, SIB("bp", "cx", 1)), o_mem(2, IndexOnly("cx", 0)),
   o_displ("cx", 0, NoSIB), o_displ("cx", 3, NoSIB), o_displ("", 1, SIB("cx", "ax", 1)), o_displ("", 0, SIB("ax", "cx", 0)),
   o_displ("", 2, SIB("cx", "cx", 1)), o_displ("", 1, SIB("bp", "cx", 0)), o_displ("", 1, SIB("sp", "sp", 0)),
   o_displ("", 1, SIB("cx", "sp", 0)), StkVar(o_displ("bp", 1, NoSIB), 5), StkVar(o_displ("", 1, SIB("bp", "cx", 0)), 5),
   StkVar(o_displ("", 1, SIB("sp", "sp", 0)), 0), StkVar(o_displ("", 1, SIB("sp", "cx", 0)), 0)}
Moves ==
  {I("mov", <<ax, ax>>), I("mov", <<cx, o_imm(4)>>), I("xchg", <<ax, cx>>), I("nop", <<>>), I("leave", <<>>), I("jmp", <<o_near(0)>>)}
    \cup {I(itype, <<place, ax>>) : itype \in {"mov", "xchg"}, place \in Places}
    \cup {I(itype, <<cx, place>>) : itype \in {"mov", "lea", "xchg"}, place \in Places}
    \cup {I("jcxz", <<o_near(0)>>), I("loop", <<o_near(0)>>)}

NoArguments == [NoSignature EXCEPT !.known = TRUE]
InRegisters == [NoArguments EXCEPT !.registers = <<"cx">>]
OnStack == [NoArguments EXCEPT !.offsets = <<0, 1>>]
Purging == [OnStack EXCEPT !.purged = 2]
CallOf(known, actual) == [I("call", <<o_near(0)>>) EXCEPT !.signature = known, !.callee = actual]
Stack ==
  {I(itype, <<operand>>) : itype \in {"push", "pop"},
     operand \in {ax, cx, sp, global, o_displ("", 1, SIB("sp", "sp", 0)), StkVar(o_displ("bp", 1, NoSIB), 5)}}
    \cup {CallOf(s, s) : s \in {NoArguments, InRegisters, OnStack, Purging}}
    \cup {CallOf(NoArguments, Purging), [I("call", <<o_near(0)>>) EXCEPT !.fallsThrough = TRUE], I("retn", <<>>),
          I("and", <<sp, o_imm(6)>>)}

StringCodes ==
  {[I(itype, <<>>) EXCEPT !.prefix = p] : itype \in {"movs", "cmps", "stos", "scas"}, p \in {"", "rep"}}

Floating ==
  {I(itype, <<o_fpreg(0), operand>>) : itype \in FloatArithmetic \cup {"fld", "fst", "fstp", "fxch"},
     operand \in {o_fpreg(0), o_fpreg(2)}}
    \cup {I(itype, <<o_fpreg(0), global>>) : itype \in {"fadd", "fsub", "fild", "fst", "fstp", "fisttp", "fist", "fcomp"}}
    \cup {I(itype, <<o_fpreg(1), o_fpreg(0)>>) : itype \in FloatArithmeticP \cup {"fpatan"}}
    \cup {I(itype, <<o_fpreg(0)>>) : itype \in DOMAIN FloatConstants \cup DOMAIN FloatFunctions
                                               \cup {"f2xm1", "fchs", "fptan", "fsincos", "fyl2x", "fyl2xp1", "ftst"}}
    \cup {I(itype, <<o_fpreg(0), o_fpreg(1)>>) : itype \in DOMAIN Comparisons}
FloatComparisons == {inst \in Floating : inst.itype \in DOMAIN Comparisons \cup {"ftst"}}
Masks == {I("test", <<o_reg("ah"), o_imm(mask)>>) : mask \in {65, 5, 1, 64, 68, 4}}

Numerals == {Zero, One, NaN}
Machine(a, c, d, stack) ==
  [reg |-> [ax |-> a, cx |-> c, dx |-> d, sp |-> 7, bp |-> 4, si |-> 2, di |-> 5],
   mem |-> [i \in Words |-> IF i = 3 THEN 6 ELSE i % 3],
   fmem |-> [i \in Words |-> IF i = 1 THEN One ELSE Zero],
   flag |-> [f \in CPUFlags \cup StatusFlags |-> FALSE],
   setBy |-> [f \in CPUFlags \cup StatusFlags |-> 0],
   st |-> stack, ah |-> Unknown, taken |-> {}]
Integral(as, cs, ds) == {Machine(a, c, d, <<>>) : a \in as, c \in cs, d \in ds}
Float == {Machine(0, 0, 0, <<a, b, One>>) : a \in Numerals, b \in {Zero, NaN}}

Task(sets, starts) == [program |-> sets, starts |-> starts]
MCTasks ==
  {Task(<<Compute, Jcc \cup Setcc \cup Borrows>>, Integral(Words, {0, 1, 3, 4, 6}, {0})),
   Task(<<Compute, {inst \in Compute : inst.itype \in {"inc", "dec", "not"}} \cup Borrows, Jcc>>, Integral({0, 3, 4, 7}, {1, 6}, {0})),
   Task(<<Products, Products, Jcc>>, Integral({1, 4, 6, 7}, {0, 2, 7}, {0, 7})),
   Task(<<Moves, Moves \cup Stack>>, Integral({1, 4, 6}, {0, 2, 5}, {0})),
   Task(<<Stack, Stack, Stack \cup Moves>>, Integral({5}, {3}, {0})),
   Task(<<StringCodes, StringCodes \cup Moves, Jcc>>, Integral({1, 7}, {0, 1, 2, 4}, {0})),
   Task(<<Floating, Floating>>, Float),
   Task(<<FloatComparisons, {I("fnstsw", <<ax>>)}, Masks \cup {I("sahf", <<>>)}, Jcc>>, Float)}
=============================================================================
