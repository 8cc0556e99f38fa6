-------------------------- MODULE MCSimplification --------------------------
(***************************************************************************)
(* Words of four bits.  A first definition is made from two unknown        *)
(* variables, a second one from the first and an unknown one, and an       *)
(* instruction uses both.  The expressions are those that instructions are *)
(* lifted to.                                                              *)
(***************************************************************************)
EXTENDS ExpressionRewriting

x == Register("x")
y == Register("y")
a == Register("a")
b == Register("b")
C(n) == NumericConstant(n)
And(s) == Node("AND", s, "", 0)
Or(s) == Node("OR", s, "", 0)
Xor(s) == Node("XOR", s, "", 0)
Below(e, f) == HighLevelCondition("<", e, f, TRUE)
Equal(e, f) == HighLevelCondition("==", e, f, FALSE)
Cell(e) == PointerExp(Addition(<<e, C(1)>>))
RightShift(e, type) == Shift(e, C(1), type, TRUE)

\* Of one variable: mov, neg, not, add, sub, imul, and, or, xor, sar, shr, lea.
OfOne(e) ==
  {C(-1), C(3), Negation(e), LogicalNot(e), Addition(<<e, C(2)>>), Multiplication(<<e, C(3)>>), And(<<e, C(6)>>),
   Or(<<e, C(5)>>), RightShift(e, "signed"), RightShift(e, "unsigned"), Cell(e)}
\* Of two: add, sub, imul, and, or, xor, setcc, sbb.
OfTwo(e, f) ==
  {Addition(<<e, f>>), Addition(<<e, Negation(f)>>), Multiplication(<<e, f>>), And(<<e, f>>), Or(<<e, f>>), Xor(<<e, f>>),
   Ternary(Equal(e, f), C(1), C(0)), Ternary(Below(e, f), Addition(<<f, MinusOne>>), f)}

First == {Assignment(a, e) : e \in OfOne(x) \cup OfTwo(x, y) \cup {AddressExpression(StackVariable(2))}}
Second ==
  {Assignment(b, e) :
     e \in OfOne(a) \cup OfTwo(a, x) \cup OfTwo(x, a)
             \cup {Multiplication(<<a, a>>), Addition(<<Multiplication(<<x, C(2)>>), a>>), RightShift(x, "signed")}}
Users ==
  {Assignment(Register("c"), e) : e \in OfTwo(a, b) \cup OfTwo(b, a) \cup {Multiplication(<<b, b>>)}}
    \cup {Assignment(Register("c"), e) : e \in {Xor(<<b, a, x>>), Division(b, C(3), "signed"), And(<<b, LogicalNot(a)>>)}}
    \cup {Return(Negation(b)), ConditionalJump(Below(b, a)), ConditionalJump(Equal(Addition(<<a, Negation(b)>>), C(3))),
          Assignment(Cell(b), LogicalNot(a)), Assignment(PointerExp(Addition(<<b, Multiplication(<<a, C(2)>>), C(-1)>>)), b),
          Call(b, <<a, Negation(b), Or(<<b, LogicalNot(a)>>)>>)}

MCTasks == {<<First, Second, Users>>}

Memory == [i \in Words |-> Word(5 * i + 3)]
MCValuations == {[reg |-> [x |-> v[1], y |-> v[2]], mem |-> Memory] : v \in {<<3, 5>>, <<14, 9>>, <<6, 6>>}}
=============================================================================
