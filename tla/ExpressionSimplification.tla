---------------------- MODULE ExpressionSimplification ----------------------
(***************************************************************************)
(* What becomes of an expression when a variable in it is replaced by its  *)
(* definition (replaceChildExpression) and the result is simplified        *)
(* (simplifyExpression).  Variables and constants have no types here but   *)
(* for the signs of shifts, divisions and comparisons, and numbers are     *)
(* whole (the code's `value` is an int).                                   *)
(***************************************************************************)
EXTENDS Expressions

MinusOne == NumericConstant(-1)
Zero == NumericConstant(0)
One == NumericConstant(1)

\* Where the code goes wrong: it crashes, or what it makes is worth something
\* else.  Simplification ends at the first such place, and what stands for the
\* result is the place.
Deviating(why) == Node("DEVIATION", <<>>, why, 0)
Crash == Deviating("a null pointer")

\* A number out of the range of int has no defined value.
Constant(n) ==
  IF n \in -(Modulus \div 2) .. Modulus \div 2 - 1 THEN NumericConstant(n) ELSE Deviating("out of range")
IsConstant(e) == e.type = "NUMERIC_CONSTANT"
AreConstants(a, b) == IsConstant(a) /\ IsConstant(b)

RECURSIVE Subterms(_)
Subterms(e) == {e} \cup UNION {Subterms(e.operands[i]) : i \in DOMAIN e.operands}
DeviationsIn(e) == {t.name : t \in {u \in Subterms(e) : u.type = "DEVIATION"}}

AssociativeCommutative == {"ADDITION", "MULTIPLICATION", "AND", "OR", "XOR"}

-----------------------------------------------------------------------------
\* Equality of expressions.

\* getExpressionString tells operands and operators, but not their signs.
RECURSIVE Text(_)
Text(e) ==
  LET typed == e.type \in {"SHIFT_LEFT", "SHIFT_RIGHT", "DIVISION", "REMAINDER"}
  IN [e EXCEPT !.operands = [i \in DOMAIN @ |-> Text(@[i])],
               !.name = IF typed THEN "" ELSE @,
               !.number = IF e.type = "HIGHLEVEL_CONDITION" THEN 0 ELSE @]
\* Signed and unsigned operations that read the same.
Misread(a, b) == \E s \in Subterms(a), t \in Subterms(b) : s # t /\ Text(s) = Text(t)

RECURSIVE Equals(_, _), SameOperands(_, _)
Equals(a, b) ==
  /\ a.type = b.type
  /\ IF a.type \in AssociativeCommutative THEN SameOperands(a.operands, b.operands) ELSE Text(a) = Text(b)
\* In any order.
SameOperands(s, t) ==
  IF s = <<>> THEN t = <<>>
  ELSE LET found == {j \in DOMAIN t : Equals(s[1], t[j])}
       IN found # {} /\ SameOperands(Tail(s), RemoveAt(t, Min(found)))

-----------------------------------------------------------------------------
\* How two operands of an associative operation are merged.

Merge(kind, first, second) == [kind |-> kind, first |-> first, second |-> second]
Keep(a, b) == Merge("keep", a, b)
MergeTo(e) == Merge("merge", e, NullExpression)
\* The whole expression is e.
EndWith(e) == Merge("return", e, NullExpression)
\* The operand after the second one is passed over.
MergeAndSkip(e) == Merge("skip", e, NullExpression)

Operation(type, m, n) ==
  CASE type = "ADDITION" -> m + n
    [] type = "MULTIPLICATION" -> m * n
    [] type = "AND" -> Signed(AndBits(Word(m), Word(n)))
    [] type = "OR" -> Signed(OrBits(Word(m), Word(n)))
    [] type = "XOR" -> Signed(XorBits(Word(m), Word(n)))
Neutral(type) == CASE type = "MULTIPLICATION" -> 1 [] type = "AND" -> -1 [] OTHER -> 0
TotalConstantValue(type, operands) ==
  FoldLeft(LAMBDA n, e : IF IsConstant(e) THEN Operation(type, n, e.number) ELSE n, Neutral(type), operands)
RemoveConstantOperands(operands) == SelectSeq(operands, LAMBDA e : ~ IsConstant(e))
Joined(type, operands) == IF Len(operands) = 1 THEN operands[1] ELSE Node(type, operands, "", 0)

combineConstants(type, operands) ==
  LET total == TotalConstantValue(type, operands)
      rest == RemoveConstantOperands(operands)
      inFront == type \in {"MULTIPLICATION", "AND"}
  IN IF total = 0 /\ inFront THEN Zero
     ELSE IF rest = <<>> THEN Constant(total)
     ELSE IF total = Neutral(type) THEN Joined(type, rest)
     ELSE Node(type, IF inFront THEN <<Constant(total)>> \o rest ELSE Append(rest, Constant(total)), "", 0)

Sign(e) == IF e.type = "NEGATION" THEN -1 ELSE 1
Unnegated(e) == IF e.type = "NEGATION" THEN e.operands[1] ELSE e

\* The constant is added to the arms of a conditional expression, and stays as 0.
AddToArms(a, b) ==
  LET variable == IF IsConstant(a) THEN b ELSE a
      constant == IF IsConstant(a) THEN a ELSE b
      ternary == Unnegated(variable)
      arm(i) == Constant(ternary.operands[i].number + constant.number)
      changed == [ternary EXCEPT !.operands = <<@[1], arm(2), arm(3)>>]
      sum == IF variable = ternary THEN changed ELSE Negation(changed)
  IN IF ~ (ternary.type = "TERNARY" /\ IsConstant(constant) /\ AreConstants(ternary.operands[2], ternary.operands[3]))
     THEN Keep(a, b)
     ELSE IF variable # ternary /\ constant.number # 0 THEN EndWith(Deviating("the sign of a conditional expression"))
     ELSE IF IsConstant(a) THEN Keep(Zero, sum) ELSE Keep(sum, Zero)

canMergeWithMultiplicationExpression(product, e) ==
  LET rest == RemoveConstantOperands(product.operands) IN Len(rest) = 1 /\ Equals(e, rest[1])

\* c * e plus or minus e.  A simplified product has its constant in front.
AdditionOfOperandAndMultiplication(product, sign) ==
  LET n == product.operands[1].number + sign
      rest == Tail(product.operands)
  IN IF n = 0 THEN Zero
     ELSE IF n = 1 THEN Joined("MULTIPLICATION", rest)
     ELSE Multiplication(<<Constant(n)>> \o rest)

\* The sign of the second product only is looked at.
AdditionOfTwoMultiplications(a, b, signA, signB) ==
  LET constant(e) == TotalConstantValue("MULTIPLICATION", e.operands)
      rest == RemoveConstantOperands(a.operands)
      total == constant(a) + signB * constant(b)
  IN IF total # signA * constant(a) + signB * constant(b) THEN Deviating("the sign of a product")
     ELSE IF total = 0 THEN Zero
     ELSE IF total = 1 THEN Joined("MULTIPLICATION", rest)
     ELSE IF total = -1 /\ Len(rest) = 1 THEN Negation(rest[1])
     ELSE Multiplication(<<Constant(total)>> \o rest)

MergeInAddition(a, b) ==
  LET x == Unnegated(a)
      y == Unnegated(b)
      types == {x.type, y.type}
  IN
  IF types = {"NUMERIC_CONSTANT"}
  THEN MergeTo(IF AreConstants(a, b) THEN Constant(a.number + b.number) ELSE Deviating("a negated constant"))
  ELSE IF types = {"TERNARY", "NUMERIC_CONSTANT"} THEN AddToArms(a, b)
  ELSE IF types = {"MULTIPLICATION"}
  THEN IF Equals(Multiplication(RemoveConstantOperands(x.operands)), Multiplication(RemoveConstantOperands(y.operands)))
       THEN MergeTo(AdditionOfTwoMultiplications(x, y, Sign(a), Sign(b)))
       ELSE Keep(a, b)
  ELSE IF x.type = "MULTIPLICATION"
  THEN IF canMergeWithMultiplicationExpression(x, y)
       THEN MergeTo(IF x = a THEN AdditionOfOperandAndMultiplication(a, Sign(b)) ELSE Crash)
       ELSE Keep(a, b)
  ELSE IF y.type = "MULTIPLICATION"
  THEN IF canMergeWithMultiplicationExpression(y, x)
       THEN MergeTo(IF y = b THEN AdditionOfOperandAndMultiplication(b, Sign(a)) ELSE Crash)
       ELSE Keep(a, b)
  ELSE IF Equals(x, y)
  THEN MergeTo(IF Sign(a) # Sign(b) THEN Zero ELSE Multiplication(<<Constant(2 * Sign(a)), x>>))
  ELSE Keep(a, b)

\* AND, OR and XOR.
IsComplement(a, b) ==
  IF a.type = "LOGICAL_NOT" THEN Equals(a.operands[1], b) ELSE b.type = "LOGICAL_NOT" /\ Equals(b.operands[1], a)
MergeInLogical(type, a, b) ==
  IF AreConstants(a, b) THEN MergeTo(Constant(Operation(type, a.number, b.number)))
  ELSE IF Equals(a, b) THEN MergeTo(IF type = "XOR" THEN Zero ELSE a)
  ELSE IF ~ IsComplement(a, b) THEN Keep(a, b)
  ELSE CASE type = "AND" -> EndWith(Zero)
         [] type = "OR" -> EndWith(MinusOne)
         [] type = "XOR" -> MergeAndSkip(MinusOne)

-----------------------------------------------------------------------------
\* simplifyExpression.

simplifyNegationOfAddition(addition) ==
  Addition([i \in DOMAIN addition.operands |->
              LET e == addition.operands[i]
              IN CASE e.type = "NEGATION" -> e.operands[1]
                   [] IsConstant(e) -> Constant(- e.number)
                   [] OTHER -> Negation(e)])
\* Mutant: nothing is put in front of a product that has no constant.
NegateConstantOnly(product) ==
  Multiplication([i \in DOMAIN product.operands |->
                    LET e == product.operands[i] IN IF IsConstant(e) THEN Constant(- e.number) ELSE e])
\* The first constant is negated, if there is one.
simplifyNegationOfMultiplication(product) ==
  LET operands == product.operands
      i == SelectInSeq(operands, IsConstant)
  IN Multiplication(IF i = 0 THEN <<MinusOne>> \o operands ELSE [operands EXCEPT ![i] = Constant(- @.number)])

\* The operands of e if it is of that type, and else e alone.
OperandsIn(type, e) == IF e.type = type THEN e.operands ELSE <<e>>

RECURSIVE Simplify(_), Scan(_, _, _, _), ScanMerged(_, _, _, _, _), MergeInMultiplication(_, _)

addAndSimplify(a, b) == Simplify(Addition(OperandsIn("ADDITION", a) \o OperandsIn("ADDITION", b)))
multiplyAndSimplify(a, b) == Simplify(Multiplication(OperandsIn("MULTIPLICATION", a) \o OperandsIn("MULTIPLICATION", b)))

AddOneToExponent(power) ==
  LET exponent == addAndSimplify(power.operands[2], One)
  IN CASE exponent = Zero -> One
       [] exponent = One -> power.operands[1]
       [] OTHER -> Exponentiation(power.operands[1], exponent)

MergeInMultiplication(a, b) ==
  LET isPower(e) == e.type = "EXPONENTIATION"
  IN
  IF AreConstants(a, b) THEN MergeTo(Constant(a.number * b.number))
  ELSE IF isPower(a) /\ isPower(b)
  THEN IF Equals(a.operands[1], b.operands[1])
       THEN MergeTo(Simplify(Exponentiation(a.operands[1], addAndSimplify(a.operands[2], b.operands[2]))))
       ELSE Keep(a, b)
  ELSE IF isPower(a) THEN IF Equals(a.operands[1], b) THEN MergeTo(AddOneToExponent(a)) ELSE Keep(a, b)
  ELSE IF isPower(b) THEN IF Equals(b.operands[1], a) THEN MergeTo(AddOneToExponent(b)) ELSE Keep(a, b)
  ELSE IF Equals(a, b) THEN MergeTo(Exponentiation(a, NumericConstant(2)))
  ELSE Keep(a, b)

MergeOperands(type, a, b) ==
  CASE type = "ADDITION" -> MergeInAddition(a, b)
    [] type = "MULTIPLICATION" -> MergeInMultiplication(a, b)
    [] OTHER -> MergeInLogical(type, a, b)

\* Every operand is merged with those after it, from the first one on.
Scan(type, operands, i, j) ==
  IF i > Len(operands) THEN combineConstants(type, operands)
  ELSE IF j > Len(operands) THEN Scan(type, operands, i + 1, i + 2)
  ELSE ScanMerged(type, operands, i, j, MergeOperands(type, operands[i], operands[j]))
ScanMerged(type, operands, i, j, m) ==
  LET merged == RemoveAt([operands EXCEPT ![i] = m.first], j)
  IN IF m.kind # "keep" /\ Misread(operands[i], operands[j]) THEN Deviating("signs that are not shown")
     ELSE IF m.kind = "return" \/ DeviationsIn(m.first) # {} THEN m.first
     ELSE CASE m.kind = "keep" -> Scan(type, [operands EXCEPT ![i] = m.first, ![j] = m.second], i, j + 1)
            [] m.kind = "merge" -> Scan(type, merged, i, j)
            [] m.kind = "skip" /\ j <= Len(merged) -> Scan(type, merged, i, j + 1)
            [] OTHER -> Deviating("past the last operand")

\* A product takes the signs of its operands together.
removeNegatedOperands(operands) ==
  Append([i \in DOMAIN operands |-> Unnegated(operands[i])],
         NumericConstant(FoldLeft(LAMBDA n, e : n * Sign(e), 1, operands)))

SimplifyAssociative(type, simplified) ==
  LET deviations == SelectSeq(simplified, LAMBDA e : DeviationsIn(e) # {})
  IN IF deviations # <<>> THEN Head(deviations) ELSE Scan(type, simplified, 1, 2)

SimplifyPower(base, exponent) ==
  CASE base \in {Zero, One} -> base
    [] AreConstants(base, exponent) /\ exponent.number >= 0 -> Constant(base.number ^ exponent.number)
    [] exponent = Zero -> One
    [] exponent = One -> base
    [] OTHER -> Exponentiation(base, exponent)

\* Two constants are compared for equality, whatever the operator is.
SimplifyTernary(e) ==
  LET condition == e.operands[1]
      constants == condition.type = "HIGHLEVEL_CONDITION" /\ AreConstants(condition.operands[1], condition.operands[2])
      isTrue == condition.operands[1].number = condition.operands[2].number
      machine == [reg |-> <<>>]
  IN IF ~ constants THEN e
     ELSE IF isTrue # (Value(condition, machine) = 1) THEN Deviating("a comparison of constants")
     ELSE e.operands[IF isTrue THEN 2 ELSE 3]

Simplify(e) ==
  CASE e.type \in AssociativeCommutative ->
         LET operands == IF e.type = "MULTIPLICATION" THEN removeNegatedOperands(e.operands) ELSE e.operands
         IN SimplifyAssociative(e.type, [i \in DOMAIN operands |-> Simplify(operands[i])])
    [] e.type = "LOGICAL_NOT" /\ e.operands[1].type = "ADDITION" ->
         Simplify(Addition(Append(simplifyNegationOfAddition(e.operands[1]).operands, MinusOne)))
    [] e.type = "EXPONENTIATION" -> SimplifyPower(Simplify(e.operands[1]), Simplify(e.operands[2]))
    [] e.type = "POINTER" -> PointerExp(Simplify(e.operands[1]))
    [] e.type = "TERNARY" -> SimplifyTernary(e)
    [] OTHER -> e

-----------------------------------------------------------------------------
\* replaceChildExpression: variable v is replaced by the expression `by`.

\* The powers of the factors.
simplifyExponentiationOfMultiplication(product, exponent) ==
  Multiplication([i \in DOMAIN product.operands |->
                    LET e == product.operands[i]
                    IN IF e.type = "EXPONENTIATION"
                       THEN Simplify(Exponentiation(e.operands[1], multiplyAndSimplify(e.operands[2], exponent)))
                       ELSE Exponentiation(e, exponent)])
simplifyDoubleExponentiation(outer, inner) ==
  Simplify(Exponentiation(inner.operands[1], multiplyAndSimplify(inner.operands[2], outer.operands[2])))

\* An operator on v and the one that `by` begins with are taken together.  There
\* is no result when they are no such pair.
applyLocalSimplifications(e, v, by) ==
  LET pair == IF e.operands # <<>> /\ e.operands[1] = v THEN <<e.type, by.type>> ELSE <<>>
  IN CASE pair = <<"NEGATION", "NUMERIC_CONSTANT">> -> Constant(- by.number)
       [] pair \in {<<"LOGICAL_NOT", "LOGICAL_NOT">>, <<"NEGATION", "NEGATION">>} -> by.operands[1]
       [] pair = <<"NEGATION", "ADDITION">> -> simplifyNegationOfAddition(by)
       [] pair = <<"NEGATION", "MULTIPLICATION">> -> simplifyNegationOfMultiplication(by)
       [] pair = <<"EXPONENTIATION", "EXPONENTIATION">> -> simplifyDoubleExponentiation(e, by)
       [] pair = <<"EXPONENTIATION", "MULTIPLICATION">> -> simplifyExponentiationOfMultiplication(by, e.operands[2])
       [] OTHER -> NullExpression
OrElse(e, otherwise) == IF e # NullExpression THEN e ELSE otherwise
\* What comes in for an operand itself, if there is anything.
Replacement(e, v, by) == OrElse(applyLocalSimplifications(e, v, by), IF e = v THEN by ELSE NullExpression)

\* In an associative operation the operands of an operand of the same type that
\* has come in go to the end.  The condition of a ternary is no operand of its
\* own, and addresses and functions are left alone.
WithOperands(e, replacements, changed) ==
  LET replaced == [i \in DOMAIN e.operands |-> OrElse(replacements[i], changed[i])]
      isFlattened(i) == replacements[i] # NullExpression /\ replaced[i].type = e.type
      parts == [i \in DOMAIN replaced |-> IF isFlattened(i) THEN <<>> ELSE <<replaced[i]>>]
      added == [i \in DOMAIN replaced |-> IF isFlattened(i) THEN replaced[i].operands ELSE <<>>]
  IN CASE e.type \in AssociativeCommutative -> [e EXCEPT !.operands = FlattenSeq(parts) \o FlattenSeq(added)]
       [] e.type = "TERNARY" -> [e EXCEPT !.operands = <<changed[1], replaced[2], replaced[3]>>]
       [] e.type \in {"ADDRESS", "MATH_FUNCTION"} -> e
       [] OTHER -> [e EXCEPT !.operands = replaced]
RECURSIVE ReplaceChild(_, _, _)
ReplaceChild(e, v, by) ==
  WithOperands(e, [i \in DOMAIN e.operands |-> Replacement(e.operands[i], v, by)],
                  [i \in DOMAIN e.operands |-> ReplaceChild(e.operands[i], v, by)])
=============================================================================
