------------------------- MODULE BooleanConditions -------------------------
(***************************************************************************)
(* Branch conditions as CompoundConditionalStructurer combines them        *)
(* (Shared/ExpressionUtilities.cpp).  A condition is an expression object  *)
(* reached through a shared pointer, and getNegatedExpression changes the  *)
(* comparison operator of a HighLevelCondition in place.  A condition is   *)
(* therefore described by what it says now and by what the same object     *)
(* would say after getNegatedExpression had walked over it:                *)
(*                                                                         *)
(*   kind     the type of the expression at the root                       *)
(*   holds    the machine states in which it is true                       *)
(*   flipped  the machine states in which the object is true once          *)
(*            getNegatedExpression has been called on it                   *)
(*                                                                         *)
(* ConditionTrees checks this description against the expression trees.    *)
(***************************************************************************)

CONSTANT Env   \* machine states, as far as branch conditions tell them apart

Kinds == {"HIGHLEVEL_CONDITION", "LOWLEVEL_CONDITION", "LOGICAL_NOT_EXPRESSION",
          "AND_EXPRESSION", "OR_EXPRESSION"}

Condition == [kind : Kinds, holds : SUBSET Env, flipped : SUBSET Env]

HighLevelCondition(states) ==
  [kind |-> "HIGHLEVEL_CONDITION", holds |-> states, flipped |-> Env \ states]

LowLevelCondition(states) ==
  [kind |-> "LOWLEVEL_CONDITION", holds |-> states, flipped |-> states]

Conjunction(a, b) ==
  [kind    |-> "AND_EXPRESSION",
   holds   |-> a.holds \cap b.holds,
   flipped |-> a.flipped \cap b.flipped]

Disjunction(a, b) ==
  [kind    |-> "OR_EXPRESSION",
   holds   |-> a.holds \cup b.holds,
   flipped |-> a.flipped \cup b.flipped]

-----------------------------------------------------------------------------
(* getNegatedExpression: the expression returned, and the argument after   *)
(* the call.                                                               *)

NegatedKind ==
  [k \in Kinds |->
     CASE k = "HIGHLEVEL_CONDITION"    -> "HIGHLEVEL_CONDITION"
       [] k = "LOWLEVEL_CONDITION"     -> "LOGICAL_NOT_EXPRESSION"
       [] k = "LOGICAL_NOT_EXPRESSION" -> "LOWLEVEL_CONDITION"
       [] k = "AND_EXPRESSION"         -> "OR_EXPRESSION"
       [] k = "OR_EXPRESSION"          -> "AND_EXPRESSION"]

Negated(c) ==
  [kind    |-> NegatedKind[c.kind],
   holds   |-> Env \ c.holds,
   flipped |-> Env \ c.flipped]

AfterNegation(c) == [c EXCEPT !.holds = c.flipped, !.flipped = c.holds]

-----------------------------------------------------------------------------
(* getCompundCondition_AND and getCompundCondition_OR: when the first      *)
(* operand already is such an expression, the second one is pushed into it *)
(* and a null pointer is returned.                                         *)

NullCondition == [kind |-> "null", holds |-> {}, flipped |-> {}]

CompoundCondition_AND(a, b) ==
  IF a.kind = "AND_EXPRESSION" THEN NullCondition ELSE Conjunction(a, b)

PushedInto_AND(a, b) ==
  IF a.kind = "AND_EXPRESSION" THEN Conjunction(a, b) ELSE a

CompoundCondition_OR(a, b) ==
  IF a.kind = "OR_EXPRESSION" THEN NullCondition ELSE Disjunction(a, b)

PushedInto_OR(a, b) ==
  IF a.kind = "OR_EXPRESSION" THEN Disjunction(a, b) ELSE a

\* if(!isExpressionPointerNull(compound)) conditionalA->condition = compound
AssignUnlessNull(compound, current) ==
  IF compound = NullCondition THEN current ELSE compound

=============================================================================
