-------------------------- MODULE BackTranslation --------------------------
(***************************************************************************)
(* InterferenceBreaker and PhiFunctionsEliminator.                         *)
(*                                                                         *)
(* The phi congruence classes: the target and the arguments of a phi       *)
(* function are to get one name, and copies are inserted where members of  *)
(* the class would be in each other's way.  s has the function, the        *)
(* liveness, the classes and the number of the next copy.                  *)
(***************************************************************************)
EXTENDS LivenessAnalysis

CONSTANTS
  CopyName,        \* of each name, the one with "_copy" added
  FirstClassName   \* the name a; the others follow

\* constructPhiVariables: the target, then the arguments, each once.
PhiVariables(phi) ==
  FoldLeft(LAMBDA vars, v : IF Contains(vars, v) THEN vars ELSE Append(vars, v), <<>>,
           <<phi.defs[1]>> \o Arguments(phi))

LeadingPhisOf(ir) ==
  UNION {{ir.code[b][k] : k \in {i \in DOMAIN ir.code[b] : \A j \in 1 .. i : IsPhi(Inst(ir, ir.code[b][j]))}} :
           b \in DOMAIN ir.code}

\* initializePhiCongruenceClasses
InitialClasses(ir) ==
  [v \in UNION {ToSet(PhiVariables(Inst(ir, id))) : id \in LeadingPhisOf(ir)} |-> {v}]

ClassOf(s, v) == IF v \in DOMAIN s.classes THEN s.classes[v] ELSE {}
Meet(pairs, S, T) == \E p \in pairs : p[1] \in S /\ p[2] \in T

\* initializePhiInterferenceGraph keeps the versions of one name only.
PhiInterference(ir, live) == {p \in live.interferes : p[1] \in DOMAIN InitialClasses(ir) /\ p[1][1] = p[2][1]}
DoesHaveInterferingClasses(s, vars) ==
  LET combined == UNION {ClassOf(s, v) : v \in ToSet(vars)} IN Meet(s.phiInterference, combined, combined)

\* Where a phi function reads or writes a variable: the target at the beginning
\* of its block, an argument at the end of the block that it first comes from.
LiveAt(s, phi, v) ==
  IF v = Inst(s.ir, phi).defs[1] THEN s.live.in[s.ir.blockOf[phi]]
  ELSE s.live.out[Inst(s.ir, phi).args[SelectInSeq(Inst(s.ir, phi).args, LAMBDA arg : arg.var = v)].src]

InterferingPairs(s, vars) ==
  {p \in ToSet(vars) \X ToSet(vars) : p[1] # p[2] /\ Meet(s.live.interferes, ClassOf(s, p[1]), ClassOf(s, p[2]))}

\* Mutant: the other one is copied.
CandidatesSwapped(s, phi, pairs) ==
  {p[1] : p \in {q \in pairs : LiveAt(s, phi, q[1]) \cap ClassOf(s, q[2]) # {}}}

\* breakInterference: of an interfering pair the one whose class is live at the
\* other is copied; where neither is, one is to be chosen.
InTheWay(s, phi, p) == LiveAt(s, phi, p[1]) \cap ClassOf(s, p[2]) # {}
Candidates(s, phi, pairs) == {p[2] : p \in {q \in pairs : InTheWay(s, phi, q)}}
Unresolved(s, phi, pairs) == {p \in pairs : ~ InTheWay(s, phi, p) /\ ~ InTheWay(s, phi, <<p[2], p[1]>>)}

\* handleUnresolvedResources
Neighbours(unresolved, v) == {p[2] : p \in {q \in unresolved : q[1] = v}}
RECURSIVE Handled(_, _)
Handled(unresolved, handled) ==
  LET open == {v \in {p[1] : p \in unresolved} \ handled : ~ (Neighbours(unresolved, v) \subseteq handled)}
      Size(v) == Cardinality(Neighbours(unresolved, v))
      largest == {v \in open : \A w \in open : Size(w) <= Size(v)}
  IN  IF open = {} THEN handled ELSE Handled(unresolved, handled \cup {Head(InVariableOrder(largest))})

Copied(s, phi, vars) ==
  LET pairs == IF DoesHaveInterferingClasses(s, vars) THEN InterferingPairs(s, vars) ELSE {}
      unresolved == Unresolved(s, phi, pairs)
      handled == Handled(unresolved, {})
  IN  (Candidates(s, phi, pairs) \cup handled) \ {v \in {p[1] : p \in unresolved} : Neighbours(unresolved, v) \subseteq handled}

-----------------------------------------------------------------------------
(* The copies.                                                             *)

\* insertInstructionAtBiginingOfBlock: in a block of phi functions the copy is
\* not inserted.
AtBeginning(ir, id, b) ==
  IF \A k \in DOMAIN ir.code[b] : IsPhi(Inst(ir, ir.code[b][k])) THEN ir
  ELSE [ir EXCEPT !.code[b] = InsertAt(@, SelectInSeq(@, LAMBDA x : ~ IsPhi(Inst(ir, x))), id)]

\* insertInstructionAtEndOfBlock: a conditional jump stays the last, other jumps
\* do not.
AtEnd(ir, id, b) ==
  [ir EXCEPT !.code[b] = IF @ # <<>> /\ Inst(ir, Last(@)).type = "CONDITIONAL_JUMP" THEN InsertAt(@, Len(@), id)
                         ELSE Append(@, id)]

NextCopy(s, v) == <<CopyName[v[1]], s.copies>>
NewInstruction(ir, inst) ==
  LET id == 1 + Cardinality(DOMAIN ir.inst)
  IN  [ir EXCEPT !.inst = (id :> inst) @@ @, !.blockOf = (id :> -1) @@ @]

Interfering(live, v, S) == [live EXCEPT !.interferes = @ \cup (S \X {v}) \cup ({v} \X S)]

\* canRemoveOldPhiSourceFromLiveOut
IsStillUsed(s, v, b) ==
  \E c \in Succs(s.ir.graph, b) :
    \/ v \in s.live.in[c]
    \/ \E id \in PhisOf(s.ir, c) : [var |-> v, src |-> b] \in ToSet(Inst(s.ir, id).args)

\* One argument of insertCopyForPhiSource.
CopyArgument(s, phi, i) ==
  LET old == Inst(s.ir, phi).args[i].var
      b == Inst(s.ir, phi).args[i].src
      new == NextCopy(s, old)
      copy == 1 + Cardinality(DOMAIN s.ir.inst)
      placed == AtEnd(NewInstruction(s.ir, Assign(new, Use(old))), copy, b)
      ir == Define([placed EXCEPT !.inst[phi].args[i].var = new], new, copy)
      next == [s EXCEPT !.ir = AddUse(DeleteUse(ir, old, phi), new, phi),
                        !.live.out[b] = @ \cup {new},
                        !.classes = (new :> {new}) @@ @, !.copies = @ + 1]
      live == IF IsStillUsed(next, old, b) THEN next.live ELSE [next.live EXCEPT !.out[b] = @ \ {old}]
  IN  [next EXCEPT !.live = Interfering(live, new, live.out[b])]

CopyPhiSource(s, phi, v) ==
  FoldLeft(LAMBDA r, i : IF Inst(r.ir, phi).args[i].var = v THEN CopyArgument(r, phi, i) ELSE r,
           s, [i \in DOMAIN Inst(s.ir, phi).args |-> i])

CopyPhiTarget(s, phi) ==
  LET old == Inst(s.ir, phi).defs[1]
      b == s.ir.blockOf[phi]
      new == NextCopy(s, old)
      copy == 1 + Cardinality(DOMAIN s.ir.inst)
      placed == AtBeginning(NewInstruction(s.ir, Assign(old, Use(new))), copy, b)
      ir == Define(Define([placed EXCEPT !.inst[phi].defs = <<new>>], new, phi), old, copy)
      in == (s.live.in[b] \ {old}) \cup {new}
  IN  [s EXCEPT !.ir = AddUse(ir, new, copy),
                !.live = Interfering([@ EXCEPT !.in[b] = in], new, in),
                !.classes = (new :> {new}) @@ @, !.copies = @ + 1]

\* updatePhiCongruenceClassMap
MergeClasses(s, phi) ==
  LET combined == UNION {ClassOf(s, v) : v \in ToSet(PhiVariables(Inst(s.ir, phi)))}
  IN  [s EXCEPT !.classes = [v \in combined |-> combined] @@ @]

\* What eliminatePhiResourceInterference does for one phi function, whose
\* variables are those it had at first.
BreakPhi(s, phi, vars) ==
  MergeClasses(
    FoldLeft(LAMBDA r, v : IF v = Inst(r.ir, phi).defs[1] THEN CopyPhiTarget(r, phi) ELSE CopyPhiSource(r, phi, v),
             s, InVariableOrder(Copied(s, phi, vars))),
    phi)

\* nullifyPhiCongruenceClassesWithSingletonResources
WithoutSingletons(classes) == [v \in DOMAIN classes |-> IF Cardinality(classes[v]) = 1 THEN {} ELSE classes[v]]

-----------------------------------------------------------------------------
(* Then the members of a class get one name, and the phi functions go.     *)
(* Classes of memory locations lose their subscripts, others become a      *)
(* local variable.                                                         *)

ClassName(k) == FirstClassName + k

\* What getName writes at the beginning of a name; the kind stands for the names
\* of registers and flags.
NameBegins(n) ==
  CASE KindOf(n) = "POINTER" -> "*("
    [] KindOf(n) = "GLOBAL_VARIABLE" -> "glb_"
    [] KindOf(n) = "STACK_VARIABLE" -> "stk_"
    [] KindOf(n) = "LOCAL_VARIABLE" -> "loc_"
    [] OTHER -> KindOf(n)

\* isMemoryVariable, of a variable that may have no definition: then another
\* version of it decides, or else the name, which pointers no longer have.
DefinesMemory(ir, id, v) == v \in ToSet(DefinedElements(Inst(ir, id))) /\ IsMemoryVariable(v)
IsMemoryClass(ir, v) ==
  LET others == SelectSeq(InVariableOrder({w \in DOMAIN ir.defs : w[1] = v[1]}), LAMBDA w : ir.defs[w] # NoInstruction)
  IN  CASE Definition(ir, v) # NoInstruction -> DefinesMemory(ir, Definition(ir, v), v)
        [] others # <<>> -> DefinesMemory(ir, ir.defs[Head(others)], Head(others))
        [] OTHER -> NameBegins(v[1]) = "mem["

\* getUsedRelatedRegisters
UsedRelated(ir, v) ==
  <<v>> \o SelectSeq(InVariableOrder(RelatedDefinitions(ir, v)), LAMBDA w : Uses(ir, w) # <<>>)

\* getDefinedRelatedRegister: a related register that the instruction defines.
DefinedRelated(ir, v) ==
  LET related == SelectSeq(DefinedElements(Inst(ir, Definition(ir, v))), LAMBDA d : d[1] \in RelatedTo(v[1]))
  IN  IF related = <<>> THEN v ELSE Head(related)

\* Mutant: only the first use is replaced.
FirstUse(ir, v) == LET uses == SelectSeq(Uses(ir, v), LAMBDA id : ~ IsPhi(Inst(ir, id))) IN SelectSeq(uses, LAMBDA id : id = Head(uses))
NonPhiUses(ir, v) == SelectSeq(Uses(ir, v), LAMBDA id : ~ IsPhi(Inst(ir, id)))
Everywhere(Change(_, _, _), ir, v) ==
  FoldLeft(LAMBDA r, w : FoldLeft(LAMBDA q, id : UpdateInst(q, id, Change(q, id, w)), r, NonPhiUses(r, w)),
           ir, UsedRelated(ir, v))

RemoveSubscriptOfDefinition(inst, v) ==
  [inst EXCEPT !.defs = [i \in DOMAIN @ |-> IF @[i] = v THEN <<v[1], NO_SUBSCRIPT>> ELSE @[i]]]

ReplaceMemoryVariable(ir, v) ==
  LET id == Definition(ir, v)
      defined == CASE id = NoInstruction -> ir
                   [] IsPhi(Inst(ir, id)) -> RemoveInstruction(ir, id)
                   [] OTHER -> UpdateInst(ir, id, RemoveSubscriptOfDefinition(Inst(ir, id), v))
      Change(r, use, w) == RemoveSubscriptOfUse(Inst(r, use), w)
  IN  Everywhere(Change, Touch(defined, v), v)

\* replaceSimpleVariable.  The uses of v in phi functions are not replaced.
ReplaceSimpleVariable(ir, v, by) ==
  LET id == Definition(ir, v)
      defined == CASE id = NoInstruction -> ir
                   [] IsPhi(Inst(ir, id)) -> RemoveInstruction(ir, id)
                   [] OTHER -> UpdateInst(ir, id, ReplaceDefinition(Inst(ir, id), DefinedRelated(ir, v), by))
      Change(r, use, w) == ReplaceUse(Inst(r, use), w, by)
  IN  Everywhere(Change, Touch(defined, v), v)

\* eliminatePhiFunctionsWithMemoryVariables.  m has the function, the classes
\* that are left for the second pass, and the members that are handled.
EliminateMemoryClass(m, v) ==
  LET members == SelectSeq(InVariableOrder(m.classes[v]), LAMBDA w : w \notin m.handled)
      left == [w \in DOMAIN m.classes \ {v} |-> m.classes[w]]
      touched == Touch(m.ir, v)
  IN  CASE v \in m.handled -> [m EXCEPT !.classes = left]
        [] v \notin m.handled /\ IsMemoryClass(m.ir, v) ->
             [ir |-> FoldLeft(ReplaceMemoryVariable, touched, members), classes |-> left,
              handled |-> m.handled \cup m.classes[v]]
        [] OTHER -> [m EXCEPT !.ir = touched]
EliminateMemoryClasses(ir, classes) ==
  FoldLeft(EliminateMemoryClass, [ir |-> ir, classes |-> classes, handled |-> {}], InVariableOrder(DOMAIN classes))

\* updateFunctionArguments.  No variable is twice among the arguments.
UpdateArguments(arguments, v, by) ==
  [i \in DOMAIN arguments |-> IF arguments[i] = v /\ v[2] # NO_SUBSCRIPT THEN by ELSE arguments[i]]

\* eliminatePhiFunctionsWithSimpleVariables: each class that is found by a
\* member not handled takes a name, also when it is empty.
EliminateSimpleClass(m, v) ==
  LET by == <<ClassName(m.names), NO_SUBSCRIPT>>
      members == SelectSeq(InVariableOrder(m.classes[v]), LAMBDA w : w \notin m.handled)
      Replace(r, w) == [r EXCEPT !.ir = ReplaceSimpleVariable(@, w, by), !.arguments = UpdateArguments(@, w, by)]
  IN  IF v \in m.handled THEN m
      ELSE [FoldLeft(Replace, m, members) EXCEPT !.handled = @ \cup m.classes[v], !.names = @ + 1]
EliminateSimpleClasses(ir, classes, arguments) ==
  FoldLeft(EliminateSimpleClass,
           [ir |-> ir, classes |-> classes, arguments |-> arguments, handled |-> {}, names |-> 0],
           InVariableOrder(DOMAIN classes))

RemoveZeroSubscripts(ir) ==
  FoldLeft(LAMBDA r, v : FoldLeft(LAMBDA q, id : UpdateInst(q, id, RemoveSubscriptOfUse(Inst(q, id), v)), r, Uses(r, v)),
           ir, InVariableOrder({v \in DOMAIN ir.uses : v[2] = 0}))

=============================================================================
