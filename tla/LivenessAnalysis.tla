-------------------------- MODULE LivenessAnalysis --------------------------
(***************************************************************************)
(* Where each variable is live, which variables interfere, and the         *)
(* replacement of interfering memory locations before the translation out  *)
(* of SSA form.                                                            *)
(***************************************************************************)
EXTENDS SSAProgram

CONSTANTS
  ReturnRegister,   \* the name eax, whose version on entry is always looked at
  MemoryMirror      \* the name of the local variables that stand for memory

\* areNotAliases.  Of related registers those are aliases that are defined
\* together; the undefined ones are all of them aliases.
AreNotAliases(ir, v, w) ==
  IF w[1] \in RelatedTo(v[1]) THEN Definition(ir, v) # Definition(ir, w) ELSE v # w

DefinedBy(ir, b, k) == ToSet(DefinedElements(Inst(ir, ir.code[b][k])))

\* makeLiveOutAtInstruction, makeLiveInAtInstruction: from the k-th instruction
\* of b backwards to the definition, or to the beginning of the block.
Stops(ir, v, b, k) == {j \in 1 .. k : \E d \in DefinedBy(ir, b, j) : ~ AreNotAliases(ir, v, d)}
Met(ir, v, b, k) ==
  UNION {{d \in DefinedBy(ir, b, j) : AreNotAliases(ir, v, d)} : j \in Max(Stops(ir, v, b, k) \cup {1}) .. k}
ReachesBeginning(ir, v, scan) == Stops(ir, v, scan[1], scan[2]) = {}

\* computeVariableLiveness: where a use makes v live.
BeforeUses(ir, v) ==
  {<<b, IndexIn(ir, id, b) - 1>> : <<b, id>> \in
     {p \in (DOMAIN ir.code) \X ToSet(Uses(ir, v)) : ~ IsPhi(Inst(ir, p[2])) /\ Contains(ir.code[p[1]], p[2])}}
\* Mutant: an argument is read at the end of the block of the phi function.
OutOfPhis(ir, v) == {ir.blockOf[id] : id \in {i \in ToSet(Uses(ir, v)) : IsPhi(Inst(ir, i))}}
OutToPhis(ir, v) ==
  {arg.src : arg \in UNION {{a \in ToSet(Inst(ir, id).args) : a.var = v} : id \in {i \in ToSet(Uses(ir, v)) : IsPhi(Inst(ir, i))}}}

\* The blocks v is live out of.  Those handled before are not gone through, nor
\* are empty ones.
LiveOutOf(ir, v, handled) ==
  LET Through(b) == b \notin handled /\ ir.code[b] # <<>> /\ ReachesBeginning(ir, v, <<b, Len(ir.code[b])>>)
      Entered == {scan[1] : scan \in {s \in BeforeUses(ir, v) : ReachesBeginning(ir, v, s)}}
      Out[k \in Nat] ==
        IF k = 0 THEN OutToPhis(ir, v) \cup UNION {Preds(ir.graph, b) : b \in Entered}
        ELSE LET S == Out[k - 1] IN S \cup UNION {Preds(ir.graph, b) : b \in {c \in S : Through(c)}}
  IN  Out[ir.graph.size]

Scans(ir, v, handled) ==
  BeforeUses(ir, v) \cup
  {<<b, Len(ir.code[b])>> : b \in {c \in LiveOutOf(ir, v, handled) : c \notin handled /\ ir.code[c] # <<>>}}

AddLiveness(live, ir, v, handled) ==
  LET scans == Scans(ir, v, handled)
      met == UNION {Met(ir, v, s[1], s[2]) : s \in scans}
      out == LiveOutOf(ir, v, handled)
      entered == {s[1] : s \in {t \in scans : ReachesBeginning(ir, v, t)}}
  IN  [live EXCEPT
         !.in = [b \in DOMAIN @ |-> IF b \in entered THEN @[b] \cup {v} ELSE @[b]],
         !.out = [b \in DOMAIN @ |-> IF b \in out THEN @[b] \cup {v} ELSE @[b]],
         !.interferes = @ \cup {<<v, d>> : d \in met} \cup {<<d, v>> : d \in met}]

PhiTargets(ir, b) ==
  {Inst(ir, id).defs[1] : id \in {ir.code[b][k] : k \in {i \in DOMAIN ir.code[b] : \A j \in 1 .. i : IsPhi(Inst(ir, ir.code[b][j]))}}}

\* applyAlgorithm.  The blocks handled for the last definition are not cleared
\* before the return register is looked at.
Liveness(ir) ==
  LET start == [in |-> [b \in DOMAIN ir.code |-> PhiTargets(ir, b)], out |-> [b \in DOMAIN ir.code |-> {}],
                interferes |-> {}]
      definitions == InVariableOrder(DOMAIN ir.defs)
      last == IF definitions = <<>> THEN {} ELSE LiveOutOf(ir, Last(definitions), {})
  IN  AddLiveness(FoldLeft(LAMBDA l, v : AddLiveness(l, ir, v, {}), start, definitions),
                  ir, <<ReturnRegister, 0>>, last)

\* areNotAliases enters the variables it compares.
Touch(ir, v) == IF v \in DOMAIN ir.defs THEN ir ELSE Define(ir, v, NoInstruction)
AfterLiveness(ir) ==
  LET v == <<ReturnRegister, 0>>
  IN  IF \E s \in Scans(ir, v, {}) : \E j \in 1 .. s[2] : \E d \in DefinedBy(ir, s[1], j) : d[1] \in RelatedTo(v[1])
      THEN Touch(ir, v) ELSE ir

-----------------------------------------------------------------------------
(* replaceInterferingMamoryLocations.  s has the function and the liveness, *)
(* and the number of the next mirror variable.                             *)

Renamed(S, v, by) == {IF w = v THEN by ELSE w : w \in S}
RenameLive(live, v, by) ==
  [in |-> [b \in DOMAIN live.in |-> Renamed(live.in[b], v, by)],
   out |-> [b \in DOMAIN live.out |-> Renamed(live.out[b], v, by)],
   interferes |-> {<<IF p[1] = v THEN by ELSE p[1], IF p[2] = v THEN by ELSE p[2]>> : p \in live.interferes}]

PhiResources(phi) == {phi.defs[1]} \cup ToSet(Arguments(phi))
DoPhiResourcesInterfere(s, phi) == \E p \in s.live.interferes : p[1] \in PhiResources(phi) /\ p[2] \in PhiResources(phi)
DoesInterfereWithOtherVersions(s, v) == \E p \in s.live.interferes : p[1] = v /\ p[2][1] = v[1]

\* getRelatedPhiFunction: the first phi function that uses v; one that defines
\* it goes first.
RelatedPhis(ir, v) ==
  LET phis == SelectSeq(Uses(ir, v), LAMBDA id : IsPhi(Inst(ir, id)))
      id == Definition(ir, v)
  IN  IF id # NoInstruction /\ IsPhi(Inst(ir, id)) THEN <<id>> ELSE phis
IsInPhiWithInterferingResources(s, v) ==
  RelatedPhis(s.ir, v) # <<>> /\ DoPhiResourcesInterfere(s, Inst(s.ir, Head(RelatedPhis(s.ir, v))))

NextMirror(s) == <<MemoryMirror, s.mirrors>>

\* replaceVariables, of the target of a phi function.
ReplaceTarget(s, v) ==
  LET new == NextMirror(s)
      id == Definition(s.ir, v)
      defined == IF id = NoInstruction THEN s.ir
                 ELSE Define(Define(UpdateInst(s.ir, id, ReplaceDefinition(Inst(s.ir, id), v, new)), v, NoInstruction), new, id)
  IN  [s EXCEPT !.ir = ReplaceUses(defined, v, new), !.live = RenameLive(@, v, new), !.mirrors = @ + 1]

Unsubscripted(inst, i) == [inst EXCEPT !.defs[i] = <<@[1], NO_SUBSCRIPT>>]

\* The memory location is copied after its definition.  What is replaced by the
\* copy is the location without a subscript: its uses keep the subscript.
CopyLocation(s, id, i, b) ==
  LET v == Inst(s.ir, id).defs[i]
      plain == <<v[1], NO_SUBSCRIPT>>
      new == NextMirror(s)
      copy == 1 + Cardinality(DOMAIN s.ir.inst)
      ir == Define(UpdateInst(s.ir, id, Unsubscripted(Inst(s.ir, id), i)), v, NoInstruction)
      with == [ir EXCEPT !.inst = (copy :> Assign(new, Use(plain))) @@ @, !.blockOf = (copy :> -1) @@ @,
                         !.code[b] = InsertAt(@, IndexIn(ir, id, b) + 1, copy)]
  IN  [s EXCEPT !.ir = ReplaceUses(Define(with, new, copy), plain, new),
                !.live = RenameLive(@, plain, new), !.mirrors = @ + 1]

\* removeSubscriptsFromUses; usesMap keeps the subscript.
WithoutSubscript(e, v) ==
  [e EXCEPT !.terms = [i \in DOMAIN @ |-> IF @[i][2] = v THEN <<@[i][1], <<v[1], NO_SUBSCRIPT>>>> ELSE @[i]]]
RemoveSubscriptOfUse(inst, v) ==
  [inst EXCEPT !.exprs = [i \in DOMAIN @ |-> WithoutSubscript(@[i], v)],
               !.args = [i \in DOMAIN @ |-> IF @[i].var = v THEN [@[i] EXCEPT !.var = <<v[1], NO_SUBSCRIPT>>] ELSE @[i]]]
RemoveSubscripts(s, id, i) ==
  LET v == Inst(s.ir, id).defs[i]
      used == FoldLeft(LAMBDA r, u : UpdateInst(r, u, RemoveSubscriptOfUse(Inst(r, u), v)), s.ir, Uses(s.ir, v))
  IN  [s EXCEPT !.ir = UpdateInst(used, id, Unsubscripted(Inst(used, id), i))]

ReplaceLocation(s, id, i, b) ==
  LET v == Inst(s.ir, id).defs[i]
  IN  CASE ~ IsMemoryVariable(v) -> s
        [] DoesInterfereWithOtherVersions(s, v) \/ IsInPhiWithInterferingResources(s, v) -> CopyLocation(s, id, i, b)
        [] RelatedPhis(s.ir, v) = <<>> -> RemoveSubscripts(s, id, i)
        [] OTHER -> s

ReplaceInInstruction(s, id, b) ==
  LET inst == Inst(s.ir, id)
  IN  IF ~ IsPhi(inst) THEN FoldLeft(LAMBDA r, i : ReplaceLocation(r, id, i, b), s, [i \in DOMAIN inst.defs |-> i])
      ELSE IF IsMemoryVariable(inst.defs[1]) /\ DoPhiResourcesInterfere(s, inst) THEN ReplaceTarget(s, inst.defs[1])
      ELSE s

ReplaceInterferingMemoryLocations(ir, live) ==
  FoldLeft(LAMBDA s, b : FoldLeft(LAMBDA r, id : ReplaceInInstruction(r, id, b - 1), s, s.ir.code[b - 1]),
           [ir |-> ir, live |-> live, mirrors |-> 0], [b \in 1 .. ir.graph.size |-> b])

=============================================================================
