--------------------------- MODULE SSATransformer ---------------------------
(***************************************************************************)
(* What SSATransformer does to a whole function: transformIntoSSA and      *)
(* subscriptMemoryLocations subscript it, unifyAliasRegisters gives all    *)
(* related registers that one instruction defines the same name.           *)
(* SSAConstruction has the subscripting step by step; here it is one       *)
(* operator.  Addresses keep the subscripts they have.                     *)
(***************************************************************************)
EXTENDS SSAProgram

DominanceFrontier(g, b) ==
  {w \in Vertices(g) : (w = b \/ ~ Dominates(g, b, w)) /\ \E p \in Preds(g, w) \cap Reached(g) : Dominates(g, b, p)}

PhiSites(g, defining) ==
  LET Sites[k \in Nat] ==
        IF k = 0 THEN {} ELSE LET S == Sites[k - 1] IN S \cup UNION {DominanceFrontier(g, b) : b \in S \cup defining}
  IN  Sites[g.size]

DefinedIn(ir, b) == UNION {{v[1] : v \in ToSet(Inst(ir, id).defs)} : id \in ToSet(ir.code[b])}

\* place_Phi_Functions, of one name in one block.
WithPhi(ir, n, b) ==
  LET id == 1 + Cardinality(DOMAIN ir.inst)
      Place == Cardinality({k \in DOMAIN ir.code[b] : IsPhi(Inst(ir, ir.code[b][k]))}) + 1
  IN  [ir EXCEPT !.inst = (id :> Phi(<<n, NO_SUBSCRIPT>>, <<>>)) @@ @,
                 !.blockOf = (id :> b) @@ @,
                 !.code[b] = InsertAt(@, Place, id)]

WithPhis(ir, names) ==
  FoldLeft(LAMBDA r, n :
             FoldLeft(LAMBDA q, b : WithPhi(q, n, b), r,
                      InOrder(PhiSites(ir.graph, {b \in DOMAIN ir.code : n \in DefinedIn(ir, b)}))),
           ir, InOrder(names))

-----------------------------------------------------------------------------
(* renameVariables.  s has the function, and of each name the subscript on *)
(* top of its stack and the highest one given.                             *)

NewVersion(s, n, id) ==
  [s EXCEPT !.count[n] = @ + 1, !.version[n] = s.count[n] + 1, !.ir = Define(@, <<n, s.count[n] + 1>>, id)]

UseVersions(e, version) ==
  [e EXCEPT !.terms = [i \in DOMAIN @ |->
     IF @[i][2][1] \in DOMAIN version THEN <<@[i][1], <<@[i][2][1], version[@[i][2][1]]>>>> ELSE @[i]]]

RenameUses(s, id) ==
  LET inst == [Inst(s.ir, id) EXCEPT !.exprs = [i \in DOMAIN @ |-> UseVersions(@[i], s.version)]]
      used == SelectSeq(UsedElements(inst), LAMBDA v : v[1] \in DOMAIN s.version)
  IN  IF IsPhi(inst) THEN s
      ELSE [s EXCEPT !.ir = FoldLeft(LAMBDA r, v : AddUse(r, v, id), UpdateInst(@, id, inst), used)]

\* The related registers get new versions, too: the aliases of the definition.
RenameDefinition(s, id, i) ==
  LET n == Inst(s.ir, id).defs[i][1]
      related == InOrder(RelatedTo(n) \cap DOMAIN s.version)
      own == NewVersion(s, n, id)
      v == <<n, own.version[n]>>
      all == FoldLeft(LAMBDA r, m : NewVersion(r, m, id), own, related)
  IN  IF n \notin DOMAIN s.version THEN s
      ELSE [all EXCEPT !.ir.inst[id].defs[i] = v,
                       !.ir.aliases = IF related = <<>> THEN @
                                      ELSE (v :> {<<m, all.version[m]>> : m \in ToSet(related)}) @@ @]

RenameInstruction(s, id) ==
  FoldLeft(LAMBDA r, i : RenameDefinition(r, id, i), RenameUses(s, id), [i \in DOMAIN Inst(s.ir, id).defs |-> i])

FillArguments(s, b) ==
  LET phis == {id \in UNION {PhisOf(s.ir, c) : c \in Succs(s.ir.graph, b)} : Inst(s.ir, id).defs[1][1] \in DOMAIN s.version}
      Fill(r, id) ==
        LET v == <<Inst(r.ir, id).defs[1][1], r.version[Inst(r.ir, id).defs[1][1]]>>
        IN  [r EXCEPT !.ir = AddUse([@ EXCEPT !.inst[id].args = Append(@, [var |-> v, src |-> b])], v, id)]
  IN  FoldLeft(Fill, s, InOrder(phis))

RECURSIVE RenameVariables(_, _)
RenameVariables(s, b) ==
  LET renamed == FillArguments(FoldLeft(RenameInstruction, s, s.ir.code[b]), b)
  IN  FoldLeft(LAMBDA r, c : [RenameVariables(r, c) EXCEPT !.version = renamed.version],
               renamed, InOrder(ImmediatelyDominated(s.ir.graph, b)))

InSSA(ir, names) ==
  RenameVariables([ir |-> WithPhis(ir, names), version |-> [n \in names |-> 0], count |-> [n \in names |-> 0]], 0).ir

DefinedNames(ir) == UNION {DefinedIn(ir, b) : b \in DOMAIN ir.code}
UsedNames(ir) == UNION {{v[1] : v \in ToSet(UsedElements(ir.inst[id]))} : id \in DOMAIN ir.inst}

\* A register that is used is subscripted, too, when a related one is defined.
TransformIntoSSA(ir) ==
  LET defined == {n \in DefinedNames(ir) : KindOf(n) # "POINTER"}
  IN  InSSA(ir, defined \cup {n \in UsedNames(ir) : RelatedTo(n) \cap defined # {}})
SubscriptMemoryLocations(ir) == InSSA(ir, {n \in DefinedNames(ir) : KindOf(n) = "POINTER"})

-----------------------------------------------------------------------------
(* unifyAliasRegisters                                                     *)

\* getSmallestAlias: the first of the least width; the definition comes first.
SmallestAlias(vars) ==
  vars[CHOOSE i \in DOMAIN vars :
         /\ \A j \in DOMAIN vars : Width[vars[i][1]] <= Width[vars[j][1]]
         /\ \A j \in 1 .. i - 1 : Width[vars[j][1]] > Width[vars[i][1]]]

UnifyAliases(ir, v) ==
  LET used == <<v>> \o SelectSeq(InVariableOrder(ir.aliases[v]), LAMBDA w : Uses(ir, w) # <<>>)
      final == SmallestAlias(used)
      id == Definition(ir, v)
      defined == UpdateInst(ir, id, ReplaceDefinition(Inst(ir, id), v, final))
  IN  IF id = NoInstruction THEN ir
      ELSE FoldLeft(LAMBDA r, w : IF w = final THEN r ELSE ReplaceUses(r, w, final), defined, used)

UnifyAliasRegisters(ir) == FoldLeft(UnifyAliases, ir, InVariableOrder(DOMAIN ir.aliases))

=============================================================================
