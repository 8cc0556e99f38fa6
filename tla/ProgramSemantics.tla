-------------------------- MODULE ProgramSemantics --------------------------
(***************************************************************************)
(* What a function does along a path of blocks: the values that it passes  *)
(* to calls, stores outside the stack, tests and returns.  This is the     *)
(* reference that the transformations are compared with; no code of the    *)
(* repository corresponds to it.  Related registers hold one value.  Below *)
(* is the reference for LivenessAnalysis and BackTranslation.              *)
(***************************************************************************)
EXTENDS SSAProgram

CONSTANT MaxPath   \* paths have at most this number of blocks

\* The paths that end in an exit or have the greatest length.
Paths(g) ==
  LET Next(p) == IF Len(p) = MaxPath \/ Succs(g, Last(p)) = {} THEN {p} ELSE {Append(p, b) : b \in Succs(g, Last(p))}
      Within[k \in Nat] == IF k = 1 THEN {<<0>>} ELSE UNION {Next(p) : p \in Within[k - 1]}
  IN  Within[MaxPath]

\* What a variable has on entry: names and their versions 0 the entry value,
\* the others nothing that means anything.
EntryValue(n) == LET family == Max({n} \cup RelatedTo(n)) IN 7 * family * family + family + 3
Undefined(v) == -(100000 + 100 * v[1] + v[2])
Initial(v, n, value) ==
  CASE v[2] \notin {NO_SUBSCRIPT, 0} -> Undefined(v) [] v[1] = n -> value [] OTHER -> EntryValue(v[1])

\* s.value has the variables assigned so far.  On entry n has the value given.
Read(s, v) == IF v \in DOMAIN s.value THEN s.value[v] ELSE Initial(v, s.n, s.entry)
Evaluate(s, e) == FoldLeft(LAMBDA sum, t : sum + t[1] * Read(s, t[2]), e.constant, e.terms)

\* A definition gives the registers related to it its value.
Together(ir, v) ==
  {v} \cup (CASE v[2] = NO_SUBSCRIPT -> {<<n, NO_SUBSCRIPT>> : n \in RelatedTo(v[1])}
              [] v \in DOMAIN ir.aliases -> ir.aliases[v]
              [] OTHER -> {})
Write(s, ir, v, x) == [s EXCEPT !.value = [w \in Together(ir, v) |-> x] @@ @]
WriteAll(s, ir, vars, x) == FoldLeft(LAMBDA r, v : Write(r, ir, v, x), s, vars)
Observe(s, what, values) == [s EXCEPT !.trace = Append(@, <<what, values>>)]

IsOnStack(n) == KindOf(n) = "POINTER" /\ \A v \in ToSet(AddressOf(n)) : IsStackPointer(v)
IsObserved(n) == KindOf(n) = "GLOBAL_VARIABLE" \/ (KindOf(n) = "POINTER" /\ ~ IsOnStack(n))

Execute(s, ir, inst) ==
  LET values == [i \in DOMAIN inst.exprs |-> Evaluate(s, inst.exprs[i])]
      calls == Cardinality({i \in DOMAIN s.trace : s.trace[i][1] = "call"})
  IN  CASE inst.type = "CALL" -> Observe(WriteAll(s, ir, inst.defs, 5000 + 1000 * calls), "call", values)
        [] inst.type = "ASSIGNMENT" ->
             LET next == WriteAll(s, ir, inst.defs, values[1])
             IN  IF IsObserved(inst.defs[1][1]) THEN Observe(next, "store", <<inst.defs[1][1], values[1]>>) ELSE next
        [] inst.type = "FLAG_MACRO" -> WriteAll(s, ir, inst.defs, values[1])
        [] OTHER -> Observe(s, inst.type, values)

\* The phi functions of a block take their values together.  One that has no
\* argument for the block that control comes from keeps its value.
ExecutePhis(s, ir, phis, from) ==
  LET Chosen(phi) == {i \in DOMAIN phi.args : phi.args[i].src = from}
      Value(phi) == IF Chosen(phi) = {} THEN Read(s, phi.defs[1])
                    ELSE Read(s, phi.args[CHOOSE i \in Chosen(phi) : TRUE].var)
  IN  FoldLeft(LAMBDA r, id : Write(r, ir, Inst(ir, id).defs[1], Value(Inst(ir, id))), s, phis)

ExecuteBlock(s, ir, b, from) ==
  FoldLeft(LAMBDA r, id : Execute(r, ir, Inst(ir, id)),
           ExecutePhis(s, ir, SelectSeq(ir.code[b], LAMBDA id : IsPhi(Inst(ir, id))), from),
           SelectSeq(ir.code[b], LAMBDA id : ~ IsPhi(Inst(ir, id))))

\* The trace of a path; on entry the variables in start have these values, and n
\* has the value given.
TraceFrom(ir, path, start, n, value) ==
  FoldLeft(LAMBDA s, k : ExecuteBlock(s, ir, path[k], IF k = 1 THEN -1 ELSE path[k - 1]),
           [value |-> start, trace |-> <<>>, n |-> n, entry |-> value], [k \in DOMAIN path |-> k]).trace
TraceWith(ir, path, n, value) == TraceFrom(ir, path, <<>>, n, value)
Trace(ir, path) == TraceWith(ir, path, 0, 0)

-----------------------------------------------------------------------------
\* Liveness by its definition: a variable is live where its value is read later
\* on some path before it is written.  The arguments of a phi function are read
\* at the end of the blocks they come from, its target is written at the
\* beginning of its block.

ReadBy(ir, id) == IF IsPhi(Inst(ir, id)) THEN {} ELSE ToSet(UsedElements(Inst(ir, id)))
WrittenBy(ir, id) == ToSet(DefinedElements(Inst(ir, id)))

\* Before the k-th instruction of b, if these are live at its end.
LiveFrom(ir, b, k, end) ==
  FoldRight(LAMBDA id, S : (S \ WrittenBy(ir, id)) \cup ReadBy(ir, id), SubSeq(ir.code[b], k, Len(ir.code[b])), end)

ReadByPhis(ir, b, c) == {arg.var : arg \in {a \in UNION {ToSet(Inst(ir, id).args) : id \in PhisOf(ir, c)} : a.src = b}}

\* The variables live at the end of each block.
LiveAtEnd(ir) ==
  LET blocks == DOMAIN ir.code
      Live[k \in Nat] ==
        IF k = 0 THEN [b \in blocks |-> {}]
        ELSE LET end == Live[k - 1]
             IN  [b \in blocks |-> UNION {LiveFrom(ir, c, 1, end[c]) \cup ReadByPhis(ir, b, c) : c \in Succs(ir.graph, b)}]
      Fixed[k \in Nat] == IF Live[k] = Live[k + 1] THEN Live[k] ELSE Fixed[k + 1]
  IN  Fixed[1]

\* The variables live after the k-th instruction of b.
LiveAfter(ir, end, b, k) == LiveFrom(ir, b, k + 1, end[b])

\* At most one of a set of variables has a value that is needed at any point,
\* and while one has, none of the others is written.
Separate(ir, S) ==
  LET end == LiveAtEnd(ir)
  IN  \A b \in DOMAIN ir.code : \A k \in 0 .. Len(ir.code[b]) :
        LET written == IF k = 0 THEN {} ELSE WrittenBy(ir, ir.code[b][k])
        IN  Cardinality((LiveAfter(ir, end, b, k) \cup written) \cap S) <= 1
=============================================================================
