----------------------------- MODULE MCDataFlow -----------------------------
(***************************************************************************)
(* DataFlow on all small functions of a few shapes, with what it must      *)
(* preserve.                                                               *)
(***************************************************************************)
EXTENDS TranslationOutOfSSA, ProgramSemantics

\* Names have the order of the strings; memory comes first.
stack == 10
heap == 20
global == 30
al == 40
flag == 50
eax == 60
ebx == 70
ecx == 80
esp == 90

MCKind ==
  (stack :> "POINTER") @@ (heap :> "POINTER") @@ (global :> "GLOBAL_VARIABLE") @@ (flag :> "FLAG") @@
  [n \in {al, eax, ebx, ecx, esp} |-> "REGISTER"]
MCAddress == (stack :> <<<<esp, 0>>>>) @@ (heap :> <<<<ecx, NO_SUBSCRIPT>>>>)
MCRelated == (al :> {eax}) @@ (eax :> {al})
MCWidth == (al :> 1) @@ (eax :> 4)

MCCopyName == [n \in {stack, heap, global, al, flag, eax, ebx, ecx, esp, 900} |-> 200 + n \div 2]

V(n) == <<n, NO_SUBSCRIPT>>
Of(n) == Use(V(n))
Plus(m, n) == Sum(<<<<1, V(m)>>, <<1, V(n)>>>>, 0)
Inc(n) == Sum(<<<<1, V(n)>>>>, 1)
Set(n, e) == Assign(V(n), e)

Function(edges, blocks) ==
  [graph |-> [size |-> Len(blocks), edges |-> edges],
   code |-> [b \in 0 .. Len(blocks) - 1 |-> blocks[b + 1]]]

\* What a block does with two registers.
Writes == {<<>>, <<Set(eax, Of(ebx))>>, <<Set(ebx, Of(eax))>>, <<Set(eax, Inc(eax))>>, <<Set(ebx, Inc(eax))>>,
           <<Set(eax, Plus(eax, ebx))>>, <<Call(<<V(eax)>>, <<Of(ebx)>>)>>}
Few == {<<>>, <<Set(eax, Of(ebx))>>, <<Set(eax, Inc(eax))>>}
Exit == <<Return(Of(eax))>>
Test == <<Jump(Of(eax))>>

Swap == <<Set(ecx, Of(eax)), Set(eax, Of(ebx)), Set(ebx, Of(ecx))>>

Branches ==
  {Function({<<0, 1>>, <<0, 2>>, <<1, 3>>, <<2, 3>>}, <<w \o Test, x, y, z \o Exit>>) :
     w \in Few, x \in Writes, y \in Writes, z \in Few}
Loops ==
  {Function({<<0, 1>>, <<1, 1>>, <<1, 2>>}, <<w, x \o Test, y \o Exit>>) : w \in Few, x \in Writes \cup {Swap}, y \in Few}
    \cup
  {Function({<<0, 1>>, <<1, 2>>, <<2, 1>>, <<1, 3>>}, <<w, x \o Test, y, Exit>>) :
     w \in Few, x \in Writes, y \in Writes \cup {Swap}}

\* Two loops, one in the other, a loop with two entries, a join below two joins.
Nests ==
  {Function(edges, <<w \o Test, x \o Test, y \o Test, Exit>>) :
     edges \in {{<<0, 1>>, <<1, 2>>, <<2, 2>>, <<2, 1>>, <<1, 3>>},
                {<<0, 1>>, <<0, 2>>, <<1, 2>>, <<2, 1>>, <<2, 3>>},
                {<<0, 1>>, <<0, 2>>, <<1, 2>>, <<2, 1>>, <<2, 3>>, <<1, 3>>}},
     w \in Few, x \in Writes, y \in Writes \cup {Swap}}

\* What a block does with the stack, memory elsewhere, and a flag.
Memory == {<<>>, <<Set(stack, Of(eax))>>, <<Set(eax, Of(stack))>>, <<Set(heap, Of(eax))>>, <<Set(eax, Of(heap))>>,
           <<Set(global, Inc(eax))>>, <<Set(ebx, Of(global))>>, <<Set(stack, Of(ebx)), Set(ebx, Of(stack)), Set(stack, Of(eax))>>,
           <<Call(<<V(eax), V(heap)>>, <<Of(stack)>>)>>, <<Macro(<<V(flag)>>, Of(eax)), Set(eax, Inc(eax))>>}
FewOfMemory == {<<Set(stack, Of(eax))>>, <<Set(eax, Of(heap))>>, <<Call(<<V(eax), V(heap)>>, <<Of(stack)>>)>>,
                <<Macro(<<V(flag)>>, Of(eax)), Set(eax, Inc(eax))>>}
WithMemory ==
  {Function({<<0, 1>>, <<0, 2>>, <<1, 3>>, <<2, 3>>}, <<w \o Test, x, y, <<Jump(Of(stack)), Return(Of(ebx))>>>>) :
     w \in FewOfMemory, x \in Memory, y \in Memory}
    \cup
  {Function({<<0, 1>>, <<1, 1>>, <<1, 2>>}, <<w, x \o Test, y \o <<Return(Plus(eax, heap))>>>>) :
     w \in FewOfMemory, x \in Memory, y \in Memory}

\* Halves of eax, and esp.
Parts == {<<>>, <<Set(al, Of(ebx))>>, <<Set(eax, Inc(al))>>, <<Set(al, Inc(eax))>>, <<Set(ebx, Of(al))>>,
          <<Call(<<V(eax)>>, <<Of(al)>>)>>, <<Set(esp, Inc(esp)), Call(<<V(eax)>>, <<Of(esp)>>), Set(esp, Inc(esp))>>}
WithParts ==
  {Function({<<0, 1>>, <<0, 2>>, <<1, 3>>, <<2, 3>>}, <<w \o <<Jump(Of(al))>>, x, y, Exit>>) :
     w \in Parts, x \in Parts, y \in Parts}
    \cup
  {Function({<<0, 1>>, <<1, 1>>, <<1, 2>>}, <<w, x \o <<Jump(Of(al))>>, y \o Exit>>) :
     w \in Parts, x \in Parts, y \in Parts}

\* What only a dead definition uses.
Dead == {Function({<<0, 1>>}, <<x \o <<Set(ecx, Plus(eax, ebx))>>, y \o <<Return(Of(heap))>>>>) : x \in Writes, y \in Memory}

MCFewPrograms == {p \in Loops : p.code[0] = <<>>} \cup {p \in Nests : p.code[0][1] = Set(eax, Inc(eax))} \cup {p \in WithParts : Len(p.code[0]) = 3}
MCPrograms == Dead \cup Branches \cup Loops \cup Nests \cup WithMemory \cup WithParts

-----------------------------------------------------------------------------
(* What the analysis must keep, and what the later passes rely on.          *)

Placed(r) == UNION {ToSet(r.code[b]) : b \in DOMAIN r.code}
IsWritten(v) == \E id \in Placed(ir) : v \in ToSet(DefinedElements(Inst(ir, id)))
IsAnalysis == pass \in DOMAIN AfterPass \cup {"liveness"}
Unmirrored == \A v \in DOMAIN ir.defs : v[1] # MemoryMirror

\* After every pass up to the elimination of the phi functions, the function
\* passes the same values to calls, stores, tests and returns along every path
\* as the lifted one: dead-code elimination, propagation, unification and the
\* copies of the interference breaker together.  Functions that got mirror
\* variables for memory are left out: their uses keep the memory's name.
TracePreserved ==
  step = "start" /\ pass # "out" /\ Unmirrored => \A p \in Paths(program.graph) : Trace(ir, p) = Trace(program, p)

\* usesMap lists an instruction once for each time that it uses a variable, and
\* nothing that was removed: what is dead, and how often something is used, is
\* read from it by every pass.
UsesMapExact ==
  IsAnalysis /\ step = "start" =>
    \A v \in UNION {ToSet(UsedElements(Inst(ir, id))) : id \in Placed(ir)} \cup DOMAIN ir.uses :
      IsVariableDefined(ir, v) =>
        \A id \in DOMAIN ir.inst :
          Cardinality({i \in DOMAIN Uses(ir, v) : Uses(ir, v)[i] = id}) =
            IF id \in Placed(ir) THEN Cardinality({i \in DOMAIN UsedElements(Inst(ir, id)) : UsedElements(Inst(ir, id))[i] = v})
            ELSE 0

\* After dead-code elimination no definition that may go is without a use,
\* although each removal may make others dead.
NothingDead ==
  pass \in {"propagate_1", "subscriptMemoryLocations", "getArguments"} /\ step = "start" /\ done =>
    \A v \in DOMAIN ir.defs : Definition(ir, v) \in Placed(ir) =>
      \/ ~ IsVariableDead(ir, v)
      \/ Inst(ir, Definition(ir, v)).type = "CALL" /\ v \notin ToSet(Inst(ir, Definition(ir, v)).defs)
      \/ ~ CanRemoveInstruction(Inst(ir, Definition(ir, v)))

\* Every register whose value on entry changes what the function does is found
\* as an argument, itself or by a related register.
Matters(n) == \E p \in Paths(program.graph) : TraceWith(program, p, n, 3) # TraceWith(program, p, n, 5)
ArgumentsFound ==
  pass = "unify" =>
    {n \in {al, eax, ebx, ecx} : Matters(n)} \subseteq UNION {{v[1]} \cup RelatedTo(v[1]) : v \in ToSet(arguments)}

\* The analysis finds a version live at the end of a block exactly when some path
\* reads it before it is written.  In functions with empty blocks it does not.
LivenessRight ==
  pass = "replaceMemory" /\ (\A b \in DOMAIN ir.code : ir.code[b] # <<>>) =>
    LET end == LiveAtEnd(ir)
    IN  \A b \in DOMAIN ir.code : \A v \in {w \in DOMAIN ir.defs : IsWritten(w)} : v \in live.out[b] <=> v \in end[b]

-----------------------------------------------------------------------------
(* The congruence classes.                                                 *)

\* Of a class that holds versions of one name, and copies of them.
Plain(n) == IF \E m \in DOMAIN CopyName : CopyName[m] = n THEN CHOOSE m \in DOMAIN CopyName : CopyName[m] = n ELSE n
OneName(S) == Cardinality({Plain(v[1]) : v \in S}) <= 1 /\ \A v \in S : v[2] # NO_SUBSCRIPT
Free(S, interferes) == \A p \in interferes : {p[1], p[2]} \subseteq S => p[1] = p[2]

\* Resolving the pairs that are not in each other's way does not take back a
\* copy that another pair needs.
CopiesKept(phi) ==
  LET s == [ir |-> ir, live |-> live, classes |-> classes, phiInterference |-> phiInterference, copies |-> copies]
  IN  Candidates(s, phi, InterferingPairs(s, phiVariables[phi])) \subseteq Copied(s, phi, phiVariables[phi])

\* The class made of the variables of a phi function, with the copies inserted
\* for it, is free of interference if the classes were that it is made of.
InterferenceFree ==
  [][\A phi \in DOMAIN phiVariables \ DOMAIN phiVariables' :
       LET S == classes'[ir'.inst[phi].defs[1]]
       IN  Unmirrored /\ CopiesKept(phi) /\ OneName(S) /\ (\A v \in DOMAIN classes : Free(classes[v], live.interferes))
           => Free(S, live'.interferes)]_allVars

\* What is used was written under the name that it is used by, and the map has
\* the use.  The map lacks those of copies of arguments.
Unified == \A v \in DOMAIN ir.uses : Uses(ir, v) # <<>> /\ IsVariableDefined(ir, v) => IsWritten(v)
UsesKnown == \A id \in Placed(ir) : \A v \in ToSet(UsedElements(Inst(ir, id))) : IsWritten(v) => Contains(Uses(ir, v), id)
AllSubscripted == \A v \in DOMAIN classes : \A w \in classes[v] : w[2] # NO_SUBSCRIPT

\* Giving the members of each class one name and dropping the phi functions
\* leaves what the function does on every path as it was, if no two members
\* hold values that are needed at one point; arguments are passed under their
\* new names.
Passed(args, params) == [v \in ToSet(params) |-> EntryValue(args[CHOOSE i \in DOMAIN params : params[i] = v][1])]
EliminationPreserves ==
  [][EliminatePhis /\ Unmirrored /\ Unified /\ UsesKnown /\ AllSubscripted
       /\ (\A v \in DOMAIN classes : Separate(ir, classes[v])) =>
       \A p \in Paths(program.graph) : TraceFrom(ir', p, Passed(arguments, parameters'), 0, 0) = Trace(ir, p)]_allVars

\* The propagation and the elimination of chains are repeated until nothing
\* changes; both come to an end, and so does the translation.
TranslationEnds == <>(pass = "out")

=============================================================================
