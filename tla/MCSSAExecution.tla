--------------------------- MODULE MCSSAExecution ---------------------------
(***************************************************************************)
(* SSAExecution on functions with the registers al, eax and ah and one     *)
(* memory location.  A block first uses all of them and then defines one   *)
(* or none.                                                                *)
(***************************************************************************)
EXTENDS SSAExecution

al == 1
eax == 2
ah == 3
mem == 4

MCNames == {al, eax, ah, mem}
MCMemory == {mem}
MCRelated == (al :> {eax}) @@ (eax :> {al, ah}) @@ (ah :> {eax}) @@ (mem :> {})

Inst(uses, defs) == [type |-> "OTHER", address |-> 0, idiom |-> 0, uses |-> uses, defs |-> defs]
UseAll(defs) == <<Inst(<<al, eax, mem>>, defs)>>
Nothing == <<>>

Function(n, edges, insts) == [size |-> n, edges |-> edges, code |-> [b \in 0 .. n - 1 |-> insts[b]]]
With(n, edges, writes) == Function(n, edges, [b \in 0 .. n - 1 |-> UseAll(writes[b])])

\* All graphs of up to three blocks.  At least one block writes nothing.
Graphs(n) ==
  {g \in {[size |-> n, edges |-> E] : E \in SUBSET ((0 .. n - 1) \X (0 .. n - 1))} :
     \A b \in 1 .. n - 1 : Preds(g, b) # {}}
Writes(n, W) == {w \in [0 .. n - 1 -> W \cup {Nothing}] : \E b \in 0 .. n - 1 : w[b] = Nothing}

SmallFunctions ==
  UNION {{With(n, g.edges, w) : g \in Graphs(n), w \in Writes(n, {<<al>>, <<eax>>, <<mem>>})} : n \in 1 .. 2}
    \cup {With(3, g.edges, w) : g \in {h \in Graphs(3) : EntryNotTarget(h)}, w \in Writes(3, {<<al>>, <<eax>>, <<mem>>})}

\* A branch with a join, the same in a loop, two nested loops, a loop with two
\* entries, and a join below two joins.
Shapes ==
  {[size |-> 4, edges |-> {<<0, 1>>, <<0, 2>>, <<1, 3>>, <<2, 3>>}],
   [size |-> 5, edges |-> {<<0, 1>>, <<1, 2>>, <<1, 3>>, <<2, 4>>, <<3, 4>>, <<4, 1>>}],
   [size |-> 4, edges |-> {<<0, 1>>, <<1, 2>>, <<2, 2>>, <<2, 1>>, <<1, 3>>}],
   [size |-> 4, edges |-> {<<0, 1>>, <<0, 2>>, <<1, 2>>, <<2, 1>>, <<2, 3>>}],
   [size |-> 5, edges |-> {<<0, 1>>, <<0, 2>>, <<1, 3>>, <<1, 4>>, <<2, 3>>, <<3, 4>>}]}

LargerFunctions ==
  UNION {{With(s.size, s.edges, w) : w \in {v \in Writes(s.size, {<<al>>, <<eax>>}) :
             Cardinality({b \in DOMAIN v : v[b] # Nothing}) <= 2}} : s \in Shapes}

\* Two defining instructions in a block, a call that returns a register and
\* writes memory, and both halves of ax, with eax used and without.
OtherFunctions ==
  {Function(3, {<<0, 1>>, <<1, 1>>, <<1, 2>>},
            [b \in 0 .. 2 |-> CASE b = 1 -> UseAll(<<al>>) \o UseAll(<<eax>>) \o UseAll(<<al>>) [] OTHER -> UseAll(Nothing)]),
   With(3, {<<0, 1>>, <<0, 2>>, <<1, 2>>}, [b \in 0 .. 2 |-> IF b = 1 THEN <<eax, mem>> ELSE Nothing]),
   With(4, {<<0, 1>>, <<0, 2>>, <<1, 3>>, <<2, 3>>}, <<<<ah>>, Nothing, Nothing>> @@ (0 :> <<al>>)),
   With(4, {<<0, 1>>, <<0, 2>>, <<1, 3>>, <<2, 3>>}, <<<<ah>>, Nothing, Nothing>> @@ (0 :> Nothing)),
   Function(4, {<<0, 1>>, <<0, 2>>, <<1, 3>>, <<2, 3>>},
            [b \in 0 .. 3 |-> <<Inst(<<al, ah>>, <<<<al>>, <<ah>>, <<al>>, <<>>>>[b + 1])>>])}

\* A switch in a loop.  Its idiom starts in the block that checks the range or
\* in the block of the jump, and defines the register tested or a part of it.
CompareEax == [Inst(<<eax>>, <<>>) EXCEPT !.address = 7]
JumpOnEax == [type |-> "INDIRECT_TABLE_JUMP", address |-> 8, idiom |-> 7, uses |-> <<eax>>, defs |-> <<>>]

SwitchFunctions ==
  {Function(6, {<<0, 1>>, <<1, 2>>, <<1, 5>>, <<2, 3>>, <<2, 4>>, <<2, 5>>, <<3, 1>>},
            [b \in 0 .. 5 |->
               CASE b = 1 -> IF split THEN <<CompareEax>> ELSE <<Inst(<<al>>, <<>>)>>
                 [] b = 2 -> (IF split THEN <<>> ELSE <<CompareEax>>) \o <<Inst(<<eax>>, d), JumpOnEax>>
                 [] b = 3 -> UseAll(e)
                 [] OTHER -> UseAll(Nothing)]) :
     split \in BOOLEAN, d \in {<<>>, <<al>>, <<eax>>}, e \in {<<>>, <<al>>, <<eax>>}}

\* Two switches one after the other.
TwoSwitches ==
  {Function(6, {<<0, 1>>, <<0, 2>>, <<0, 3>>, <<1, 3>>, <<2, 3>>, <<3, 4>>, <<3, 5>>, <<3, 1>>},
            [b \in 0 .. 5 |-> IF b \in {0, 3} THEN <<CompareEax, Inst(<<eax>>, <<eax>>), JumpOnEax>> ELSE UseAll(Nothing)])}

MCPrograms == SmallFunctions \cup LargerFunctions \cup OtherFunctions \cup SwitchFunctions \cup TwoSwitches

=============================================================================
