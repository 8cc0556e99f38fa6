------------------------------ MODULE DataFlow ------------------------------
(***************************************************************************)
(* DataFlowAnalyzer as the plugin drives it: registers and flags are put   *)
(* in SSA form, the first round simplifies, memory locations are put in    *)
(* SSA form, the second round simplifies again and looks for the function  *)
(* arguments, and to_json_new, not to_json, unifies related registers.     *)
(*                                                                         *)
(* Conditions are those that the propagation of flags leaves.  A step      *)
(* handles one phi function or one definition.                             *)
(***************************************************************************)
EXTENDS DeadCodeElimination, ExpressionPropagation, SSATransformer

CONSTANT Programs   \* the functions as lifted: [graph, code]

VARIABLES
  program,    \* the function as lifted, with numbers for its instructions
  ir,         \* the function and its maps
  pass,       \* the call that is made next, or was begun
  step,       \* how far dead-code elimination or propagation is
  todo,       \* the phi functions or definitions that its loop has still to handle
  done,       \* no propagation was successful in this turn of the loop
  arguments   \* functionArguments

vars == <<program, ir, pass, step, todo, done, arguments>>

\* The two rounds; the translation out of SSA form begins with "liveness".
AfterPass ==
  [transformIntoSSA |-> "eliminate_1", eliminate_1 |-> "propagate_1", propagate_1 |-> "eliminate_2",
   eliminate_2 |-> "subscriptMemoryLocations", subscriptMemoryLocations |-> "propagate_2",
   propagate_2 |-> "eliminate_3", eliminate_3 |-> "getArguments", getArguments |-> "unify", unify |-> "liveness"]
Eliminating == pass \in {"eliminate_1", "eliminate_2", "eliminate_3"}
Propagating == pass \in {"propagate_1", "propagate_2"}

\* Instructions are numbered through the blocks, entered in no map yet.
Lifted(p) ==
  LET Blocks == [i \in 1 .. p.graph.size |-> p.code[i - 1]]
      First(b) == FoldLeft(LAMBDA n, i : n + Len(Blocks[i]), 0, [i \in 1 .. b |-> i])
      Numbers(b) == [k \in 1 .. Len(p.code[b]) |-> First(b) + k]
      ids == 1 .. First(p.graph.size)
      BlockOf(id) == CHOOSE b \in Vertices(p.graph) : id \in ToSet(Numbers(b))
  IN  [graph |-> p.graph,
       code |-> [b \in Vertices(p.graph) |-> Numbers(b)],
       inst |-> [id \in ids |-> FlattenSeq(Blocks)[id]],
       blockOf |-> [id \in ids |-> BlockOf(id)],
       defs |-> <<>>, uses |-> <<>>, aliases |-> <<>>]

Init ==
  /\ \E p \in Programs : program = Lifted(p)
  /\ ir = program
  /\ pass = "transformIntoSSA" /\ step = "start" /\ todo = <<>> /\ done = TRUE
  /\ arguments = <<>>

Definitions(r) == InVariableOrder(DOMAIN r.defs)
BlocksInOrder(r) == [i \in 1 .. r.graph.size |-> i - 1]
LeadingPhisInOrder(r) ==
  FlattenSeq([i \in 1 .. r.graph.size |->
                SelectSeq(r.code[i - 1], LAMBDA id : id \in LeadingPhis(r, i - 1))])

EndPass == pass' = AfterPass[pass] /\ step' = "start" /\ todo' = <<>> /\ done' = TRUE

-----------------------------------------------------------------------------
(* The passes that are one step.                                           *)

Subscript ==
  /\ \/ pass = "transformIntoSSA" /\ ir' = TransformIntoSSA(ir)
     \/ pass = "subscriptMemoryLocations" /\ ir' = SubscriptMemoryLocations(ir)
  /\ EndPass
  /\ UNCHANGED <<program, arguments>>

\* Mutant: only what has a version 0 was there on entry.
IsVersionZero(v) == v[2] = 0 /\ ~ IsMemoryVariable(v) /\ ~ IsStackPointer(v)
IsArgument(v) == v[2] \in {NO_SUBSCRIPT, 0} /\ ~ IsMemoryVariable(v) /\ ~ IsStackPointer(v)

GetArguments ==
  LET used == FlattenSeq([i \in 1 .. ir.graph.size |->
                FlattenSeq([k \in DOMAIN ir.code[i - 1] |-> UsedElements(Inst(ir, ir.code[i - 1][k]))])])
  IN  /\ pass = "getArguments"
      /\ arguments' = FoldLeft(LAMBDA args, v : IF Contains(args, v) THEN args ELSE Append(args, v),
                               <<>>, SelectSeq(used, IsArgument))
      /\ EndPass
      /\ UNCHANGED <<program, ir>>

\* Only one of the two callers unifies.
Unify ==
  /\ pass = "unify"
  /\ ir' \in {ir, UnifyAliasRegisters(ir)}
  /\ EndPass
  /\ UNCHANGED <<program, arguments>>

-----------------------------------------------------------------------------
(* DeadCodeElimination::applyAlgorithm                                     *)

StartElimination ==
  /\ Eliminating /\ step = "start"
  /\ step' = "phis" /\ todo' = LeadingPhisInOrder(ir)
  /\ UNCHANGED <<program, ir, pass, done, arguments>>

ReplacePhi ==
  /\ Eliminating /\ step = "phis" /\ todo # <<>>
  /\ ir' = RemovePhiArgumentsSameAsTarget(ir, Head(todo))
  /\ todo' = Tail(todo)
  /\ UNCHANGED <<program, pass, step, done, arguments>>

RemoveFirstChains ==
  /\ Eliminating /\ step = "phis" /\ todo = <<>>
  /\ ir' = RemoveTrivialPhiChains(ir)
  /\ step' = "dead" /\ todo' = Definitions(ir)
  /\ UNCHANGED <<program, pass, done, arguments>>

RemoveDead ==
  /\ Eliminating /\ step = "dead" /\ todo # <<>>
  /\ ir' = RemoveDefinitionIfDead(ir, Head(todo))
  /\ todo' = Tail(todo)
  /\ UNCHANGED <<program, pass, step, done, arguments>>

\* Mutant: they are looked at again in any case.
RemoveChainsAgain ==
  /\ Eliminating /\ step = "dead" /\ todo = <<>>
  /\ ir' = RemoveTrivialPhiChains(ir)
  /\ todo' = Definitions(ir)
  /\ UNCHANGED <<program, pass, step, done, arguments>>

\* The definitions are looked at again as long as there are chains to remove.
RemoveChains ==
  /\ Eliminating /\ step = "dead" /\ todo = <<>>
  /\ ir' = RemoveTrivialPhiChains(ir)
  /\ IF TrivialPhiChainElements(ir) # {}
     THEN todo' = Definitions(ir) /\ UNCHANGED <<pass, step, done>>
     ELSE EndPass
  /\ UNCHANGED <<program, arguments>>

-----------------------------------------------------------------------------
(* applyAlgorithmNoMemoryVariables and applyAlgorithmWithMemoryVariables    *)

StartPropagation ==
  /\ Propagating /\ step = "start"
  /\ step' = "propagate" /\ todo' = Definitions(ir) /\ done' = TRUE
  /\ UNCHANGED <<program, ir, pass, arguments>>

Propagate ==
  LET v == Head(todo)
      result == PropagateDefinition(ir, v)
      handled == IsPropagated(ir, v, pass = "propagate_2")
  IN  /\ Propagating /\ step = "propagate" /\ todo # <<>>
      /\ ir' = IF handled THEN result.ir ELSE ir
      /\ done' = (done /\ ~ (handled /\ result.successful))
      /\ todo' = Tail(todo)
      /\ UNCHANGED <<program, pass, step, arguments>>

EndPropagation ==
  /\ Propagating /\ step = "propagate" /\ todo = <<>>
  /\ IF done THEN EndPass ELSE step' = "start" /\ UNCHANGED <<pass, todo, done>>
  /\ UNCHANGED <<program, ir, arguments>>

Analyze ==
  \/ Subscript
  \/ StartElimination
  \/ ReplacePhi
  \/ RemoveFirstChains
  \/ RemoveDead
  \/ RemoveChains
  \/ StartPropagation
  \/ Propagate
  \/ EndPropagation
  \/ GetArguments
  \/ Unify

AnalysisSpec == Init /\ [][Analyze]_vars /\ WF_vars(Analyze)

=============================================================================
