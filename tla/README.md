# A TLA+ model of the DREAM decompiler

This directory holds a verification development for the decompiler in this
repository: TLA+ modules translated from its C++ sources, TLC configurations
that check them on small instances, and proofs that TLAPS checks.  Paths below
are relative to the repository root.

## 1. The system

The plugin decompiles one function at a time, in one thread.  Its parts hand a
mutable control-flow graph (`IntermediateRepresentation/ControlFlowGraph.cpp`)
from one pass to the next:

```
IRBuilder -> SSATransformer -> TypeAnalyzer -> DataFlowAnalyzer (two rounds)
  -> translation out of SSA -> ControlFlowAnalyzer -> DecompiledCodeGenerator
```

Control-flow analysis and code generation run when a single function is
decompiled (`plugin.cpp`); the batch modes stop after the translation out of
SSA.

| component | state | operations | talks to |
|---|---|---|---|
| control-flow graph | `nodes`, keyed by id 0..n-1; per block its edges, jump table, instructions, cached predecessor set; the distance matrix | addNode, doneAddingNodes, removeNode (renumbers all later ids), path queries | every pass |
| IR construction, lifting | the graph under construction | one block per block of IDA's flow chart, instructions from x86 opcodes | graph |
| SSA construction | dominator tree, dominance frontier, definition stacks | place_Phi, rename, subscripting of memory locations | graph, data flow |
| data-flow analysis | definition and use maps, worklists | dead-code elimination, expression propagation, condition-code propagation, argument detection | graph, SSA |
| type analysis | type map, type lattice | propagation over definitions and uses | SSA |
| translation out of SSA | live-in/live-out sets, phi congruence classes | copies, merging of classes, removal of phi functions | graph |
| trivial-block elimination | the graph | one empty block per turn | graph |
| compound-condition structuring | the graph, a postorder, a change flag | four merges of two branches | graph, expression utilities |
| expression utilities | expression trees behind shared pointers | negation in place, AND/OR construction | structuring, code generation |
| derived graph sequence | levels, each a graph with intervals and the blocks behind its vertices | constructIntervals, getNextDerivedGraph | loops |
| loop, conditional, switch structuring | loops, follow nodes, switch follows | one pass each | sequence, graph, code generation |
| code generation | written blocks, pending gotos | recursive writers | everything structured |
| flag macros, expression algebra | expression trees | conditions of flag combinations, simplification | data flow |
| plugin, viewers | none of interest | user interface and output | all |

### What is hard here

Nothing in this program runs concurrently, and nothing is persisted.  The hard
behaviour comes from long sequences of in-place changes to one graph:

* **Renumbering.** `removeNode` moves every id above the removed one.  Ids are
  kept in edges, jump tables, instructions, predecessor sets, and in the
  postorder a pass walks over while it removes blocks itself.
* **Aliased expressions.** Conditions are shared objects; negating one changes
  comparison operators in it and may return a new tree that still holds them.
* **Four nearly equal merges**, each with its own edges and negations.
* **Loops that run until nothing changes**: elimination, structuring passes,
  interval construction, the sequence of graphs.
* **Silent ends**: functions without a return on some path, null results that
  the caller skips, casts of null.

PROJECT.json lists each of these at its line, with the properties that cover it.

## 2. Modules

| module | models | source |
|---|---|---|
| `BooleanConditions` | what the expression utilities do to branch conditions | `Shared/ExpressionUtilities.cpp` |
| `ConditionTrees` | the same on the real expression trees | `Shared/ExpressionUtilities.cpp` |
| `GraphTraversal` | postorder of a depth-first search | `ControlFlowAnalysis/GraphTraversal` |
| `ControlFlowGraph` | blocks, edges, construction, removal with renumbering | `IntermediateRepresentation/ControlFlowGraph.cpp`, `Node/` |
| `GraphReduction` | trivial-block elimination and compound conditions, as a state machine | `ControlFlowAnalysis/TrivialNodesEliminator.cpp`, `CompoundConditionalStructurer.cpp` |
| `BlockContraction` | abstract: what reducing a graph may do to a program | |
| `Dominance` | graphs and their dominators | `GraphUtilities/GraphConverter.cpp`, `buildDominatorTree` of the two passes that have one |
| `DerivedGraphs` | intervals and the derived graph sequence, as a state machine | `ControlFlowAnalysis/DerivedGraphSequence` |
| `LoopStructuring` | loops, their blocks, types and follow blocks, on the derived sequence | `ControlFlowAnalysis/LoopStructuring` |
| `BranchStructuring` | the structuring passes in order: switches, loops, conditionals | `NWayStructuring`, `ConditionalsStructuring`, `GraphTraversal/GraphPaths.cpp`, `ControlFlowAnalyzer.cpp` |
| `CodeGeneration` | the writers of the text, as a stack of calls | `CodeGeneration/DecompiledCodeGenerator.cpp` |
| `SSAConstruction` | phi functions, subscripts, switch variables, in both passes | `SSA/SSATransformer.cpp`, `Instruction/Phi_Function.cpp` |
| `SSAExecution` | abstract: a function runs by names and by subscripts at the same time | |
| `SSAProgram` | instructions in SSA form, the maps of definitions and uses, path queries | `DataFlowAlgorithm.cpp`, `Instruction/`, `Shared/RelatedRegistersMonitor.cpp`, `ControlFlowGraph.cpp` |
| `SSATransformer` | SSA construction on these instructions | `SSA/SSATransformer.cpp` |
| `DeadCodeElimination`, `ExpressionPropagation` | the two algorithms, one operator per method | `DataFlowAnalysis/Algorithms` |
| `DataFlow` | both rounds of the data-flow analysis, as a state machine | `DataFlowAnalyzer.cpp`, `plugin.cpp` |
| `LivenessAnalysis` | liveness, interference, interfering memory locations | `LivenessAnalysis.cpp` |
| `BackTranslation` | phi congruence classes, copies, the names that take the place of phi functions | `SSA/BackTranslation/InterferenceBreaker.cpp`, `PhiFunctionsEliminator.cpp` |
| `TranslationOutOfSSA` | these parts in order, after `DataFlow` | `DataFlowAnalyzer.cpp` |
| `ProgramSemantics` | reference: what a function does on a path; liveness by its definition | |
| `Expressions` | expressions as lifted, their values on words | `IntermediateRepresentation/Expression` |
| `InstructionHandler` | the intermediate code of operands and instructions, one operator per handler | `OperandHandler.cpp` and `InstructionHandler.cpp` in `IRBuilder/` |
| `InstructionDecoding` | which handler takes an instruction | `IRBuilder/InstructionHandler.cpp` |
| `ConditionCodePropagation` | the comparison that takes the place of flags | `Algorithms/ConditionCodePropagation.cpp`, `Condition/LowLevelCondition.cpp`, `FlagMacro/` |
| `Processor` | reference: what the processor does | |
| `LiftedExecution` | instructions run by both, as a state machine | |
| `ExpressionSimplification` | replacement of a variable by its definition, and simplification, one operator per method | `IntermediateRepresentation/Expression`, `DataFlowAnalysis/MathematicalSimplification` |
| `ExpressionRewriting` | definitions propagated into instructions, in any order | `Algorithms/ExpressionPropagation.cpp`, `replaceUsedChildExpression` of the instructions |
| `GraphTraversal_proofs`, `GraphReduction_proofs`, `ConditionTrees_proofs`, `DerivedGraphs_proofs`, `Structuring_proofs`, `Dominance_proofs`, `SSAExecution_proofs`, `SSAVersions_proofs` | theorems | |
| `MC*` | instances for TLC | |

`GraphReduction` EXTENDS `ControlFlowGraph`, `BooleanConditions` and
`GraphTraversal`, and is shown to implement `BlockContraction` through
`INSTANCE ... WITH`.  `SSAConstruction` and `DerivedGraphs` EXTEND `Dominance`.
`DerivedGraphs`, `LoopStructuring`, `BranchStructuring`
and `CodeGeneration` each EXTEND the one before, as each pass reads what those
before it left behind: the last is the whole way from a graph to its text.
`TranslationOutOfSSA` EXTENDS `DataFlow`, so that a function goes all the way
from lifted code to code without phi functions.  `LiftedExecution` EXTENDS
`Processor` and, through `InstructionDecoding`, all of lifting.
`ExpressionSimplification` EXTENDS the expressions that lifting makes.

### GraphReduction

`nodes` is the map of blocks, `size` its size.  `phase` is the statement at which
control is, `order` the rest of the postorder computed at the start of a pass,
`merged` the negation of `structuringDone`.  One action per statement that
changes the graph: `RemoveDirectJumpInstructions`, `EliminateTrivialNode`,
`StartStructuring`, the four merges (tried in the order of the code by
`Structure`), `SkipNextBlock`, `StartNextPass`, `FinishStructuring`.  Each
removal is the whole of `removeNode`: the renumbering, the refreshed edges and
jump tables, the new predecessor sets.

A machine state (`Env`) is what branch conditions tell apart.  A condition is
described by its kind, the states in which it `holds`, and the states in which
the same object would hold after `getNegatedExpression` walked over it; the last
is what aliasing needs.  That this description is right is not assumed:
`ConditionTrees` runs both side by side, and `TreesDescribed` proves it.

The code has steps after which a branch leads somewhere else.  They are modelled
as they are, and a history variable `misrouted` becomes true with them:

* an empty block with a switch among its predecessors (the arms of the
  conditional operator are the wrong way round, for successors and jump table);
* an empty block to which both edges of a branch lead (one is redirected), and
  one that is its own successor;
* a merge of a block with itself or of the entry block;
* a merge that negates a compound condition, which leaves the head half negated
  because the null result is skipped.

`phase = "undefined"` is the out-of-bounds write in `getNodeDistances` when an
edge leads to an id that does not exist.  `StaysDefined` says no more than that
this is not reached before one of the steps above: of the edges to a removed block
only one to the last block leads nowhere afterwards, any other is shifted to the
neighbour.  That it is not is part of `ReducesByContraction`.

### ConditionTrees

`tree` is the expression tree, `condition` its description, `tested` the order in
which the program tests the atoms.  `reordered` marks merges after which an atom
comes to stand behind one that the program tests later: the code appends the
first operand to the second when only the second is of the kind.

Trees are a set: literals (atoms, negated or not, as their kind allows) and, one level
up, compound conditions with any sequence of operands from below.  `OverTrees` is
the one recursion over them; negating, where a tree holds, and the order of its
tests are what it makes of a function for literals and one for operands.  A merge
nests a condition once more at most, so `MaxOperands`, which bounds the atoms of a
condition, bounds its depth as well.  The head's condition is what all merges before
left of it; the successor's is an atom or a pair of positive atoms, one for each
kind of operand the merges tell apart.

### DerivedGraphs

`graph` is the graph of the current level, `originals` the blocks of the function
behind its vertices, `intervals` the finished intervals by header, `header` and
`interval` the one under construction, `headers` and `newHeaders` the sets of
the two outer loops.  `TakeNewHeaders`, `OpenInterval`, `AddNodesToInterval`,
`CloseInterval` are the iterations of `constructIntervals`;
`GetNextDerivedGraph` and `EndSequence` are the turns of the outer loop.
`LoseInterval` is the missing return of `getCorrespondingIntervalHeader`.

What the model shows about the code, beyond the properties that hold:

* With a branch to the entry block, an interval can draw in the entry, and the
  next graph can be as large as this one: the sequence has no end, e.g. for the
  reducible graph 0→1, 0→2, 1→0, 2→1, 2→3, 3→2.  Hence the condition
  `EntryNotTarget` of the properties.
* A block that branches to itself keeps its edge on level 0.  Once all intervals
  are single vertices the sequence ends, and the loops around such a block are
  not looked at, e.g. 0→1, 1→2, 2→2, 2→1.  Hence `NoSelfLoops` in
  `LimitTellsReducible`.
* A predecessor that cannot be reached from the entry is in no interval; hence
  `AllReachable` in `LevelsDefined`.

### LoopStructuring

`loops` is `graphStructeringInfo->loops`; `level` and `looked` are the two loops
of `structureLoops` over the levels and their intervals.  `StructureLoop` makes a
loop of an interval, `PassInterval` finds no edge back.  Which of several edges
back is taken, and which of several shortest paths decides that a block is in
the loop, depends on the order of edges and on a heap; both are chosen freely,
under what Dijkstra's algorithm with weightless edges guarantees.

### BranchStructuring

`pass` is the pass of `applyControlFlowAnalysis` that runs, `turn` the block of
the postorder it has got to; `switches`, `conditionals` and `unresolved` are the
maps and the set of the code.  `VisitSwitch` and `Overflow` (a search for the
follow block that has no end) are the switch pass; `StructureLoops` are the steps
of `LoopStructuring`; `VisitConditional`, `ResolveInLoop` and `EndUnresolved` are
the conditional pass.

### CodeGeneration

`work` is the call stack of `writeCode`, `writeLoop`, `writeNWay`, `writeTwoWay`
and `writeOneWay`: calls, and the rests of bodies that wait for one.  `code` is
`codeLines`, a line being a record (the statements of a block, a test of a branch
with the successor on which it holds, a brace, a break, a goto).  `handled`,
`labels`, `usedLabels`, `currentLoop` and `written` are the fields of the code.
`Crash` is a null pointer that is followed.  `NextLine` and `RunFrom` are an
interpreter of the text: with it `TextFollowsGraph` compares the blocks the text
runs with those the graph runs, for every outcome of every test.

What the model shows about these passes is in the conditions of the properties
(`EndsAtLatching`, `WellNested`, `Translatable`), each one a case that the code
gets wrong:

* *Loops.*  With several edges back into a header (`continue`) a loop lacks
  blocks.  If the latching block of a loop belongs to a nested loop, both its
  successors may be inside: the loop is typed as tested and its follow block lies
  inside; the follow block of the nested loop is then the outer latching block.
* *Follow blocks.*  An unresolved branch takes over the follow block of a branch
  in another part, because ids are compared as if they were postorder numbers:
  in 0→1,2; 1→3,4; 2→6,5; 5→6 the join 6 of branch 2 is given to branch 1.  The
  header of a loop counts as a join because of its own edge back.
* *Joins.*  Only the follow block of the innermost conditional is known while
  its parts are written: in 0→1,2; 1→4; 2→3,5; 3→4,5 the inner branch writes the
  outer join inside the conditional, and the other part runs past it.
* *Ends of loops.*  `writeLoop` returns without closing the loop when the header
  is the latching block of the loop outside, and leaves `currentLoopHeaderId`
  behind.  An endless loop does not write a latching block that a conditional
  left to it.  An exit block of a header that has been written already is dropped.
* *Headers left out.*  A header that branches inside its loop and latches another
  one is no conditional.  If one of its successors does not lead back
  (`WriteLoopWithoutHeader`), its statements and its test are missing.  That takes
  a loop through the entry, as in 0→1,2; 1→1; 2→0,3; 3→0,2.
* *Ways out.*  A chain of blocks to an exit counts as a way to the follow block;
  writing it follows a null pointer (`Crash`), as does an N-way block without a table.
* *Switches.*  The default block, and a case that has been written, have no text.

### SSAConstruction and SSAExecution

`stage` is the call of `transformIntoSSA` or `subscriptMemoryLocations` that comes
next, `pass` which of the two runs.  `ComputeDominanceFrontier` handles one block
of the dominator tree, `Compute_Aorig` and `AddUsedRelatedToDefinedRegisters`
collect names, `PlacePhis` takes one defining block of one name.  `frames` is the
call stack of `renameVariables`: `RenameInstruction`, `FillArguments`,
`RenameChild` and `ReturnFromBlock` are the parts of its body.  `NextSwitch`,
`SearchBlock`, `ReturnFromSearch`, `GiveUp` and `CorrectSwitch` are
`updateSwitchVariableSubscript`; `search` is the call stack of
`getInstructionsByAddress`.  An instruction is the names it uses and defines:
which expressions those are is the lifter's part.

`SSAExecution` says what this is for.  After the passes the function runs along
any path.  Any one write may be marked: `marks` are the names whose last write it
is (a write to a register is one to its related registers too), `versions` the
subscripted names that hold it.  `UsesAgree` says that a use sees the mark by name
if and only if it sees it by subscript.  The call of the function is a write of
every name with subscript 0.

The properties show by their conditions where the code does not keep this:

* `WrittenTogether`: a definition of a register defines the related ones, and the
  phi functions of a join stand in the order of their names.  With writes to both
  `ah` and `al` the phi function of `al` redefines `eax`, although `eax` changed
  by way of `ah`, and the use of `eax` that follows reads the wrong version.  With a
  write to `eax` and one to `al` after it a use of `ah` does: the phi function of
  `eax` redefines `ah`, from the version of `eax` that the write to `al` made.  Related registers of which one is
  defined and the other mentioned must be written by the same instructions;
  functions that know two registers of a nest, or only `al` and `ah`, do that.
* `EntryNotTarget`: a phi function at the entry block has an argument for each
  branch to it and none for the call.
* One switch: the method returns after the first switch it corrects.
* `NoPhiAtIdiom`: nothing initialises the address of a phi function; if it
  happens to be that of an idiom, it is taken for its start.  The model chooses
  it freely between 0 and the addresses of idioms.
* `ConstructionEnds` holds because the start of each idiom is found above its
  switch; else `getInstructionsByAddress` never returns in a loop.

### DataFlow and TranslationOutOfSSA

`ir` is a function: its instructions by number, their order in the blocks, and
the two maps `definitionsMap` (`defs`) and `usesMap` (`uses`).  `pass` is the call
that the plugin makes next (`AfterPass` lists them), `step` and `todo` are the
loops inside of one: a step replaces one phi function, looks at one definition, or
ends a turn.  `live`, `classes`, `phiVariables` and `phiInterference` are the maps
of the translation out of SSA; `BreakInterference` handles one phi function, in
any order, because the code keeps them in a map ordered by address.

An expression is a sum of variables with factors.  That is enough for what the
algorithms look at (which variables, how many operands, constants or not), and it
has a value: `ProgramSemantics` runs a function along a path and keeps what it
passes to calls, stores outside the stack, tests and returns.

What the model shows about these passes, in the conditions of the properties:

* `LivenessRight`: a block without instructions does not pass on what is live
  (LivenessAnalysis.cpp:177), so functions with empty blocks are left out.
* `CopiesKept`: when pairs of variables that interfere without being in each
  other's way are resolved, a variable that another pair needs copied is taken
  off the list (InterferenceBreaker.cpp:298).
* `UsesKnown`: the copy of an argument of a phi function is not entered in
  `usesMap` (InterferenceBreaker.cpp:324), so the phi functions' elimination does
  not rename the variable in it.
* `Separate`: a copy for the beginning of a block that has phi functions only is
  dropped (:368), and one for the end of a block with a direct or a table jump is
  put behind the jump (:379).
* `Unmirrored`: copies of memory locations get a name that their uses do not get.
  A variable no version of which is defined is taken for memory if its name begins
  with `mem[` (PhiFunctionsEliminator.cpp:278).  No name does (`NameBegins`): pointers
  are written `*(...)`, the mirrors, as local variables, `loc_...`.
* `Unified`: unification of related registers renames definitions to registers
  that nothing writes.
* Dead-code elimination compares subscripts without names
  (DeadCodeElimination.cpp:196).  That does no harm in these functions.

### Lifting

`LiftedExecution` runs a piece of code twice: `cpu` is the processor's state,
`ir` that of the intermediate code, whose flags are not bits but the macros that
define them, as in the code.  A step lifts one instruction (`updateInstructionList`
with the handler of `InstructionDecoding`), runs what comes out, and runs the
instruction on the processor.  A condition runs as the comparison that
`translateCondition` makes of it.  Words have `WordBits` bits.  The numbers of the
FPU are symbolic terms, so that two computations are equal only if they are the
same one; only the numbers 0, 1 and NaN are compared.

Where the two are known to differ, `deviations` names the reason and the run
stops.  Each condition is as tight as the model can make it: for each one there
is an instruction of the run that does differ.  They are, with the lines of
InstructionHandler.cpp unless another file is named:

* *Flags.*  After a subtraction with a result the comparison is that of the
  result with 0: wrong for unsigned conditions that borrow and signed ones that
  overflow.  `test a, b` with different operands becomes a comparison of `a` with
  `b` (ConditionCodePropagation.cpp:369).  `jae` and `jno` after a logical
  operation are translated to nothing that jumps.  `setae` appends a jump (:555).
  Conditions that read flags of two instructions, and comparisons of NaN, are
  translated as if that could not be.
* *Divisions.*  `getDivisionExpression` (:939) ignores its arguments, so reversed
  divisions are not reversed (:1270).  A division has one word as dividend; the
  remainder is assigned first and overwrites a divisor in `dx` (:1166).
* *Order of assignments.*  The second operand of `sub` and `xchg` is read again
  after the first was written.  `push` and `pop` of an operand with the stack
  pointer see it already moved.
* *Addresses.*  The base `bp` of an address with a SIB byte is dropped and the
  stack pointer is counted twice in one (OperandHandler.cpp:330-387); `lea` with a
  SIB byte reads memory.
* *Other instructions.*  The rotations are all the same function (:1683); `loop`
  does not count down (:1543); `enter`, `leave` and `scas` are not lifted; `cmps`
  becomes a call of `memncmp`, which leaves the index registers where they would
  be without a mismatch; calls of
  functions with unknown signature take nothing from the stack; `fist` and its
  relatives store numbers that are not rounded.

### Simplification

`ExpressionSimplification` has the two halves of a propagation.  `ReplaceChild`
puts the definition in the place of the variable; `applyLocalSimplifications`
looks for an operator on the variable that meets the one its definition begins
with.  `Simplify` then goes over the result: in an associative operation `Scan`
compares every operand with those behind it (`MergeInAddition`,
`MergeInMultiplication`, `MergeInLogical`), and `combineConstants` gathers the
constants.  Expressions are trees with values here; the code changes them in
place, on copies, so that no two of them share a part.

`ExpressionRewriting` has a `program` of three instructions and one action,
`Propagate`, for any two of them, so that definitions are propagated in any order,
into results of earlier steps too.  `original` is what each instruction was worth
at first, in a machine with words of `WordBits` bits.  A step that goes wrong is
recorded in `deviations` and not made.  The reasons, each of which the run meets:

* *The sign of a product.*  In the sum of two products with the same variables the
  sign of the second only is looked at (AdditionExpression.cpp:257).
* *A null pointer.*  When a variable meets a product of it behind a minus, the
  negation is cast to a product (:87, :101).
* *The sign of a conditional expression.*  A constant is added to the arms of a
  conditional expression also if there is a minus before it (:55).
* *A comparison of constants.*  A conditional expression on two constants is
  decided by their equality, whatever the operator is (HighLevelCondition.cpp:145).
* *Past the last operand.*  After `x V ~x` XOR goes on into its default case: it
  passes over an operand, or runs past the end (XORExpression.cpp:60-68).
* *Signs that are not shown.*  Expressions are compared by their text
  (Expression.cpp:44), in which signed and unsigned shifts and divisions are the
  same; two different ones are merged.
* *Out of range.*  A constant does not fit in an `int`.

The casts of two constants in a sum (AdditionExpression.cpp:45) look past a minus as well,
but a minus never has a constant behind it: that is the first half of
`SimplificationPreserves`.

All of these are observations about the code; no document of the repository
claims otherwise.

## 3. Runs

| run | instance | shows |
|---|---|---|
| `small_graphs` | all flow charts of up to 3 blocks, with switches, indirect jumps, self-loops | `TypeOK`, `GraphConsistent`, `StaysDefined` |
| `condition_graphs` | all forward chains of 4 branches, mixed graphs of 4 blocks, all valuations of 4 atoms | `NothingLeftToReduce`, `ReducesByContraction`, `Terminates` |
| `condition_trees` | sequences of merges up to 5 atoms over 3 atoms, one of them a flag condition | `Describes`, `TestsInOrder` |
| `derived_graphs` | all graphs of up to 4 blocks, out-degree up to 2 | `TypeOK`, `IntervalsDisjoint`, `HeaderDominates`, `CollapsesProgram`, `LimitTellsReducible`, `LevelsShrink`, `EndsInLimitGraph` |
| `loop_structuring` | all graphs of up to 3 blocks, branches with two equal edges included; of 4 with no switch or one at the entry; of 5 with a loop at block 1 | `NaturalLoops`, `AllLoopsFound`, `ExitsFollowed` |
| `branch_structuring` | all graphs of up to 3 blocks; of 4 with switches anywhere | `SwitchesTerminate`, `EveryBranchStructured` |
| `code_generation` | all graphs of up to 3 blocks; of 4 with a switch at the entry, and some with branches to the entry; reducible ones of 4 and 5 with one edge back per loop; loop-free ones of 6; two parts in 7 | `GotosLeadToBlocks`, `DecidedOnce`, `TextFollowsGraph` |
| `ssa_construction` | all functions of up to 3 blocks, blocks that write `al`, `eax`, memory or nothing (one writes nothing); five shapes of 4 and 5 blocks with up to two writes; `ah` beside `al`; calls; switches, one and two | `SingleAssignment`, `DefinitionsDominateUses`, `ArgumentsFilled`, `UsesAgree`, `SwitchReadsIdiom`, `ConstructionEnds` |
| `data_flow` | some 2 000 functions: two branches, loops, nests, memory on the stack and elsewhere, parts of registers, a moving stack pointer | `TracePreserved`, `UsesMapExact`, `NothingDead`, `ArgumentsFound`, `LivenessRight`, `InterferenceFree`, `EliminationPreserves` |
| `data_flow_ends` | those of them with loops | `TranslationEnds` |
| `lifting` | pieces of two to four instructions on words of three bits: all condition codes after all kinds of flags, addresses, the stack, calls, strings, the FPU | `ComputesTheSame`, `BranchesTheSame` |
| `simplification` | 20 first definitions, 30 second ones, 26 uses of both, on words of four bits and for three values of the unknown variables, in all orders of propagation | `SimplificationPreserves` |

**Bounds.** Three blocks are enough for every pair of a removed block and a
predecessor or successor of each kind, with ids below, equal to and above the
removed one.  Four branches are enough for a merge of merged conditions in every
nesting and for a second pass.  Four blocks hold the smallest irreducible
region, two nested loops, and a level after the first one.  `MaxLevels` is
more than the blocks: a sequence that ends loses a vertex with every level, so
only sequences without end are cut off.  `MaxOperands` bounds the atoms of a
condition.  All flow charts have at most one block without predecessor, which is
what `IRBuilder::hasMultipleHeaders` lets through.  For the structuring runs,
five blocks with a loop at block 1 hold a loop in a loop, a loop with a break, a
conditional in a loop and two loops one after the other; six blocks without a
loop hold a conditional in each part of a conditional, and in each other; seven
are needed for an unresolved branch beside one that is resolved (`TwoParts`).  In
the graphs of four blocks with a switch and in those of five and six, the true
successor of a branch has the smaller number; the others have both orders.  For
SSA construction the shapes are a join, a join in a loop, nested loops, a loop with
two entries and a join below joins, which is where phi functions need further phi
functions; registers related in one chain, and one pair that is not, cover what
`relatedRegistersNames` can hold for one use.  In the graphs of three blocks the
entry is no target; those of one and two blocks also have a branch to the entry.
The memory locations get their pass with the same blocks.

The functions of the data-flow runs have the shapes that the passes tell apart: a
branch and a join, a loop of one block and of two, one loop in the other, a loop
with two entries.  Blocks hold one or two instructions; a swap in a loop is what
needs copies on both sides of a phi function.  `MaxPath` blocks of a path are run,
which takes each loop twice.  Three bits hold numbers on both sides of zero with
carry and overflow apart; words are addresses too, so that all addresses exist.
Two instructions are enough for flags and their test, three for a test of flags
that another instruction overwrote, four for the FPU's status word, which goes
through `AH`.

For simplification two definitions are needed for an operation to come into an
operation that came in itself; four bits for factors up to 3 beside numbers out
of range; the three values of the unknown variables are two different ones, two
with other signs, and two equal ones.

**Deadlock.** The passes end; the runs therefore check no deadlock.
`Terminates` and `EndsInLimitGraph` say that they end where they should.

**Fairness.** `WF_vars(Next)`: the analysis is one thread that nothing blocks, so
it takes its next step as long as it has one; for SSA construction only the passes
are fair, the run of the function is not.  `TranslationOutOfSSA` writes weak
fairness of `Next` out, because TLC takes very long to evaluate its ENABLED.  The
structuring runs check safety only.  In place of liveness, `SwitchesTerminate` excludes the one recursion
without end that the structuring passes have.  That `writeCode` ends is not
stated; each block is handled once.

**Abstract specification.** `BlockContraction` has a single step: a silent block
is contracted, and whoever continued in it continues where it would have
continued in the same machine state.  `ReducesByContraction` says that every
step before a misrouting one is such a step or changes no branch.

## 4. Proofs

`GraphReduction_proofs` proves, for every set of flow charts and machine states:
`TypeCorrect`, `Consistent`, `Defined`, all from the inductive invariant `IInv`
of theorem `Invariant`.  The type invariant and the consistency of the graph
are inductive only together: a dangling edge would make a merge read a block
that does not exist, so types need closedness; closedness after `removeNode`
rests on that no edge leads to the removed block, which the code knows only from
the cached predecessor sets, so it needs that they are exact.  The lemmas follow
the code: `UpdateNodeEdgesType`, `RenumberType`, `WithoutNodeGraph`,
`UpdateNodesPredecessorsGraph`, `WithoutNodeClosed` speak of `removeNode`;
`RedirectType` of elimination; `SharedSuccessor`, `MergeIntoStep`,
`CompoundConditions`, `MergeSharedStep` of the merges; then there is one lemma
per action and `NextInvariant` combines them.

The refinement is the theorem `ImplementsContraction`: `Spec` implies
`ReducesByContraction`, every step before a misrouting one is a step of
`BlockContraction` or changes no branch.  `IInv` is not enough for it.  What the
refinement mapping says of a block goes by the identity it had in the function,
so `RInv` adds `Traceable` while nothing is misrouted: the entry is there, no two
blocks have the same identity, and the jump table of a switch names its
successors.  Contraction then compares where each block continues before and after:
elimination sends whoever came to the removed block where it went, a merge sends
the head, state by state, where the two branches sent it together.  The half negated
operands of an aliased condition are the case in which this fails, and there
`misrouted` is true.

`ReducedAsFarAsPossible` proves `NothingLeftToReduce`: no empty one-way block and no
branch that heads a pattern is left.  The passes visit what was in the postorder at
their start, while blocks are merged and renumbered under them, so `ReducedInv` says
what a pass has to show for itself: no block that goes on to one other block is empty
once elimination is over (`NoneEmpty`: a merge removes a branch, and its head stays a branch, so none
appears, `MergeLeavesNoneEmpty`); and as long as a pass has merged nothing, each
branch that heads a pattern is still ahead of it in `order` (`HeadsAhead`).  A pass that
merges nothing has passed every block because its order has every block, which is the
theorem `PostOrderComplete`.

`ConditionTrees_proofs` proves both properties of `ConditionTrees`, for any atoms,
any of them flag conditions, and conditions of any size: `TreesDescribed` and
`OrderKept`.  Facts about all trees are proved from a smallest depth at which they
would fail (`TreeInduction`), as the recursion itself is justified (`ValuesExist` builds
it depth by depth, `OverTreesAt` is its equation).  `NegationLaws` says what
`getNegatedExpression` returns and what it leaves of its argument: what is returned
is true where the argument was false and tests its atoms in the same order; what is
left is the argument again after a second call, and negating and what a call leaves
commute.  They differ because a flag condition gets a negation of its own while a
comparison is turned around in place, which a merge that drops the result does not
undo.  The inductive invariant `TreeInv` adds that a condition of `n` atoms nests
less than `n` deep, without which a merge would leave the trees; `StandingMerged`
and `StandingNegated` are the two kinds of merges.

`GraphTraversal_proofs` proves that theorem for every graph: each vertex is in the
postorder exactly once, also those that vertex 0 does not reach.  `Visit` is a recursive function
on pairs of a vertex and the state of the search.  That there is a function
which satisfies its equation is not free: `VisitExists` builds it from functions for calls
that find fewer and fewer vertices unseen (`VisitBelowExists`), and `FewerLeft` says
that every call below does.  A call adds to the order what it adds to the
vertices seen, its own vertex at last (`CallVisits`, `ListVisited`).

`DerivedGraphs_proofs` proves, for graphs of any size and sequences of any length:
`TypeCorrect`, `Disjoint`, `SingleEntryRegions`, `Defined`, `Collapses` and
`Shrinks`.  Its `IInv` has six parts.  `Types` is the type invariant with the
relation of the header sets.  `AllEnclosed` (the predecessors of every vertex but
the header are in the interval), `Found` (every header but the entry is a
successor of some finished interval) and `Covered` (successors of a finished
interval are in it or headers) are what the three loops keep, whatever the graph.
`SingleEntry` follows from them and the fact that the entry has no predecessor: a
header inside of a finished interval, or a vertex about to be taken from one,
would share a predecessor with two disjoint intervals (`HeaderIsFree`,
`AddNodesToIntervalStep`).  `Complete` carries reachability and the collapsed
graph from level to level: when the headers run out the intervals contain the
entry and are closed under the edges, so they are everything
(`EveryVertexHasInterval`); `VertexOf` is a bijection (`VertexNumbers`), the edges
of the next graph are exactly those between two intervals (`NextGraphEdges`),
and so entry, reachability and collapse carry over (`NextGraphEntry`,
`NextGraphReachable`, `NextLevelCollapsed`).

`LimitReducible` proves `LimitTellsReducible`: the limit graph is a single vertex
exactly for the functions every loop of which has one entry.  `RInv` adds to `IInv`
what makes an interval more than a single-entry region: no circle of it goes past
its header (`NoCircles`), and it has taken in all it could (`Maximal`).  Then an
interval dominates another one exactly if its header dominates the blocks of the
other (`DominatesNext`), so edges lead forward in the next graph exactly if they do
in this one (`ForwardNext`), circles without a back edge appear in one graph if they
are in the other (`ReducibleIfNext`, `NextReducible`), and `KeepsReducible` carries
over from level to level.  In the limit graph no vertex has a single predecessor, but
every reducible graph of several vertices has such a one (`LimitGraph`,
`SinglePredecessor`).

`Structuring_proofs` goes on from there, for functions of any size and with any
number of levels.  All of it is about functions whose entry is no branch target and
reaches every block (`Proper`).

* `SwitchesEnd` proves `SwitchesTerminate`.  If `findFollowNodeId` could go up as many
  times as there are blocks, it would have come to one block twice, and the blocks
  between have no predecessor outside of them (`ClimbStops`): nothing would reach
  them.
* `LoopsAreNatural` proves `NaturalLoops`, `NoLoopMissed` proves `AllLoopsFound`.
  `NWayStructurer` and the loops speak of blocks, the intervals of vertices of a
  level, so the invariant `LoopInv` says what is known of each level that
  was saved: `Level` (its graph is the function with blocks collapsed, its vertices
  are divided into intervals in which no circle avoids the header, and control comes
  to the blocks of each vertex at one entry block) and `LevelFits` (the vertices of
  a level are the intervals of the one before, and none has an edge to itself).
  `RegionEntry` carries the entry block from the header to its interval, and so from
  level to level.
* The header that `getOriginalHeaderLatchingNodes` finds is that entry block
  (`PairOfBlocks`), so it dominates the blocks of the interval, and every
  predecessor among them is a latching block.  A path inside of the interval that
  leads to the header is therefore a path of the natural loop.  If there is one
  latching block, no path to it leaves the interval without passing the header, and
  none avoids it (`LoopNodesNatural`).  `ReachIn` is a fixed number of steps back;
  that these are enough is `ReachInClosed`, the blocks being counted, and
  `ReachInLeast`.
* For a back edge of a reducible function there is a first level on which both
  ends are in one interval, as the limit graph is a single vertex (`LevelOfBackEdge`,
  from `LimitTellsReducible`).  There they are in different vertices, and the target
  must be the header: otherwise the vertices beside the header that it dominates
  a block of would each have a predecessor among them, in a circle that avoids the
  header (`BackEdgeToHeader`).  `LoopsKnown` says that the edge has its loop once the
  level was looked at.
* `LoopsAreLeft` proves `ExitsFollowed`: a tested loop is left by the test it was
  given, and its follow block is outside.  `findSuccessorNotInSet` returns the last
  successor if all are in the set, so this says that one is not.  If both successors
  of a latching branch were in its loop, the one that is not the header would lie on a circle
  that avoids the header (`LatchingLeaves`), and a circle of a reducible function
  has a block that it goes back to (`NestedHeader`: as the forward edges have no
  circle, among the blocks of these circles there is one to which all edges
  from the others are back edges); that block would be the header of a nested loop with
  the latching block inside.  The
  conditions of `EndsAtLatching` are what this argument needs.  One of them, that the
  two edges of the latching branch do not both lead to the header, was found by
  TLC when the proof asked for it: in 0→1→2→1, 2 being a branch with two equal
  targets, the loop is typed as tested and its follow block is its own header.
  `ControlFlowGraph` gives a branch one edge per field, and nothing keeps the fields
  different.
* `BranchesStructured` proves `EveryBranchStructured`.  A conditional is made when it is
  visited, or taken up as unresolved and handled later; `TakesAll` says that
  of the postorder everything before `turn` was taken up, and `PostOrderComplete` that
  the postorder has all.  `TakesConditionals` says that nothing that tests a loop is among them.
* `BranchesDecidedOnce` proves `DecidedOnce` of the text, in any step of the generator.
  `WritesOnce` puts the lines written together with the calls under way: of the lines
  that test block v (`Deciding`) and the calls that will write one (`Own`) there is one
  at most, and none before v is handled.  `WriteCode` is the only step that makes a first
  call for a block, and the others pass it on (`Fresh`).  A `do while` is about another
  block than its call, the latching one, so a closed loop is remembered by `Closed1`.
  Two things come from the earlier passes: a block that is a conditional tests no loop
  (`BranchInv`), and no block is the latching block of two loops, nor of
  another loop when it is a header (`OneLoopEndsThere`, from `LoopInv` and
  the nesting that `WellNested` asks for: of two headers that dominate one block one lies
  in the loop of the other, `HeaderOnTheWay`).  Each step has a lemma of its own; what
  they have in common is `Written`, and `QuietStep` and `DecidingStep` for steps that
  write no test and one.

`SSAExecution_proofs` proves `SingleAssignmentHolds` for functions of any size and
any relation between registers.  That versions differ is not inductive: the
invariant adds that `SSACount` bounds the versions given out for the names of the
pass (`CountOK`), that the passes have disjoint names, so that the second may count
from zero again (`NamesOK`), and that blocks stay lists of instructions with lists
of definitions, without which pushes could not be counted (`CodeOK`).
`VersionsAreNew` is the step of an instruction.

It also proves that definitions dominate uses, at any time of the construction and
in both passes (`VersionsDominateUses`).  Nothing in the code checks that; it hangs
on stacks that are pushed and popped by recursive calls.  `UsesInv` says why the
stacks are right:

* `InPath`: the calls of `renameVariables` that are under way are about different
  blocks, each of which dominates those after it.
* `StackOK`: there are heights, one for each call and name, at which the call found
  the stacks; what lies below was pushed by the calls before, is the version of a
  definition in one of their blocks, and comes before the instruction that call has
  got to (`GivenBy`).  A call that returns pops exactly down to its height.
* `UsesOK`, `ArgsOK`: the versions that were given to uses and arguments so far have
  their definition.  This is about the order of the instructions in a block, so
  `IdsDiffer` and `PhisNamed` say that no phi function is placed twice in a block
  and none while its name is renamed: placing moves the instructions of a block but
  keeps their order (`PlacedIn`).
* `SwitchesOK`: only an instruction that has an idiom is corrected afterwards.

`DefinitionsDominate` concludes `DefinitionsDominateUses` for functions whose
switches have no idiom.  For the others it would say where an idiom is found: if
its first instruction is on one path to the switch only, the version it tested does
not dominate the switch.  The functions of the run have the idiom where compilers
put it, and there TLC finds that the property holds with idioms too.

That every argument of a phi function gets filled, and by its own predecessor, is
`EveryPredecessorFills`, which proves `ArgumentsFilled`.  The code takes the first
empty argument and checks neither that there is one nor who filled the others, so
this is about which blocks are yet to come.  `ArgsInv` extends `UsesInv`:

* `Rooted`: each call was made by the one below it, which has struck its block off.
* `FilledSoFar`: the arguments filled in a block are those of its predecessors that
  are not in `Remaining`, the blocks whose call has not filled in yet, be it that it
  is about to or that a block above them in the dominator tree waits to be called
  (`WaitsIn`).
* `PhisLead`: phi functions come first in a block; what fills in arguments stops
  at the first instruction that is none.

Each block fills in once (`FilledOnce`) because the children of a block in the
dominator tree divide what it dominates among them; calling a child changes nothing
about what remains (`ChildKeepsRemaining`).  A predecessor that remains finds an
empty argument because there are as many arguments as predecessors
(`ArgumentLeft`).  When the last call has returned nothing remains.

`Dominance_proofs` has the facts about dominators that this needs, for any graph:
dominance is an order, the dominators of a vertex are on one line, each vertex
that can be reached has exactly one immediate dominator, and what can be reached is
the least set that contains the entry and is closed under the edges.  A vertex that
another one dominates is below exactly one of its children (`FirstInLine`,
`ChildrenCover`, `ChildrenDisjoint`).  The existence
of the immediate dominator is an induction over numbers of dominators, in the form
of a smallest counterexample (`SmallestNumber`).

`SSAVersions_proofs` proves the purpose of all this, `UsesReadTheSame`: when the
function runs, a use sees a marked write by name exactly if it sees it by version.
No part of the construction has that property by itself.  The invariant
`ExecutionInv` adds to `ArgsInv` what each part contributes:

* Frontiers (`FrontiersExact`).  Where the code adds successors and what the
  children hand up, the set is the frontier by its definition, `FrontierOf`.  A block
  that is in the frontier but is no successor was reached through a block that a
  child dominates, so it is in the frontier of that child (`ChildrenCover`).
* Names (`NamesInv`).  A name that is defined in a pass gets phi functions, and a
  used one that is related to it is among the names of the pass.
* Placing (`PlacingRight`, `PhisPlaced`).  Of the worklist, each definition that was
  taken out has a phi function in all of its frontier; when the list is empty, each
  definition has, phi functions included (`EveryFrontierHasPhis`).
* The latest write.  `Latest(n, s, b, i)` says that `s` is the version of the write
  to `n` that comes last before instruction `i` of block `b` along its dominators,
  or 0 if there is none.  The tops of the stacks are the latest versions at the
  place that each call has got to (`StackLatest`), so what renaming gives to uses
  is the latest too (`UsesLatest`), and what it gives to arguments is the latest at
  the end of the predecessor (`ArgsLatest`).
* Nothing is overlooked.  A use of a name of the pass in a block that renaming has
  passed has a version (`RenamedSoFar`); one that has none in the end has a name
  that nothing writes (`UsesGiven`); an argument without one has no source
  (`EmptyArguments`).
* The run (`RunInv`).  Where the function is, a name is marked if and only if its
  latest version is (`MarksRight`).  An instruction that writes the name becomes the
  latest write.  The step that needs the frontiers is a branch to a block without a
  phi function for the name (`JumpKeepsMarks`): the latest write at the end of the
  predecessor dominates the block, or else the block would be in its frontier and
  hold a phi function; so it is the latest write there too.  With a phi
  function the latest write is the phi function, whose argument for this
  predecessor (`EveryPredecessorFills` says that there is one) is the latest version
  at its end.

The phi functions of a join are run one after the other by the names they write.
It takes `WrittenTogether` for the related registers to have the same marks
(the last part of `MarksRight`), and `EntryNotTarget` because the call of the function
is no predecessor.  That both conditions are needed is known from the runs that TLC
found violated without them.

The assumptions are `ChartsAssumption` (what a flow chart is),
`AtomsAssumption` (a machine state is the set of atoms that are true in it; flag
conditions are atoms; a condition has room for an atom),
`FlowGraphsAssumption` (what a graph is), `BlocksAssumption` (a block has the
edges that `GraphConverter::convertToBoostGraph` adds for its type, one per field of
the node: none, one, two, or those of a switch), `NamesAssumption` and
`ProgramsAssumption` (registers are related to registers only, and each to the other:
Register.cpp:19-137 lists `eax` with `al` and `al` with `eax`; a function is a
graph with a list of instructions per block); TLC evaluates them in its runs.

Model-checked only: liveness; of `CodeGeneration` `GotosLeadToBlocks` and `TextFollowsGraph` (what
they say is said by an interpreter of the text); of SSA construction `SwitchReadsIdiom` (it depends on
where compilers put the start of an idiom, and the functions of the run have it
there); everything about data flow, the translation out
of SSA, lifting and simplification (values of expressions are RECURSIVE operators).

## 5. What is not modelled, and the plan

PROJECT.json lists every component with its status.  Left, in this order:

1. The type lattice and the propagation of types.
2. Flags that a phi function defines (ConditionCodePropagation.cpp:267, whose
   condition is the wrong way round), and the switch idioms in the lifter, of which
   `SSAExecution` models what comes after.
3. Proofs: `SwitchReadsIdiom`, once it is said for which functions the block that
   holds the start of an idiom dominates the switch; the translation out of SSA, whose
   classes would have to be stated without RECURSIVE operators; and of
   `CodeGeneration` that the text follows the graph, for which an invariant would have to
   say how the lines written are nested while calls are under way.

Of lifting, three things are left out because the model has nothing to hold them
against: names and strings, the types of operands beyond their sign, and registers
that are parts of others, whose relation `SSAProgram` models.

Not planned: user interface, output, text colouring (`plugin.cpp`, viewers) and
the commented-out `SSABackTranslator.cpp`.
