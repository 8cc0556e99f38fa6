---------------------------- MODULE SSAExecution ----------------------------
(***************************************************************************)
(* What SSAConstruction promises.  Once the names have their subscripts    *)
(* the function runs, twice at the same time: a use of x reads what was    *)
(* last written to x, or to a register that is part of x or has x as a     *)
(* part, and a use of x_3 what was written to x_3.  One write of the run   *)
(* is marked, any one, and it must be seen by the same uses in both.  The  *)
(* call of the function counts as a write of every x_0.                    *)
(***************************************************************************)
EXTENDS SSAConstruction

VARIABLES
  at,         \* the block that runs, -1 before the entry
  next,       \* its next instruction
  isMarked,   \* the marked write has happened
  marks,      \* the names whose last write it is
  versions,   \* the versions it was written to
  tested      \* what the switch variable was at the start of the idiom

machine == <<at, next, isMarked, marks, versions, tested>>

ExecutionInit ==
  /\ Init
  /\ at = -1 /\ next = 1 /\ isMarked = FALSE /\ marks = {} /\ versions = {} /\ tested = FALSE

VersionsOf(inst) == {<<d[1], d[2]>> : d \in {e \in definitions : e[3] = inst.id}}
WrittenBy(inst) == UNION {{d.name} \cup Related[d.name] : d \in ToSet(inst.defs)}

\* The phi functions of a block read the arguments of the edge, all at once.
Phis(b) == {inst \in ToSet(code[b]) : IsPhi(inst)}
Argument(phi, from) == {<<phi.defs[1].name, a.sub>> : a \in {x \in ToSet(phi.args) : x.source = from}}

Enter(b, before) ==
  /\ at' = b /\ next' = LeadingPhis(code[b]) + 1
  /\ versions' = (before \ UNION {VersionsOf(phi) : phi \in Phis(b)})
                 \cup UNION {VersionsOf(phi) : phi \in {p \in Phis(b) : Argument(p, at) \cap before # {}}}

Running == stage = "done" /\ at # -1 /\ next <= Len(code[at])
Instruction == code[at][next]

RunInstruction(mark) ==
  LET inst == Instruction
      idioms == {s.uses[1].name : s \in {i \in Instructions : i.idiom # 0 /\ i.idiom = inst.address}}
  IN  /\ Running
      /\ mark => ~ isMarked /\ inst.defs # <<>>
      /\ marks' = (marks \ WrittenBy(inst)) \cup (IF mark THEN WrittenBy(inst) ELSE {})
      /\ versions' = (versions \ VersionsOf(inst)) \cup (IF mark THEN VersionsOf(inst) ELSE {})
      /\ isMarked' = (isMarked \/ mark)
      /\ tested' = IF idioms # {} THEN idioms \cap marks # {} ELSE tested
      /\ next' = next + 1 /\ UNCHANGED at

Start(mark) ==
  /\ stage = "done" /\ at = -1
  /\ Enter(0, IF mark THEN Names \X {0, NO_SUBSCRIPT} ELSE {})
  /\ marks' = IF mark THEN Names ELSE {}
  /\ isMarked' = mark /\ UNCHANGED tested

Jump ==
  /\ stage = "done" /\ at # -1 /\ next > Len(code[at])
  /\ \E b \in Succs(program, at) : Enter(b, versions)
  /\ UNCHANGED <<isMarked, marks, tested>>

Next ==
  \/ Construct /\ UNCHANGED machine
  \/ (Jump \/ \E mark \in BOOLEAN : Start(mark) \/ RunInstruction(mark)) /\ UNCHANGED vars

Spec == ExecutionInit /\ [][Next]_<<vars, machine>> /\ WF_<<vars, machine>>(Construct /\ UNCHANGED machine)

-----------------------------------------------------------------------------
(* The state of the construction.                                          *)

\* A version is defined by one instruction, also when it gets its number as the
\* part of another register, and in both passes.  (renameVariables)
SingleAssignment ==
  \A d, e \in definitions : d[1] = e[1] /\ d[2] = e[2] => d[3] = e[3]

\* The passes are over and the function has not started.
Constructed == stage = "done" /\ at = -1

PositionOf(id) == CHOOSE i \in DOMAIN code[id[1]] : code[id[1]][i].id = id

\* The definition of a version reaches the end of block b.
DefinedIn(n, s, b) ==
  s = 0 \/ \E d \in definitions : d[1] = n /\ d[2] = s /\ Dominates(program, d[3][1], b)

DefinedBefore(n, s, b, i) ==
  s = 0 \/ \E d \in definitions :
             /\ d[1] = n /\ d[2] = s
             /\ IF d[3][1] = b THEN PositionOf(d[3]) < i ELSE Dominates(program, d[3][1], b)

\* No phi function happens to have the address of an idiom.
NoPhiAtIdiom == \A inst \in Instructions : IsPhi(inst) => inst.address = 0

\* Definitions dominate uses; the definition of an argument of a phi function
\* dominates the predecessor it comes from.  (renameVariables: a stack that is
\* not popped gives versions of a block to its siblings)
DefinitionsDominateUses ==
  Constructed /\ NoPhiAtIdiom =>
    \A b \in Reached(program) : \A i \in DOMAIN code[b] :
      LET inst == code[b][i]
      IN  /\ \A u \in ToSet(inst.uses) : u.sub # NO_SUBSCRIPT => DefinedBefore(u.name, u.sub, b, i)
          /\ \A a \in ToSet(inst.args) :
               a.sub # NO_SUBSCRIPT => DefinedIn(inst.defs[1].name, a.sub, a.source)

\* A phi function has one argument for each predecessor of its block: each is
\* filled by another block, also when blocks are visited again in the second
\* pass.  (renameVariables, if no block is unreachable)
ArgumentsFilled ==
  Constructed /\ AllReachable(program) =>
    \A b \in Blocks : \A phi \in Phis(b) :
      {phi.args[k].source : k \in DOMAIN phi.args} = Preds(program, b)

\* Registers that are related are written together, if one has definitions and
\* the other is mentioned: not so if al and eax are written and ah is used, or
\* al and ah are written and eax is used.
WrittenTogether ==
  \A inst \in Instructions : \A n \in Mentioned(inst.uses) \cup Mentioned(inst.defs) :
    \A other \in Instructions : \A m \in Mentioned(other.defs) \cap Related[n] :
      \A writer \in Instructions : m \in WrittenBy(writer) <=> n \in WrittenBy(writer)

\* A use reads the write it read before the names had subscripts.  A phi
\* function at the entry would have no argument for the call of the function.
\* (place_Phi_Functions, renameVariables)
UsesAgree ==
  Running /\ EntryNotTarget(program) /\ WrittenTogether =>
    \A u \in ToSet(Instruction.uses) :
      Instruction.idiom # 0 \/ (u.name \in marks <=> <<u.name, u.sub>> \in versions)

\* A switch tests what its variable was at the start of the idiom, whatever the
\* idiom did to it.  With several switches only one is corrected.
\* (updateSwitchVariableSubscript)
SwitchReadsIdiom ==
  Running /\ EntryNotTarget(program) /\ WrittenTogether /\ NoPhiAtIdiom /\ Cardinality({b \in Blocks : IsSwitch(b)}) = 1 =>
    (Instruction.idiom # 0 => (tested <=> <<Instruction.uses[1].name, Instruction.uses[1].sub>> \in versions))

\* The passes end: no name is placed for ever, every block is renamed once, and
\* the start of the idiom is found.
ConstructionEnds == <>(stage = "done")

=============================================================================
