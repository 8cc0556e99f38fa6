-------------------------- MODULE SSAConstruction --------------------------
(***************************************************************************)
(* SSATransformer: transformIntoSSA gives the registers and flags of a     *)
(* function subscripts, subscriptMemoryLocations later its memory          *)
(* locations.  Both place phi functions on the dominance frontier of the   *)
(* definitions and rename along the dominator tree.                        *)
(*                                                                         *)
(* A name is a number, so that sets of names have the order of the code's  *)
(* sorted sets of strings.  The expression of an instruction is abstracted *)
(* to the names it uses and defines.                                       *)
(***************************************************************************)
EXTENDS Dominance, SequencesExt

CONSTANTS
  Names,     \* of registers, flags and memory locations
  Memory,    \* the memory locations among them
  Related,   \* relatedRegistersNames of each name
  Programs   \* the functions: [size, edges, code]

ASSUME NamesAssumption ==
  /\ Names \subseteq Nat \ {0}
  /\ IsFiniteSet(Names)
  /\ Memory \subseteq Names
  /\ Related \in [Names -> SUBSET Names]
  /\ \A n \in Names : n \notin Related[n] /\ \A r \in Related[n] : n \in Related[r] /\ {n, r} \cap Memory = {}

InstructionsAsLifted ==
  [type : {"INDIRECT_TABLE_JUMP", "OTHER"}, address : Nat, idiom : Nat, uses : Seq(Names), defs : Seq(Names)]

ASSUME ProgramsAssumption ==
  \A p \in Programs :
    /\ IsGraph(p)
    /\ DOMAIN p.code = Vertices(p)
    /\ \A b \in Vertices(p) : p.code[b] \in Seq(InstructionsAsLifted)

NO_SUBSCRIPT == -1

VARIABLES
  program,      \* the control-flow graph as it was lifted
  code,         \* its blocks: sequences of instructions
  pass,         \* "registers" or "memory"
  stage,        \* the call of the pass that comes next
  handled,      \* the blocks handled while frontiers and names are computed
  frontier,     \* dominanceFrontier
  names,        \* definedVariablesNames
  original,     \* A_orig
  waiting,      \* the names whose phi functions are not placed
  sites,        \* definingNodes of the least of them, minus those handled
  placed,       \* A_phi of that name
  stack,        \* SSAStack
  count,        \* SSACount
  frames,       \* the calls of renameVariables
  definitions,  \* definitionsMap: <<name, subscript, instruction>>
  usesMap,      \* usesMap, without repetitions
  toMatch,      \* the blocks with a switch that are not handled
  search,       \* what the calls of getInstructionsByAddress have still to visit
  matching      \* the blocks of matchingInstructions

placing == <<waiting, sites, placed>>
renaming == <<stack, count, frames, definitions>>
switching == <<toMatch, search, matching>>
vars == <<program, code, pass, stage, handled, frontier, names, original, placing, renaming, usesMap, switching>>

Blocks == Vertices(program)
Least(S) == CHOOSE x \in S : \A y \in S : x <= y

\* The names a pass is about.
NamesOf(p) == IF p = "memory" THEN Memory ELSE Names \ Memory

Mentioned(seq) == {seq[i].name : i \in DOMAIN seq}
IsPhi(inst) == inst.type = "PHI_FUNCTION"
Instructions == UNION {ToSet(code[b]) : b \in Blocks}

-----------------------------------------------------------------------------
(* The function as it was lifted: nothing has a subscript.  A switch has   *)
(* the address at which its idiom starts, or 0 if its variable is unknown; *)
(* the variable is a register.                                             *)

Lifted(b, i, inst) ==
  [id |-> <<b, i>>, type |-> inst.type, address |-> inst.address, idiom |-> inst.idiom,
   uses |-> [k \in DOMAIN inst.uses |-> [name |-> inst.uses[k], sub |-> NO_SUBSCRIPT]],
   defs |-> [k \in DOMAIN inst.defs |-> [name |-> inst.defs[k], sub |-> NO_SUBSCRIPT]],
   args |-> <<>>]

Init ==
  /\ program \in Programs
  /\ code = [b \in Blocks |-> [i \in DOMAIN program.code[b] |-> Lifted(b, i, program.code[b][i])]]
  /\ pass = "registers" /\ stage = "dominators"
  /\ handled = {} /\ frontier = [b \in Blocks |-> {}]
  /\ names = {} /\ original = [b \in Blocks |-> {}]
  /\ waiting = {} /\ sites = {} /\ placed = {}
  /\ stack = <<>> /\ count = <<>> /\ frames = <<>>
  /\ definitions = {} /\ usesMap = {}
  /\ toMatch = {} /\ search = <<>> /\ matching = <<>>

-----------------------------------------------------------------------------
(* Dominance frontiers, up along the dominator tree.                       *)

DF_local(b) == {s \in Succs(program, b) : s \notin ImmediatelyDominated(program, b)}

\* pathExistsDomTree, and the exception that is made for the block itself.
DF_up(b, fromChild) == {x \in fromChild : ~ (x \in Reached(program) /\ Dominates(program, b, x)) \/ x = b}

\* computeDominanceFrontier, for a block whose children are handled.
ComputeDominanceFrontier ==
  LET Children(b) == ImmediatelyDominated(program, b)
  IN  /\ stage = "dominators" /\ handled # Blocks
      /\ \E b \in {Least({x \in Blocks \ handled : Children(x) \subseteq handled})} :
           /\ frontier' = [frontier EXCEPT ![b] = DF_local(b) \cup UNION {DF_up(b, frontier[c]) : c \in Children(b)}]
           /\ handled' = handled \cup {b}
      /\ stage' = IF handled' = Blocks THEN "collect" ELSE "dominators"
      /\ UNCHANGED <<program, code, pass, names, original, placing, renaming, usesMap, switching>>

-----------------------------------------------------------------------------
(* Names that are defined, in each block and anywhere.                     *)

Defined(b) == NamesOf(pass) \cap UNION {Mentioned(code[b][i].defs) : i \in DOMAIN code[b]}

Compute_Aorig ==
  /\ stage = "collect"
  /\ original' = [b \in Blocks |-> Defined(b)]
  /\ names' = UNION {Defined(b) : b \in Blocks}
  /\ handled' = IF pass = "memory" THEN Blocks ELSE {}
  /\ stage' = "related"
  /\ UNCHANGED <<program, code, pass, frontier, placing, renaming, usesMap, switching>>

\* A register, of this pass, is added when it is used and a related one is
\* among the names by then.
WithUse(defined, use) == defined \cup {n \in {use.name} : Related[n] \cap defined # {}}

AddUsedRelatedToDefinedRegisters ==
  LET b == Least(Blocks \ handled)
  IN  /\ stage = "related" /\ handled # Blocks
      /\ names' = NamesOf(pass) \cap
                     FoldLeft(WithUse, names, FlattenSeq([i \in DOMAIN code[b] |-> code[b][i].uses]))
      /\ handled' = handled \cup {b}
      /\ UNCHANGED <<program, code, pass, stage, frontier, original, placing, renaming, usesMap, switching>>

SitesOf(n) == {b \in Blocks : n \in original[b]}
NextSites(rest) == IF rest = {} THEN {} ELSE SitesOf(Least(rest))

StartPlacing ==
  /\ stage = "related" /\ handled = Blocks
  /\ waiting' = names /\ sites' = NextSites(names) /\ placed' = {}
  /\ stage' = "place"
  /\ UNCHANGED <<program, code, pass, handled, frontier, names, original, renaming, usesMap, switching>>

-----------------------------------------------------------------------------
(* place_Phi_Functions, one defining block at a time.                      *)

\* Nothing sets the address of a phi function: it may be that of an idiom.
PhiAddresses == {0} \cup {inst.idiom : inst \in Instructions}

Phi(n, b, address) ==
  [id |-> <<b, -n>>, type |-> "PHI_FUNCTION", address |-> address, idiom |-> 0,
   uses |-> <<>>, defs |-> <<[name |-> n, sub |-> NO_SUBSCRIPT]>>,
   args |-> [i \in 1 .. Cardinality(Preds(program, b)) |-> [sub |-> NO_SUBSCRIPT, source |-> -1]]]

LeadingPhis(seq) == Cardinality({k \in 1 .. Len(seq) : \A i \in 1 .. k : IsPhi(seq[i])})

\* The phi function comes after those of other names.
WithPhi(seq, phi) == InsertAt(seq, LeadingPhis(seq) + 1, phi)

\* The blocks that define the name now and did not before.  Without the test
\* of A_phi a loop is visited for ever.
SitesAgain(n, d) == {b \in frontier[d] : n \notin original[b]}
NewSites(n, d) == {b \in frontier[d] \ placed : n \notin original[b]}

PlacePhis ==
  LET n == Least(waiting)
      d == Least(sites)
      new == frontier[d] \ placed
  IN  /\ stage = "place" /\ sites # {}
      /\ \E address \in [new -> PhiAddresses] :
           code' = [b \in Blocks |-> IF b \in new THEN WithPhi(code[b], Phi(n, b, address[b])) ELSE code[b]]
      /\ placed' = placed \cup new
      /\ sites' = (sites \ {d}) \cup NewSites(n, d)
      /\ UNCHANGED <<program, pass, stage, handled, frontier, names, original, waiting, renaming, usesMap, switching>>

NextName ==
  LET rest == waiting \ {Least(waiting)}
  IN  /\ stage = "place" /\ sites = {} /\ waiting # {}
      /\ waiting' = rest /\ placed' = {}
      /\ sites' = NextSites(rest)
      /\ UNCHANGED <<program, code, pass, stage, handled, frontier, names, original, renaming, usesMap, switching>>

-----------------------------------------------------------------------------
(* renameVariables, one instruction at a time.                             *)

Frame(b) ==
  [block |-> b, next |-> 1, filled |-> FALSE,
   children |-> ImmediatelyDominated(program, b), pushed |-> [n \in names |-> 0]]

StartRenaming ==
  /\ stage = "place" /\ waiting = {}
  /\ stack' = [n \in names |-> <<0>>]
  /\ count' = [n \in names |-> 0]
  /\ frames' = <<Frame(0)>>
  /\ stage' = "rename"
  /\ UNCHANGED <<program, code, pass, handled, frontier, names, original, placing, definitions, usesMap, switching>>

Top == Last(frames)
WithTop(f) == Append(Front(frames), f)
Current == code[Top.block][Top.next]
Version(n) == Last(stack[n])

\* The subscripts that were given to n: not only those still on its stack.
GivenTop(n) == Version(n)
Given(n) == count[n]

\* Defining a register defines the related ones too.
PushesOwn(d, n) == n \in names /\ d = n
Pushes(d, n) == n \in names /\ d \in names /\ (n = d \/ n \in Related[d])
NumberOfPushes(inst, n, last) == Cardinality({k \in 1 .. last : Pushes(inst.defs[k].name, n)})

RenameUse(u) == IF u.name \in names THEN [u EXCEPT !.sub = Version(u.name)] ELSE u

Renamed(inst) ==
  [inst EXCEPT
     !.uses = [k \in DOMAIN @ |-> RenameUse(@[k])],
     !.defs = [k \in DOMAIN @ |->
                 IF @[k].name \notin names THEN @[k]
                 ELSE [@[k] EXCEPT !.sub = Given(inst.defs[k].name) + NumberOfPushes(inst, inst.defs[k].name, k)]]]

RenameInstruction ==
  LET inst == Current
      pushes == [n \in names |-> NumberOfPushes(inst, n, Len(inst.defs))]
      New(n) == [i \in 1 .. pushes[n] |-> Given(n) + i]
  IN  /\ stage = "rename" /\ frames # <<>> /\ Top.next <= Len(code[Top.block])
      /\ code' = [code EXCEPT ![Top.block][Top.next] = Renamed(inst)]
      /\ usesMap' = usesMap \cup {<<u.name, Version(u.name), inst.id>> :
                                    u \in {v \in ToSet(inst.uses) : v.name \in names}}
      /\ stack' = [n \in names |-> stack[n] \o New(n)]
      /\ count' = [n \in names |-> count[n] + pushes[n]]
      /\ definitions' = definitions \cup
           UNION {{<<n, Given(n) + i, inst.id>> : i \in 1 .. pushes[n]} : n \in names}
      /\ frames' = WithTop([Top EXCEPT !.next = @ + 1,
                                       !.pushed = [n \in names |-> @[n] + pushes[n]]])
      /\ UNCHANGED <<program, pass, stage, handled, frontier, names, original, placing, switching>>

\* A block gives each leading phi function of a successor its subscript: in
\* the first argument that has none.
FillAll(phi, b) ==
  [phi EXCEPT !.args = [k \in DOMAIN @ |->
     IF @[k].sub # NO_SUBSCRIPT THEN @[k] ELSE [sub |-> Version(phi.defs[1].name), source |-> b]]]

WithArgument(phi, b) ==
  LET empty == {k \in DOMAIN phi.args : phi.args[k].sub = NO_SUBSCRIPT}
  IN  IF empty = {} THEN phi
      ELSE [phi EXCEPT !.args[Least(empty)] = [sub |-> Version(phi.defs[1].name), source |-> b]]

ToFill(b) == {k \in 1 .. LeadingPhis(code[b]) : code[b][k].defs[1].name \in NamesOf(pass)}

FillArguments ==
  LET b == Top.block
  IN  /\ stage = "rename" /\ frames # <<>> /\ Top.next > Len(code[b]) /\ ~ Top.filled
      /\ code' = [s \in Blocks |->
                    IF s \notin Succs(program, b) THEN code[s]
                    ELSE [k \in DOMAIN code[s] |->
                            IF k \in ToFill(s) THEN WithArgument(code[s][k], b) ELSE code[s][k]]]
      /\ usesMap' = usesMap \cup
           UNION {{<<code[s][k].defs[1].name, Version(code[s][k].defs[1].name), code[s][k].id>> : k \in ToFill(s)} :
                    s \in Succs(program, b)}
      /\ frames' = WithTop([Top EXCEPT !.filled = TRUE])
      /\ UNCHANGED <<program, pass, stage, handled, frontier, names, original, placing, stack, count, definitions, switching>>

RenameChild ==
  LET c == Least(Top.children)
  IN  /\ stage = "rename" /\ frames # <<>> /\ Top.filled /\ Top.children # {}
      /\ frames' = Append(WithTop([Top EXCEPT !.children = @ \ {c}]), Frame(c))
      /\ UNCHANGED <<program, code, pass, stage, handled, frontier, names, original, placing, stack, count,
                     definitions, usesMap, switching>>

PoppedNothing(n) == stack[n]
Popped(n) == SubSeq(stack[n], 1, Len(stack[n]) - Top.pushed[n])

ReturnFromBlock ==
  /\ stage = "rename" /\ frames # <<>> /\ Top.filled /\ Top.children = {}
  /\ stack' = [n \in names |-> Popped(n)]
  /\ frames' = Front(frames)
  /\ UNCHANGED <<program, code, pass, stage, handled, frontier, names, original, placing, count,
                 definitions, usesMap, switching>>

-----------------------------------------------------------------------------
(* updateSwitchVariableSubscript: a switch tests the version that its      *)
(* variable had at the start of the idiom.                                 *)

IsSwitch(b) ==
  /\ Cardinality(Succs(program, b)) > 2
  /\ Last(code[b]).type = "INDIRECT_TABLE_JUMP" /\ Last(code[b]).idiom # 0

StartSwitches ==
  /\ stage = "rename" /\ frames = <<>>
  /\ toMatch' = IF pass = "registers" THEN {b \in Blocks : IsSwitch(b)} ELSE {}
  /\ stage' = "switch"
  /\ UNCHANGED <<program, code, pass, handled, frontier, names, original, placing, renaming, usesMap, search, matching>>

TheSwitch == Last(code[Least(toMatch)])
SwitchVariable == TheSwitch.uses[1]

NextSwitch ==
  /\ stage = "switch" /\ toMatch # {}
  /\ search' = <<{Least(toMatch)}>> /\ matching' = <<>>
  /\ stage' = "search"
  /\ UNCHANGED <<program, code, pass, handled, frontier, names, original, placing, renaming, usesMap, toMatch>>

\* getInstructionsByAddress calls itself for the predecessors of a block as long
\* as nothing was found, in any of the calls.
HasStart(b) == \E i \in DOMAIN code[b] : code[b][i].address = TheSwitch.idiom

SearchBlock ==
  LET b == Least(Last(search))
  IN  /\ stage = "search" /\ search # <<>> /\ Last(search) # {}
      /\ matching' = IF HasStart(b) THEN Append(matching, b) ELSE matching
      /\ search' = Front(search) \o <<Last(search) \ {b}, IF matching' = <<>> THEN Preds(program, b) ELSE {}>>
      /\ UNCHANGED <<program, code, pass, stage, handled, frontier, names, original, placing, renaming, usesMap, toMatch>>

ReturnFromSearch ==
  /\ stage = "search" /\ search # <<>> /\ Last(search) = {}
  /\ search' = Front(search)
  /\ UNCHANGED <<program, code, pass, stage, handled, frontier, names, original, placing, renaming, usesMap,
                 toMatch, matching>>

\* Uses of the switch variable, in block b, before the idiom changed it.
UsesOf(inst) ==
  IF IsPhi(inst) THEN [k \in DOMAIN inst.args |-> [name |-> inst.defs[1].name, sub |-> inst.args[k].sub]] ELSE inst.uses

SameVersion(b, i, k) ==
  /\ code[b][i].address = TheSwitch.idiom
  /\ UsesOf(code[b][i])[k].name = SwitchVariable.name /\ UsesOf(code[b][i])[k].sub = SwitchVariable.sub

OtherVersion(b, i, k) ==
  /\ code[b][i].address = TheSwitch.idiom
  /\ UsesOf(code[b][i])[k].name = SwitchVariable.name /\ UsesOf(code[b][i])[k].sub # SwitchVariable.sub

OtherUses(b) ==
  {u \in UNION {{i} \X DOMAIN UsesOf(code[b][i]) : i \in DOMAIN code[b]} : OtherVersion(b, u[1], u[2])}

UseMoved(n, from, to) ==
  LET use == <<n, from, TheSwitch.id>>
  IN  IF use \in usesMap THEN (usesMap \ {use}) \cup {<<n, to, TheSwitch.id>>} ELSE usesMap

GiveUp ==
  /\ stage = "search" /\ search = <<>> /\ \A m \in DOMAIN matching : OtherUses(matching[m]) = {}
  /\ toMatch' = toMatch \ {Least(toMatch)}
  /\ stage' = "switch" /\ matching' = <<>>
  /\ UNCHANGED <<program, code, pass, handled, frontier, names, original, placing, renaming, usesMap, search>>

\* The first switch that is corrected is the last one looked at.
CorrectSwitch ==
  LET b == Least(toMatch)
      first == Least({m \in DOMAIN matching : OtherUses(matching[m]) # {}})
      from == matching[first]
      u == CHOOSE u \in OtherUses(from) :
             \A v \in OtherUses(from) : v[1] < u[1] \/ (v[1] = u[1] /\ u[2] <= v[2])
      sub == UsesOf(code[from][u[1]])[u[2]].sub
  IN  /\ stage = "search" /\ search = <<>> /\ \E m \in DOMAIN matching : OtherUses(matching[m]) # {}
      /\ toMatch' = {}
      /\ code' = [code EXCEPT ![b][Len(code[b])].uses[1].sub = sub]
      /\ usesMap' = UseMoved(SwitchVariable.name, SwitchVariable.sub, sub)
      /\ stage' = "switch" /\ matching' = <<>>
      /\ UNCHANGED <<program, pass, handled, frontier, names, original, placing, renaming, search>>

-----------------------------------------------------------------------------
\* clearUsedDataStructures.  subscriptMemoryLocations follows transformIntoSSA
\* and uses its dominator tree and frontiers.
EndPass ==
  /\ stage = "switch" /\ toMatch = {}
  /\ names' = {} /\ original' = [b \in Blocks |-> {}]
  /\ stack' = <<>> /\ count' = <<>>
  /\ pass' = "memory" /\ stage' = IF pass = "registers" THEN "collect" ELSE "done"
  /\ UNCHANGED <<program, code, handled, frontier, placing, frames, definitions, usesMap, switching>>

Construct ==
  \/ ComputeDominanceFrontier
  \/ Compute_Aorig
  \/ AddUsedRelatedToDefinedRegisters
  \/ StartPlacing
  \/ PlacePhis
  \/ NextName
  \/ StartRenaming
  \/ RenameInstruction
  \/ FillArguments
  \/ RenameChild
  \/ ReturnFromBlock
  \/ StartSwitches
  \/ NextSwitch
  \/ SearchBlock
  \/ ReturnFromSearch
  \/ GiveUp
  \/ CorrectSwitch
  \/ EndPass

ConstructionSpec == Init /\ [][Construct]_vars /\ WF_vars(Construct)

=============================================================================
