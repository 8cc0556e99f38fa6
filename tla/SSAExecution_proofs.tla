------------------------ MODULE SSAExecution_proofs ------------------------
(***************************************************************************)
(* Every version of a name is defined by one instruction, and definitions  *)
(* dominate uses, for all functions and all relations between registers.   *)
(*                                                                         *)
(* A version that is given out is greater than all those before: they are  *)
(* at most SSACount, which only grows while the stack shrinks again.  The  *)
(* second pass starts to count anew, but for names the first did not       *)
(* touch.                                                                  *)
(*                                                                         *)
(* The calls of renameVariables are on a path down the dominator tree, and *)
(* the stacks hold what these calls have pushed, those of the first call   *)
(* below those of the second: the top of a stack was defined by a block    *)
(* that dominates the one that reads it.                                   *)
(*                                                                         *)
(* What the children of a block dominate is disjoint, so every block that  *)
(* can be reached fills in its arguments once.                             *)
(***************************************************************************)
EXTENDS SSAExecution, Dominance_proofs, SequenceTheorems

Fields == {"id", "type", "address", "idiom", "uses", "defs", "args"}
WellFormed(inst) == inst = [f \in Fields |-> inst[f]] /\ \E T : inst.defs \in Seq(T)

\* Blocks are lists of instructions, and those have lists of definitions.
CodeOK ==
  /\ program \in Programs
  /\ code = [b \in Blocks |-> code[b]]
  /\ \E S : (\A x \in S : WellFormed(x)) /\ \A b \in Blocks : code[b] \in Seq(S)

NamesOK ==
  /\ pass \in {"registers", "memory"}
  /\ names \subseteq NamesOf(pass)
  /\ pass = "registers" => \A d \in definitions : d[1] \notin Memory
  /\ stage \in {"dominators", "collect", "related", "place"} => \A d \in definitions : d[1] \notin NamesOf(pass)

FrameType ==
  [block : Blocks, next : Nat \ {0}, filled : BOOLEAN, children : SUBSET Blocks, pushed : [names -> Nat]]

\* SSACount bounds the versions that were given out.
CountOK ==
  stage = "rename" =>
    /\ frames \in Seq(FrameType)
    /\ count \in [names -> Nat]
    /\ \A d \in definitions : d[1] \in names => d[2] \in Nat /\ d[2] <= count[d[1]]

IInv == CodeOK /\ NamesOK /\ CountOK /\ SingleAssignment

-----------------------------------------------------------------------------
(* Sets of numbers, and lists.                                             *)

\* Least is the minimum.
LEMMA LeastIsMember ==
  ASSUME NEW S, S \subseteq Nat, S # {}
  PROVE  Least(S) \in S
PROOF
  <1> DEFINE less == OpToRel(<, Nat)
  <1>1. less = {p \in Nat \X Nat : p[1] < p[2]}
    BY DEF OpToRel
  <1>2. IsWellFoundedOn(less, Nat)
    BY NatLessThanWellFounded
  <1> HIDE DEF less
  <1>3. PICK x \in S : \A y \in S : <<y, x>> \notin less
    BY <1>2, WFMin
  <1>4. ASSUME NEW y \in S
        PROVE  x <= y
    <2>1. x \in Nat /\ y \in Nat /\ <<y, x>> \notin less
      BY <1>3, <1>4
    <2> QED
      BY <2>1, <1>1
  <1> QED
    BY <1>4 DEF Least

\* What is computed from each element of a list is a list.
LEMMA FunctionOfList ==
  ASSUME NEW T, NEW s \in Seq(T), NEW D, DOMAIN D = DOMAIN s, D = [k \in DOMAIN D |-> D[k]]
  PROVE  D \in Seq({D[k] : k \in DOMAIN s})
PROOF
  <1> DEFINE V == {D[k] : k \in DOMAIN s}
  <1>1. Len(s) \in Nat /\ DOMAIN s = 1 .. Len(s)
    OBVIOUS
  <1>2. D \in [1 .. Len(s) -> V]
    BY <1>1
  <1> QED
    BY <1>1, <1>2, IsASeq

\* The definitions of an instruction can be counted.
LEMMA CountIsNatural ==
  ASSUME NEW inst, NEW T, inst.defs \in Seq(T), NEW n
  PROVE  NumberOfPushes(inst, n, Len(inst.defs)) \in Nat
PROOF
  <1> DEFINE I == 1 .. Len(inst.defs)
             K == {k \in I : Pushes(inst.defs[k].name, n)}
  <1>1. Len(inst.defs) \in Nat
    OBVIOUS
  <1>2. IsFiniteSet(I)
    BY <1>1, FS_Interval
  <1>3. IsFiniteSet(K)
    BY <1>2, FS_Subset
  <1>4. Cardinality(K) \in Nat
    BY <1>3, FS_CardinalityType
  <1> QED
    BY <1>4 DEF NumberOfPushes

\* There are at most as many leading phi functions as instructions.
LEMMA LeadingPhisInRange ==
  ASSUME NEW S, NEW s \in Seq(S)
  PROVE  LeadingPhis(s) \in 0 .. Len(s)
PROOF
  <1> DEFINE I == 1 .. Len(s)
             K == {k \in I : \A i \in 1 .. k : IsPhi(s[i])}
  <1>1. Len(s) \in Nat
    OBVIOUS
  <1>2. IsFiniteSet(I) /\ Cardinality(I) = Len(s)
    <2>1. /\ IsFiniteSet(1 .. Len(s))
          /\ Cardinality(1 .. Len(s)) = IF 1 > Len(s) THEN 0 ELSE Len(s) - 1 + 1
      BY ONLY <1>1, FS_Interval
    <2> QED
      BY <1>1, <2>1
  <1>3. IsFiniteSet(K) /\ Cardinality(K) <= Len(s)
    BY <1>2, FS_Subset
  <1>4. Cardinality(K) \in Nat
    BY <1>3, FS_CardinalityType
  <1> QED
    BY <1>1, <1>3, <1>4 DEF LeadingPhis

\* Inserting a phi function keeps a block a list.
LEMMA InsertKeepsList ==
  ASSUME NEW S, NEW s \in Seq(S), NEW phi \in S
  PROVE  WithPhi(s, phi) \in Seq(S)
PROOF
  <1> DEFINE k == LeadingPhis(s)
  <1>1. k \in 0 .. Len(s) /\ Len(s) \in Nat
    BY LeadingPhisInRange
  <1> HIDE DEF k
  <1>2. SubSeq(s, 1, k) \in Seq(S)
    BY <1>1, SubSeqProperties
  <1>3. SubSeq(s, k + 1, Len(s)) \in Seq(S)
    BY <1>1, SubSeqProperties
  <1>4. <<phi>> \in Seq(S)
    OBVIOUS
  <1>5. SubSeq(s, 1, k) \o <<phi>> \o SubSeq(s, k + 1, Len(s)) \in Seq(S)
    BY <1>2, <1>3, <1>4, ConcatProperties
  <1>6. k + 1 - 1 = k
    BY <1>1
  <1> QED
    BY <1>5, <1>6 DEF WithPhi, InsertAt, k

-----------------------------------------------------------------------------
(* The invariant holds initially and is preserved.                         *)

\* As it was lifted: nothing has a version.
LEMMA IInvInit == Init => IInv
PROOF
  <1> SUFFICES ASSUME Init PROVE IInv
    OBVIOUS
  <1>1. NamesOK /\ CountOK /\ SingleAssignment
    BY DEF Init, NamesOK, NamesOf, CountOK, SingleAssignment
  <1> DEFINE All == UNION {{code[b][i] : i \in DOMAIN code[b]} : b \in Blocks}
  <1>2. ASSUME NEW b \in Blocks
        PROVE  /\ code[b] \in Seq(All)
               /\ \A i \in DOMAIN code[b] : WellFormed(code[b][i])
    <2> DEFINE insts == program.code[b]
    <2>1. /\ code[b] = [i \in DOMAIN insts |-> Lifted(b, i, insts[i])]
          /\ code = [c \in Blocks |-> code[c]]
      BY <1>2 DEF Init
    <2>2. insts \in Seq(InstructionsAsLifted)
      BY <1>2, ProgramsAssumption DEF Blocks, Init
    <2>3. Len(insts) \in Nat /\ DOMAIN insts = 1 .. Len(insts)
      BY <2>2
    <2>4. code[b] \in [1 .. Len(insts) -> All]
      BY <2>1, <2>3, <1>2
    <2>5. code[b] \in Seq(All)
      BY <2>3, <2>4, IsASeq
    <2>6. ASSUME NEW i \in DOMAIN code[b]
          PROVE  WellFormed(code[b][i])
      <3>1. insts[i].defs \in Seq(Names)
        <4> HIDE DEF insts
        <4>1. i \in 1 .. Len(insts)
          BY <2>1, <2>3, <2>6
        <4>2. insts[i] \in InstructionsAsLifted
          BY <4>1, <2>2, ElementOfSeq
        <4> QED
          BY <4>2 DEF InstructionsAsLifted
      <3> DEFINE D == [k \in DOMAIN insts[i].defs |-> [name |-> insts[i].defs[k], sub |-> NO_SUBSCRIPT]]
                 V == {D[k] : k \in DOMAIN insts[i].defs}
      <3>2. Len(insts[i].defs) \in Nat /\ D \in [1 .. Len(insts[i].defs) -> V]
        <4>1. Len(insts[i].defs) \in Nat /\ DOMAIN insts[i].defs = 1 .. Len(insts[i].defs)
          BY ONLY <3>1
        <4>2. D \in [DOMAIN insts[i].defs -> V]
          OBVIOUS
        <4> QED
          BY ONLY <4>1, <4>2
      <3>3. D \in Seq(V)
        BY <3>2, IsASeq
      <3>4. code[b][i] = Lifted(b, i, insts[i])
        BY <2>1, <2>6
      <3>5. Lifted(b, i, insts[i]).defs = D
        BY DEF Lifted
      <3>6. code[b][i] = [f \in Fields |-> code[b][i][f]]
        BY <3>4 DEF Lifted, Fields
      <3> QED
        BY <3>3, <3>4, <3>5, <3>6 DEF WellFormed
    <2> QED
      BY <2>5, <2>6
  <1>3. \A x \in All : WellFormed(x)
    BY <1>2
  <1>4. CodeOK
    BY <1>2, <1>3 DEF CodeOK, Init
  <1> QED
    BY <1>1, <1>4 DEF IInv

\* The top of a stack and what is below it.
LEMMA TopOfStack ==
  ASSUME NEW S, NEW s \in Seq(S), s # <<>>
  PROVE  Last(s) \in S /\ Front(s) \in Seq(S)
PROOF
  <1>1. Len(s) \in Nat /\ Len(s) # 0
    BY EmptySeq
  <1>2. Last(s) \in S
    BY <1>1, ElementOfSeq DEF Last
  <1>3. \A i \in 1 .. Len(s) - 1 : s[i] \in S
    BY <1>1, ElementOfSeq
  <1>4. Front(s) \in Seq(S)
    BY <1>1, <1>3, SubSeqProperties DEF Front
  <1> QED
    BY <1>2, <1>4

\* A call of renameVariables whose state changes.
LEMMA TopReplaced ==
  ASSUME NEW S, frames \in Seq(S), frames # <<>>, NEW f \in S
  PROVE  WithTop(f) \in Seq(S)
PROOF
  <1>1. Front(frames) \in Seq(S)
    BY TopOfStack
  <1> QED
    BY <1>1, AppendProperties DEF WithTop

\* A call that begins.
LEMMA NewFrame ==
  ASSUME CodeOK, NEW b \in Blocks
  PROVE  Frame(b) \in FrameType
PROOF
  <1>1. ImmediatelyDominated(program, b) \in SUBSET Blocks
    BY DEF ImmediatelyDominated, Blocks
  <1>2. [n \in names |-> 0] \in [names -> Nat]
    OBVIOUS
  <1> QED
    BY <1>1, <1>2 DEF Frame, FrameType

\* What does not touch the definitions keeps an instruction well formed.
LEMMA FieldReplaced ==
  ASSUME NEW x, WellFormed(x), NEW f \in Fields \ {"defs"}, NEW e
  PROVE  WellFormed([x EXCEPT ![f] = e])
PROOF
  <1> DEFINE y == [x EXCEPT ![f] = e]
  <1>1. DOMAIN x = Fields
    BY DEF WellFormed
  <1>2. y = [g \in Fields |-> y[g]]
    BY <1>1
  <1>3. y.defs = x.defs
    BY <1>1 DEF Fields
  <1> HIDE DEF y
  <1> QED
    BY <1>2, <1>3 DEF WellFormed, y

\* Inserting phi functions.
LEMMA PlacePhisKeepsCode == CodeOK /\ PlacePhis => CodeOK'
PROOF
  <1> SUFFICES ASSUME CodeOK, PlacePhis PROVE CodeOK'
    OBVIOUS
  <1> DEFINE n == Least(waiting)
             new == frontier[Least(sites)] \ placed
  <1>1. PICK S : (\A x \in S : WellFormed(x)) /\ \A b \in Blocks : code[b] \in Seq(S)
    BY DEF CodeOK
  <1>8. PICK address : code' = [b \in Blocks |-> IF b \in new THEN WithPhi(code[b], Phi(n, b, address[b])) ELSE code[b]]
    BY DEF PlacePhis
  <1> DEFINE T == S \cup {Phi(n, b, address[b]) : b \in Blocks}
  <1>2. ASSUME NEW b \in Blocks
        PROVE  WellFormed(Phi(n, b, address[b]))
    <2>1. Phi(n, b, address[b]).defs \in Seq({[name |-> n, sub |-> NO_SUBSCRIPT]})
      BY DEF Phi
    <2>2. Phi(n, b, address[b]) = [f \in Fields |-> Phi(n, b, address[b])[f]]
      BY DEF Phi, Fields
    <2> QED
      BY <2>1, <2>2 DEF WellFormed
  <1>4. program' = program /\ Blocks' = Blocks
    BY DEF PlacePhis, Blocks
  <1>5. ASSUME NEW b \in Blocks
        PROVE  code'[b] \in Seq(T)
    <2>1. code[b] \in Seq(T) /\ Phi(n, b, address[b]) \in T
      BY <1>1, SeqMonotonic
    <2>2. WithPhi(code[b], Phi(n, b, address[b])) \in Seq(T)
      BY <2>1, InsertKeepsList
    <2> HIDE DEF T, n, new
    <2> QED
      BY <2>1, <2>2, <1>8
  <1>6. \A x \in T : WellFormed(x)
    BY <1>1, <1>2
  <1> HIDE DEF T, n, new
  <1>7. code' = [c \in Blocks |-> code'[c]] /\ program' \in Programs
    BY <1>8, <1>4 DEF CodeOK
  <1> QED
    BY <1>4, <1>5, <1>6, <1>7 DEF CodeOK, WellFormed

\* Renaming an instruction.
LEMMA RenamedWellFormed ==
  ASSUME NEW x, WellFormed(x)
  PROVE  WellFormed(Renamed(x))
PROOF
  <1> DEFINE y == Renamed(x)
             D == [k \in DOMAIN x.defs |->
                     IF x.defs[k].name \notin names THEN x.defs[k]
                     ELSE [x.defs[k] EXCEPT
                             !.sub = Given(x.defs[k].name) + NumberOfPushes(x, x.defs[k].name, k)]]
  <1>1. DOMAIN x = Fields
    BY DEF WellFormed
  <1> DEFINE U == [k \in DOMAIN x.uses |-> RenameUse(x.uses[k])]
  <1>2. y = [[x EXCEPT !.uses = U] EXCEPT !.defs = D]
    BY DEF Renamed
  <1>3. y = [f \in Fields |-> y[f]] /\ y.defs = D
    BY <1>1, <1>2 DEF Fields
  <1>4. PICK T : x.defs \in Seq(T)
    BY DEF WellFormed
  <1>5. DOMAIN D = DOMAIN x.defs /\ D = [k \in DOMAIN D |-> D[k]]
    OBVIOUS
  <1> HIDE DEF y, D
  <1>6. D \in Seq({D[k] : k \in DOMAIN x.defs})
    BY <1>4, <1>5, FunctionOfList
  <1> QED
    BY <1>3, <1>6 DEF WellFormed, y

\* One instruction of one block is replaced.
LEMMA InstructionReplaced ==
  ASSUME CodeOK, NEW b \in Blocks, NEW i, NEW x, WellFormed(x), UNCHANGED program,
         code' = [code EXCEPT ![b] = [code[b] EXCEPT ![i] = x]]
  PROVE  CodeOK'
PROOF
  <1>1. PICK S : (\A y \in S : WellFormed(y)) /\ \A c \in Blocks : code[c] \in Seq(S)
    BY DEF CodeOK
  <1> DEFINE T == S \cup {x}
  <1>2. Blocks' = Blocks /\ code' = [c \in Blocks |-> code'[c]]
    BY DEF Blocks, CodeOK
  <1>3. ASSUME NEW c \in Blocks
        PROVE  code'[c] \in Seq(T)
    <2>1. code[c] \in Seq(T)
      BY <1>1, SeqMonotonic
    <2>2. c # b => code'[c] = code[c]
      BY DEF CodeOK
    <2>3. c = b => code'[c] = [code[b] EXCEPT ![i] = x]
      BY DEF CodeOK
    <2>4. ASSUME c = b, i \in 1 .. Len(code[b])
          PROVE  [code[b] EXCEPT ![i] = x] \in Seq(T)
      BY <2>1, <2>4, ExceptSeq
    <2>5. ASSUME c = b, i \notin 1 .. Len(code[b])
          PROVE  [code[b] EXCEPT ![i] = x] = code[b]
      <3>1. DOMAIN code[b] = 1 .. Len(code[b])
        BY <2>1, <2>5
      <3> QED
        BY <2>1, <2>5, <3>1
    <2> QED
      BY <2>1, <2>2, <2>3, <2>4, <2>5
  <1>4. \A y \in T : WellFormed(y)
    BY <1>1
  <1> QED
    BY <1>2, <1>3, <1>4 DEF CodeOK, WellFormed

\* Filling in arguments.
LEMMA FillArgumentsKeepsCode == CodeOK /\ FillArguments => CodeOK'
PROOF
  <1> SUFFICES ASSUME CodeOK, FillArguments PROVE CodeOK'
    OBVIOUS
  <1> DEFINE b == Top.block
             Filled(x) == WithArgument(x, b)
             Fill(s) == [k \in DOMAIN code[s] |-> IF k \in ToFill(s) THEN Filled(code[s][k]) ELSE code[s][k]]
  <1>1. PICK S : (\A x \in S : WellFormed(x)) /\ \A c \in Blocks : code[c] \in Seq(S)
    BY DEF CodeOK
  <1> DEFINE T == S \cup {Filled(x) : x \in S}
  <1>2. ASSUME NEW x \in S
        PROVE  WellFormed(Filled(x))
    <2> DEFINE a == [x.args EXCEPT ![Least({k \in DOMAIN x.args : x.args[k].sub = NO_SUBSCRIPT})] =
                                     [sub |-> Version(x.defs[1].name), source |-> b]]
    <2>1. WellFormed(x)
      BY <1>1, <1>2
    <2>2. Filled(x) = x \/ Filled(x) = [x EXCEPT !["args"] = a]
      BY DEF WithArgument
    <2> HIDE DEF a, Filled
    <2> QED
      BY <2>1, <2>2, FieldReplaced DEF Fields
  <1>3. code' = [s \in Blocks |-> IF s \notin Succs(program, b) THEN code[s] ELSE Fill(s)]
    BY DEF FillArguments
  <1>4. program' = program /\ Blocks' = Blocks
    BY DEF FillArguments, Blocks
  <1>5. ASSUME NEW c \in Blocks
        PROVE  code'[c] \in Seq(T)
    <2>1. code[c] \in Seq(S) /\ code[c] \in Seq(T)
      BY <1>1, SeqMonotonic
    <2>2. Len(code[c]) \in Nat /\ DOMAIN code[c] = 1 .. Len(code[c])
      BY <2>1
    <2>3. \A k \in 1 .. Len(code[c]) : code[c][k] \in S
      BY <2>1, ElementOfSeq
    <2> HIDE DEF Filled
    <2>4. Fill(c) \in [1 .. Len(code[c]) -> T]
      BY <2>2, <2>3
    <2>5. Fill(c) \in Seq(T)
      BY <2>2, <2>4, IsASeq
    <2> HIDE DEF Fill, T
    <2> QED
      BY <2>1, <2>5, <1>3
  <1>6. \A x \in T : WellFormed(x)
    BY <1>1, <1>2
  <1> HIDE DEF T, Fill, b
  <1>7. code' = [c \in Blocks |-> code'[c]] /\ program' \in Programs
    BY <1>3, <1>4 DEF CodeOK
  <1> QED
    BY <1>4, <1>5, <1>6, <1>7 DEF CodeOK, WellFormed

\* Correcting a switch.
LEMMA CorrectSwitchKeepsCode == CodeOK /\ CorrectSwitch => CodeOK'
PROOF
  <1> SUFFICES ASSUME CodeOK, CorrectSwitch PROVE CodeOK'
    OBVIOUS
  <1> DEFINE b == Least(toMatch)
             i == Len(code[b])
             x == code[b][i]
  <1>1. PICK sub : code' = [code EXCEPT ![b][i].uses[1].sub = sub]
    BY DEF CorrectSwitch
  <1> DEFINE u == [x.uses EXCEPT ![1].sub = sub]
             y == [x EXCEPT !["uses"] = u]
  <1>2. code' = [code EXCEPT ![b] = [code[b] EXCEPT ![i] = y]]
    BY <1>1
  <1>3. program' = program
    BY DEF CorrectSwitch
  <1>4. CASE b \notin Blocks
    <2>1. code' = code
      BY <1>2, <1>4 DEF CodeOK
    <2> QED
      BY <2>1, <1>3 DEF CodeOK, Blocks, WellFormed
  <1>5. CASE b \in Blocks /\ i \in 1 .. Len(code[b])
    <2>1. PICK S : (\A z \in S : WellFormed(z)) /\ \A c \in Blocks : code[c] \in Seq(S)
      BY DEF CodeOK
    <2>2. WellFormed(x)
      BY <2>1, <1>5, ElementOfSeq
    <2> HIDE DEF x, u
    <2>3. WellFormed(y)
      BY <2>2, FieldReplaced DEF Fields
    <2> HIDE DEF y, i, b
    <2> QED
      BY <2>3, <1>2, <1>3, <1>5, InstructionReplaced
  <1>6. CASE b \in Blocks /\ i \notin 1 .. Len(code[b])
    <2>1. PICK S : \A c \in Blocks : code[c] \in Seq(S)
      BY DEF CodeOK
    <2>2. DOMAIN code[b] = 1 .. Len(code[b]) /\ code[b] = [k \in 1 .. Len(code[b]) |-> code[b][k]]
      BY <2>1, <1>6
    <2> HIDE DEF y, i, b
    <2>3. [code[b] EXCEPT ![i] = y] = code[b]
      BY <2>2, <1>6
    <2>4. code' = code
      BY <1>2, <2>3 DEF CodeOK
    <2> QED
      BY <2>4, <1>3 DEF CodeOK, Blocks, WellFormed
  <1> QED
    BY <1>4, <1>5, <1>6

\* Renaming the instruction of the topmost call.
LEMMA RenameInstructionKeepsCode == CodeOK /\ CountOK /\ RenameInstruction => CodeOK'
PROOF
  <1> SUFFICES ASSUME CodeOK, CountOK, RenameInstruction PROVE CodeOK'
    OBVIOUS
  <1>1. Top \in FrameType
    BY TopOfStack DEF CountOK, RenameInstruction, Top
  <1> DEFINE b == Top.block
             i == Top.next
             x == code[b][i]
  <1>2. b \in Blocks /\ i \in Nat \ {0} /\ i <= Len(code[b])
    BY <1>1 DEF FrameType, RenameInstruction
  <1>3. code' = [code EXCEPT ![b] = [code[b] EXCEPT ![i] = Renamed(x)]] /\ program' = program
    BY DEF RenameInstruction, Current
  <1>4. PICK S : (\A z \in S : WellFormed(z)) /\ \A c \in Blocks : code[c] \in Seq(S)
    BY DEF CodeOK
  <1>5. Len(code[b]) \in Nat /\ code[b] \in Seq(S)
    BY <1>2, <1>4
  <1> HIDE DEF b, i
  <1>6. WellFormed(x)
    BY <1>2, <1>4, <1>5, ElementOfSeq
  <1> HIDE DEF x
  <1> QED
    BY <1>2, <1>3, <1>6, RenamedWellFormed, InstructionReplaced

\* No other action touches the instructions.
LEMMA ConstructKeepsCode == CodeOK /\ CountOK /\ Construct => CodeOK'
PROOF
  <1> SUFFICES ASSUME CodeOK, CountOK, Construct PROVE CodeOK'
    OBVIOUS
  <1>1. ASSUME UNCHANGED <<program, code>> PROVE CodeOK'
    BY <1>1 DEF CodeOK, Blocks, WellFormed
  <1>2. CASE ComputeDominanceFrontier
    BY <1>1, <1>2 DEF ComputeDominanceFrontier
  <1>3. CASE Compute_Aorig
    BY <1>1, <1>3 DEF Compute_Aorig
  <1>4. CASE AddUsedRelatedToDefinedRegisters
    BY <1>1, <1>4 DEF AddUsedRelatedToDefinedRegisters
  <1>5. CASE StartPlacing \/ NextName \/ StartRenaming
    BY <1>1, <1>5 DEF StartPlacing, NextName, StartRenaming
  <1>6. CASE PlacePhis
    BY <1>6, PlacePhisKeepsCode
  <1>7. CASE RenameInstruction
    BY <1>7, RenameInstructionKeepsCode
  <1>8. CASE FillArguments
    BY <1>8, FillArgumentsKeepsCode
  <1>9. CASE RenameChild \/ ReturnFromBlock
    BY <1>1, <1>9 DEF RenameChild, ReturnFromBlock
  <1>10. CASE StartSwitches \/ NextSwitch \/ SearchBlock \/ ReturnFromSearch \/ GiveUp
    BY <1>1, <1>10 DEF StartSwitches, NextSwitch, SearchBlock, ReturnFromSearch, GiveUp
  <1>11. CASE CorrectSwitch
    BY <1>11, CorrectSwitchKeepsCode
  <1>12. CASE EndPass
    BY <1>1, <1>12 DEF EndPass
  <1> QED
    BY <1>2, <1>3, <1>4, <1>5, <1>6, <1>7, <1>8, <1>9, <1>10, <1>11, <1>12 DEF Construct

\* Names belong to the pass, and so do the versions that are given out.
LEMMA ConstructKeepsNames == NamesOK /\ Construct => NamesOK'
PROOF
  <1> SUFFICES ASSUME NamesOK, Construct PROVE NamesOK'
    OBVIOUS
  <1> USE DEF NamesOK, NamesOf
  <1>2. CASE ComputeDominanceFrontier
    BY <1>2 DEF ComputeDominanceFrontier, renaming
  <1>3. CASE Compute_Aorig
    <2>1. names' \subseteq NamesOf(pass)
      BY <1>3 DEF Compute_Aorig, Defined
    <2> QED
      BY <1>3, <2>1 DEF Compute_Aorig, renaming
  <1>4. CASE AddUsedRelatedToDefinedRegisters
    <2>1. names' \subseteq NamesOf(pass)
      BY <1>4 DEF AddUsedRelatedToDefinedRegisters
    <2> QED
      BY <1>4, <2>1 DEF AddUsedRelatedToDefinedRegisters, renaming
  <1>5. CASE StartPlacing \/ NextName \/ StartRenaming \/ PlacePhis
    BY <1>5 DEF StartPlacing, NextName, StartRenaming, PlacePhis, renaming
  <1>7. CASE RenameInstruction
    <2>1. ASSUME NEW d \in definitions'
          PROVE  d \in definitions \/ d[1] \in names
      BY <1>7, <2>1 DEF RenameInstruction
    <2>2. stage = "rename" /\ UNCHANGED <<pass, stage, names>>
      BY <1>7 DEF RenameInstruction
    <2> QED
      BY <2>1, <2>2
  <1>8. CASE FillArguments \/ RenameChild \/ ReturnFromBlock
    BY <1>8 DEF FillArguments, RenameChild, ReturnFromBlock
  <1>10. CASE StartSwitches \/ NextSwitch \/ SearchBlock \/ ReturnFromSearch \/ GiveUp \/ CorrectSwitch
    BY <1>10 DEF StartSwitches, NextSwitch, SearchBlock, ReturnFromSearch, GiveUp, CorrectSwitch, renaming
  <1>12. CASE EndPass
    BY <1>12 DEF EndPass
  <1> QED
    BY <1>2, <1>3, <1>4, <1>5, <1>7, <1>8, <1>10, <1>12 DEF Construct

\* How a function starts to be renamed: nothing of the pass has a version.
LEMMA StartRenamingKeepsCount == CodeOK /\ NamesOK /\ StartRenaming => CountOK'
PROOF
  <1> SUFFICES ASSUME CodeOK, NamesOK, StartRenaming PROVE CountOK'
    OBVIOUS
  <1>1. 0 \in Blocks
    BY ProgramsAssumption DEF CodeOK, Blocks, IsGraph, Vertices
  <1>2. names' = names /\ Blocks' = Blocks /\ FrameType' = FrameType
    BY DEF StartRenaming, Blocks, FrameType
  <1>3. frames' \in Seq(FrameType)
    BY <1>1, NewFrame DEF StartRenaming
  <1>4. count' \in [names -> Nat]
    BY DEF StartRenaming
  <1>5. \A d \in definitions' : d[1] \notin names
    BY DEF StartRenaming, NamesOK
  <1> QED
    BY <1>2, <1>3, <1>4, <1>5 DEF CountOK

\* The versions that an instruction gives out are new, and become the greatest.
LEMMA VersionsAreNew ==
  ASSUME CodeOK, CountOK, RenameInstruction
  PROVE  /\ CountOK'
         /\ \E id : \A d \in definitions' \ definitions :
              d[1] \in names /\ d[3] = id /\ d[2] \in Nat /\ d[2] > count[d[1]]
PROOF
  <1> DEFINE x == Current
             pushes == [n \in names |-> NumberOfPushes(x, n, Len(x.defs))]
             f == [[Top EXCEPT !.next = @ + 1] EXCEPT !.pushed = [n \in names |-> @[n] + pushes[n]]]
  <1>1. stage = "rename" /\ names' = names /\ FrameType' = FrameType
    BY DEF RenameInstruction, FrameType, Blocks
  <1>2. frames \in Seq(FrameType) /\ count \in [names -> Nat] /\ Top \in FrameType
    BY <1>1, TopOfStack DEF CountOK, RenameInstruction, Top
  <1>3. Top.block \in Blocks /\ Top.next \in Nat \ {0} /\ Top.next <= Len(code[Top.block])
    BY <1>2 DEF FrameType, RenameInstruction
  <1>4. PICK S : (\A z \in S : WellFormed(z)) /\ \A c \in Blocks : code[c] \in Seq(S)
    BY DEF CodeOK
  <1>5. WellFormed(x)
    <2> DEFINE b == Top.block
               i == Top.next
    <2>1. Len(code[b]) \in Nat /\ code[b] \in Seq(S)
      BY <1>3, <1>4
    <2>2. x = code[b][i]
      BY DEF Current
    <2> HIDE DEF b, i, x
    <2>3. b \in Blocks /\ i \in Nat \ {0} /\ i <= Len(code[b])
      BY <1>3 DEF b, i
    <2> QED
      BY <2>1, <2>2, <2>3, <1>4, ElementOfSeq
  <1>6. PICK T : x.defs \in Seq(T)
    BY <1>5 DEF WellFormed
  <1>7. pushes \in [names -> Nat]
    BY <1>6, CountIsNatural
  <1>8. frames' = WithTop(f) /\ count' = [n \in names |-> count[n] + pushes[n]]
    BY DEF RenameInstruction, Given
  <1>9. definitions' = definitions \cup UNION {{<<n, count[n] + i, x.id>> : i \in 1 .. pushes[n]} : n \in names}
    BY DEF RenameInstruction, Given
  <1> HIDE DEF pushes, x
  <1>10. f \in FrameType
    <2> DEFINE k == Top.next + 1
               g == [Top EXCEPT !.next = k]
               p == [n \in names |-> g.pushed[n] + pushes[n]]
    <2>1. k \in Nat \ {0}
      BY <1>3
    <2> HIDE DEF k
    <2>2. g \in FrameType
      BY <1>2, <2>1 DEF FrameType
    <2>3. g.pushed \in [names -> Nat]
      BY <2>2 DEF FrameType
    <2>4. p \in [names -> Nat]
      BY <2>3, <1>7
    <2>5. f = [g EXCEPT !.pushed = p]
      BY DEF k
    <2> HIDE DEF g, p
    <2> QED
      BY <2>2, <2>4, <2>5 DEF FrameType
  <1> HIDE DEF f
  <1>11. frames' \in Seq(FrameType)
    BY <1>2, <1>8, <1>10, TopReplaced DEF RenameInstruction
  <1>12. count' \in [names -> Nat] /\ \A n \in names : count[n] <= count'[n]
    BY <1>2, <1>7, <1>8
  <1>13. ASSUME NEW d \in definitions', d \notin definitions
         PROVE  /\ d[1] \in names /\ d[3] = x.id
                /\ d[2] \in Nat /\ d[2] > count[d[1]] /\ d[2] <= count'[d[1]]
    <2>1. PICK n \in names : \E i \in 1 .. pushes[n] : d = <<n, count[n] + i, x.id>>
      BY <1>9, <1>13
    <2> QED
      BY <2>1, <1>2, <1>7, <1>8
  <1>14. ASSUME NEW d \in definitions', d[1] \in names
         PROVE  d[2] \in Nat /\ d[2] <= count'[d[1]]
    <2>1. CASE d \in definitions
      <3>1. d[2] \in Nat /\ d[2] <= count[d[1]]
        BY <1>1, <1>14, <2>1 DEF CountOK
      <3> QED
        BY <3>1, <1>2, <1>12, <1>14
    <2> QED
      BY <2>1, <1>13
  <1>15. CountOK'
    BY <1>1, <1>11, <1>12, <1>14 DEF CountOK
  <1> QED
    BY <1>13, <1>15

\* The calls of renameVariables do what they do to their stack only.
LEMMA CallsKeepCount ==
  ASSUME CodeOK, CountOK, FillArguments \/ RenameChild \/ ReturnFromBlock
  PROVE  CountOK'
PROOF
  <1>1. /\ stage = "rename" /\ UNCHANGED <<names, count, definitions>>
        /\ FrameType' = FrameType /\ frames # <<>>
    BY DEF FillArguments, RenameChild, ReturnFromBlock, FrameType, Blocks
  <1>2. frames \in Seq(FrameType) /\ Top \in FrameType /\ Front(frames) \in Seq(FrameType)
    BY <1>1, TopOfStack DEF CountOK, Top
  <1>3. CASE FillArguments
    <2>1. [Top EXCEPT !.filled = TRUE] \in FrameType
      BY <1>2 DEF FrameType
    <2>2. frames' \in Seq(FrameType)
      BY <1>1, <1>2, <1>3, <2>1, TopReplaced DEF FillArguments
    <2> QED
      BY <1>1, <2>2 DEF CountOK
  <1>4. CASE RenameChild
    <2> DEFINE c == Least(Top.children)
               f == [Top EXCEPT !.children = @ \ {c}]
    <2>1. Top.children \subseteq Blocks /\ Top.children # {}
      BY <1>2, <1>4 DEF FrameType, RenameChild
    <2>2. Blocks \subseteq Nat
      BY DEF Blocks, Vertices
    <2>3. c \in Blocks
      BY <2>1, <2>2, LeastIsMember
    <2>4. f \in FrameType
      BY <1>2 DEF FrameType
    <2>5. frames' = Append(WithTop(f), Frame(c))
      BY <1>4 DEF RenameChild
    <2> HIDE DEF c, f
    <2>6. WithTop(f) \in Seq(FrameType) /\ Frame(c) \in FrameType
      BY <1>1, <1>2, <2>3, <2>4, TopReplaced, NewFrame
    <2>7. frames' \in Seq(FrameType)
      BY <2>5, <2>6, AppendProperties
    <2> QED
      BY <1>1, <2>7 DEF CountOK
  <1>5. CASE ReturnFromBlock
    <2>1. frames' \in Seq(FrameType)
      BY <1>2, <1>5 DEF ReturnFromBlock
    <2> QED
      BY <1>1, <2>1 DEF CountOK
  <1> QED
    BY <1>3, <1>4, <1>5

\* Every action keeps the bound.
LEMMA ConstructKeepsCount == CodeOK /\ NamesOK /\ CountOK /\ Construct => CountOK'
PROOF
  <1> SUFFICES ASSUME CodeOK, NamesOK, CountOK, Construct PROVE CountOK'
    OBVIOUS
  <1>1. CASE stage' # "rename"
    BY <1>1 DEF CountOK
  <1>2. CASE StartRenaming
    BY <1>2, StartRenamingKeepsCount
  <1>3. CASE RenameInstruction
    BY <1>3, VersionsAreNew
  <1>4. CASE FillArguments \/ RenameChild \/ ReturnFromBlock
    BY <1>4, CallsKeepCount
  <1>5. CASE ComputeDominanceFrontier \/ Compute_Aorig \/ AddUsedRelatedToDefinedRegisters
    BY <1>1, <1>5 DEF ComputeDominanceFrontier, Compute_Aorig, AddUsedRelatedToDefinedRegisters
  <1>6. CASE StartPlacing \/ PlacePhis \/ NextName
    BY <1>1, <1>6 DEF StartPlacing, PlacePhis, NextName
  <1>7. CASE StartSwitches \/ NextSwitch \/ SearchBlock \/ ReturnFromSearch \/ GiveUp \/ CorrectSwitch \/ EndPass
    BY <1>1, <1>7 DEF StartSwitches, NextSwitch, SearchBlock, ReturnFromSearch, GiveUp, CorrectSwitch, EndPass
  <1> QED
    BY <1>2, <1>3, <1>4, <1>5, <1>6, <1>7 DEF Construct

\* A version that is given out is new, so the others keep their definitions.
LEMMA ConstructKeepsSingle == CodeOK /\ CountOK /\ SingleAssignment /\ Construct => SingleAssignment'
PROOF
  <1> SUFFICES ASSUME CodeOK, CountOK, SingleAssignment, Construct PROVE SingleAssignment'
    OBVIOUS
  <1>1. CASE definitions' = definitions
    BY <1>1 DEF SingleAssignment
  <1>2. CASE RenameInstruction
    <2>1. PICK id : \A d \in definitions' \ definitions :
                       d[1] \in names /\ d[3] = id /\ d[2] \in Nat /\ d[2] > count[d[1]]
      BY <1>2, VersionsAreNew
    <2>2. /\ count \in [names -> Nat]
          /\ \A d \in definitions : d[1] \in names => d[2] \in Nat /\ d[2] <= count[d[1]]
      BY <1>2 DEF CountOK, RenameInstruction
    <2>3. ASSUME NEW d \in definitions' \ definitions, NEW e \in definitions, d[1] = e[1]
          PROVE  d[2] # e[2]
      <3>1. count[d[1]] \in Nat
        BY <2>1, <2>2, <2>3
      <3> QED
        BY <2>1, <2>2, <2>3, <3>1
    <2> QED
      BY <2>1, <2>3 DEF SingleAssignment
  <1>3. CASE FillArguments \/ RenameChild \/ ReturnFromBlock
    BY <1>1, <1>3 DEF FillArguments, RenameChild, ReturnFromBlock
  <1>5. CASE ComputeDominanceFrontier \/ Compute_Aorig \/ AddUsedRelatedToDefinedRegisters
    BY <1>1, <1>5 DEF ComputeDominanceFrontier, Compute_Aorig, AddUsedRelatedToDefinedRegisters, renaming
  <1>6. CASE StartPlacing \/ PlacePhis \/ NextName \/ StartRenaming
    BY <1>1, <1>6 DEF StartPlacing, PlacePhis, NextName, StartRenaming, renaming
  <1>7. CASE StartSwitches \/ NextSwitch \/ SearchBlock \/ ReturnFromSearch \/ GiveUp \/ CorrectSwitch \/ EndPass
    BY <1>1, <1>7 DEF StartSwitches, NextSwitch, SearchBlock, ReturnFromSearch, GiveUp, CorrectSwitch, EndPass, renaming
  <1> QED
    BY <1>2, <1>3, <1>5, <1>6, <1>7 DEF Construct

-----------------------------------------------------------------------------
(* A version of a name is defined by one instruction: by renameVariables   *)
(* for itself or for a related register, in either pass.  The run of the   *)
(* function changes nothing of the construction.                           *)
THEOREM SingleAssignmentHolds == Spec => []SingleAssignment
PROOF
  <1>1. ExecutionInit => IInv
    BY IInvInit DEF ExecutionInit
  <1>2. IInv /\ [Next]_<<vars, machine>> => IInv'
    <2> SUFFICES ASSUME IInv, [Next]_<<vars, machine>> PROVE IInv'
      OBVIOUS
    <2>1. CASE Construct
      BY <2>1, ConstructKeepsCode, ConstructKeepsNames, ConstructKeepsCount, ConstructKeepsSingle DEF IInv
    <2>2. CASE UNCHANGED vars
      BY <2>2 DEF IInv, CodeOK, NamesOK, NamesOf, CountOK, SingleAssignment, vars, renaming, WellFormed,
                  Blocks, FrameType
    <2> QED
      BY <2>1, <2>2 DEF Next
  <1>3. IInv => SingleAssignment
    BY DEF IInv
  <1> QED
    BY <1>1, <1>2, <1>3, PTL DEF Spec

-----------------------------------------------------------------------------
(* Definitions dominate uses.  The invariant says where the versions on    *)
(* the stacks come from: the calls of renameVariables are on one path down *)
(* the dominator tree, and the versions below what a call has pushed were  *)
(* defined by the calls before it.                                         *)

Versioned(u) == u = [name |-> u.name, sub |-> u.sub]

\* A phi function of n in block b is <<b, -n>>, and what was lifted <<b, k>>.
Shape(x, b) ==
  /\ \A k \in DOMAIN x.uses : Versioned(x.uses[k])
  /\ \A k \in DOMAIN x.defs : Versioned(x.defs[k])
  /\ IF IsPhi(x) THEN DOMAIN x.defs = {1} /\ x.defs[1].name \in Nat \ {0} /\ x.id = <<b, -x.defs[1].name>>
     ELSE x.args = <<>> /\ \E k \in Nat \ {0} : x.id = <<b, k>>

Shaped == \A b \in Blocks : \A i \in DOMAIN code[b] : Shape(code[b][i], b)
IdsDiffer == \A b \in Blocks : \A i, j \in DOMAIN code[b] : code[b][i].id = code[b][j].id => i = j

\* A block has no phi function of a name that waits for its phi functions, but
\* for the blocks that have got them already.
PhiNamed(n, b) ==
  /\ pass = "registers" => n \notin Memory
  /\ stage \in {"dominators", "collect", "related"} => n \notin NamesOf(pass)
  /\ stage \in {"place", "rename"} /\ n \in NamesOf(pass) => n \in names
  /\ stage = "place" /\ n \in waiting => n = Least(waiting) /\ b \in placed

PhisNamed ==
  \A b \in Blocks : \A i \in DOMAIN code[b] : IsPhi(code[b][i]) => PhiNamed(code[b][i].defs[1].name, b)

PlacingOK == stage = "place" => waiting \subseteq names /\ (sites # {} => waiting # {})

SwitchesOK ==
  stage \in {"switch", "search"} =>
    /\ toMatch \subseteq Blocks /\ (stage = "search" => toMatch # {})
    /\ \A b \in toMatch : Last(code[b]).idiom # 0

\* The calls of renameVariables are on a path down the dominator tree.
InPath ==
  stage = "rename" =>
    \A j \in DOMAIN frames :
      /\ frames[j].children \subseteq ImmediatelyDominated(program, frames[j].block)
      /\ \A i \in 1 .. j - 1 :
           frames[i].block # frames[j].block /\ Dominates(program, frames[i].block, frames[j].block)

Defines(d, n, s) == d[1] = n /\ d[2] = s
CameBefore(d, b, i) == \E k \in DOMAIN code[b] : k < i /\ code[b][k].id = d[3]

\* Version s of n comes from one of the first m calls.
GivenBy(n, s, m) ==
  s = 0 \/ \E d \in definitions, j \in 1 .. m :
             /\ Defines(d, n, s) /\ d[3][1] = frames[j].block
             /\ CameBefore(d, frames[j].block, frames[j].next)

\* height[j] is what was on the stacks when call j began.
StackOf(height) ==
  /\ height \in [1 .. Len(frames) + 1 -> [names -> Nat \ {0}]]
  /\ \A j \in 1 .. Len(frames) + 1, n \in names : \A i \in 1 .. j : height[i][n] <= height[j][n]
  /\ \A j \in 1 .. Len(frames), n \in names : height[j + 1][n] = height[j][n] + frames[j].pushed[n]
  /\ \A n \in names : Len(stack[n]) = height[Len(frames) + 1][n]
  /\ \A j \in 0 .. Len(frames), n \in names : \A p \in 1 .. height[j + 1][n] : GivenBy(n, stack[n][p], j)

StackOK ==
  stage = "rename" =>
    /\ \E T : stack \in [names -> Seq(T)]
    /\ \E height : StackOf(height)

UseOK(n, s, b, i) ==
  s = 0 \/ \E d \in definitions :
             Defines(d, n, s) /\ IF d[3][1] = b THEN CameBefore(d, b, i) ELSE Dominates(program, d[3][1], b)

UsesOK ==
  \A b \in Blocks : \A i \in DOMAIN code[b] : code[b][i].idiom = 0 =>
    \A u \in ToSet(code[b][i].uses) : u.sub # NO_SUBSCRIPT => UseOK(u.name, u.sub, b, i)

ArgsOK ==
  \A b \in Blocks : \A i \in DOMAIN code[b] : \A a \in ToSet(code[b][i].args) :
    a.sub # NO_SUBSCRIPT => DefinedIn(code[b][i].defs[1].name, a.sub, a.source)

UsesInv ==
  /\ IInv /\ Shaped /\ IdsDiffer /\ PhisNamed /\ PlacingOK /\ SwitchesOK /\ InPath /\ StackOK
  /\ UsesOK /\ ArgsOK

\* A name gets a subscript.
LEMMA SubReplaced ==
  ASSUME NEW u, Versioned(u), NEW e
  PROVE  LET v == [u EXCEPT !.sub = e] IN Versioned(v) /\ v.name = u.name /\ v.sub = e
PROOF
  <1> DEFINE a == u.name
             c == u.sub
  <1>1. u = [name |-> a, sub |-> c]
    BY DEF Versioned
  <1> HIDE DEF a, c
  <1> QED
    BY <1>1 DEF Versioned

\* What changes an instruction without changing what it is.
SameInstruction(y, x) ==
  /\ y.id = x.id /\ y.type = x.type /\ y.idiom = x.idiom /\ DOMAIN y.defs = DOMAIN x.defs
  /\ \A k \in DOMAIN x.defs : y.defs[k].name = x.defs[k].name

Rewrites ==
  /\ program' = program
  /\ \A b \in Blocks : /\ DOMAIN code'[b] = DOMAIN code[b]
                       /\ \A i \in DOMAIN code[b] : SameInstruction(code'[b][i], code[b][i])

\* The parts of a renamed instruction.
LEMMA RenamedParts ==
  ASSUME NEW x, WellFormed(x), NEW b, Shape(x, b), NEW y, y = Renamed(x)
  PROVE  /\ SameInstruction(y, x) /\ Shape(y, b) /\ y.args = x.args
         /\ \A v \in ToSet(y.uses) : \E u \in ToSet(x.uses) : 
              /\ v.name = u.name /\ v.sub = IF u.name \in names THEN Version(u.name) ELSE u.sub
PROOF
  <1> DEFINE D == [k \in DOMAIN x.defs |->
                     IF x.defs[k].name \notin names THEN x.defs[k]
                     ELSE [x.defs[k] EXCEPT
                             !.sub = Given(x.defs[k].name) + NumberOfPushes(x, x.defs[k].name, k)]]
             U == [k \in DOMAIN x.uses |-> RenameUse(x.uses[k])]
  <1>1. DOMAIN x = Fields
    BY DEF WellFormed
  <1>2. y = [[x EXCEPT !.uses = U] EXCEPT !.defs = D]
    BY DEF Renamed
  <1>3. DOMAIN D = DOMAIN x.defs /\ DOMAIN U = DOMAIN x.uses
    OBVIOUS
  <1>4. ASSUME NEW k \in DOMAIN x.defs
        PROVE  Versioned(D[k]) /\ D[k].name = x.defs[k].name
    <2>1. Versioned(x.defs[k])
      BY DEF Shape
    <2> QED
      BY <2>1, SubReplaced
  <1>5. ASSUME NEW k \in DOMAIN x.uses
        PROVE  /\ Versioned(U[k]) /\ U[k].name = x.uses[k].name
               /\ U[k].sub = IF x.uses[k].name \in names THEN Version(x.uses[k].name) ELSE x.uses[k].sub
    <2>1. Versioned(x.uses[k])
      BY DEF Shape
    <2> QED
      BY <2>1, SubReplaced DEF RenameUse
  <1> HIDE DEF D, U
  <1>6. y.uses = U /\ y.defs = D /\ y.args = x.args /\ y.id = x.id /\ y.type = x.type /\ y.idiom = x.idiom
    BY <1>1, <1>2 DEF Fields
  <1>7. SameInstruction(y, x)
    BY <1>3, <1>4, <1>6 DEF SameInstruction
  <1>8. Shape(y, b)
    BY <1>3, <1>4, <1>5, <1>6 DEF Shape, IsPhi
  <1>9. ASSUME NEW v \in ToSet(y.uses)
        PROVE  \E u \in ToSet(x.uses) : 
                  v.name = u.name /\ v.sub = IF u.name \in names THEN Version(u.name) ELSE u.sub
    <2>1. PICK k \in DOMAIN x.uses : v = U[k]
      BY <1>3, <1>6 DEF ToSet
    <2>2. x.uses[k] \in ToSet(x.uses)
      BY DEF ToSet
    <2> QED
      BY <2>1, <2>2, <1>5
  <1> QED
    BY <1>6, <1>7, <1>8, <1>9

-----------------------------------------------------------------------------
(* Parts of instructions that change, and what stays.                      *)

\* The leading phi functions are phi functions.
LEMMA LeadingPhisArePhis ==
  ASSUME NEW S, NEW s \in Seq(S), NEW k \in 1 .. LeadingPhis(s)
  PROVE  k \in DOMAIN s /\ IsPhi(s[k])
PROOF
  <1> DEFINE K == {i \in 1 .. Len(s) : \A j \in 1 .. i : IsPhi(s[j])}
  <1>1. LeadingPhis(s) \in 0 .. Len(s) /\ Len(s) \in Nat /\ DOMAIN s = 1 .. Len(s)
    BY LeadingPhisInRange
  <1>2. k \in 1 .. Len(s)
    BY <1>1
  <1> SUFFICES ASSUME ~ IsPhi(s[k]) PROVE FALSE
    BY <1>1, <1>2
  <1>3. K \subseteq 1 .. k - 1
    BY <1>1, <1>2
  <1>4. IsFiniteSet(1 .. k - 1) /\ Cardinality(1 .. k - 1) = k - 1
    <2>1. k - 1 \in Int /\ 1 \in Int
      BY <1>2
    <2>2. IsFiniteSet(1 .. k - 1) /\ Cardinality(1 .. k - 1) = IF 1 > k - 1 THEN 0 ELSE k - 1 - 1 + 1
      BY <2>1, FS_Interval
    <2> QED
      BY <2>2, <1>2
  <1> HIDE DEF K
  <1>5. Cardinality(K) <= k - 1
    BY <1>3, <1>4, FS_Subset
  <1>6. LeadingPhis(s) = Cardinality(K)
    BY DEF LeadingPhis, K
  <1> QED
    BY <1>1, <1>2, <1>5, <1>6

\* The parts of a phi function that has got an argument.
LEMMA FilledParts ==
  ASSUME NEW x, WellFormed(x), NEW b, Shape(x, b), IsPhi(x), NEW c, NEW y, y = WithArgument(x, c)
  PROVE  /\ SameInstruction(y, x) /\ Shape(y, b) /\ y.uses = x.uses
         /\ \A a \in ToSet(y.args) : a \in ToSet(x.args) \/ a = [sub |-> Version(x.defs[1].name), source |-> c]
PROOF
  <1> DEFINE empty == {k \in DOMAIN x.args : x.args[k].sub = NO_SUBSCRIPT}
             e == [sub |-> Version(x.defs[1].name), source |-> c]
             A == [x.args EXCEPT ![Least(empty)] = e]
  <1>1. DOMAIN x = Fields
    BY DEF WellFormed
  <1>2. CASE y = x
    BY <1>2 DEF SameInstruction
  <1>3. CASE y = [x EXCEPT !.args = A]
    <2>1. DOMAIN A = DOMAIN x.args /\ \A k \in DOMAIN x.args : A[k] = x.args[k] \/ A[k] = e
      OBVIOUS
    <2> HIDE DEF A, e
    <2>2. /\ y.uses = x.uses /\ y.defs = x.defs /\ y.args = A
          /\ y.id = x.id /\ y.type = x.type /\ y.idiom = x.idiom
      BY <1>1, <1>3 DEF Fields
    <2>3. SameInstruction(y, x) /\ Shape(y, b)
      BY <2>2 DEF SameInstruction, Shape, IsPhi
    <2>4. \A a \in ToSet(y.args) : a \in ToSet(x.args) \/ a = e
      BY <2>1, <2>2 DEF ToSet
    <2> QED
      BY <2>2, <2>3, <2>4 DEF e
  <1>4. y = x \/ y = [x EXCEPT !.args = A]
    BY DEF WithArgument
  <1> QED
    BY <1>2, <1>3, <1>4

\* The parts of a switch that has got another version.
LEMMA CorrectedParts ==
  ASSUME NEW x, WellFormed(x), NEW b, Shape(x, b), NEW sub, NEW y, y = [x EXCEPT !.uses[1].sub = sub]
  PROVE  SameInstruction(y, x) /\ Shape(y, b) /\ y.args = x.args
PROOF
  <1> DEFINE U == [x.uses EXCEPT ![1] = [x.uses[1] EXCEPT !.sub = sub]]
  <1>1. DOMAIN x = Fields
    BY DEF WellFormed
  <1>2. y = [x EXCEPT !.uses = U]
    OBVIOUS
  <1>3. DOMAIN U = DOMAIN x.uses
    OBVIOUS
  <1>4. ASSUME NEW k \in DOMAIN U
        PROVE  Versioned(U[k])
    <2>1. Versioned(x.uses[k])
      BY <1>3 DEF Shape
    <2>2. U[k] = x.uses[k] \/ U[k] = [x.uses[k] EXCEPT !.sub = sub]
      BY <1>3
    <2> QED
      BY <2>1, <2>2, SubReplaced
  <1> HIDE DEF U
  <1>5. /\ y.uses = U /\ y.defs = x.defs /\ y.args = x.args
        /\ y.id = x.id /\ y.type = x.type /\ y.idiom = x.idiom
    BY <1>1, <1>2 DEF Fields
  <1> QED
    BY <1>4, <1>5 DEF SameInstruction, Shape, IsPhi

\* Rewriting keeps the identities of the instructions, and definitions are only
\* added.
LEMMA RewritesKeepIds == IdsDiffer /\ Rewrites => IdsDiffer'
PROOF
  <1> SUFFICES ASSUME IdsDiffer, Rewrites PROVE IdsDiffer'
    OBVIOUS
  <1>1. Blocks' = Blocks
    BY DEF Rewrites, Blocks
  <1>2. ASSUME NEW b \in Blocks
        PROVE  DOMAIN code'[b] = DOMAIN code[b] /\ \A i \in DOMAIN code[b] : code'[b][i].id = code[b][i].id
    BY DEF Rewrites, SameInstruction
  <1> QED
    BY <1>1, <1>2 DEF IdsDiffer

\* What was defined before an instruction still is.
LEMMA RewritesKeepOrder ==
  ASSUME Rewrites, NEW b \in Blocks, NEW d, NEW i, CameBefore(d, b, i)
  PROVE  CameBefore(d, b, i)'
PROOF
  <1>1. PICK k \in DOMAIN code[b] : k < i /\ code[b][k].id = d[3]
    BY DEF CameBefore
  <1>2. k \in DOMAIN code'[b] /\ code'[b][k].id = d[3]
    BY <1>1 DEF Rewrites, SameInstruction
  <1> QED
    BY <1>1, <1>2 DEF CameBefore

\* A use that has its definition keeps it.
LEMMA RewritesKeepUse ==
  ASSUME Rewrites, definitions \subseteq definitions', NEW b \in Blocks, NEW n, NEW s, NEW i, UseOK(n, s, b, i)
  PROVE  UseOK(n, s, b, i)'
PROOF
  <1>1. CASE s = 0
    BY <1>1 DEF UseOK
  <1>2. CASE s # 0
    <2>1. PICK d \in definitions :
             Defines(d, n, s) /\ IF d[3][1] = b THEN CameBefore(d, b, i) ELSE Dominates(program, d[3][1], b)
      BY <1>2 DEF UseOK
    <2>2. d[3][1] # b => Dominates(program', d[3][1], b)
      BY <2>1 DEF Rewrites
    <2>3. d[3][1] = b => CameBefore(d, b, i)'
      BY <2>1, RewritesKeepOrder
    <2> QED
      BY <2>1, <2>2, <2>3 DEF UseOK, Defines
  <1> QED
    BY <1>1, <1>2

\* A definition that reaches a block still does when others are added.
LEMMA MoreDefinedIn ==
  ASSUME program' = program, definitions \subseteq definitions', NEW n, NEW s, NEW b, DefinedIn(n, s, b)
  PROVE  DefinedIn(n, s, b)'
PROOF
  BY DEF DefinedIn

\* The phi functions are those of the same names.
LEMMA RewritesKeepPhis ==
  ASSUME Shaped, PhisNamed, Rewrites, UNCHANGED <<pass, names>>,
         stage' \in {"rename", "switch"}, stage' = "rename" => stage = "rename"
  PROVE  PhisNamed'
PROOF
  <1>1. Blocks' = Blocks /\ NamesOf(pass)' = NamesOf(pass)
    BY DEF Rewrites, Blocks, NamesOf
  <1>2. ASSUME NEW b \in Blocks, NEW i \in DOMAIN code'[b], IsPhi(code'[b][i]), NEW n, n = code'[b][i].defs[1].name
        PROVE  PhiNamed(n, b)'
    <2> DEFINE x == code[b][i]
               y == code'[b][i]
    <2>1. i \in DOMAIN code[b] /\ SameInstruction(y, x) /\ Shape(x, b)
      BY <1>2 DEF Rewrites, Shaped
    <2>2. IsPhi(x) /\ y.defs[1].name = x.defs[1].name
      BY <1>2, <2>1 DEF SameInstruction, IsPhi, Shape
    <2>3. PhiNamed(n, b)
      BY <1>2, <2>1, <2>2 DEF PhisNamed
    <2> QED
      BY <2>3, <1>1 DEF PhiNamed
  <1> QED
    BY <1>1, <1>2 DEF PhisNamed, PhiNamed

-----------------------------------------------------------------------------
(* renameVariables renames an instruction.                                 *)

\* The last index, and the others.
LEMMA IndexBelow ==
  ASSUME NEW m \in Nat \ {0}
  PROVE  m \in 1 .. m /\ \A j \in 1 .. m : j = m \/ j \in 1 .. m - 1
PROOF
  OBVIOUS

\* All but the last element of a list.
LEMMA FrontElements ==
  ASSUME NEW S, NEW s \in Seq(S), s # <<>>
  PROVE  /\ Len(s) \in Nat \ {0} /\ Last(s) = s[Len(s)] /\ Last(s) \in S
         /\ Front(s) \in Seq(S) /\ Len(Front(s)) = Len(s) - 1
         /\ \A j \in 1 .. Len(s) - 1 : Front(s)[j] = s[j]
PROOF
  <1>1. Len(s) \in Nat \ {0}
    BY EmptySeq
  <1>2. Last(s) = s[Len(s)] /\ Last(s) \in S
    BY <1>1, ElementOfSeq DEF Last
  <1>3. PICK m : m = Len(s)
    OBVIOUS
  <1>4. m \in Nat \ {0}
    BY <1>1, <1>3
  <1>5. \A j \in 1 .. m - 1 : s[j] \in S
    BY <1>3, <1>4, ElementOfSeq
  <1>6. m - 1 \in Int /\ 1 \in Int
    BY <1>4
  <1>7. /\ SubSeq(s, 1, m - 1) \in Seq(S)
        /\ Len(SubSeq(s, 1, m - 1)) = IF 1 <= m - 1 THEN m - 1 - 1 + 1 ELSE 0
        /\ \A j \in 1 .. m - 1 - 1 + 1 : SubSeq(s, 1, m - 1)[j] = s[1 + j - 1]
    BY <1>5, <1>6, SubSeqProperties
  <1> DEFINE r == SubSeq(s, 1, m - 1)
  <1> HIDE DEF r
  <1>8. r \in Seq(S) /\ Len(r) = m - 1 /\ \A j \in 1 .. m - 1 : r[j] = s[j]
    BY <1>4, <1>7 DEF r
  <1> QED
    BY <1>1, <1>2, <1>3, <1>8 DEF Front, r

\* The topmost call changes.
LEMMA TopElements ==
  ASSUME NEW S, frames \in Seq(S), frames # <<>>, NEW f \in S
  PROVE  /\ Len(frames) \in Nat \ {0} /\ Top = frames[Len(frames)] /\ Top \in S
         /\ Len(WithTop(f)) = Len(frames) /\ WithTop(f)[Len(frames)] = f
         /\ \A j \in 1 .. Len(frames) - 1 : WithTop(f)[j] = frames[j]
         /\ Front(frames) \in Seq(S) /\ Len(Front(frames)) = Len(frames) - 1
         /\ \A j \in 1 .. Len(frames) - 1 : Front(frames)[j] = frames[j]
PROOF
  <1>1. /\ Len(frames) \in Nat \ {0} /\ Top = frames[Len(frames)] /\ Top \in S
        /\ Front(frames) \in Seq(S) /\ Len(Front(frames)) = Len(frames) - 1
        /\ \A j \in 1 .. Len(frames) - 1 : Front(frames)[j] = frames[j]
    BY FrontElements DEF Top
  <1>2. PICK r : r = Front(frames)
    OBVIOUS
  <1>3. PICK m : m = Len(frames)
    OBVIOUS
  <1>4. m \in Nat \ {0} /\ r \in Seq(S) /\ Len(r) = m - 1 /\ \A j \in 1 .. m - 1 : r[j] = frames[j]
    BY <1>1, <1>2, <1>3
  <1>5. /\ Len(Append(r, f)) = Len(r) + 1 /\ Append(r, f)[Len(r) + 1] = f
        /\ \A j \in 1 .. Len(r) : Append(r, f)[j] = r[j]
    BY <1>4, AppendProperties
  <1>6. /\ Len(Append(r, f)) = m /\ Append(r, f)[m] = f
        /\ \A j \in 1 .. m - 1 : Append(r, f)[j] = frames[j]
    BY <1>4, <1>5
  <1> QED
    BY <1>1, <1>2, <1>3, <1>6 DEF WithTop

\* The version on top of a stack was defined by one of the calls.
LEMMA VersionGiven ==
  ASSUME UsesInv, stage = "rename", NEW n \in names
  PROVE  GivenBy(n, Version(n), Len(frames))
PROOF
  <1>1. PICK T : stack \in [names -> Seq(T)]
    BY DEF UsesInv, StackOK
  <1>2. PICK height : StackOf(height)
    BY DEF UsesInv, StackOK
  <1>3. Len(frames) \in Nat
    BY DEF UsesInv, IInv, CountOK
  <1>4. Len(stack[n]) = height[Len(frames) + 1][n] /\ height[Len(frames) + 1][n] \in Nat \ {0}
    BY <1>2, <1>3 DEF StackOf
  <1>5. GivenBy(n, stack[n][Len(stack[n])], Len(frames))
    <2>1. Len(frames) \in 0 .. Len(frames) /\ Len(stack[n]) \in 1 .. height[Len(frames) + 1][n]
      BY <1>3, <1>4
    <2> QED
      BY <1>2, <2>1 DEF StackOf
  <1> QED
    BY <1>5 DEF Version, Last

\* Of what the calls defined the definition dominates the block of the topmost
\* call, and comes before its next instruction.
LEMMA GivenDominates ==
  ASSUME UsesInv, stage = "rename", frames # <<>>, NEW n, NEW s, GivenBy(n, s, Len(frames))
  PROVE  UseOK(n, s, Top.block, Top.next) /\ DefinedIn(n, s, Top.block)
PROOF
  <1>1. CASE s = 0
    BY <1>1 DEF UseOK, DefinedIn
  <1>2. CASE s # 0
    <2>1. frames \in Seq(FrameType)
      BY DEF UsesInv, IInv, CountOK
    <2>2. Len(frames) \in Nat \ {0} /\ DOMAIN frames = 1 .. Len(frames) /\ Top = frames[Len(frames)]
      BY <2>1, EmptySeq DEF Top, Last
    <2>3. PICK d \in definitions, j \in 1 .. Len(frames) :
             /\ Defines(d, n, s) /\ d[3][1] = frames[j].block
             /\ CameBefore(d, frames[j].block, frames[j].next)
      BY <1>2 DEF GivenBy
    <2>4. CASE j = Len(frames)
      <3>1. d[3][1] = Top.block /\ CameBefore(d, Top.block, Top.next)
        BY <2>2, <2>3, <2>4
      <3> QED
        BY <2>3, <3>1 DEF UseOK, DefinedIn, Defines, Dominates
    <2>5. CASE j # Len(frames)
      <3>1. j \in 1 .. Len(frames) - 1 /\ Len(frames) \in 1 .. Len(frames)
        BY <2>2, <2>5, IndexBelow
      <3>2. frames[j].block # Top.block /\ Dominates(program, frames[j].block, Top.block)
        BY <2>2, <3>1 DEF UsesInv, InPath
      <3>3. d[3][1] # Top.block /\ Dominates(program, d[3][1], Top.block)
        BY <2>3, <3>2
      <3> QED
        BY <2>3, <3>3 DEF UseOK, DefinedIn, Defines
    <2> QED
      BY <2>4, <2>5
  <1> QED
    BY <1>1, <1>2

\* What renaming an instruction does to the code and the calls.
RenamedAt(b, i) ==
  /\ b \in Blocks /\ i \in DOMAIN code[b] /\ b = Top.block /\ i = Top.next /\ i \in Nat
  /\ frames \in Seq(FrameType)
  /\ \A c \in Blocks : /\ DOMAIN code'[c] = DOMAIN code[c]
                       /\ \A k \in DOMAIN code[c] : WellFormed(code[c][k])
                       /\ \A k \in DOMAIN code[c] : 
                            IF c = b /\ k = i THEN code'[c][k] = Renamed(code[c][k]) ELSE code'[c][k] = code[c][k]

\* The instruction that is renamed is one of the block of the last call.
LEMMA RenameAt ==
  ASSUME UsesInv, RenameInstruction
  PROVE  RenamedAt(Top.block, Top.next) /\ Rewrites
PROOF
  <1>1. Top \in FrameType /\ frames \in Seq(FrameType) /\ stage = "rename"
    BY TopOfStack DEF UsesInv, IInv, CountOK, RenameInstruction, Top
  <1> DEFINE b == Top.block
             i == Top.next
  <1>2. PICK S : (\A z \in S : WellFormed(z)) /\ \A c \in Blocks : code[c] \in Seq(S)
    BY DEF UsesInv, IInv, CodeOK
  <1>3. b \in Blocks /\ i \in Nat \ {0} /\ i <= Len(code[b])
    BY <1>1 DEF FrameType, RenameInstruction
  <1>4. Len(code[b]) \in Nat /\ DOMAIN code[b] = 1 .. Len(code[b])
    BY <1>2, <1>3
  <1>5. code' = [code EXCEPT ![b] = [code[b] EXCEPT ![i] = Renamed(code[b][i])]] /\ program' = program
    BY DEF RenameInstruction, Current
  <1>6. code = [c \in Blocks |-> code[c]]
    BY DEF UsesInv, IInv, CodeOK
  <1> HIDE DEF b, i
  <1>7. ASSUME NEW c \in Blocks
        PROVE  /\ DOMAIN code'[c] = DOMAIN code[c]
               /\ \A k \in DOMAIN code[c] :
                    IF c = b /\ k = i THEN code'[c][k] = Renamed(code[c][k]) ELSE code'[c][k] = code[c][k]
    BY <1>5, <1>6
  <1>8. ASSUME NEW c \in Blocks, NEW k \in DOMAIN code[c]
        PROVE  WellFormed(code[c][k])
    <2>1. code[c] \in Seq(S)
      BY <1>2
    <2>2. DOMAIN code[c] = 1 .. Len(code[c])
      BY <2>1
    <2> QED
      BY <2>1, <2>2, <1>2, ElementOfSeq
  <1>9. RenamedAt(b, i)
    BY <1>1, <1>3, <1>4, <1>7, <1>8 DEF RenamedAt, b, i
  <1>10. ASSUME NEW c \in Blocks, NEW k \in DOMAIN code[c]
         PROVE  SameInstruction(code'[c][k], code[c][k])
    <2>1. CASE c = b /\ k = i
      <3>1. Shape(code[c][k], c)
        BY DEF UsesInv, Shaped
      <3>2. code'[c][k] = Renamed(code[c][k])
        BY <1>7, <2>1
      <3> QED
        BY <1>8, <3>1, <3>2, RenamedParts
    <2>2. CASE ~ (c = b /\ k = i)
      BY <1>7, <2>2 DEF SameInstruction
    <2> QED
      BY <2>1, <2>2
  <1> QED
    BY <1>5, <1>7, <1>9, <1>10 DEF Rewrites, b, i

\* Renaming changes versions only.
LEMMA RenameKeepsShape == UsesInv /\ RenameInstruction => Shaped'
PROOF
  <1> SUFFICES ASSUME UsesInv, RenameInstruction PROVE Shaped'
    OBVIOUS
  <1>1. PICK b, i : RenamedAt(b, i)
    BY RenameAt
  <1>2. Blocks' = Blocks
    BY DEF RenameInstruction, Blocks
  <1>3. ASSUME NEW c \in Blocks, NEW k \in DOMAIN code'[c], NEW y, y = code'[c][k]
        PROVE  Shape(y, c)
    <2>1. k \in DOMAIN code[c] /\ Shape(code[c][k], c) /\ WellFormed(code[c][k])
      BY <1>1, <1>3 DEF RenamedAt, UsesInv, Shaped
    <2>2. y = code[c][k] \/ y = Renamed(code[c][k])
      BY <1>1, <1>3, <2>1 DEF RenamedAt
    <2> QED
      BY <2>1, <2>2, RenamedParts
  <1>4. ASSUME NEW c \in Blocks, NEW k \in DOMAIN code'[c]
        PROVE  Shape(code[c][k], c)'
    <2>1. PICK y : y = code'[c][k]
      OBVIOUS
    <2>2. Shape(y, c)
      BY <1>3, <1>4, <2>1
    <2> QED
      BY ONLY <2>1, <2>2 DEF Shape, IsPhi, Versioned
  <1> QED
    BY <1>2, <1>4 DEF Shaped

\* A use gets the version on top of its stack, which came before or from a
\* dominator.
LEMMA RenameKeepsUses == UsesInv /\ RenameInstruction => (UsesOK /\ ArgsOK)'
PROOF
  <1> SUFFICES ASSUME UsesInv, RenameInstruction PROVE (UsesOK /\ ArgsOK)'
    OBVIOUS
  <1> DEFINE b == Top.block
             i == Top.next
  <1>1. RenamedAt(b, i) /\ Rewrites
    BY RenameAt
  <1>2. Blocks' = Blocks /\ definitions \subseteq definitions' /\ stage = "rename" /\ frames # <<>> /\ program' = program
    BY DEF RenameInstruction, Blocks
  <1> HIDE DEF b, i
  <1>3. ASSUME NEW c \in Blocks, NEW k \in DOMAIN code[c], code'[c][k].idiom = 0,
               NEW v \in ToSet(code'[c][k].uses), v.sub # NO_SUBSCRIPT
        PROVE  UseOK(v.name, v.sub, c, k)'
    <2> DEFINE x == code[c][k]
               y == code'[c][k]
    <2>1. WellFormed(x) /\ Shape(x, c) /\ SameInstruction(y, x)
      BY <1>1 DEF RenamedAt, UsesInv, Shaped, Rewrites
    <2>2. x.idiom = 0
      BY <1>3, <2>1 DEF SameInstruction
    <2>3. UseOK(v.name, v.sub, c, k)
      <3>1. CASE y = x
        <4>1. v \in ToSet(code[c][k].uses)
          BY <1>3, <3>1
        <4> QED
          BY <4>1, <1>3, <2>2 DEF UsesInv, UsesOK
      <3>2. CASE y = Renamed(x) /\ c = b /\ k = i
        <4> HIDE DEF y, x
        <4>0. v \in ToSet(y.uses)
          BY <1>3 DEF y
        <4>1. PICK u \in ToSet(x.uses) :
                v.name = u.name /\ v.sub = IF u.name \in names THEN Version(u.name) ELSE u.sub
          BY <2>1, <3>2, <4>0, RenamedParts
        <4>2. CASE u.name \in names
          <5>1. GivenBy(u.name, Version(u.name), Len(frames))
            BY <4>2, <1>2, VersionGiven
          <5>2. UseOK(u.name, Version(u.name), Top.block, Top.next)
            BY <5>1, <1>2, GivenDominates
          <5> QED
            BY <5>2, <4>1, <4>2, <3>2 DEF b, i
        <4>3. CASE u.name \notin names
          <5>1. v.name = u.name /\ v.sub = u.sub /\ u \in ToSet(code[c][k].uses)
            BY <4>1, <4>3 DEF x
          <5> QED
            BY <5>1, <1>3, <2>2 DEF UsesInv, UsesOK, x
        <4> QED
          BY <4>2, <4>3
      <3> QED
        BY <3>1, <3>2, <1>1 DEF RenamedAt
    <2>4. ASSUME NEW m, NEW s, UseOK(m, s, c, k)
          PROVE  UseOK(m, s, c, k)'
      BY <2>4, <1>1, <1>2, RewritesKeepUse
    <2>5. ASSUME NEW m, NEW s, m = v.name, s = v.sub
          PROVE  UseOK(m, s, c, k)'
      BY <2>3, <2>4, <2>5
    <2> QED
      BY <2>5
  <1>4. UsesOK'
    BY <1>1, <1>2, <1>3 DEF UsesOK, Rewrites
  <1>5. ASSUME NEW c \in Blocks, NEW k \in DOMAIN code[c], NEW a \in ToSet(code'[c][k].args), a.sub # NO_SUBSCRIPT
        PROVE  DefinedIn(code[c][k].defs[1].name, a.sub, a.source)'
    <2> DEFINE x == code[c][k]
               y == code'[c][k]
    <2>1. WellFormed(x) /\ Shape(x, c) /\ SameInstruction(y, x)
      BY <1>1 DEF RenamedAt, UsesInv, Shaped, Rewrites
    <2>2. y = x \/ y = Renamed(x)
      BY <1>1 DEF RenamedAt
    <2>3. y.args = x.args
      <3> HIDE DEF x, y
      <3> QED
        BY <2>1, <2>2, RenamedParts
    <2>4. x.args # <<>>
      BY <1>5, <2>3 DEF ToSet
    <2>5. y.defs[1].name = x.defs[1].name
      BY <2>1, <2>4 DEF Shape, SameInstruction
    <2>6. DefinedIn(x.defs[1].name, a.sub, a.source)
      BY <1>5, <2>3 DEF UsesInv, ArgsOK
    <2>7. ASSUME NEW m, NEW s, NEW e, m = y.defs[1].name, s = a.sub, e = a.source
          PROVE  DefinedIn(m, s, e)'
      <3>1. DefinedIn(m, s, e)
        BY <2>5, <2>6, <2>7
      <3> QED
        BY <3>1, <1>2, MoreDefinedIn
    <2> QED
      BY <2>7
  <1>6. ArgsOK'
    BY <1>1, <1>2, <1>5 DEF ArgsOK, Rewrites
  <1> QED
    BY <1>4, <1>6

\* What a call has defined it has defined for ever.
LEMMA GivenKept ==
  ASSUME CodeOK, Rewrites, definitions \subseteq definitions', NEW m \in Nat,
         \A j \in 1 .. m : /\ frames'[j].block = frames[j].block /\ frames[j].block \in Blocks
                           /\ frames[j].next \in Nat /\ frames'[j].next \in Nat /\ frames[j].next <= frames'[j].next,
         NEW n, NEW s, GivenBy(n, s, m)
  PROVE  GivenBy(n, s, m)'
PROOF
  <1>1. CASE s = 0
    BY <1>1 DEF GivenBy
  <1>2. CASE s # 0
    <2>1. PICK d \in definitions, j \in 1 .. m :
             /\ Defines(d, n, s) /\ d[3][1] = frames[j].block
             /\ CameBefore(d, frames[j].block, frames[j].next)
      BY <1>2 DEF GivenBy
    <2>2. PICK b \in Blocks, i \in Nat, i1 \in Nat :
             b = frames[j].block /\ i = frames[j].next /\ i1 = frames'[j].next /\ b = frames'[j].block /\ i <= i1
      OBVIOUS
    <2>3. PICK k \in DOMAIN code[b] : k < i /\ code[b][k].id = d[3]
      BY <2>1, <2>2 DEF CameBefore
    <2>4. k \in DOMAIN code'[b] /\ code'[b][k].id = d[3]
      BY <2>2, <2>3 DEF Rewrites, SameInstruction
    <2>5. k < i1
      <3>1. k \in Int
        <4>1. PICK S : code[b] \in Seq(S)
          BY DEF CodeOK
        <4>2. DOMAIN code[b] = 1 .. Len(code[b])
          BY <4>1
        <4> QED
          BY <4>2
      <3> QED
        BY <3>1, <2>2, <2>3
    <2>6. CameBefore(d, b, i1)'
      BY <2>4, <2>5 DEF CameBefore
    <2>7. CameBefore(d, frames[j].block, frames[j].next)'
      BY <2>2, <2>6 DEF CameBefore
    <2> QED
      BY <2>1, <2>2, <2>7 DEF GivenBy, Defines
  <1> QED
    BY <1>1, <1>2

\* Renaming an instruction leaves the calls where they are.
TopGoesOn ==
  /\ frames \in Seq(FrameType) /\ frames' \in Seq(FrameType)
  /\ frames # <<>> /\ Len(frames') = Len(frames)
  /\ \A j \in 1 .. Len(frames) - 1 : frames'[j] = frames[j]
  /\ \A j \in 1 .. Len(frames) :
       /\ frames'[j].block = frames[j].block /\ frames[j].next <= frames'[j].next
       /\ frames'[j].children \subseteq frames[j].children

\* The call that renames an instruction goes on behind it.
LEMMA RenameGoesOn ==
  ASSUME UsesInv, RenameInstruction
  PROVE  /\ TopGoesOn /\ Last(frames').next = Top.next + 1
         /\ \A n \in names : Last(frames').pushed[n] = Top.pushed[n] + NumberOfPushes(Current, n, Len(Current.defs))
PROOF
  <1> DEFINE pushes == [n \in names |-> NumberOfPushes(Current, n, Len(Current.defs))]
             f == [[Top EXCEPT !.next = @ + 1] EXCEPT !.pushed = [n \in names |-> @[n] + pushes[n]]]
  <1>1. /\ frames \in Seq(FrameType) /\ frames # <<>> /\ stage = "rename" /\ frames' \in Seq(FrameType)
        /\ FrameType' = FrameType
    <2>1. CountOK'
      BY VersionsAreNew DEF UsesInv, IInv
    <2> QED
      BY <2>1 DEF UsesInv, IInv, CountOK, RenameInstruction, FrameType, Blocks
  <1>2. frames' = WithTop(f)
    BY DEF RenameInstruction
  <1>3. Top \in FrameType /\ Top = frames[Len(frames)]
    BY <1>1, FrontElements DEF Top
  <1>4. DOMAIN Top = {"block", "next", "filled", "children", "pushed"} /\ Top.next \in Nat
    BY <1>3 DEF FrameType
  <1>5. /\ f.block = Top.block /\ f.next = Top.next + 1 /\ f.children = Top.children
        /\ \A n \in names : f.pushed[n] = Top.pushed[n] + pushes[n]
    BY <1>4
  <1> HIDE DEF f, pushes
  <1>6. /\ Len(WithTop(f)) = Len(frames) /\ WithTop(f)[Len(frames)] = f
        /\ \A j \in 1 .. Len(frames) - 1 : WithTop(f)[j] = frames[j]
    <2> DEFINE S == FrameType \cup {f}
    <2>1. frames \in Seq(S) /\ f \in S
      BY <1>1, SeqMonotonic
    <2> HIDE DEF S
    <2> QED
      BY <2>1, <1>1, TopElements
  <1>7. PICK m : m = Len(frames)
    OBVIOUS
  <1>8. m \in Nat \ {0}
    BY <1>1, <1>7, FrontElements
  <1>9. ASSUME NEW j \in 1 .. m
        PROVE  /\ frames'[j].block = frames[j].block /\ frames[j].next <= frames'[j].next
               /\ frames'[j].children \subseteq frames[j].children
    <2>1. CASE j = m
      BY <2>1, <1>2, <1>3, <1>4, <1>5, <1>6, <1>7
    <2>2. CASE j # m
      <3>1. j \in 1 .. m - 1
        BY <2>2, <1>8
      <3>2. frames'[j] = frames[j] /\ frames[j] \in FrameType
        BY <3>1, <1>1, <1>2, <1>6, <1>7, <1>8, ElementOfSeq
      <3> QED
        BY <3>2 DEF FrameType
    <2> QED
      BY <2>1, <2>2
  <1>10. TopGoesOn
    BY <1>1, <1>2, <1>6, <1>7, <1>9 DEF TopGoesOn
  <1>11. Last(frames') = f
    BY <1>2, <1>6 DEF Last
  <1> QED
    BY <1>5, <1>10, <1>11 DEF pushes

\* The blocks of the calls do not change when one goes on.
LEMMA GoesOnKeepsPath ==
  ASSUME InPath, TopGoesOn, stage = "rename", UNCHANGED program
  PROVE  InPath'
PROOF
  <1>1. DOMAIN frames = 1 .. Len(frames) /\ DOMAIN frames' = 1 .. Len(frames) /\ Len(frames) \in Nat
    BY DEF TopGoesOn
  <1>2. ASSUME NEW j \in DOMAIN frames', NEW i \in 1 .. j - 1
        PROVE  frames'[i].block # frames'[j].block /\ Dominates(program, frames'[i].block, frames'[j].block)
    <2>1. j \in 1 .. Len(frames) /\ i \in 1 .. Len(frames)
      BY <1>1
    <2>2. frames'[i].block = frames[i].block /\ frames'[j].block = frames[j].block
      BY <2>1 DEF TopGoesOn
    <2> QED
      BY <2>2, <1>1 DEF InPath
  <1>3. ASSUME NEW j \in DOMAIN frames'
        PROVE  frames'[j].children \subseteq ImmediatelyDominated(program, frames'[j].block)
    <2>1. j \in 1 .. Len(frames)
      BY <1>1
    <2> QED
      BY <2>1, <1>1 DEF InPath, TopGoesOn
  <1> QED
    BY <1>2, <1>3 DEF InPath

\* The stacks of the names only change at their end.
StacksGrow(more) ==
  /\ stack' = [n \in names |-> stack[n] \o more[n]]
  /\ \A n \in names : more[n] \in Seq(Nat)
  /\ \A n \in names : Len(more[n]) = NumberOfPushes(Current, n, Len(Current.defs))
  /\ \A n \in names : \A i \in 1 .. Len(more[n]) : <<n, more[n][i], Current.id>> \in definitions'

\* Renaming pushes the versions that the instruction defines.
LEMMA RenameGrows ==
  ASSUME UsesInv, RenameInstruction
  PROVE  \E more : StacksGrow(more)
PROOF
  <1> DEFINE pushes == [n \in names |-> NumberOfPushes(Current, n, Len(Current.defs))]
             more == [n \in names |-> [i \in 1 .. pushes[n] |-> count[n] + i]]
  <1>1. WellFormed(Current) /\ count \in [names -> Nat]
    <2>1. PICK b, i : RenamedAt(b, i)
      BY RenameAt
    <2> QED
      BY <2>1 DEF RenamedAt, Current, UsesInv, IInv, CountOK, RenameInstruction
  <1>2. \A n \in names : pushes[n] \in Nat
    BY <1>1, CountIsNatural DEF WellFormed
  <1>3. /\ stack' = [n \in names |-> stack[n] \o more[n]]
        /\ definitions' = definitions \cup UNION {{<<n, count[n] + i, Current.id>> : i \in 1 .. pushes[n]} : n \in names}
    BY DEF RenameInstruction, Given
  <1> HIDE DEF pushes
  <1>4. ASSUME NEW n \in names
        PROVE  more[n] \in Seq(Nat) /\ Len(more[n]) = pushes[n]
    <2>1. count[n] \in Nat /\ pushes[n] \in Nat
      BY <1>1, <1>2
    <2>2. more[n] \in [1 .. pushes[n] -> Nat]
      BY <2>1
    <2> QED
      BY <2>1, <2>2, IsASeq
  <1>5. ASSUME NEW n \in names, NEW i \in 1 .. pushes[n]
        PROVE  <<n, more[n][i], Current.id>> \in definitions'
    BY <1>3
  <1>6. \A n \in names : pushes[n] = NumberOfPushes(Current, n, Len(Current.defs))
    BY DEF pushes
  <1> HIDE DEF more
  <1>7. StacksGrow(more)
    BY <1>3, <1>4, <1>5, <1>6 DEF StacksGrow
  <1> QED
    BY <1>7

\* What renaming pushes is defined by the instruction that the call has passed.
LEMMA RenameKeepsStack == UsesInv /\ RenameInstruction => StackOK'
PROOF
  <1> SUFFICES ASSUME UsesInv, RenameInstruction PROVE StackOK'
    OBVIOUS
  <1>1. PICK more : StacksGrow(more)
    BY RenameGrows
  <1>2. /\ TopGoesOn /\ Last(frames').next = Top.next + 1
        /\ \A n \in names : Last(frames').pushed[n] = Top.pushed[n] + NumberOfPushes(Current, n, Len(Current.defs))
    BY RenameGoesOn
  <1>3. stage = "rename" /\ names' = names /\ definitions \subseteq definitions' /\ CodeOK
    BY DEF RenameInstruction, UsesInv, IInv
  <1>4. PICK T : stack \in [names -> Seq(T)]
    BY <1>3 DEF UsesInv, StackOK
  <1>5. PICK height : StackOf(height)
    BY <1>3 DEF UsesInv, StackOK
  <1>6. PICK m \in Nat \ {0} : m = Len(frames) /\ m = Len(frames')
    BY FrontElements, <1>2 DEF TopGoesOn
  <1>7. ASSUME NEW n \in names
        PROVE  /\ Len(stack[n]) \in Nat /\ Len(more[n]) \in Nat
               /\ stack'[n] \in Seq(T \cup Nat) /\ Len(stack'[n]) = Len(stack[n]) + Len(more[n])
               /\ \A p \in 1 .. Len(stack[n]) : stack'[n][p] = stack[n][p]
               /\ \A p \in 1 .. Len(more[n]) : stack'[n][Len(stack[n]) + p] = more[n][p]
    <2> DEFINE s == stack[n]
               r == more[n]
    <2>1. s \in Seq(T \cup Nat) /\ r \in Seq(T \cup Nat)
      BY <1>1, <1>4, SeqMonotonic DEF StacksGrow
    <2>2. stack'[n] = s \o r
      BY <1>1 DEF StacksGrow
    <2> HIDE DEF s, r
    <2>3. Len(s) \in Nat /\ Len(r) \in Nat
      BY <2>1
    <2>4. /\ s \o r \in Seq(T \cup Nat) /\ Len(s \o r) = Len(s) + Len(r)
          /\ \A i \in 1 .. Len(s) + Len(r) : (s \o r)[i] = IF i <= Len(s) THEN s[i] ELSE r[i - Len(s)]
      BY <2>1, ConcatProperties
    <2>5. \A p \in 1 .. Len(s) : (s \o r)[p] = s[p]
      BY <2>3, <2>4
    <2>6. ASSUME NEW p \in 1 .. Len(r)
          PROVE  (s \o r)[Len(s) + p] = r[p]
      <3>1. Len(s) + p \in 1 .. Len(s) + Len(r) /\ ~ Len(s) + p <= Len(s) /\ Len(s) + p - Len(s) = p
        BY <2>3
      <3> QED
        BY <2>4, <3>1
    <2> QED
      BY <2>2, <2>3, <2>4, <2>5, <2>6 DEF s, r
  <1> DEFINE h == [j \in 1 .. m + 1 |-> IF j = m + 1 THEN [n \in names |-> height[m + 1][n] + Len(more[n])] ELSE height[j]]
  <1>8. /\ height \in [1 .. m + 1 -> [names -> Nat \ {0}]]
        /\ \A j \in 1 .. m + 1, n \in names : \A i \in 1 .. j : height[i][n] <= height[j][n]
        /\ \A j \in 1 .. m, n \in names : height[j + 1][n] = height[j][n] + frames[j].pushed[n]
        /\ \A n \in names : Len(stack[n]) = height[m + 1][n]
        /\ \A j \in 0 .. m, n \in names : \A p \in 1 .. height[j + 1][n] : GivenBy(n, stack[n][p], j)
    BY <1>5, <1>6 DEF StackOf
  <1>9. h \in [1 .. m + 1 -> [names -> Nat \ {0}]]
    <2>1. \A n \in names : height[m + 1][n] \in Nat \ {0} /\ Len(more[n]) \in Nat
      BY <1>7, <1>8
    <2> QED
      BY <1>8, <2>1
  <1>10. ASSUME NEW j \in 1 .. m + 1, NEW n \in names, NEW i \in 1 .. j
         PROVE  h[i][n] <= h[j][n]
    <2>1. height[i][n] \in Nat /\ height[j][n] \in Nat /\ height[i][n] <= height[j][n] /\ Len(more[n]) \in Nat
      BY <1>7, <1>8
    <2>2. i \in 1 .. m + 1
      OBVIOUS
    <2>3. h[i][n] = IF i = m + 1 THEN height[m + 1][n] + Len(more[n]) ELSE height[i][n]
      BY <2>2
    <2>4. h[j][n] = IF j = m + 1 THEN height[m + 1][n] + Len(more[n]) ELSE height[j][n]
      OBVIOUS
    <2> HIDE DEF h
    <2>5. i = m + 1 => j = m + 1
      OBVIOUS
    <2> QED
      BY <2>1, <2>3, <2>4, <2>5
  <1>11. ASSUME NEW n \in names
         PROVE  Len(stack'[n]) = h[m + 1][n]
    <2>1. m + 1 \in 1 .. m + 1
      OBVIOUS
    <2>2. h[m + 1][n] = height[m + 1][n] + Len(more[n])
      BY <2>1
    <2> HIDE DEF h
    <2> QED
      BY <2>2, <1>7, <1>8
  <1>12. ASSUME NEW j \in 1 .. m, NEW n \in names
         PROVE  h[j + 1][n] = h[j][n] + frames'[j].pushed[n]
    <2>1. height[j + 1][n] = height[j][n] + frames[j].pushed[n] /\ j # m + 1 /\ j \in 1 .. m + 1 /\ j + 1 \in 1 .. m + 1
      BY <1>8
    <2>2. CASE j = m
      <3>1. frames'[j].pushed[n] = frames[j].pushed[n] + Len(more[n])
        BY <1>1, <1>2, <1>6, <2>2 DEF StacksGrow, Top, Last
      <3>2. frames[j] \in FrameType
        BY <1>2, <1>6, ElementOfSeq DEF TopGoesOn
      <3>3. frames[j].pushed[n] \in Nat /\ height[j][n] \in Nat /\ Len(more[n]) \in Nat
        BY <3>2, <1>7, <1>8, <2>1 DEF FrameType
      <3>4. h[j + 1][n] = height[j + 1][n] + Len(more[n]) /\ h[j][n] = height[j][n]
        BY <2>1, <2>2
      <3> QED
        BY <2>1, <3>1, <3>3, <3>4
    <2>3. CASE j # m
      <3>1. j \in 1 .. m - 1 /\ j + 1 # m + 1
        BY <2>3
      <3>2. frames'[j] = frames[j]
        BY <3>1, <1>2, <1>6 DEF TopGoesOn
      <3> QED
        BY <2>1, <3>1, <3>2
    <2> QED
      BY <2>2, <2>3
  <1>13. ASSUME NEW j \in 0 .. m, NEW n \in names, NEW s, GivenBy(n, s, j)
         PROVE  GivenBy(n, s, j)'
    <2>1. ASSUME NEW i \in 1 .. j
          PROVE  /\ frames'[i].block = frames[i].block /\ frames[i].block \in Blocks
                 /\ frames[i].next \in Nat /\ frames'[i].next \in Nat /\ frames[i].next <= frames'[i].next
      <3>1. i \in 1 .. m
        OBVIOUS
      <3>2. frames[i] \in FrameType /\ frames'[i] \in FrameType
        BY <3>1, <1>2, <1>6, ElementOfSeq DEF TopGoesOn
      <3> QED
        BY <3>1, <3>2, <1>2, <1>6 DEF TopGoesOn, FrameType
    <2> QED
      BY <2>1, <1>3, <1>13, RenameAt, GivenKept
  <1>14. ASSUME NEW n \in names, NEW q \in 1 .. Len(more[n])
         PROVE  GivenBy(n, more[n][q], m)'
    <2>1. <<n, more[n][q], Current.id>> \in definitions'
      BY <1>1 DEF StacksGrow
    <2>2. RenamedAt(Top.block, Top.next) /\ Rewrites
      BY RenameAt
    <2>3. PICK b, i : b = Top.block /\ i = Top.next
      OBVIOUS
    <2>4. Shape(code[b][i], b) /\ Current = code[b][i]
      BY <2>2, <2>3 DEF UsesInv, Shaped, RenamedAt, Current
    <2>5. Current.id[1] = b
      BY <2>4 DEF Shape
    <2>6. i \in DOMAIN code'[b] /\ code'[b][i].id = Current.id /\ i \in Nat
      BY <2>2, <2>3, <2>4 DEF RenamedAt, Rewrites, SameInstruction
    <2>7. frames'[m].block = b /\ frames'[m].next = i + 1 /\ m \in 1 .. m
      BY <1>2, <1>6, <2>3 DEF TopGoesOn, Top, Last
    <2> DEFINE d == <<n, more[n][q], Current.id>>
    <2>8. d[1] = n /\ d[2] = more[n][q] /\ d[3] = Current.id
      OBVIOUS
    <2> HIDE DEF d
    <2>9. i < frames'[m].next
      BY <2>6, <2>7
    <2>10. d \in definitions'
      BY <2>1 DEF d
    <2> QED
      BY <2>5, <2>6, <2>7, <2>8, <2>9, <2>10 DEF GivenBy, Defines, CameBefore
  <1>15. ASSUME NEW j \in 0 .. m, NEW n \in names, NEW p \in 1 .. h[j + 1][n]
         PROVE  GivenBy(n, stack[n][p], j)'
    <2>0. j + 1 \in 1 .. m + 1 /\ m + 1 \in 1 .. m + 1
      OBVIOUS
    <2>1. /\ height[j + 1][n] \in Nat /\ height[m + 1][n] \in Nat /\ height[j + 1][n] <= height[m + 1][n]
          /\ Len(stack[n]) = height[m + 1][n] /\ Len(more[n]) \in Nat
      BY <2>0, <1>7, <1>8
    <2>2. h[j + 1][n] = IF j + 1 = m + 1 THEN height[j + 1][n] + Len(more[n]) ELSE height[j + 1][n]
      BY <2>0
    <2> HIDE DEF h
    <2>3. CASE p <= height[j + 1][n]
      <3>1. p \in 1 .. height[j + 1][n] /\ p \in 1 .. Len(stack[n])
        BY <2>1, <2>3
      <3>2. GivenBy(n, stack[n][p], j) /\ stack'[n][p] = stack[n][p]
        BY <3>1, <1>7, <1>8
      <3>3. PICK s : s = stack[n][p]
        OBVIOUS
      <3>4. GivenBy(n, s, j)'
        BY <3>2, <3>3, <1>13
      <3> QED
        BY <3>2, <3>3, <3>4 DEF GivenBy
    <2>4. CASE ~ p <= height[j + 1][n]
      <3>1. j = m /\ p \in Len(stack[n]) + 1 .. Len(stack[n]) + Len(more[n])
        BY <2>1, <2>2, <2>4
      <3>2. PICK q \in 1 .. Len(more[n]) : p = Len(stack[n]) + q
        <4>1. PICK a, c : a = Len(stack[n]) /\ c = Len(more[n])
          OBVIOUS
        <4>2. a \in Nat /\ c \in Nat /\ p \in a + 1 .. a + c
          BY <2>1, <3>1, <4>1
        <4>3. p - a \in 1 .. c /\ p = a + (p - a)
          BY ONLY <4>2
        <4> QED
          BY ONLY <4>1, <4>3
      <3>3. stack'[n][p] = more[n][q]
        BY <3>2, <1>7
      <3>4. PICK s : s = more[n][q]
        OBVIOUS
      <3>5. GivenBy(n, s, j)'
        BY <3>1, <3>4, <1>14
      <3> QED
        BY <3>3, <3>4, <3>5 DEF GivenBy
    <2> QED
      BY <2>3, <2>4
  <1> HIDE DEF h
  <1>16. PICK k : k = h
    OBVIOUS
  <1>18. StackOf(k)'
    <2>1. ASSUME NEW j \in 0 .. m, NEW n \in names', NEW p \in 1 .. k[j + 1][n]
          PROVE  GivenBy(n, stack[n][p], j)'
      BY <2>1, <1>3, <1>15, <1>16
    <2>2. k \in [1 .. m + 1 -> [names' -> Nat \ {0}]]
      BY <1>3, <1>9, <1>16
    <2>3. \A j \in 1 .. m + 1, n \in names' : \A i \in 1 .. j : k[i][n] <= k[j][n]
      BY <1>3, <1>10, <1>16
    <2>4. \A j \in 1 .. m, n \in names' : k[j + 1][n] = k[j][n] + frames'[j].pushed[n]
      BY <1>3, <1>12, <1>16
    <2>5. \A n \in names' : Len(stack'[n]) = k[m + 1][n]
      BY <1>3, <1>11, <1>16
    <2> QED
      BY <2>1, <2>2, <2>3, <2>4, <2>5, <1>6 DEF StackOf
  <1>17. stack' \in [names' -> Seq(T \cup Nat)]
    BY <1>1, <1>3, <1>7 DEF StacksGrow
  <1> QED
    BY <1>17, <1>18 DEF StackOK

-----------------------------------------------------------------------------
(* It fills in arguments, in the successors of its block.                  *)

\* Where neither the stacks change nor what was pushed.
LEMMA StackKept ==
  ASSUME CodeOK, StackOK, stage = "rename", Rewrites, definitions \subseteq definitions', TopGoesOn,
         \A j \in 1 .. Len(frames) : frames'[j].pushed = frames[j].pushed, UNCHANGED <<stack, names>>
  PROVE  StackOK'
PROOF
  <1>1. PICK T : stack \in [names -> Seq(T)]
    BY DEF StackOK
  <1>2. PICK height : StackOf(height)
    BY DEF StackOK
  <1>3. PICK m \in Nat \ {0} : m = Len(frames) /\ m = Len(frames')
    BY FrontElements DEF TopGoesOn
  <1>4. ASSUME NEW j \in 0 .. m, NEW n \in names, NEW s, GivenBy(n, s, j)
        PROVE  GivenBy(n, s, j)'
    <2>1. ASSUME NEW i \in 1 .. j
          PROVE  /\ frames'[i].block = frames[i].block /\ frames[i].block \in Blocks
                 /\ frames[i].next \in Nat /\ frames'[i].next \in Nat /\ frames[i].next <= frames'[i].next
      <3>1. i \in 1 .. m
        OBVIOUS
      <3>2. frames[i] \in FrameType /\ frames'[i] \in FrameType
        BY <3>1, <1>3, ElementOfSeq DEF TopGoesOn
      <3> QED
        BY <3>1, <3>2, <1>3 DEF TopGoesOn, FrameType
    <2> QED
      BY <2>1, <1>4, GivenKept
  <1>5. StackOf(height)'
    <2>1. \A j \in 1 .. m : frames'[j].pushed = frames[j].pushed
      BY <1>3
    <2>2. ASSUME NEW j \in 0 .. m, NEW n \in names, NEW p \in 1 .. height[j + 1][n]
          PROVE  GivenBy(n, stack[n][p], j)'
      <3>1. PICK s : s = stack[n][p]
        OBVIOUS
      <3>2. GivenBy(n, s, j)
        BY <3>1, <1>2, <1>3 DEF StackOf
      <3>3. GivenBy(n, s, j)'
        BY <3>2, <1>4
      <3> QED
        BY <3>1, <3>3 DEF GivenBy
    <2>3. height \in [1 .. m + 1 -> [names' -> Nat \ {0}]]
      BY <1>2, <1>3 DEF StackOf
    <2>4. \A j \in 1 .. m + 1, n \in names' : \A i \in 1 .. j : height[i][n] <= height[j][n]
      BY <1>2, <1>3 DEF StackOf
    <2>5. \A j \in 1 .. m, n \in names' : height[j + 1][n] = height[j][n] + frames'[j].pushed[n]
      BY <1>2, <1>3, <2>1 DEF StackOf
    <2>6. \A n \in names' : Len(stack'[n]) = height[m + 1][n]
      BY <1>2, <1>3 DEF StackOf
    <2>7. ASSUME NEW j \in 0 .. m, NEW n \in names', NEW p \in 1 .. height[j + 1][n]
          PROVE  GivenBy(n, stack[n][p], j)'
      BY <2>2, <2>7
    <2> QED
      BY <2>3, <2>4, <2>5, <2>6, <2>7, <1>3 DEF StackOf
  <1> QED
    BY <1>1, <1>5 DEF StackOK

\* Changing nothing is a way of rewriting.
LEMMA SameCodeRewrites == UNCHANGED <<program, code>> => Rewrites
PROOF
  BY DEF Rewrites, SameInstruction

\* What filling in arguments does to the code and the calls.
FilledBy(b) ==
  /\ b = Top.block /\ b \in Blocks
  /\ \A c \in Blocks : /\ DOMAIN code'[c] = DOMAIN code[c]
                       /\ \A k \in DOMAIN code[c] : WellFormed(code[c][k]) /\ Shape(code[c][k], c)
                       /\ \A k \in DOMAIN code[c] :
                            \/ code'[c][k] = code[c][k]
                            \/ /\ IsPhi(code[c][k]) /\ code[c][k].defs[1].name \in names
                               /\ code'[c][k] = WithArgument(code[c][k], b)

\* Phi functions in the successors of the block of the last call get an argument.
LEMMA FillAt ==
  ASSUME UsesInv, FillArguments
  PROVE  FilledBy(Top.block) /\ Rewrites
PROOF
  <1> DEFINE b == Top.block
  <1>1. Top \in FrameType /\ frames \in Seq(FrameType) /\ stage = "rename"
    BY TopOfStack DEF UsesInv, IInv, CountOK, FillArguments, Top
  <1>2. PICK S : (\A z \in S : WellFormed(z)) /\ \A c \in Blocks : code[c] \in Seq(S)
    BY DEF UsesInv, IInv, CodeOK
  <1>3. b \in Blocks
    BY <1>1 DEF FrameType
  <1>4. /\ code' = [s \in Blocks |->
                     IF s \notin Succs(program, b) THEN code[s]
                     ELSE [k \in DOMAIN code[s] |->
                             IF k \in ToFill(s) THEN WithArgument(code[s][k], b) ELSE code[s][k]]]
        /\ program' = program
    BY DEF FillArguments
  <1> HIDE DEF b
  <1>5. ASSUME NEW c \in Blocks
        PROVE  /\ DOMAIN code'[c] = DOMAIN code[c]
               /\ \A k \in DOMAIN code[c] : WellFormed(code[c][k]) /\ Shape(code[c][k], c)
               /\ \A k \in DOMAIN code[c] :
                    code'[c][k] = code[c][k] \/ (k \in ToFill(c) /\ code'[c][k] = WithArgument(code[c][k], b))
    <2>1. code[c] \in Seq(S)
      BY <1>2
    <2>2. DOMAIN code[c] = 1 .. Len(code[c])
      BY <2>1
    <2>3. \A k \in DOMAIN code[c] : WellFormed(code[c][k])
      BY <2>1, <2>2, <1>2, ElementOfSeq
    <2>4. \A k \in DOMAIN code[c] : Shape(code[c][k], c)
      BY DEF UsesInv, Shaped
    <2> QED
      BY <1>4, <2>3, <2>4
  <1>6. ASSUME NEW c \in Blocks, NEW k \in ToFill(c)
        PROVE  IsPhi(code[c][k]) /\ code[c][k].defs[1].name \in names
    <2>1. PICK s : s = code[c] /\ s \in Seq(S)
      BY <1>2
    <2>2. k \in 1 .. LeadingPhis(s) /\ s[k].defs[1].name \in NamesOf(pass)
      BY <2>1 DEF ToFill
    <2>3. k \in DOMAIN s /\ IsPhi(s[k])
      BY <2>1, <2>2, LeadingPhisArePhis
    <2>4. PhiNamed(s[k].defs[1].name, c)
      BY <2>1, <2>3 DEF UsesInv, PhisNamed
    <2> QED
      BY <1>1, <2>1, <2>2, <2>3, <2>4 DEF PhiNamed
  <1>7. FilledBy(b)
    BY <1>3, <1>5, <1>6 DEF FilledBy, b
  <1>8. ASSUME NEW c \in Blocks, NEW k \in DOMAIN code[c]
        PROVE  SameInstruction(code'[c][k], code[c][k])
    <2>1. PICK x, y : x = code[c][k] /\ y = code'[c][k]
      OBVIOUS
    <2>2. /\ WellFormed(x) /\ Shape(x, c)
          /\ y = x \/ (IsPhi(x) /\ y = WithArgument(x, b))
      BY <1>7, <2>1 DEF FilledBy
    <2>3. y = x => SameInstruction(y, x)
      BY DEF SameInstruction
    <2> QED
      BY <2>1, <2>2, <2>3, FilledParts
  <1> QED
    BY <1>4, <1>5, <1>7, <1>8 DEF Rewrites, b

\* An argument changes nothing else of a phi function.
LEMMA FillKeepsShape == UsesInv /\ FillArguments => Shaped'
PROOF
  <1> SUFFICES ASSUME UsesInv, FillArguments PROVE Shaped'
    OBVIOUS
  <1>1. PICK b : FilledBy(b)
    BY FillAt
  <1>2. Blocks' = Blocks
    BY DEF FillArguments, Blocks
  <1>3. ASSUME NEW c \in Blocks, NEW k \in DOMAIN code'[c], NEW y, y = code'[c][k]
        PROVE  Shape(y, c)
    <2>1. PICK x : x = code[c][k]
      OBVIOUS
    <2>2. WellFormed(x) /\ Shape(x, c) /\ (y = x \/ (IsPhi(x) /\ y = WithArgument(x, b)))
      BY <1>1, <1>3, <2>1 DEF FilledBy
    <2> QED
      BY <2>2, FilledParts
  <1>4. ASSUME NEW c \in Blocks, NEW k \in DOMAIN code'[c]
        PROVE  Shape(code[c][k], c)'
    <2>1. PICK y : y = code'[c][k]
      OBVIOUS
    <2>2. Shape(y, c)
      BY <1>3, <1>4, <2>1
    <2> QED
      BY ONLY <2>1, <2>2 DEF Shape, IsPhi, Versioned
  <1> QED
    BY <1>2, <1>4 DEF Shaped

\* The version that is filled in reaches the end of the block of the call.
LEMMA FillKeepsUses == UsesInv /\ FillArguments => (UsesOK /\ ArgsOK)'
PROOF
  <1> SUFFICES ASSUME UsesInv, FillArguments PROVE (UsesOK /\ ArgsOK)'
    OBVIOUS
  <1>1. PICK b : FilledBy(b) /\ Rewrites /\ b = Top.block
    BY FillAt
  <1>2. /\ Blocks' = Blocks /\ definitions \subseteq definitions' /\ stage = "rename" /\ frames # <<>>
        /\ program' = program
    BY DEF FillArguments, Blocks
  <1>3. ASSUME NEW c \in Blocks, NEW k \in DOMAIN code[c], NEW x, NEW y, x = code[c][k], y = code'[c][k]
        PROVE  /\ SameInstruction(y, x) /\ Shape(y, c) /\ y.uses = x.uses
               /\ x.args # <<>> => y.defs[1].name = x.defs[1].name
               /\ y.args = x.args \/
                  (/\ IsPhi(x) /\ x.defs[1].name \in names /\ y.defs[1].name = x.defs[1].name
                   /\ \A a \in ToSet(y.args) :
                        a \in ToSet(x.args) \/ a = [sub |-> Version(x.defs[1].name), source |-> b])
    <2>1. /\ WellFormed(x) /\ Shape(x, c)
          /\ y = x \/ (IsPhi(x) /\ x.defs[1].name \in names /\ y = WithArgument(x, b))
      BY <1>1, <1>3 DEF FilledBy
    <2>2. CASE y = x
      BY <2>1, <2>2 DEF SameInstruction
    <2>3. CASE IsPhi(x) /\ x.defs[1].name \in names /\ y = WithArgument(x, b)
      <3>1. /\ SameInstruction(y, x) /\ Shape(y, c) /\ y.uses = x.uses
            /\ \A a \in ToSet(y.args) : a \in ToSet(x.args) \/ a = [sub |-> Version(x.defs[1].name), source |-> b]
        BY <2>1, <2>3, FilledParts
      <3>2. y.defs[1].name = x.defs[1].name
        BY <2>1, <2>3, <3>1 DEF Shape, SameInstruction
      <3> QED
        BY <2>3, <3>1, <3>2
    <2> QED
      BY <2>1, <2>2, <2>3
  <1>4. ASSUME NEW c \in Blocks, NEW k \in DOMAIN code[c], code'[c][k].idiom = 0,
               NEW v \in ToSet(code'[c][k].uses), v.sub # NO_SUBSCRIPT
        PROVE  UseOK(v.name, v.sub, c, k)'
    <2>1. PICK m, s : m = v.name /\ s = v.sub
      OBVIOUS
    <2>2. code[c][k].idiom = 0 /\ v \in ToSet(code[c][k].uses)
      BY <1>3, <1>4 DEF SameInstruction
    <2>3. UseOK(m, s, c, k)
      BY <2>1, <2>2, <1>4 DEF UsesInv, UsesOK
    <2>4. UseOK(m, s, c, k)'
      BY <2>3, <1>1, <1>2, RewritesKeepUse
    <2> QED
      BY <2>1, <2>4
  <1>5. UsesOK'
    BY <1>1, <1>2, <1>4 DEF UsesOK, Rewrites
  <1>6. ASSUME NEW c \in Blocks, NEW k \in DOMAIN code[c], NEW a \in ToSet(code'[c][k].args), a.sub # NO_SUBSCRIPT
        PROVE  DefinedIn(code[c][k].defs[1].name, a.sub, a.source)'
    <2>1. PICK x, y : x = code[c][k] /\ y = code'[c][k]
      OBVIOUS
    <2>2. PICK m, s, e : m = y.defs[1].name /\ s = a.sub /\ e = a.source
      OBVIOUS
    <2>3. CASE a \in ToSet(x.args)
      <3>1. x.args # <<>>
        BY <2>3 DEF ToSet
      <3>2. m = x.defs[1].name
        BY <3>1, <2>1, <2>2, <1>3
      <3> QED
        BY <2>1, <2>2, <2>3, <3>2, <1>6 , <1>2, MoreDefinedIn DEF UsesInv, ArgsOK
    <2>4. CASE a \notin ToSet(x.args)
      <3>1. /\ x.defs[1].name \in names /\ m = x.defs[1].name
            /\ a = [sub |-> Version(x.defs[1].name), source |-> b]
        BY <2>1, <2>2, <2>4, <1>3, <1>6
      <3>2. m \in names /\ s = Version(m) /\ e = b
        BY <3>1, <2>2
      <3>3. GivenBy(m, s, Len(frames))
        BY <3>2, <1>2, VersionGiven
      <3>4. DefinedIn(m, s, e)
        BY <3>2, <3>3, <1>1, <1>2, GivenDominates
      <3>5. DefinedIn(m, s, e)'
        BY <3>4, <1>2, MoreDefinedIn
      <3> QED
        BY <3>5, <2>1, <2>2
    <2> QED
      BY <2>3, <2>4
  <1>7. ArgsOK'
    BY <1>1, <1>2, <1>6 DEF ArgsOK, Rewrites
  <1> QED
    BY <1>5, <1>7

\* A call whose topmost changes but for its block, its place and what it pushed.
LEMMA TopStays ==
  ASSUME frames \in Seq(FrameType), frames # <<>>, NEW f \in FrameType, f.block = Top.block, f.next = Top.next,
         f.pushed = Top.pushed, f.children \subseteq Top.children, frames' = WithTop(f), UNCHANGED <<program, names>>
  PROVE  TopGoesOn /\ \A j \in 1 .. Len(frames) : frames'[j].pushed = frames[j].pushed
PROOF
  <1>1. frames' \in Seq(FrameType) /\ FrameType' = FrameType
    BY TopReplaced DEF FrameType, Blocks
  <1>2. /\ Len(frames') = Len(frames) /\ frames'[Len(frames)] = f /\ Top = frames[Len(frames)]
        /\ \A j \in 1 .. Len(frames) - 1 : frames'[j] = frames[j]
    BY TopElements
  <1>3. PICK m \in Nat \ {0} : m = Len(frames)
    BY FrontElements
  <1>4. ASSUME NEW j \in 1 .. m
        PROVE  /\ frames'[j].block = frames[j].block /\ frames[j].next <= frames'[j].next
               /\ frames'[j].children \subseteq frames[j].children /\ frames'[j].pushed = frames[j].pushed
    <2>1. frames[j] \in FrameType
      BY <1>3, ElementOfSeq
    <2>2. frames[j].next \in Nat
      BY <2>1 DEF FrameType
    <2>3. CASE j = m
      BY <2>2, <2>3, <1>2, <1>3
    <2>4. CASE j # m
      <3>1. j \in 1 .. m - 1
        BY <2>4
      <3> QED
        BY <3>1, <2>2, <1>2, <1>3
    <2> QED
      BY <2>3, <2>4
  <1> QED
    BY <1>1, <1>2, <1>3, <1>4 DEF TopGoesOn

\* Filling in touches no stack.
LEMMA FillKeepsPathAndStack == UsesInv /\ FillArguments => (InPath /\ StackOK)'
PROOF
  <1> SUFFICES ASSUME UsesInv, FillArguments PROVE (InPath /\ StackOK)'
    OBVIOUS
  <1> DEFINE f == [Top EXCEPT !.filled = TRUE]
  <1>1. /\ stage = "rename" /\ frames # <<>> /\ frames' = WithTop(f) /\ frames \in Seq(FrameType)
        /\ UNCHANGED <<program, names, stack, definitions>> /\ CodeOK
    BY DEF FillArguments, UsesInv, IInv, CountOK
  <1>2. Top \in FrameType
    BY <1>1, TopElements
  <1>3. /\ f \in FrameType /\ f.block = Top.block /\ f.next = Top.next /\ f.pushed = Top.pushed
        /\ f.children = Top.children
    BY <1>2 DEF FrameType
  <1> HIDE DEF f
  <1>4. TopGoesOn /\ \A j \in 1 .. Len(frames) : frames'[j].pushed = frames[j].pushed
    BY <1>1, <1>3, TopStays
  <1>5. Rewrites
    BY FillAt
  <1>6. InPath'
    BY <1>1, <1>4, GoesOnKeepsPath DEF UsesInv
  <1>7. StackOK'
    BY <1>1, <1>4, <1>5, StackKept DEF UsesInv
  <1> QED
    BY <1>6, <1>7

-----------------------------------------------------------------------------
(* It calls itself for a child, starts and returns.                        *)

\* What a call for a child does to the calls.
LEMMA ChildCalled ==
  ASSUME UsesInv, RenameChild
  PROVE  \E c \in Top.children, m \in Nat \ {0} :
           /\ m = Len(frames) /\ Len(frames') = m + 1 /\ frames' \in Seq(FrameType) /\ frames \in Seq(FrameType)
           /\ frames'[m + 1] = Frame(c)
           /\ \A j \in 1 .. m : /\ frames'[j].block = frames[j].block /\ frames'[j].next = frames[j].next
                                /\ frames'[j].pushed = frames[j].pushed /\ frames'[j].children \subseteq frames[j].children
                                /\ frames'[j].filled = frames[j].filled
PROOF
  <1> DEFINE c == Least(Top.children)
             f == [Top EXCEPT !.children = @ \ {c}]
  <1>1. stage = "rename" /\ frames # <<>> /\ frames \in Seq(FrameType) /\ CodeOK
    BY DEF RenameChild, UsesInv, IInv, CountOK
  <1>2. Top \in FrameType /\ Top = frames[Len(frames)] /\ Len(frames) \in Nat \ {0}
    BY <1>1, FrontElements DEF Top
  <1>3. c \in Top.children /\ c \in Blocks
    <2>1. Top.children \subseteq Blocks /\ Top.children # {} /\ Blocks \subseteq Nat
      BY <1>2 DEF FrameType, RenameChild, Blocks, Vertices
    <2> QED
      BY <2>1, LeastIsMember
  <1>4. /\ f \in FrameType /\ f.block = Top.block /\ f.next = Top.next /\ f.pushed = Top.pushed
        /\ f.children \subseteq Top.children /\ f.filled = Top.filled
    BY <1>2 DEF FrameType
  <1>5. frames' = Append(WithTop(f), Frame(c))
    BY DEF RenameChild
  <1> HIDE DEF c, f
  <1>6. Frame(c) \in FrameType
    BY <1>1, <1>3, NewFrame
  <1>7. WithTop(f) \in Seq(FrameType)
    BY <1>1, <1>4, TopReplaced
  <1>8. /\ Len(WithTop(f)) = Len(frames) /\ WithTop(f)[Len(frames)] = f
        /\ \A j \in 1 .. Len(frames) - 1 : WithTop(f)[j] = frames[j]
    BY <1>1, <1>4, TopElements
  <1>9. PICK r : r = WithTop(f)
    OBVIOUS
  <1>10. PICK m \in Nat \ {0} : m = Len(frames)
    BY <1>2
  <1>11. r \in Seq(FrameType) /\ Len(r) = m /\ r[m] = f /\ \A j \in 1 .. m - 1 : r[j] = frames[j]
    BY <1>7, <1>8, <1>9, <1>10
  <1>12. PICK e \in FrameType : e = Frame(c)
    BY <1>6
  <1>13. /\ Append(r, e) \in Seq(FrameType) /\ Len(Append(r, e)) = m + 1 /\ Append(r, e)[m + 1] = e
         /\ \A j \in 1 .. m : Append(r, e)[j] = r[j]
    BY <1>11, AppendProperties
  <1>14. ASSUME NEW j \in 1 .. m
         PROVE  /\ frames'[j].block = frames[j].block /\ frames'[j].next = frames[j].next
                /\ frames'[j].pushed = frames[j].pushed /\ frames'[j].children \subseteq frames[j].children
                /\ frames'[j].filled = frames[j].filled
    <2>1. frames'[j] = r[j]
      BY <1>5, <1>9, <1>12, <1>13
    <2>2. CASE j = m
      BY <2>1, <2>2, <1>2, <1>4, <1>10, <1>11
    <2>3. CASE j # m
      <3>1. j \in 1 .. m - 1
        BY <2>3
      <3> QED
        BY <3>1, <2>1, <1>11
    <2> QED
      BY <2>2, <2>3
  <1> QED
    BY <1>1, <1>3, <1>5, <1>9, <1>10, <1>12, <1>13, <1>14

\* A child is immediately dominated by the block of the call, so none of
\* the calls is about it.
LEMMA ChildKeepsPath == UsesInv /\ RenameChild => InPath'
PROOF
  <1> SUFFICES ASSUME UsesInv, RenameChild PROVE InPath'
    OBVIOUS
  <1>1. PICK c \in Top.children, m \in Nat \ {0} :
           /\ m = Len(frames) /\ Len(frames') = m + 1 /\ frames' \in Seq(FrameType) /\ frames \in Seq(FrameType)
           /\ frames'[m + 1] = Frame(c)
           /\ \A j \in 1 .. m : /\ frames'[j].block = frames[j].block /\ frames'[j].next = frames[j].next
                                /\ frames'[j].pushed = frames[j].pushed /\ frames'[j].children \subseteq frames[j].children
    BY ChildCalled
  <1>2. program' = program /\ stage = "rename" /\ IsGraph(program)
    BY ProgramsAssumption DEF RenameChild, UsesInv, IInv, CodeOK
  <1>3. PICK t : t = Top.block
    OBVIOUS
  <1>4. \A j \in 1 .. m :
          /\ frames[j].children \subseteq ImmediatelyDominated(program, frames[j].block)
          /\ \A i \in 1 .. j - 1 :
               frames[i].block # frames[j].block /\ Dominates(program, frames[i].block, frames[j].block)
    <2>1. DOMAIN frames = 1 .. m
      BY <1>1
    <2> QED
      BY <2>1, <1>2 DEF UsesInv, InPath
  <1>5. t = frames[m].block /\ c \in ImmediatelyDominated(program, t)
    BY <1>1, <1>3, <1>4 DEF Top, Last
  <1>6. c \in Reached(program) /\ Dominates(program, t, c) /\ t # c
    BY <1>5 DEF ImmediatelyDominated, StrictDominators
  <1>7. ASSUME NEW i \in 1 .. m
        PROVE  frames[i].block # c /\ Dominates(program, frames[i].block, c)
    <2>1. PICK b : b = frames[i].block
      OBVIOUS
    <2>2. Dominates(program, b, t)
      <3>1. CASE i = m
        BY <3>1, <2>1, <1>5 DEF Dominates
      <3>2. CASE i # m
        <4>1. i \in 1 .. m - 1 /\ m \in 1 .. m
          BY <3>2
        <4> QED
          BY <4>1, <2>1, <1>4, <1>5
      <3> QED
        BY <3>1, <3>2
    <2>3. Dominates(program, b, c)
      BY <2>2, <1>2, <1>6, DominatesTransitive
    <2>4. b # c
      BY <2>2, <1>2, <1>6, DominatesAntisymmetric
    <2> QED
      BY <2>1, <2>3, <2>4
  <1>8. Frame(c).block = c /\ Frame(c).children = ImmediatelyDominated(program, c)
    BY DEF Frame
  <1>9. ASSUME NEW j \in 1 .. m + 1
        PROVE  /\ frames'[j].children \subseteq ImmediatelyDominated(program, frames'[j].block)
               /\ \A i \in 1 .. j - 1 :
                    frames'[i].block # frames'[j].block /\ Dominates(program, frames'[i].block, frames'[j].block)
    <2>1. CASE j = m + 1
      <3>1. \A i \in 1 .. j - 1 : frames'[i].block = frames[i].block /\ i \in 1 .. m
        BY <1>1, <2>1
      <3> QED
        BY <3>1, <2>1, <1>1, <1>7, <1>8
    <2>2. CASE j # m + 1
      <3>1. j \in 1 .. m /\ \A i \in 1 .. j - 1 : i \in 1 .. m
        BY <2>2
      <3> QED
        BY <3>1, <1>1, <1>4
    <2> QED
      BY <2>1, <2>2
  <1>10. DOMAIN frames' = 1 .. m + 1
    BY <1>1
  <1> QED
    BY <1>2, <1>9, <1>10 DEF InPath

\* Nothing of the code changes: what a call has defined.
LEMMA GivenStays ==
  ASSUME UsesInv, UNCHANGED <<program, code, definitions>>, frames \in Seq(FrameType), frames' \in Seq(FrameType),
         NEW j \in Nat, j <= Len(frames), j <= Len(frames'),
         \A i \in 1 .. j : frames'[i].block = frames[i].block /\ frames'[i].next = frames[i].next,
         NEW n, NEW s, GivenBy(n, s, j)
  PROVE  GivenBy(n, s, j)'
PROOF
  <1>1. ASSUME NEW i \in 1 .. j
        PROVE  /\ frames'[i].block = frames[i].block /\ frames[i].block \in Blocks
               /\ frames[i].next \in Nat /\ frames'[i].next \in Nat /\ frames[i].next <= frames'[i].next
    <2>1. PICK m \in Nat : m = Len(frames) /\ j <= m
      OBVIOUS
    <2>2. frames[i] \in FrameType
      BY <2>1, ElementOfSeq
    <2> QED
      BY <2>2 DEF FrameType
  <1>2. Rewrites /\ CodeOK
    BY SameCodeRewrites DEF UsesInv, IInv
  <1> QED
    BY <1>1, <1>2, GivenKept

\* A new call has pushed nothing.
LEMMA ChildKeepsStack == UsesInv /\ RenameChild => StackOK'
PROOF
  <1> SUFFICES ASSUME UsesInv, RenameChild PROVE StackOK'
    OBVIOUS
  <1>1. PICK c \in Top.children, m \in Nat \ {0} :
           /\ m = Len(frames) /\ Len(frames') = m + 1 /\ frames' \in Seq(FrameType) /\ frames \in Seq(FrameType)
           /\ frames'[m + 1] = Frame(c)
           /\ \A j \in 1 .. m : /\ frames'[j].block = frames[j].block /\ frames'[j].next = frames[j].next
                                /\ frames'[j].pushed = frames[j].pushed /\ frames'[j].children \subseteq frames[j].children
    BY ChildCalled
  <1>2. stage = "rename" /\ UNCHANGED <<program, code, names, stack, definitions>>
    BY DEF RenameChild
  <1>3. PICK T : stack \in [names -> Seq(T)]
    BY <1>2 DEF UsesInv, StackOK
  <1>4. PICK height : StackOf(height)
    BY <1>2 DEF UsesInv, StackOK
  <1>5. /\ height \in [1 .. m + 1 -> [names -> Nat \ {0}]]
        /\ \A j \in 1 .. m + 1, n \in names : \A i \in 1 .. j : height[i][n] <= height[j][n]
        /\ \A j \in 1 .. m, n \in names : height[j + 1][n] = height[j][n] + frames[j].pushed[n]
        /\ \A n \in names : Len(stack[n]) = height[m + 1][n]
        /\ \A j \in 0 .. m, n \in names : \A p \in 1 .. height[j + 1][n] : GivenBy(n, stack[n][p], j)
    BY <1>1, <1>4 DEF StackOf
  <1>6. PICK h : h = [j \in 1 .. m + 2 |-> IF j = m + 2 THEN height[m + 1] ELSE height[j]]
    OBVIOUS
  <1>7. \A j \in 1 .. m + 2 : h[j] = IF j = m + 2 THEN height[m + 1] ELSE height[j]
    BY <1>6
  <1>8. h \in [1 .. m + 1 + 1 -> [names -> Nat \ {0}]]
    BY <1>5, <1>6
  <1>9. ASSUME NEW j \in 1 .. m + 1 + 1, NEW n \in names, NEW i \in 1 .. j
        PROVE  h[i][n] <= h[j][n]
    <2>1. PICK j0 \in 1 .. m + 1 : j0 = IF j = m + 2 THEN m + 1 ELSE j
      OBVIOUS
    <2>2. PICK i0 \in 1 .. j0 : i0 = IF i = m + 2 THEN m + 1 ELSE i
      BY <2>1
    <2>3. height[i0][n] <= height[j0][n]
      BY <1>5
    <2>4. h[i] = height[i0] /\ h[j] = height[j0]
      BY <1>7, <2>1, <2>2
    <2> QED
      BY <2>3, <2>4
  <1>10. ASSUME NEW j \in 1 .. m + 1, NEW n \in names
         PROVE  h[j + 1][n] = h[j][n] + frames'[j].pushed[n]
    <2>1. CASE j = m + 1
      <3>1. frames'[j].pushed[n] = 0
        BY <2>1, <1>1 DEF Frame
      <3>2. h[j + 1] = height[m + 1] /\ h[j] = height[m + 1] /\ height[m + 1][n] \in Nat
        BY <2>1, <1>5, <1>7
      <3> QED
        BY <3>1, <3>2
    <2>2. CASE j # m + 1
      <3>1. j \in 1 .. m
        BY <2>2
      <3>2. h[j + 1] = height[j + 1] /\ h[j] = height[j]
        BY <3>1, <1>7
      <3> QED
        BY <3>1, <3>2, <1>1, <1>5
    <2> QED
      BY <2>1, <2>2
  <1>11. ASSUME NEW n \in names
         PROVE  Len(stack[n]) = h[m + 1 + 1][n]
    BY <1>5, <1>7
  <1>12. ASSUME NEW j \in 0 .. m + 1, NEW n \in names, NEW p \in 1 .. h[j + 1][n], NEW s, s = stack[n][p]
         PROVE  GivenBy(n, s, j)'
    <2>1. PICK j0 \in 0 .. m : j0 = IF j = m + 1 THEN m ELSE j
      OBVIOUS
    <2>2. h[j + 1] = height[j0 + 1]
      BY <1>7, <2>1
    <2>3. GivenBy(n, s, j0)
      BY <2>2, <1>5, <1>12
    <2>4. j0 \in Nat /\ j0 <= Len(frames) /\ j0 <= Len(frames') /\ \A i \in 1 .. j0 : i \in 1 .. m
      BY <1>1
    <2>5. GivenBy(n, s, j0)'
      BY <2>3, <2>4, <1>1, <1>2, GivenStays
    <2>6. 1 .. j0 \subseteq 1 .. j
      BY <2>1
    <2> QED
      BY <2>5, <2>6 DEF GivenBy
  <1>13. StackOf(h)'
    <2>1. ASSUME NEW j \in 0 .. m + 1, NEW n \in names', NEW p \in 1 .. h[j + 1][n]
          PROVE  GivenBy(n, stack[n][p], j)'
      <3>1. PICK s : s = stack[n][p]
        OBVIOUS
      <3>2. GivenBy(n, s, j)'
        BY <3>1, <1>2, <1>12, <2>1
      <3>3. s = stack'[n][p]
        BY <3>1, <1>2
      <3> QED
        BY <3>2, <3>3 DEF GivenBy
    <2> QED
      BY <2>1, <1>1, <1>2, <1>8, <1>9, <1>10, <1>11 DEF StackOf
  <1> QED
    BY <1>2, <1>3, <1>13 DEF StackOK

\* What a return does to the calls.
LEMMA CallReturned ==
  ASSUME UsesInv, ReturnFromBlock
  PROVE  \E m \in Nat \ {0} :
           /\ m = Len(frames) /\ Len(frames') = m - 1 /\ frames' \in Seq(FrameType) /\ frames \in Seq(FrameType)
           /\ Top = frames[m] /\ Top \in FrameType
           /\ \A j \in 1 .. m - 1 : frames'[j] = frames[j]
PROOF
  <1>1. frames # <<>> /\ frames \in Seq(FrameType) /\ frames' = Front(frames)
    BY DEF ReturnFromBlock, UsesInv, IInv, CountOK
  <1> QED
    BY <1>1, FrontElements DEF Top

\* The calls that are left were on a path before.
LEMMA ReturnKeepsPath == UsesInv /\ ReturnFromBlock => InPath'
PROOF
  <1> SUFFICES ASSUME UsesInv, ReturnFromBlock PROVE InPath'
    OBVIOUS
  <1>1. PICK m \in Nat \ {0} :
           /\ m = Len(frames) /\ Len(frames') = m - 1 /\ frames' \in Seq(FrameType) /\ frames \in Seq(FrameType)
           /\ Top = frames[m] /\ Top \in FrameType
           /\ \A j \in 1 .. m - 1 : frames'[j] = frames[j]
    BY CallReturned
  <1>2. program' = program /\ stage = "rename"
    BY DEF ReturnFromBlock
  <1>3. DOMAIN frames = 1 .. m /\ DOMAIN frames' = 1 .. m - 1
    BY <1>1
  <1>4. \A j \in 1 .. m - 1 : j \in 1 .. m /\ \A i \in 1 .. j - 1 : i \in 1 .. m - 1
    OBVIOUS
  <1> QED
    BY <1>1, <1>2, <1>3, <1>4 DEF InPath, UsesInv

\* Returning pops what the call has pushed, down to where the stacks were when it
\* began.
LEMMA ReturnKeepsStack == UsesInv /\ ReturnFromBlock => StackOK'
PROOF
  <1> SUFFICES ASSUME UsesInv, ReturnFromBlock PROVE StackOK'
    OBVIOUS
  <1>1. PICK m \in Nat \ {0} :
           /\ m = Len(frames) /\ Len(frames') = m - 1 /\ frames' \in Seq(FrameType) /\ frames \in Seq(FrameType)
           /\ Top = frames[m] /\ Top \in FrameType
           /\ \A j \in 1 .. m - 1 : frames'[j] = frames[j]
    BY CallReturned
  <1>2. stage = "rename" /\ UNCHANGED <<program, code, names, definitions>>
    BY DEF ReturnFromBlock
  <1>3. PICK T : stack \in [names -> Seq(T)]
    BY <1>2 DEF UsesInv, StackOK
  <1>4. PICK height : StackOf(height)
    BY <1>2 DEF UsesInv, StackOK
  <1>5. /\ height \in [1 .. m + 1 -> [names -> Nat \ {0}]]
        /\ \A j \in 1 .. m + 1, n \in names : \A i \in 1 .. j : height[i][n] <= height[j][n]
        /\ \A j \in 1 .. m, n \in names : height[j + 1][n] = height[j][n] + frames[j].pushed[n]
        /\ \A n \in names : Len(stack[n]) = height[m + 1][n]
        /\ \A j \in 0 .. m, n \in names : \A p \in 1 .. height[j + 1][n] : GivenBy(n, stack[n][p], j)
    BY <1>1, <1>4 DEF StackOf
  <1>6. ASSUME NEW n \in names
        PROVE  /\ stack'[n] \in Seq(T) /\ Len(stack'[n]) = height[m][n]
               /\ \A p \in 1 .. height[m][n] : stack'[n][p] = stack[n][p]
    <2>1. PICK a \in Nat \ {0}, q \in Nat : a = height[m][n] /\ q = Top.pushed[n] /\ Len(stack[n]) = a + q
      <3>1. height[m][n] \in Nat \ {0} /\ height[m + 1][n] = height[m][n] + frames[m].pushed[n]
        BY <1>5
      <3>2. Top.pushed[n] \in Nat
        BY <1>1 DEF FrameType
      <3> QED
        BY <3>1, <3>2, <1>1, <1>5
    <2>2. PICK s : s = stack[n] /\ s \in Seq(T)
      BY <1>3
    <2>3. stack'[n] = SubSeq(s, 1, Len(s) - q)
      BY <2>1, <2>2 DEF ReturnFromBlock, Popped
    <2>4. Len(s) = a + q
      BY <2>1, <2>2
    <2>10. Len(s) - q = a /\ \A p \in 1 .. a : p \in 1 .. Len(s)
      <3>1. a + q - q = a /\ \A p \in 1 .. a : p \in 1 .. a + q
        OBVIOUS
      <3> QED
        BY <3>1, <2>4
    <2>5. \A p \in 1 .. a : s[p] \in T
      BY <2>2, <2>10, ElementOfSeq
    <2>6. a \in Int /\ 1 \in Int
      OBVIOUS
    <2>7. /\ SubSeq(s, 1, a) \in Seq(T) /\ Len(SubSeq(s, 1, a)) = IF 1 <= a THEN a - 1 + 1 ELSE 0
          /\ \A p \in 1 .. a - 1 + 1 : SubSeq(s, 1, a)[p] = s[1 + p - 1]
      BY <2>5, <2>6, SubSeqProperties
    <2>8. PICK r : r = SubSeq(s, 1, a)
      OBVIOUS
    <2>9. r \in Seq(T) /\ Len(r) = a /\ \A p \in 1 .. a : r[p] = s[p]
      BY <2>1, <2>7, <2>8
    <2> QED
      BY <2>1, <2>2, <2>3, <2>10, <2>8, <2>9
  <1>7. PICK h : h = [j \in 1 .. m |-> height[j]]
    OBVIOUS
  <1>8. h \in [1 .. m - 1 + 1 -> [names -> Nat \ {0}]]
    BY <1>5, <1>7
  <1>9. \A j \in 1 .. m - 1 + 1, n \in names : \A i \in 1 .. j : h[i][n] <= h[j][n]
    BY <1>5, <1>7
  <1>10. \A j \in 1 .. m - 1, n \in names : h[j + 1][n] = h[j][n] + frames'[j].pushed[n]
    <2>1. ASSUME NEW j \in 1 .. m - 1, NEW n \in names
          PROVE  h[j + 1][n] = h[j][n] + frames'[j].pushed[n]
      <3>1. j \in 1 .. m /\ j + 1 \in 1 .. m
        OBVIOUS
      <3>2. h[j] = height[j] /\ h[j + 1] = height[j + 1]
        BY <3>1, <1>7
      <3> QED
        BY <3>1, <3>2, <1>1, <1>5
    <2> QED
      BY <2>1
  <1>11. \A n \in names : Len(stack'[n]) = h[m - 1 + 1][n]
    BY <1>6, <1>7
  <1>12. ASSUME NEW j \in 0 .. m - 1, NEW n \in names, NEW p \in 1 .. h[j + 1][n], NEW s, s = stack'[n][p]
         PROVE  GivenBy(n, s, j)'
    <2>1. j + 1 \in 1 .. m /\ m \in 1 .. m + 1
      OBVIOUS
    <2>2. h[j + 1][n] = height[j + 1][n] /\ height[j + 1][n] <= height[m][n]
      BY <2>1, <1>5, <1>7
    <2>3. height[j + 1][n] \in Nat /\ height[m][n] \in Nat
      <3>1. j + 1 \in 1 .. m + 1
        BY <2>1
      <3>2. height[j + 1] \in [names -> Nat \ {0}] /\ height[m] \in [names -> Nat \ {0}]
        BY <2>1, <3>1, <1>5
      <3> QED
        BY <3>2
    <2>4. p \in 1 .. height[m][n]
      BY <2>2, <2>3
    <2>5. GivenBy(n, s, j)
      BY <2>1, <2>2, <2>4, <1>5, <1>6, <1>12
    <2>6. j \in Nat /\ j <= Len(frames) /\ j <= Len(frames') /\ \A i \in 1 .. j : i \in 1 .. m - 1
      BY <1>1
    <2> QED
      BY <2>5, <2>6, <1>1, <1>2, GivenStays
  <1>13. StackOf(h)'
    <2>1. ASSUME NEW j \in 0 .. m - 1, NEW n \in names', NEW p \in 1 .. h[j + 1][n]
          PROVE  GivenBy(n, stack[n][p], j)'
      <3>1. PICK s : s = stack'[n][p]
        OBVIOUS
      <3>2. GivenBy(n, s, j)'
        BY <3>1, <1>2, <1>12, <2>1
      <3> QED
        BY <3>1, <3>2 DEF GivenBy
    <2> QED
      BY <2>1, <1>1, <1>2, <1>8, <1>9, <1>10, <1>11 DEF StackOf
  <1>14. stack' \in [names' -> Seq(T)]
    BY <1>2, <1>6 DEF ReturnFromBlock
  <1> QED
    BY <1>13, <1>14 DEF StackOK

\* The first call: the stacks hold the versions the function is called with.
LEMMA StartKeepsPathAndStack == UsesInv /\ StartRenaming => (InPath /\ StackOK)'
PROOF
  <1> SUFFICES ASSUME UsesInv, StartRenaming PROVE (InPath /\ StackOK)'
    OBVIOUS
  <1>1. /\ stack' = [n \in names |-> <<0>>] /\ frames' = <<Frame(0)>> /\ stage' = "rename"
        /\ program' = program /\ names' = names
    BY DEF StartRenaming
  <1>2. /\ Len(frames') = 1 /\ frames'[1] = Frame(0) /\ DOMAIN frames' = {1}
    BY <1>1
  <1>3. /\ Frame(0).block = 0 /\ Frame(0).children = ImmediatelyDominated(program, 0)
        /\ \A n \in names : Frame(0).pushed[n] = 0
    BY DEF Frame
  <1>4. InPath'
    <2>1. \A j \in DOMAIN frames' : j = 1 /\ 1 .. j - 1 = {}
      BY <1>2
    <2> QED
      BY <2>1, <1>1, <1>2, <1>3 DEF InPath
  <1>5. PICK h : h = [j \in 1 .. 1 + 1 |-> [n \in names |-> 1]]
    OBVIOUS
  <1>6. h \in [1 .. 1 + 1 -> [names -> Nat \ {0}]] /\ \A j \in 1 .. 1 + 1, n \in names : h[j][n] = 1
    BY <1>5
  <1>7. \A n \in names : stack'[n] = <<0>> /\ Len(stack'[n]) = 1 /\ stack'[n][1] = 0
    BY <1>1
  <1>8. StackOf(h)'
    <2>1. h \in [1 .. Len(frames') + 1 -> [names' -> Nat \ {0}]]
      BY <1>1, <1>2, <1>6
    <2>2. \A j \in 1 .. Len(frames') + 1, n \in names' : \A i \in 1 .. j : h[i][n] <= h[j][n]
      <3>1. ASSUME NEW j \in 1 .. 1 + 1, NEW n \in names, NEW i \in 1 .. j
            PROVE  h[i][n] <= h[j][n]
        <4>1. h[i][n] = 1 /\ h[j][n] = 1
          BY <1>6
        <4> QED
          BY <4>1
      <3> QED
        BY <3>1, <1>1, <1>2
    <2>3. \A j \in 1 .. Len(frames'), n \in names' : h[j + 1][n] = h[j][n] + frames'[j].pushed[n]
      BY <1>1, <1>2, <1>3, <1>6
    <2>4. \A n \in names' : Len(stack'[n]) = h[Len(frames') + 1][n]
      BY <1>1, <1>2, <1>6, <1>7
    <2>5. ASSUME NEW j \in 0 .. Len(frames'), NEW n \in names', NEW p \in 1 .. h[j + 1][n]
          PROVE  GivenBy(n, stack[n][p], j)'
      <3>1. p = 1
        BY <2>5, <1>1, <1>2, <1>6
      <3>2. stack'[n][p] = 0
        BY <3>1, <1>1, <1>7
      <3> QED
        BY <3>2 DEF GivenBy
    <2> QED
      BY <2>1, <2>2, <2>3, <2>4, <2>5 DEF StackOf
  <1>9. stack' \in [names' -> Seq({0})]
    BY <1>1
  <1>10. StackOK'
    BY <1>8, <1>9 DEF StackOK
  <1> QED
    BY <1>4, <1>10

-----------------------------------------------------------------------------
(* A phi function is placed.                                               *)

\* The phi function is at k in the list s of elements of S.
InsertedAt(S, s, phi, k) ==
  /\ k <= Len(s) + 1 /\ Len(s) \in Nat /\ k = LeadingPhis(s) + 1
  /\ WithPhi(s, phi) \in Seq(S) /\ Len(WithPhi(s, phi)) = Len(s) + 1
  /\ \A i \in 1 .. Len(s) + 1 :
       WithPhi(s, phi)[i] = IF i < k THEN s[i] ELSE IF i = k THEN phi ELSE s[i - 1]

\* Where the instructions of a block are after a phi function was inserted.
LEMMA InsertElements ==
  ASSUME NEW S, NEW s \in Seq(S), NEW phi \in S
  PROVE  \E k \in Nat \ {0} : InsertedAt(S, s, phi, k)
PROOF
  <1>1. PICK m \in Nat : m = Len(s)
    OBVIOUS
  <1>2. PICK l \in 0 .. m : l = LeadingPhis(s)
    BY <1>1, LeadingPhisInRange
  <1>3. PICK a : a = SubSeq(s, 1, l)
    OBVIOUS
  <1>4. PICK z : z = SubSeq(s, l + 1, m)
    OBVIOUS
  <1>5. \A i \in 1 .. m : s[i] \in S
    BY <1>1, ElementOfSeq
  <1>6. a \in Seq(S) /\ Len(a) = l /\ \A i \in 1 .. l : a[i] = s[i]
    <2>1. \A i \in 1 .. l : s[i] \in S
      BY <1>5
    <2>2. l \in Int /\ 1 \in Int
      OBVIOUS
    <2>3. /\ a \in Seq(S) /\ Len(a) = IF 1 <= l THEN l - 1 + 1 ELSE 0
          /\ \A i \in 1 .. l - 1 + 1 : a[i] = s[1 + i - 1]
      BY <1>3, <2>1, <2>2, SubSeqProperties
    <2> QED
      BY <2>3
  <1>7. z \in Seq(S) /\ Len(z) = m - l /\ \A i \in 1 .. m - l : z[i] = s[l + i]
    <2>1. \A i \in l + 1 .. m : s[i] \in S
      BY <1>5
    <2>2. l + 1 \in Int /\ m \in Int
      OBVIOUS
    <2>3. /\ z \in Seq(S) /\ Len(z) = IF l + 1 <= m THEN m - (l + 1) + 1 ELSE 0
          /\ \A i \in 1 .. m - (l + 1) + 1 : z[i] = s[(l + 1) + i - 1]
      BY <1>4, <2>1, <2>2, SubSeqProperties
    <2> QED
      BY <2>3
  <1>8. PICK e : e = <<phi>>
    OBVIOUS
  <1>9. e \in Seq(S) /\ Len(e) = 1 /\ e[1] = phi
    BY <1>8
  <1>10. PICK r : r = a \o e
    OBVIOUS
  <1>11. r \in Seq(S) /\ Len(r) = l + 1 /\ \A i \in 1 .. l + 1 : r[i] = IF i <= l THEN s[i] ELSE phi
    <2>1. /\ r \in Seq(S) /\ Len(r) = l + 1
          /\ \A i \in 1 .. l + 1 : r[i] = IF i <= l THEN a[i] ELSE e[i - l]
      <3>1. /\ a \o e \in Seq(S) /\ Len(a \o e) = Len(a) + Len(e)
            /\ \A i \in 1 .. Len(a) + Len(e) : (a \o e)[i] = IF i <= Len(a) THEN a[i] ELSE e[i - Len(a)]
        BY ONLY <1>6, <1>9, ConcatProperties
      <3>2. Len(a) = l /\ Len(e) = 1
        BY <1>6, <1>9
      <3> QED
        BY ONLY <3>1, <3>2, <1>10
    <2>2. \A i \in 1 .. l + 1 : IF i <= l THEN a[i] = s[i] ELSE i - l = 1
      BY <1>6
    <2> QED
      BY <2>1, <2>2, <1>9
  <1>12. PICK t : t = r \o z
    OBVIOUS
  <1>13. /\ t \in Seq(S) /\ Len(t) = m + 1
         /\ \A i \in 1 .. m + 1 : t[i] = IF i <= l + 1 THEN r[i] ELSE z[i - (l + 1)]
    <2>1. /\ t \in Seq(S) /\ Len(t) = (l + 1) + (m - l)
          /\ \A i \in 1 .. (l + 1) + (m - l) : t[i] = IF i <= l + 1 THEN r[i] ELSE z[i - (l + 1)]
      <3>1. /\ r \o z \in Seq(S) /\ Len(r \o z) = Len(r) + Len(z)
            /\ \A i \in 1 .. Len(r) + Len(z) : (r \o z)[i] = IF i <= Len(r) THEN r[i] ELSE z[i - Len(r)]
        BY ONLY <1>7, <1>11, ConcatProperties
      <3>2. Len(r) = l + 1 /\ Len(z) = m - l
        BY <1>7, <1>11
      <3> QED
        BY ONLY <3>1, <3>2, <1>12
    <2>2. (l + 1) + (m - l) = m + 1
      OBVIOUS
    <2> QED
      BY <2>1, <2>2
  <1>14. ASSUME NEW i \in 1 .. m + 1
         PROVE  t[i] = IF i < l + 1 THEN s[i] ELSE IF i = l + 1 THEN phi ELSE s[i - 1]
    <2>1. CASE i <= l + 1
      <3>1. i \in 1 .. l + 1 /\ (i < l + 1 <=> i <= l)
        BY <2>1
      <3> QED
        BY <2>1, <3>1, <1>11, <1>13
    <2>2. CASE ~ i <= l + 1
      <3>1. i - (l + 1) \in 1 .. m - l /\ l + (i - (l + 1)) = i - 1 /\ ~ i < l + 1 /\ i # l + 1
        BY <2>2
      <3> QED
        BY <2>2, <3>1, <1>7, <1>13
    <2> QED
      BY <2>1, <2>2
  <1>15. WithPhi(s, phi) = t
    <2>1. PICK w : w = LeadingPhis(s) + 1
      OBVIOUS
    <2>2. w = l + 1 /\ w - 1 = l
      BY <1>2, <2>1
    <2>3. WithPhi(s, phi) = InsertAt(s, w, phi)
      BY <2>1 DEF WithPhi
    <2>4. InsertAt(s, w, phi) = SubSeq(s, 1, w - 1) \o <<phi>> \o SubSeq(s, w, Len(s))
      BY DEF InsertAt
    <2>5. WithPhi(s, phi) = SubSeq(s, 1, l) \o <<phi>> \o SubSeq(s, l + 1, m)
      BY ONLY <2>2, <2>3, <2>4, <1>1
    <2> QED
      BY ONLY <2>5, <1>3, <1>4, <1>8, <1>10, <1>12
  <1>16. l + 1 \in Nat \ {0} /\ l + 1 <= m + 1
    OBVIOUS
  <1>17. l + 1 = LeadingPhis(s) + 1
    BY <1>2
  <1>18. InsertedAt(S, s, phi, l + 1)
    BY <1>1, <1>17, <1>13, <1>14, <1>15, <1>16 DEF InsertedAt
  <1> QED
    BY <1>16, <1>18

\* The inserted phi function is in the block then.
LEMMA PhiIsInserted ==
  ASSUME NEW S, NEW s \in Seq(S), NEW phi \in S
  PROVE  \E k \in DOMAIN WithPhi(s, phi) : WithPhi(s, phi)[k] = phi
PROOF
  <1>1. PICK k \in Nat \ {0} : InsertedAt(S, s, phi, k)
    BY InsertElements
  <1>2. k \in 1 .. Len(s) + 1 /\ DOMAIN WithPhi(s, phi) = 1 .. Len(s) + 1
    BY <1>1 DEF InsertedAt
  <1>3. WithPhi(s, phi)[k] = phi
    BY <1>1, <1>2 DEF InsertedAt
  <1> QED
    BY <1>2, <1>3

\* A phi function as it is placed, and what placing does to the list of a block:
\* the instructions move, and at most one comes in.
NewPhi(x, b, n) ==
  /\ IsPhi(x) /\ Shape(x, b) /\ x.defs[1].name = n /\ x.uses = <<>> /\ x.idiom = 0
  /\ \A a \in ToSet(x.args) : a.sub = NO_SUBSCRIPT /\ a.source = -1
  /\ DOMAIN x.args = 1 .. Cardinality(Preds(program, b))

PlacedIn(b, n, moved) ==
  /\ moved \in [DOMAIN code[b] -> DOMAIN code'[b]]
  /\ \A i, j \in DOMAIN code[b] : i < j => moved[i] < moved[j]
  /\ \A i \in DOMAIN code[b] : code'[b][moved[i]] = code[b][i]
  /\ \A i, j \in DOMAIN code'[b] : i = j \/ \E x \in DOMAIN code[b] : moved[x] = i \/ moved[x] = j
  /\ \A j \in DOMAIN code'[b] :
       \/ \E x \in DOMAIN code[b] : moved[x] = j
       \/ /\ NewPhi(code'[b][j], b, n) /\ b \in placed' /\ b \notin placed
          /\ \A i \in 1 .. j - 1 : IsPhi(code'[b][i])

\* Each block keeps its instructions, and gets at most one phi function.
LEMMA PlaceAt ==
  ASSUME UsesInv, PlacePhis, NEW b \in Blocks
  PROVE  \E moved : PlacedIn(b, Least(waiting), moved)
PROOF
  <1> DEFINE n == Least(waiting)
             new == frontier[Least(sites)] \ placed
  <1>1. PICK S : code[b] \in Seq(S)
    BY DEF UsesInv, IInv, CodeOK
  <1>2. PICK address : code' = [c \in Blocks |-> IF c \in new THEN WithPhi(code[c], Phi(n, c, address[c])) ELSE code[c]]
    BY DEF PlacePhis
  <1>3. n \in Nat \ {0}
    <2>1. waiting # {} /\ waiting \subseteq names /\ names \subseteq Names
      BY NamesAssumption DEF PlacePhis, UsesInv, PlacingOK, IInv, NamesOK, NamesOf
    <2>2. waiting \subseteq Nat
      BY <2>1, NamesAssumption
    <2>3. n \in waiting
      BY <2>1, <2>2, LeastIsMember
    <2> QED
      BY <2>1, <2>3, NamesAssumption
  <1>4. placed' = placed \cup new
    BY DEF PlacePhis
  <1> HIDE DEF n, new
  <1>5. CASE b \notin new
    <2>1. code'[b] = code[b]
      BY <1>2, <1>5
    <2> DEFINE moved == [i \in DOMAIN code[b] |-> i]
    <2>2. PlacedIn(b, n, moved)
      BY <2>1 DEF PlacedIn
    <2> QED
      BY <2>2 DEF n
  <1>6. CASE b \in new
    <2>1. PICK s : s = code[b]
      OBVIOUS
    <2>2. PICK phi : phi = Phi(n, b, address[b])
      OBVIOUS
    <2>3. PICK r : r = WithPhi(s, phi)
      OBVIOUS
    <2>4. PICK T : s \in Seq(T) /\ phi \in T
      <3>1. s \in Seq(S \cup {phi}) /\ phi \in S \cup {phi}
        BY <1>1, <2>1, SeqMonotonic
      <3> QED
        BY <3>1
    <2>5. PICK k \in Nat \ {0} :
             /\ k <= Len(s) + 1 /\ Len(s) \in Nat /\ k = LeadingPhis(s) + 1
             /\ r \in Seq(T) /\ Len(r) = Len(s) + 1
             /\ \A i \in 1 .. Len(s) + 1 :
                  r[i] = IF i < k THEN s[i] ELSE IF i = k THEN phi ELSE s[i - 1]
      <3>1. PICK k \in Nat \ {0} : InsertedAt(T, s, phi, k)
        BY ONLY <2>4, InsertElements
      <3> QED
        BY ONLY <3>1, <2>3 DEF InsertedAt
    <2>6. PICK m \in Nat : m = Len(s) /\ DOMAIN s = 1 .. m /\ DOMAIN r = 1 .. m + 1 /\ k <= m + 1
      <3>1. Len(s) \in Nat /\ DOMAIN s = 1 .. Len(s)
        BY ONLY <2>4, <2>5
      <3>2. Len(r) = Len(s) + 1 /\ DOMAIN r = 1 .. Len(r)
        BY ONLY <2>5
      <3> QED
        BY ONLY <3>1, <3>2, <2>5
    <2>7. \A i \in 1 .. m + 1 : r[i] = IF i < k THEN s[i] ELSE IF i = k THEN phi ELSE s[i - 1]
      BY <2>5, <2>6
    <2>8. code'[b] = r
      BY <1>2, <1>6, <2>1, <2>2, <2>3
    <2>9. NewPhi(phi, b, n)
      <3>1. /\ IsPhi(phi) /\ phi.uses = <<>> /\ phi.idiom = 0 /\ phi.defs = <<[name |-> n, sub |-> NO_SUBSCRIPT]>> /\ phi.id = <<b, -n>>
            /\ phi.args = [i \in 1 .. Cardinality(Preds(program, b)) |-> [sub |-> NO_SUBSCRIPT, source |-> -1]]
        BY <2>2 DEF Phi, IsPhi
      <3>2. \A a \in ToSet(phi.args) : a.sub = NO_SUBSCRIPT /\ a.source = -1
        BY <3>1 DEF ToSet
      <3>3. DOMAIN phi.defs = {1} /\ phi.defs[1] = [name |-> n, sub |-> NO_SUBSCRIPT]
        BY <3>1
      <3>4. Shape(phi, b)
        BY <3>1, <3>3, <1>3 DEF Shape, Versioned
      <3>5. phi.defs[1].name = n
        BY <3>3
      <3>6. DOMAIN phi.args = 1 .. Cardinality(Preds(program, b))
        BY <3>1
      <3> QED
        BY ONLY <3>6, <3>1, <3>2, <3>4, <3>5 DEF NewPhi
    <2>10. PICK moved : moved = [i \in 1 .. m |-> IF i < k THEN i ELSE i + 1]
      OBVIOUS
    <2>11. moved \in [1 .. m -> 1 .. m + 1] /\ \A i \in 1 .. m : moved[i] = IF i < k THEN i ELSE i + 1
      BY <2>10
    <2>12. ASSUME NEW i \in 1 .. m, NEW j \in 1 .. m, i < j
           PROVE  moved[i] < moved[j]
      <3>1. /\ moved[i] = IF i < k THEN i ELSE i + 1
            /\ moved[j] = IF j < k THEN j ELSE j + 1
        BY ONLY <2>11
      <3> QED
        BY ONLY <3>1, <2>12, <2>5, <2>6
    <2>13. ASSUME NEW i \in 1 .. m
           PROVE  r[moved[i]] = s[i]
      <3>1. CASE i < k
        BY <3>1, <2>7, <2>11
      <3>2. CASE ~ i < k
        <4>1. moved[i] = i + 1 /\ i + 1 \in 1 .. m + 1 /\ ~ i + 1 < k /\ i + 1 # k /\ i + 1 - 1 = i
          BY <3>2, <2>11
        <4> QED
          BY <4>1, <2>7
      <3> QED
        BY <3>1, <3>2
    <2>14. ASSUME NEW j \in 1 .. m + 1, j # k
           PROVE  \E x \in 1 .. m : moved[x] = j
      <3>1. CASE j < k
        <4>1. j \in 1 .. m
          BY <3>1, <2>6
        <4> QED
          BY <3>1, <4>1, <2>11
      <3>2. CASE ~ j < k
        <4>1. j - 1 \in 1 .. m /\ ~ j - 1 < k /\ j - 1 + 1 = j
          BY <3>2, <2>14
        <4> QED
          BY <4>1, <2>11
      <3> QED
        BY <3>1, <3>2
    <2>15. k \in 1 .. m + 1 /\ r[k] = phi
      <3>1. k \in 1 .. m + 1 /\ ~ k < k
        BY <2>6
      <3> QED
        BY <3>1, <2>7
    <2>16. PlacedIn(b, n, moved)
      <3>1. DOMAIN code[b] = 1 .. m /\ DOMAIN code'[b] = 1 .. m + 1
        BY <2>1, <2>6, <2>8
      <3>2. \A i, j \in 1 .. m + 1 : i = j \/ \E x \in 1 .. m : moved[x] = i \/ moved[x] = j
        BY <2>14
      <3>3. ASSUME NEW j \in 1 .. m + 1
            PROVE  \/ \E x \in 1 .. m : moved[x] = j
                   \/ /\ NewPhi(r[j], b, n) /\ b \in placed' /\ b \notin placed
                      /\ \A i \in 1 .. j - 1 : IsPhi(r[i])
        <4>3. ASSUME NEW i \in 1 .. k - 1
              PROVE  IsPhi(r[i])
          <5>1. i \in 1 .. m + 1 /\ i < k /\ i \in 1 .. LeadingPhis(s)
            <6>1. PICK l \in Nat : l = LeadingPhis(s)
              BY <2>4, LeadingPhisInRange
            <6> QED
              BY <6>1, <2>5, <2>6
          <5>2. r[i] = s[i]
            BY <5>1, <2>7
          <5> QED
            BY <5>1, <5>2, <2>4, LeadingPhisArePhis
        <4>1. b \in placed' /\ b \notin placed
          BY <1>4, <1>6 DEF new
        <4>2. j = k => NewPhi(r[j], b, n)
          BY <2>9, <2>15
        <4> QED
          BY <4>1, <4>2, <4>3, <2>14
      <3>4. /\ moved \in [DOMAIN code[b] -> DOMAIN code'[b]]
            /\ \A i, j \in DOMAIN code[b] : i < j => moved[i] < moved[j]
        BY <3>1, <2>11, <2>12
      <3>5. \A i \in DOMAIN code[b] : code'[b][moved[i]] = code[b][i]
        BY <3>1, <2>1, <2>8, <2>13
      <3>6. \A i, j \in DOMAIN code'[b] : i = j \/ \E x \in DOMAIN code[b] : moved[x] = i \/ moved[x] = j
        BY ONLY <3>1, <3>2
      <3>7. \A j \in DOMAIN code'[b] :
              \/ \E x \in DOMAIN code[b] : moved[x] = j
              \/ /\ NewPhi(code'[b][j], b, n) /\ b \in placed' /\ b \notin placed
                 /\ \A i \in 1 .. j - 1 : IsPhi(code'[b][i])
        BY ONLY <3>1, <3>3, <2>8
      <3> QED
        BY ONLY <3>4, <3>5, <3>6, <3>7 DEF PlacedIn
    <2> QED
      BY <2>16 DEF n
  <1> QED
    BY <1>5, <1>6

\* The name whose phi functions are placed is one of the names of the pass.
LEMMA NamePlaced ==
  ASSUME UsesInv, PlacePhis
  PROVE  /\ Least(waiting) \in waiting /\ Least(waiting) \in names /\ Least(waiting) \in NamesOf(pass)
         /\ Least(waiting) \in Nat \ {0}
PROOF
  <1>1. waiting # {} /\ waiting \subseteq names /\ names \subseteq NamesOf(pass) /\ NamesOf(pass) \subseteq Nat \ {0}
    BY NamesAssumption DEF PlacePhis, UsesInv, PlacingOK, IInv, NamesOK, NamesOf
  <1>2. waiting \subseteq Nat
    BY <1>1
  <1>3. Least(waiting) \in waiting
    BY <1>1, <1>2, LeastIsMember
  <1> QED
    BY <1>1, <1>3

\* A phi function that comes in has the shape of one.
LEMMA PlaceKeepsShape == UsesInv /\ PlacePhis => Shaped'
PROOF
  <1> SUFFICES ASSUME UsesInv, PlacePhis PROVE Shaped'
    OBVIOUS
  <1>1. Blocks' = Blocks
    BY DEF PlacePhis, Blocks
  <1>2. ASSUME NEW b \in Blocks, NEW j \in DOMAIN code'[b]
        PROVE  Shape(code'[b][j], b)
    <2>1. PICK moved : PlacedIn(b, Least(waiting), moved)
      BY PlaceAt
    <2>2. CASE \E x \in DOMAIN code[b] : moved[x] = j
      <3>1. PICK x \in DOMAIN code[b] : moved[x] = j
        BY <2>2
      <3>2. code'[b][j] = code[b][x]
        BY <2>1, <3>1 DEF PlacedIn
      <3> QED
        BY <3>2 DEF UsesInv, Shaped
    <2>3. CASE NewPhi(code'[b][j], b, Least(waiting))
      BY <2>3 DEF NewPhi
    <2> QED
      BY <2>1, <2>2, <2>3 DEF PlacedIn
  <1> QED
    BY <1>1, <1>2 DEF Shaped

\* The phi function that comes in is the first of its name in the block.
LEMMA PlaceKeepsIds == UsesInv /\ PlacePhis => IdsDiffer'
PROOF
  <1> SUFFICES ASSUME UsesInv, PlacePhis PROVE IdsDiffer'
    OBVIOUS
  <1>1. Blocks' = Blocks /\ stage = "place"
    BY DEF PlacePhis, Blocks
  <1>2. PICK n \in Nat \ {0} : n = Least(waiting) /\ n \in waiting
    BY NamePlaced
  <1>3. ASSUME NEW b \in Blocks, NEW moved, PlacedIn(b, n, moved), NEW i \in DOMAIN code'[b], NEW j \in DOMAIN code'[b],
               code'[b][i].id = code'[b][j].id, NEW x \in DOMAIN code[b], moved[x] = i
        PROVE  i = j
    <2>1. code'[b][i] = code[b][x]
      BY <1>3 DEF PlacedIn
    <2>2. CASE \E y \in DOMAIN code[b] : moved[y] = j
      <3>1. PICK y \in DOMAIN code[b] : moved[y] = j
        BY <2>2
      <3>2. code'[b][j] = code[b][y]
        BY <1>3, <3>1 DEF PlacedIn
      <3> QED
        BY <1>3, <2>1, <3>1, <3>2 DEF UsesInv, IdsDiffer
    <2>3. CASE NewPhi(code'[b][j], b, n) /\ b \notin placed
      <3>1. code[b][x].id = <<b, -n>>
        BY <1>3, <2>1, <2>3 DEF NewPhi, Shape
      <3>2. Shape(code[b][x], b)
        BY DEF UsesInv, Shaped
      <3>3. CASE IsPhi(code[b][x])
        <4>1. PICK m \in Nat \ {0} : m = code[b][x].defs[1].name /\ code[b][x].id = <<b, -m>>
          BY <3>2, <3>3 DEF Shape
        <4>2. m = n
          BY <3>1, <4>1
        <4>3. PhiNamed(n, b)
          BY <3>3, <4>1, <4>2 DEF UsesInv, PhisNamed
        <4> QED
          BY <1>1, <1>2, <2>3, <4>3 DEF PhiNamed
      <3>4. CASE ~ IsPhi(code[b][x])
        <4>1. PICK k \in Nat \ {0} : code[b][x].id = <<b, k>>
          BY <3>2, <3>4 DEF Shape
        <4> QED
          BY <3>1, <4>1
      <3> QED
        BY <3>3, <3>4
    <2> QED
      BY <1>3, <2>2, <2>3 DEF PlacedIn
  <1>4. ASSUME NEW b \in Blocks, NEW i \in DOMAIN code'[b], NEW j \in DOMAIN code'[b], code'[b][i].id = code'[b][j].id
        PROVE  i = j
    <2>1. PICK moved : PlacedIn(b, n, moved)
      BY <1>2, PlaceAt
    <2>2. i = j \/ \E x \in DOMAIN code[b] : moved[x] = i \/ moved[x] = j
      BY <2>1 DEF PlacedIn
    <2> QED
      BY <1>3, <1>4, <2>1, <2>2
  <1> QED
    BY <1>1, <1>4 DEF IdsDiffer

\* Its name is that of the pass whose turn it is.
LEMMA PlaceKeepsPhis == UsesInv /\ PlacePhis => PhisNamed'
PROOF
  <1> SUFFICES ASSUME UsesInv, PlacePhis PROVE PhisNamed'
    OBVIOUS
  <1>1. /\ Blocks' = Blocks /\ stage = "place" /\ stage' = "place" /\ pass' = pass /\ names' = names
        /\ waiting' = waiting /\ placed \subseteq placed' /\ NamesOf(pass)' = NamesOf(pass)
    BY DEF PlacePhis, Blocks, NamesOf
  <1>2. PICK n : n = Least(waiting) /\ n \in waiting /\ n \in names /\ n \in NamesOf(pass)
    BY NamePlaced
  <1>3. ASSUME NEW b \in Blocks, NEW j \in DOMAIN code'[b], IsPhi(code'[b][j]), NEW m, m = code'[b][j].defs[1].name
        PROVE  PhiNamed(m, b)'
    <2>1. PICK moved : PlacedIn(b, n, moved)
      BY <1>2, PlaceAt
    <2>2. CASE \E x \in DOMAIN code[b] : moved[x] = j
      <3>1. PICK x \in DOMAIN code[b] : moved[x] = j
        BY <2>2
      <3>2. code'[b][j] = code[b][x]
        BY <2>1, <3>1 DEF PlacedIn
      <3>3. PhiNamed(m, b)
        BY <1>3, <3>2 DEF UsesInv, PhisNamed
      <3> QED
        BY <1>1, <3>3 DEF PhiNamed
    <2>3. CASE NewPhi(code'[b][j], b, n) /\ b \in placed'
      <3>1. m = n
        BY <1>3, <2>3 DEF NewPhi
      <3>2. pass = "registers" => n \notin Memory
        BY <1>2 DEF NamesOf
      <3>3. PhiNamed(n, b)'
        BY <1>1, <1>2, <2>3, <3>2 DEF PhiNamed
      <3> QED
        BY <3>1, <3>3
    <2> QED
      BY <2>1, <2>2, <2>3 DEF PlacedIn
  <1> QED
    BY <1>1, <1>3 DEF PhisNamed, PhiNamed

\* What came before an instruction still does.
LEMMA PlaceKeepsUses == UsesInv /\ PlacePhis => (UsesOK /\ ArgsOK)'
PROOF
  <1> SUFFICES ASSUME UsesInv, PlacePhis PROVE (UsesOK /\ ArgsOK)'
    OBVIOUS
  <1>1. Blocks' = Blocks /\ program' = program /\ definitions' = definitions
    BY DEF PlacePhis, Blocks, renaming
  <1>2. PICK n : n = Least(waiting)
    OBVIOUS
  <1>3. ASSUME NEW b \in Blocks, NEW moved, PlacedIn(b, n, moved), NEW x \in DOMAIN code[b], NEW m, NEW s, UseOK(m, s, b, x)
        PROVE  UseOK(m, s, b, moved[x])'
    <2>1. CASE s = 0
      BY <2>1 DEF UseOK
    <2>2. CASE s # 0
      <3>1. PICK d \in definitions :
               Defines(d, m, s) /\ IF d[3][1] = b THEN CameBefore(d, b, x) ELSE Dominates(program, d[3][1], b)
        BY <1>3, <2>2 DEF UseOK
      <3>2. PICK y : y = moved[x]
        OBVIOUS
      <3>3. ASSUME CameBefore(d, b, x)
            PROVE  CameBefore(d, b, y)'
        <4>1. PICK k \in DOMAIN code[b] : k < x /\ code[b][k].id = d[3]
          BY <3>3 DEF CameBefore
        <4>2. moved[k] \in DOMAIN code'[b] /\ moved[k] < y /\ code'[b][moved[k]].id = d[3]
          BY <1>3, <3>2, <4>1 DEF PlacedIn
        <4> QED
          BY <4>2 DEF CameBefore
      <3>4. UseOK(m, s, b, y)'
        BY <1>1, <3>1, <3>3 DEF UseOK, Defines
      <3> QED
        BY <3>2, <3>4
    <2> QED
      BY <2>1, <2>2
  <1>4. ASSUME NEW b \in Blocks, NEW j \in DOMAIN code'[b], code'[b][j].idiom = 0,
               NEW u \in ToSet(code'[b][j].uses), u.sub # NO_SUBSCRIPT
        PROVE  UseOK(u.name, u.sub, b, j)'
    <2>1. PICK moved : PlacedIn(b, n, moved)
      BY <1>2, PlaceAt
    <2>2. CASE \E x \in DOMAIN code[b] : moved[x] = j
      <3>1. PICK x \in DOMAIN code[b] : moved[x] = j
        BY <2>2
      <3>2. code'[b][j] = code[b][x]
        BY <2>1, <3>1 DEF PlacedIn
      <3>3. PICK m, s : m = u.name /\ s = u.sub
        OBVIOUS
      <3>4. UseOK(m, s, b, x)
        BY <1>4, <3>2, <3>3 DEF UsesInv, UsesOK
      <3>5. UseOK(m, s, b, moved[x])'
        BY <1>3, <2>1, <3>4
      <3> QED
        BY <3>1, <3>3, <3>5
    <2>3. CASE NewPhi(code'[b][j], b, n)
      <3>1. ToSet(code'[b][j].uses) = {}
        BY <2>3 DEF NewPhi, ToSet
      <3> QED
        BY <3>1, <1>4
    <2> QED
      BY <2>1, <2>2, <2>3 DEF PlacedIn
  <1>5. ASSUME NEW b \in Blocks, NEW j \in DOMAIN code'[b], NEW a \in ToSet(code'[b][j].args), a.sub # NO_SUBSCRIPT,
               NEW m, m = code'[b][j].defs[1].name
        PROVE  DefinedIn(m, a.sub, a.source)'
    <2>1. PICK moved : PlacedIn(b, n, moved)
      BY <1>2, PlaceAt
    <2>2. CASE \E x \in DOMAIN code[b] : moved[x] = j
      <3>1. PICK x \in DOMAIN code[b] : moved[x] = j
        BY <2>2
      <3>2. code'[b][j] = code[b][x]
        BY <2>1, <3>1 DEF PlacedIn
      <3>3. DefinedIn(m, a.sub, a.source)
        BY <1>5, <3>2 DEF UsesInv, ArgsOK
      <3> QED
        BY <1>1, <3>3, MoreDefinedIn
    <2>3. CASE NewPhi(code'[b][j], b, n)
      BY <1>5, <2>3 DEF NewPhi
    <2> QED
      BY <2>1, <2>2, <2>3 DEF PlacedIn
  <1>6. UsesOK'
    BY <1>1, <1>4 DEF UsesOK
  <1>7. ArgsOK'
    BY <1>1, <1>5 DEF ArgsOK, DefinedIn
  <1> QED
    BY <1>6, <1>7

\* Placing phi functions keeps the invariant.
LEMMA PlaceKeepsInv == UsesInv /\ PlacePhis => (PlacingOK /\ SwitchesOK /\ InPath /\ StackOK)'
PROOF
  <1> SUFFICES ASSUME UsesInv, PlacePhis PROVE (PlacingOK /\ SwitchesOK /\ InPath /\ StackOK)'
    OBVIOUS
  <1>1. stage' = "place" /\ stage = "place" /\ waiting' = waiting /\ names' = names /\ sites # {}
    BY DEF PlacePhis
  <1> QED
    BY <1>1 DEF UsesInv, PlacingOK, SwitchesOK, InPath, StackOK

-----------------------------------------------------------------------------
(* A switch is corrected.                                                  *)

\* What correcting a switch changes: nothing, or the last instruction of a block
\* whose last instruction has an idiom.
CorrectedAt(b, i) ==
  /\ b \in Blocks /\ i \in DOMAIN code[b] /\ code[b][i].idiom # 0
  /\ \A c \in Blocks : c # b => code'[c] = code[c]
  /\ DOMAIN code'[b] = DOMAIN code[b]
  /\ \A j \in DOMAIN code[b] : j # i => code'[b][j] = code[b][j]
  /\ SameInstruction(code'[b][i], code[b][i]) /\ Shape(code'[b][i], b) /\ code'[b][i].args = code[b][i].args

\* The block that is corrected ends with an instruction that has an idiom.
LEMMA CorrectAt ==
  ASSUME UsesInv, CorrectSwitch
  PROVE  code' = code \/ \E b, i : CorrectedAt(b, i)
PROOF
  <1>1. PICK b : b = Least(toMatch)
    OBVIOUS
  <1>2. b \in Blocks /\ Last(code[b]).idiom # 0
    <2>1. toMatch \subseteq Blocks /\ toMatch # {} /\ \A c \in toMatch : Last(code[c]).idiom # 0
      BY DEF UsesInv, SwitchesOK, CorrectSwitch
    <2>2. toMatch \subseteq Nat
      BY <2>1 DEF Blocks, Vertices
    <2> QED
      BY <1>1, <2>1, <2>2, LeastIsMember
  <1>3. PICK S : (\A z \in S : WellFormed(z)) /\ \A c \in Blocks : code[c] \in Seq(S)
    BY DEF UsesInv, IInv, CodeOK
  <1>4. PICK i \in Nat : i = Len(code[b]) /\ DOMAIN code[b] = 1 .. i /\ code[b] = [k \in 1 .. i |-> code[b][k]]
    BY <1>2, <1>3
  <1>5. PICK sub : code' = [code EXCEPT ![b][i].uses[1].sub = sub]
    BY <1>1, <1>4 DEF CorrectSwitch
  <1>6. PICK x : x = code[b][i]
    OBVIOUS
  <1>7. PICK y : y = [x EXCEPT !.uses[1].sub = sub]
    OBVIOUS
  <1>8. code' = [code EXCEPT ![b] = [code[b] EXCEPT ![i] = y]]
    BY <1>5, <1>6, <1>7
  <1>9. code = [c \in Blocks |-> code[c]]
    BY DEF UsesInv, IInv, CodeOK
  <1>10. code'[b] = [code[b] EXCEPT ![i] = y] /\ \A c \in Blocks : c # b => code'[c] = code[c]
    BY <1>2, <1>8, <1>9
  <1>11. CASE i \in DOMAIN code[b]
    <2>1. DOMAIN code'[b] = DOMAIN code[b] /\ code'[b][i] = y /\ \A j \in DOMAIN code[b] : j # i => code'[b][j] = code[b][j]
      BY <1>10, <1>11
    <2>2. WellFormed(x) /\ Shape(x, b)
      <3>1. code[b] \in Seq(S) /\ i \in 1 .. Len(code[b])
        BY <1>2, <1>3, <1>4, <1>11
      <3> QED
        BY <1>2, <1>3, <1>6, <1>11, <3>1, ElementOfSeq DEF UsesInv, Shaped
    <2>3. SameInstruction(y, x) /\ Shape(y, b) /\ y.args = x.args
      BY <1>7, <2>2, CorrectedParts
    <2>4. x.idiom # 0
      BY <1>2, <1>4, <1>6 DEF Last
    <2> QED
      BY <1>2, <1>6, <1>10, <1>11, <2>1, <2>3, <2>4 DEF CorrectedAt
  <1>12. CASE i \notin DOMAIN code[b]
    <2>1. [code[b] EXCEPT ![i] = y] = code[b]
      BY <1>4, <1>12
    <2>2. code' = code
      BY <1>8, <1>9, <2>1
    <2> QED
      BY <2>2
  <1> QED
    BY <1>11, <1>12

\* The switch stays the instruction it is.
LEMMA CorrectRewrites == UsesInv /\ CorrectSwitch => Rewrites
PROOF
  <1> SUFFICES ASSUME UsesInv, CorrectSwitch PROVE Rewrites
    OBVIOUS
  <1>1. program' = program
    BY DEF CorrectSwitch
  <1>2. CASE code' = code
    BY <1>1, <1>2, SameCodeRewrites
  <1>3. CASE \E b, i : CorrectedAt(b, i)
    <2>1. PICK b, i : CorrectedAt(b, i)
      BY <1>3
    <2>2. ASSUME NEW c \in Blocks
          PROVE  DOMAIN code'[c] = DOMAIN code[c] /\ \A j \in DOMAIN code[c] : SameInstruction(code'[c][j], code[c][j])
      <3>1. CASE c # b
        BY <2>1, <3>1 DEF CorrectedAt, SameInstruction
      <3>2. CASE c = b
        <4>1. DOMAIN code'[c] = DOMAIN code[c]
          BY <2>1, <3>2 DEF CorrectedAt
        <4>2. ASSUME NEW j \in DOMAIN code[c]
              PROVE  SameInstruction(code'[c][j], code[c][j])
          <5>1. CASE j = i
            BY <2>1, <3>2, <5>1 DEF CorrectedAt
          <5>2. CASE j # i
            <6>1. code'[c][j] = code[c][j]
              BY <2>1, <3>2, <5>2 DEF CorrectedAt
            <6> QED
              BY <6>1 DEF SameInstruction
          <5> QED
            BY <5>1, <5>2
        <4> QED
          BY <4>1, <4>2
      <3> QED
        BY <3>1, <3>2
    <2> QED
      BY <1>1, <2>2 DEF Rewrites
  <1> QED
    BY <1>2, <1>3, CorrectAt

\* Only a use of an instruction that has an idiom gets another version.
LEMMA CorrectKeepsUses == UsesInv /\ CorrectSwitch => (Shaped /\ UsesOK /\ ArgsOK)'
PROOF
  <1> SUFFICES ASSUME UsesInv, CorrectSwitch PROVE (Shaped /\ UsesOK /\ ArgsOK)'
    OBVIOUS
  <1>1. Blocks' = Blocks /\ program' = program /\ definitions' = definitions /\ Rewrites
    BY CorrectRewrites DEF CorrectSwitch, Blocks, renaming
  <1>2. ASSUME NEW c \in Blocks, NEW j \in DOMAIN code'[c]
        PROVE  /\ j \in DOMAIN code[c] /\ SameInstruction(code'[c][j], code[c][j]) /\ Shape(code'[c][j], c)
               /\ code'[c][j].args = code[c][j].args /\ (code'[c][j].idiom = 0 => code'[c][j] = code[c][j])
    <2>1. j \in DOMAIN code[c] /\ SameInstruction(code'[c][j], code[c][j])
      BY <1>1 DEF Rewrites
    <2>2. CASE code'[c][j] = code[c][j]
      BY <2>1, <2>2 DEF UsesInv, Shaped
    <2>3. CASE code'[c][j] # code[c][j]
      <3>1. PICK b, i : CorrectedAt(b, i)
        BY <2>3, CorrectAt
      <3>2. c = b /\ j = i
        BY <2>1, <2>3, <3>1 DEF CorrectedAt
      <3> QED
        BY <2>1, <3>1, <3>2 DEF CorrectedAt, SameInstruction
    <2> QED
      BY <2>2, <2>3
  <1>3. Shaped'
    BY <1>1, <1>2 DEF Shaped
  <1>4. ASSUME NEW c \in Blocks, NEW j \in DOMAIN code'[c], code'[c][j].idiom = 0,
               NEW u \in ToSet(code'[c][j].uses), u.sub # NO_SUBSCRIPT
        PROVE  UseOK(u.name, u.sub, c, j)'
    <2>1. j \in DOMAIN code[c] /\ code'[c][j] = code[c][j]
      BY <1>2, <1>4
    <2>2. UseOK(u.name, u.sub, c, j)
      BY <1>4, <2>1 DEF UsesInv, UsesOK
    <2>3. definitions \subseteq definitions'
      BY <1>1
    <2> QED
      BY <1>1, <2>2, <2>3, RewritesKeepUse
  <1>5. ASSUME NEW c \in Blocks, NEW j \in DOMAIN code'[c], NEW a \in ToSet(code'[c][j].args), a.sub # NO_SUBSCRIPT,
               NEW m, m = code'[c][j].defs[1].name
        PROVE  DefinedIn(m, a.sub, a.source)'
    <2>1. j \in DOMAIN code[c] /\ SameInstruction(code'[c][j], code[c][j]) /\ code'[c][j].args = code[c][j].args
      BY <1>2
    <2>2. m = code[c][j].defs[1].name
      <3>1. a \in ToSet(code[c][j].args)
        BY <2>1, <1>5
      <3>2. IsPhi(code[c][j])
        BY <2>1, <3>1 DEF UsesInv, Shaped, Shape, ToSet
      <3>3. 1 \in DOMAIN code[c][j].defs
        BY <2>1, <3>2 DEF UsesInv, Shaped, Shape
      <3> QED
        BY <1>5, <2>1, <3>3 DEF SameInstruction
    <2>3. DefinedIn(m, a.sub, a.source)
      BY <1>5, <2>1, <2>2 DEF UsesInv, ArgsOK
    <2> QED
      BY <1>1, <2>3, MoreDefinedIn
  <1>6. UsesOK'
    BY <1>1, <1>4 DEF UsesOK
  <1>7. ArgsOK'
    BY <1>1, <1>5 DEF ArgsOK, DefinedIn
  <1> QED
    BY <1>3, <1>6, <1>7

\* Correcting a switch keeps the invariant.
LEMMA CorrectKeepsInv ==
  UsesInv /\ CorrectSwitch => (IdsDiffer /\ PhisNamed /\ PlacingOK /\ SwitchesOK /\ InPath /\ StackOK)'
PROOF
  <1> SUFFICES ASSUME UsesInv, CorrectSwitch
               PROVE  (IdsDiffer /\ PhisNamed /\ PlacingOK /\ SwitchesOK /\ InPath /\ StackOK)'
    OBVIOUS
  <1>1. stage' = "switch" /\ toMatch' = {} /\ UNCHANGED <<pass, names>>
    BY DEF CorrectSwitch
  <1>2. IdsDiffer'
    BY CorrectRewrites, RewritesKeepIds DEF UsesInv
  <1>3. PhisNamed'
    BY <1>1, CorrectRewrites, RewritesKeepPhis DEF UsesInv
  <1> QED
    BY <1>1, <1>2, <1>3 DEF PlacingOK, SwitchesOK, InPath, StackOK

-----------------------------------------------------------------------------
(* All other steps, and the beginning.                                     *)

\* The actions that change no instruction.
Elsewhere ==
  \/ ComputeDominanceFrontier \/ Compute_Aorig \/ AddUsedRelatedToDefinedRegisters
  \/ StartPlacing \/ NextName \/ StartRenaming \/ RenameChild \/ ReturnFromBlock
  \/ StartSwitches \/ NextSwitch \/ SearchBlock \/ ReturnFromSearch \/ GiveUp \/ EndPass

\* They define nothing either.
LEMMA ElsewhereKeepsCode == Elsewhere => UNCHANGED <<program, code, definitions>>
PROOF
  BY DEF Elsewhere, ComputeDominanceFrontier, Compute_Aorig, AddUsedRelatedToDefinedRegisters,
         StartPlacing, NextName, StartRenaming, RenameChild, ReturnFromBlock,
         StartSwitches, NextSwitch, SearchBlock, ReturnFromSearch, GiveUp, EndPass, renaming

\* So what is known of the instructions stays true.
LEMMA ElsewhereKeepsUses == UsesInv /\ Elsewhere => (Shaped /\ IdsDiffer /\ UsesOK /\ ArgsOK)'
PROOF
  <1> SUFFICES ASSUME UsesInv, Elsewhere PROVE (Shaped /\ IdsDiffer /\ UsesOK /\ ArgsOK)'
    OBVIOUS
  <1>1. program' = program /\ code' = code /\ definitions' = definitions /\ Blocks' = Blocks
    BY ElsewhereKeepsCode DEF Blocks
  <1>2. Shaped' /\ IdsDiffer'
    BY <1>1 DEF UsesInv, Shaped, IdsDiffer
  <1>3. UsesOK'
    BY <1>1 DEF UsesInv, UsesOK, UseOK, CameBefore, Defines
  <1>4. ArgsOK'
    BY <1>1 DEF UsesInv, ArgsOK, DefinedIn
  <1> QED
    BY <1>2, <1>3, <1>4

\* A name that waits for its phi functions has none: it is a name of the pass,
\* and no block has a phi function of those when the pass starts.
LEMMA ElsewhereKeepsPhis == UsesInv /\ Elsewhere => PhisNamed'
PROOF
  <1> SUFFICES ASSUME UsesInv, Elsewhere PROVE PhisNamed'
    OBVIOUS
  <1>1. program' = program /\ code' = code /\ Blocks' = Blocks
    BY ElsewhereKeepsCode DEF Blocks
  <1>2. names \subseteq NamesOf(pass) /\ pass \in {"registers", "memory"}
    BY DEF UsesInv, IInv, NamesOK
  <1>3. ASSUME NEW n, NEW b, PhiNamed(n, b)
        PROVE  PhiNamed(n, b)'
    <2> USE DEF PhiNamed, NamesOf
    <2>1. CASE ComputeDominanceFrontier
      BY <1>3, <2>1 DEF ComputeDominanceFrontier
    <2>2. CASE Compute_Aorig
      BY <1>3, <2>2 DEF Compute_Aorig
    <2>3. CASE AddUsedRelatedToDefinedRegisters
      BY <1>3, <2>3 DEF AddUsedRelatedToDefinedRegisters
    <2>4. CASE StartPlacing
      BY <1>2, <1>3, <2>4 DEF StartPlacing
    <2>5. CASE NextName
      BY <1>3, <2>5 DEF NextName
    <2>6. CASE StartRenaming
      BY <1>3, <2>6 DEF StartRenaming
    <2>7. CASE RenameChild \/ ReturnFromBlock
      BY <1>3, <2>7 DEF RenameChild, ReturnFromBlock
    <2>8. CASE StartSwitches \/ NextSwitch \/ SearchBlock \/ ReturnFromSearch \/ GiveUp
      BY <1>3, <2>8 DEF StartSwitches, NextSwitch, SearchBlock, ReturnFromSearch, GiveUp
    <2>9. CASE EndPass
      BY <1>2, <1>3, <2>9 DEF EndPass
    <2> QED
      BY <2>1, <2>2, <2>3, <2>4, <2>5, <2>6, <2>7, <2>8, <2>9 DEF Elsewhere
  <1>4. ASSUME NEW b \in Blocks, NEW i \in DOMAIN code[b], IsPhi(code[b][i]), NEW m, m = code[b][i].defs[1].name
        PROVE  PhiNamed(m, b)'
    <2>1. PhiNamed(m, b)
      BY <1>4 DEF UsesInv, PhisNamed
    <2> QED
      BY <1>3, <2>1
  <1> QED
    BY <1>1, <1>4 DEF PhisNamed, PhiNamed

\* The names that wait are names of the pass.
LEMMA ElsewhereKeepsPlacing == UsesInv /\ Elsewhere => PlacingOK'
PROOF
  <1> SUFFICES ASSUME UsesInv, Elsewhere PROVE PlacingOK'
    OBVIOUS
  <1>1. CASE StartPlacing
    BY <1>1 DEF StartPlacing, PlacingOK, NextSites
  <1>2. CASE NextName
    BY <1>2 DEF NextName, UsesInv, PlacingOK, NextSites
  <1>3. CASE stage' # "place"
    BY <1>3 DEF PlacingOK
  <1>4. stage' # "place" \/ StartPlacing \/ NextName
    BY DEF Elsewhere, ComputeDominanceFrontier, Compute_Aorig, AddUsedRelatedToDefinedRegisters,
           StartRenaming, RenameChild, ReturnFromBlock,
           StartSwitches, NextSwitch, SearchBlock, ReturnFromSearch, GiveUp, EndPass
  <1> QED
    BY <1>1, <1>2, <1>3, <1>4

\* The blocks that are looked at end with an instruction that has an idiom.
LEMMA ElsewhereKeepsSwitches == UsesInv /\ Elsewhere => SwitchesOK'
PROOF
  <1> SUFFICES ASSUME UsesInv, Elsewhere PROVE SwitchesOK'
    OBVIOUS
  <1>1. program' = program /\ code' = code /\ Blocks' = Blocks
    BY ElsewhereKeepsCode DEF Blocks
  <1>2. CASE StartSwitches
    BY <1>1, <1>2 DEF StartSwitches, SwitchesOK, IsSwitch
  <1>3. CASE NextSwitch \/ SearchBlock \/ ReturnFromSearch
    BY <1>1, <1>3 DEF NextSwitch, SearchBlock, ReturnFromSearch, UsesInv, SwitchesOK
  <1>4. CASE GiveUp
    BY <1>1, <1>4 DEF GiveUp, UsesInv, SwitchesOK
  <1>5. CASE stage' \notin {"switch", "search"}
    BY <1>5 DEF SwitchesOK
  <1>6. \/ stage' \notin {"switch", "search"}
        \/ StartSwitches \/ NextSwitch \/ SearchBlock \/ ReturnFromSearch \/ GiveUp
    BY DEF Elsewhere, ComputeDominanceFrontier, Compute_Aorig, AddUsedRelatedToDefinedRegisters,
           StartPlacing, NextName, StartRenaming, RenameChild, ReturnFromBlock, EndPass
  <1> QED
    BY <1>2, <1>3, <1>4, <1>5, <1>6

\* The calls and the stacks.
LEMMA ElsewhereKeepsStack == UsesInv /\ Elsewhere => (InPath /\ StackOK)'
PROOF
  <1> SUFFICES ASSUME UsesInv, Elsewhere PROVE (InPath /\ StackOK)'
    OBVIOUS
  <1>1. CASE stage' # "rename"
    BY <1>1 DEF InPath, StackOK
  <1>2. CASE StartRenaming
    BY <1>2, StartKeepsPathAndStack
  <1>3. CASE RenameChild
    BY <1>3, ChildKeepsPath, ChildKeepsStack
  <1>4. CASE ReturnFromBlock
    BY <1>4, ReturnKeepsPath, ReturnKeepsStack
  <1>5. stage' # "rename" \/ StartRenaming \/ RenameChild \/ ReturnFromBlock
    BY DEF Elsewhere, ComputeDominanceFrontier, Compute_Aorig, AddUsedRelatedToDefinedRegisters,
           StartPlacing, NextName, StartSwitches, NextSwitch, SearchBlock, ReturnFromSearch, GiveUp, EndPass
  <1> QED
    BY <1>1, <1>2, <1>3, <1>4, <1>5

\* Renaming and filling in keep the identities and the names of the instructions.
LEMMA RenamingKeepsInv ==
  UsesInv /\ (RenameInstruction \/ FillArguments) => (IdsDiffer /\ PhisNamed /\ PlacingOK /\ SwitchesOK)'
PROOF
  <1> SUFFICES ASSUME UsesInv, RenameInstruction \/ FillArguments
               PROVE  (IdsDiffer /\ PhisNamed /\ PlacingOK /\ SwitchesOK)'
    OBVIOUS
  <1>1. stage = "rename" /\ stage' = "rename" /\ UNCHANGED <<pass, names>>
    BY DEF RenameInstruction, FillArguments
  <1>2. Rewrites
    BY RenameAt, FillAt
  <1>3. IdsDiffer'
    BY <1>2, RewritesKeepIds DEF UsesInv
  <1>4. PhisNamed'
    BY <1>1, <1>2, RewritesKeepPhis DEF UsesInv
  <1> QED
    BY <1>1, <1>3, <1>4 DEF PlacingOK, SwitchesOK

\* What IInv says of the code, the names and the counts is inductive by itself.
LEMMA IInvKept == IInv /\ Construct => IInv'
PROOF
  BY ConstructKeepsCode, ConstructKeepsNames, ConstructKeepsCount, ConstructKeepsSingle DEF IInv

\* Every step of the construction keeps the invariant.
LEMMA ConstructKeepsUses == UsesInv /\ Construct => UsesInv'
PROOF
  <1> SUFFICES ASSUME UsesInv, Construct PROVE UsesInv'
    OBVIOUS
  <1>1. IInv'
    BY IInvKept DEF UsesInv
  <1>2. CASE Elsewhere
    BY <1>1, <1>2, ElsewhereKeepsUses, ElsewhereKeepsPhis, ElsewhereKeepsPlacing, ElsewhereKeepsSwitches,
       ElsewhereKeepsStack DEF UsesInv
  <1>3. CASE PlacePhis
    BY <1>1, <1>3, PlaceKeepsShape, PlaceKeepsIds, PlaceKeepsPhis, PlaceKeepsUses, PlaceKeepsInv DEF UsesInv
  <1>4. CASE RenameInstruction
    <2>1. (InPath /\ StackOK)'
      BY <1>4, RenameGoesOn, GoesOnKeepsPath, RenameKeepsStack DEF UsesInv, RenameInstruction
    <2> QED
      BY <1>1, <1>4, <2>1, RenamingKeepsInv, RenameKeepsShape, RenameKeepsUses DEF UsesInv
  <1>5. CASE FillArguments
    BY <1>1, <1>5, RenamingKeepsInv, FillKeepsShape, FillKeepsUses, FillKeepsPathAndStack DEF UsesInv
  <1>6. CASE CorrectSwitch
    BY <1>1, <1>6, CorrectKeepsUses, CorrectKeepsInv DEF UsesInv
  <1> QED
    BY <1>2, <1>3, <1>4, <1>5, <1>6 DEF Construct, Elsewhere

\* As it was lifted, nothing of the function has a version, and no block has a
\* phi function.
LEMMA UsesInvInit == Init => UsesInv
PROOF
  <1> SUFFICES ASSUME Init PROVE UsesInv
    OBVIOUS
  <1>1. IInv
    BY IInvInit
  <1>2. ASSUME NEW b \in Blocks, NEW i \in DOMAIN code[b]
        PROVE  /\ code[b][i] = Lifted(b, i, program.code[b][i]) /\ i \in Nat \ {0}
               /\ program.code[b][i] \in InstructionsAsLifted
    <2>1. PICK insts : insts = program.code[b]
      OBVIOUS
    <2>2. code[b] = [k \in DOMAIN insts |-> Lifted(b, k, insts[k])]
      BY <1>2, <2>1 DEF Init
    <2>3. insts \in Seq(InstructionsAsLifted)
      BY <1>2, <2>1, ProgramsAssumption DEF Blocks, Init
    <2>4. Len(insts) \in Nat /\ DOMAIN insts = 1 .. Len(insts) /\ i \in 1 .. Len(insts)
      BY <1>2, <2>2, <2>3
    <2>5. insts[i] \in InstructionsAsLifted
      BY <2>3, <2>4, ElementOfSeq
    <2> QED
      BY <2>1, <2>2, <2>4, <2>5
  <1>3. ASSUME NEW b \in Blocks, NEW i \in DOMAIN code[b]
        PROVE  /\ Shape(code[b][i], b) /\ ~ IsPhi(code[b][i]) /\ code[b][i].id = <<b, i>>
               /\ \A u \in ToSet(code[b][i].uses) : u.sub = NO_SUBSCRIPT
               /\ ToSet(code[b][i].args) = {}
    <2>1. PICK x, inst : x = code[b][i] /\ inst = program.code[b][i]
      OBVIOUS
    <2>8. x = Lifted(b, i, inst) /\ inst \in InstructionsAsLifted
      BY <1>2, <2>1
    <2> DEFINE U == [k \in DOMAIN inst.uses |-> [name |-> inst.uses[k], sub |-> NO_SUBSCRIPT]]
               D == [k \in DOMAIN inst.defs |-> [name |-> inst.defs[k], sub |-> NO_SUBSCRIPT]]
    <2>9. x = [id |-> <<b, i>>, type |-> inst.type, address |-> inst.address, idiom |-> inst.idiom,
               uses |-> U, defs |-> D, args |-> <<>>]
      BY <2>8 DEF Lifted
    <2>10. /\ \A k \in DOMAIN U : Versioned(U[k]) /\ U[k].sub = NO_SUBSCRIPT
           /\ \A k \in DOMAIN D : Versioned(D[k])
      BY DEF Versioned
    <2> HIDE DEF U, D
    <2>2. x.id = <<b, i>> /\ x.type = inst.type /\ x.args = <<>> /\ x.uses = U /\ x.defs = D
      BY <2>9
    <2>3. ~ IsPhi(x)
      BY <2>2, <2>8 DEF InstructionsAsLifted, IsPhi
    <2>4. i \in Nat \ {0}
      BY <1>2
    <2>5. Shape(x, b)
      BY <2>2, <2>3, <2>4, <2>10 DEF Shape
    <2>6. \A u \in ToSet(x.uses) : u.sub = NO_SUBSCRIPT
      BY <2>2, <2>10 DEF ToSet
    <2>7. ToSet(x.args) = {}
      BY <2>2 DEF ToSet
    <2> QED
      BY <2>1, <2>2, <2>3, <2>5, <2>6, <2>7
  <1>4. Shaped /\ PhisNamed /\ UsesOK /\ ArgsOK
    BY <1>3 DEF Shaped, PhisNamed, UsesOK, ArgsOK
  <1>5. IdsDiffer
    BY <1>3 DEF IdsDiffer
  <1>6. stage = "dominators"
    BY DEF Init
  <1> QED
    BY <1>1, <1>4, <1>5, <1>6 DEF UsesInv, PlacingOK, SwitchesOK, InPath, StackOK

\* The run of the function changes nothing of the construction.
LEMMA UsesInvStutters == UsesInv /\ UNCHANGED vars => UsesInv'
PROOF
  <1> SUFFICES ASSUME UsesInv, UNCHANGED vars PROVE UsesInv'
    OBVIOUS
  <1>1. /\ UNCHANGED <<program, code, pass, stage, names, waiting, sites, placed, stack, count, frames, definitions>>
        /\ toMatch' = toMatch /\ Blocks' = Blocks /\ NamesOf(pass)' = NamesOf(pass) /\ FrameType' = FrameType
    BY DEF vars, placing, renaming, switching, Blocks, NamesOf, FrameType
  <1>2. IInv'
    BY <1>1 DEF UsesInv, IInv, CodeOK, NamesOK, NamesOf, CountOK, SingleAssignment, WellFormed
  <1>3. (Shaped /\ IdsDiffer /\ PlacingOK /\ SwitchesOK)'
    BY <1>1 DEF UsesInv, Shaped, IdsDiffer, PlacingOK, SwitchesOK
  <1>4. PhisNamed'
    BY <1>1 DEF UsesInv, PhisNamed, PhiNamed
  <1>5. InPath'
    BY <1>1 DEF UsesInv, InPath
  <1>6. StackOK'
    <2> SUFFICES ASSUME stage = "rename"
                 PROVE  (\E T : stack \in [names -> Seq(T)])' /\ (\E height : StackOf(height))'
      BY <1>1 DEF StackOK
    <2>1. (\E T : stack \in [names -> Seq(T)])'
      BY <1>1 DEF UsesInv, StackOK
    <2>2. PICK height : StackOf(height)
      BY DEF UsesInv, StackOK
    <2>3. ASSUME NEW n, NEW s, NEW j, GivenBy(n, s, j)
          PROVE  GivenBy(n, s, j)'
      BY <1>1, <2>3 DEF GivenBy, Defines, CameBefore
    <2>4. ASSUME NEW j \in 0 .. Len(frames), NEW n \in names, NEW p \in 1 .. height[j + 1][n], NEW s, s = stack[n][p]
          PROVE  GivenBy(n, s, j)'
      BY <2>2, <2>3, <2>4 DEF StackOf
    <2>5. StackOf(height)'
      BY <1>1, <2>2, <2>4 DEF StackOf, GivenBy
    <2> QED
      BY <2>1, <2>5
  <1>7. UsesOK'
    BY <1>1 DEF UsesInv, UsesOK, UseOK, CameBefore, Defines
  <1>8. ArgsOK'
    BY <1>1 DEF UsesInv, ArgsOK, DefinedIn
  <1> QED
    BY <1>2, <1>3, <1>4, <1>5, <1>6, <1>7, <1>8 DEF UsesInv

\* So does every step of the specification.
LEMMA NextKeepsUses == UsesInv /\ [Next]_<<vars, machine>> => UsesInv'
PROOF
  BY ConstructKeepsUses, UsesInvStutters DEF Next

\* The place of a definition in its block is the one its identity says.
LEMMA UsesDefinedBefore ==
  ASSUME UsesInv, NEW b \in Blocks, NEW i, NEW n, NEW s, UseOK(n, s, b, i)
  PROVE  DefinedBefore(n, s, b, i)
PROOF
  <1>1. CASE s = 0
    BY <1>1 DEF DefinedBefore
  <1>2. CASE s # 0
    <2>1. PICK d \in definitions :
             Defines(d, n, s) /\ IF d[3][1] = b THEN CameBefore(d, b, i) ELSE Dominates(program, d[3][1], b)
      BY <1>2 DEF UseOK
    <2>2. ASSUME d[3][1] = b
          PROVE  PositionOf(d[3]) < i
      <3>1. PICK k \in DOMAIN code[b] : k < i /\ code[b][k].id = d[3]
        BY <2>1, <2>2 DEF CameBefore
      <3>2. PICK p : p = PositionOf(d[3])
        OBVIOUS
      <3>3. p \in DOMAIN code[b] /\ code[b][p].id = d[3]
        BY <2>2, <3>1, <3>2 DEF PositionOf
      <3>4. p = k
        BY <3>1, <3>3 DEF UsesInv, IdsDiffer
      <3> QED
        BY <3>1, <3>2, <3>4
    <2> QED
      BY <2>1, <2>2 DEF DefinedBefore, Defines
  <1> QED
    BY <1>1, <1>2

-----------------------------------------------------------------------------
\* At any time of the construction, in both passes: whatever has a version has
\* it from a definition that dominates it, but for the instructions that have
\* an idiom.
DefinedBeforeUse ==
  \A b \in Blocks : \A i \in DOMAIN code[b] :
    /\ code[b][i].idiom = 0 =>
         \A u \in ToSet(code[b][i].uses) : u.sub # NO_SUBSCRIPT => DefinedBefore(u.name, u.sub, b, i)
    /\ \A a \in ToSet(code[b][i].args) :
         a.sub # NO_SUBSCRIPT => DefinedIn(code[b][i].defs[1].name, a.sub, a.source)

\* The invariant says what it is there for.
LEMMA InvDefinedBeforeUse == UsesInv => DefinedBeforeUse
PROOF
  <1> SUFFICES ASSUME UsesInv PROVE DefinedBeforeUse
    OBVIOUS
  <1>1. UsesOK /\ ArgsOK
    BY DEF UsesInv
  <1> QED
    BY <1>1, UsesDefinedBefore DEF UsesOK, ArgsOK, DefinedBeforeUse

(* A version that renameVariables gives to a use, or to an argument of a   *)
(* phi function, was defined on every path that leads there.  What was     *)
(* given in the first pass stays so in the second.                         *)
THEOREM VersionsDominateUses == Spec => []DefinedBeforeUse
PROOF
  <1>1. ExecutionInit => UsesInv
    BY UsesInvInit DEF ExecutionInit
  <1> QED
    BY <1>1, NextKeepsUses, InvDefinedBeforeUse, PTL DEF Spec

\* No switch of the function has an idiom.
WithoutIdioms == \A b \in Blocks : \A i \in DOMAIN program.code[b] : program.code[b][i].idiom = 0
NoIdioms == WithoutIdioms => \A b \in Blocks : \A i \in DOMAIN code[b] : code[b][i].idiom = 0

\* Idioms are as they were lifted, and a phi function has none.
LEMMA IdiomsInit == Init => NoIdioms
PROOF
  <1> SUFFICES ASSUME Init, WithoutIdioms, NEW b \in Blocks, NEW i \in DOMAIN code[b]
               PROVE  code[b][i].idiom = 0
    BY DEF NoIdioms
  <1>1. PICK insts : insts = program.code[b]
    OBVIOUS
  <1>2. code[b] = [k \in DOMAIN insts |-> Lifted(b, k, insts[k])]
    BY <1>1 DEF Init
  <1>3. i \in DOMAIN insts /\ code[b][i] = Lifted(b, i, insts[i])
    BY <1>2
  <1>4. code[b][i].idiom = insts[i].idiom
    BY <1>3 DEF Lifted
  <1> QED
    BY <1>1, <1>3, <1>4 DEF WithoutIdioms

\* Nothing gives an instruction an idiom.
LEMMA IdiomsKept == UsesInv /\ NoIdioms /\ [Next]_<<vars, machine>> => NoIdioms'
PROOF
  <1> SUFFICES ASSUME UsesInv, NoIdioms, [Next]_<<vars, machine>> PROVE NoIdioms'
    OBVIOUS
  <1>1. ASSUME Rewrites PROVE NoIdioms'
    <2>1. Blocks' = Blocks /\ (WithoutIdioms' => WithoutIdioms)
      BY <1>1 DEF Rewrites, Blocks, WithoutIdioms
    <2>2. ASSUME NEW b \in Blocks, NEW i \in DOMAIN code'[b]
          PROVE  i \in DOMAIN code[b] /\ code'[b][i].idiom = code[b][i].idiom
      BY <1>1, <2>2 DEF Rewrites, SameInstruction
    <2> QED
      BY <2>1, <2>2 DEF NoIdioms
  <1>2. CASE PlacePhis
    <2>1. Blocks' = Blocks /\ (WithoutIdioms' => WithoutIdioms)
      BY <1>2 DEF PlacePhis, Blocks, WithoutIdioms
    <2>2. ASSUME NEW b \in Blocks, NEW j \in DOMAIN code'[b]
          PROVE  code'[b][j].idiom = 0 \/ \E i \in DOMAIN code[b] : code'[b][j] = code[b][i]
      <3>1. PICK moved : PlacedIn(b, Least(waiting), moved)
        BY <1>2, PlaceAt
      <3> QED
        BY <3>1 DEF PlacedIn, NewPhi
    <2> QED
      BY <2>1, <2>2 DEF NoIdioms
  <1>3. CASE Elsewhere
    BY <1>1, <1>3, ElsewhereKeepsCode, SameCodeRewrites
  <1>4. CASE RenameInstruction
    BY <1>1, <1>4, RenameAt
  <1>5. CASE FillArguments
    BY <1>1, <1>5, FillAt
  <1>6. CASE CorrectSwitch
    BY <1>1, <1>6, CorrectRewrites
  <1>7. CASE UNCHANGED vars
    BY <1>1, <1>7, SameCodeRewrites DEF vars
  <1> QED
    BY <1>2, <1>3, <1>4, <1>5, <1>6, <1>7 DEF Next, Construct, Elsewhere

(* In a function whose switches have no idiom definitions dominate uses.   *)
(* An idiom may be found on one path only, and then the version it tested  *)
(* does not dominate the switch: where the idiom is found is not known     *)
(* here (getInstructionsByAddress).                                        *)
THEOREM DefinitionsDominate == Spec => [](WithoutIdioms => DefinitionsDominateUses)
PROOF
  <1>1. ExecutionInit => UsesInv /\ NoIdioms
    BY UsesInvInit, IdiomsInit DEF ExecutionInit
  <1>2. UsesInv /\ NoIdioms /\ [Next]_<<vars, machine>> => (UsesInv /\ NoIdioms)'
    BY NextKeepsUses, IdiomsKept
  <1>3. UsesInv /\ NoIdioms => (WithoutIdioms => DefinitionsDominateUses)
    <2> SUFFICES ASSUME UsesInv, NoIdioms, WithoutIdioms PROVE DefinitionsDominateUses
      OBVIOUS
    <2>1. DefinedBeforeUse
      BY InvDefinedBeforeUse
    <2>2. Reached(program) \subseteq Blocks
      BY ProgramsAssumption, ReachedClosed DEF UsesInv, IInv, CodeOK, Blocks
    <2>3. \A b \in Blocks : \A i \in DOMAIN code[b] : code[b][i].idiom = 0
      BY DEF NoIdioms
    <2> QED
      BY <2>1, <2>2, <2>3 DEF DefinitionsDominateUses, DefinedBeforeUse
  <1> QED
    BY <1>1, <1>2, <1>3, PTL DEF Spec

-----------------------------------------------------------------------------
(* Every predecessor fills one argument of each phi function.  A block     *)
(* that has not filled in yet has a call that is about to, or is below a   *)
(* child that is not called yet; it is one of them only.                   *)

WaitsIn(f, v) == (~ f.filled /\ v = f.block) \/ \E c \in f.children : Dominates(program, c, v)
Remaining == {v \in Reached(program) : \E j \in DOMAIN frames : WaitsIn(frames[j], v)}

\* The blocks that have filled in an argument for n in block b.
PredsReached(b) == Preds(program, b) \cap Reached(program)
Sources(b, n) ==
  IF n \notin NamesOf(pass) \/ stage \notin {"place", "rename"} THEN PredsReached(b)
  ELSE IF stage = "place" THEN {} ELSE PredsReached(b) \ Remaining

\* Of m arguments each member of W has filled one, and the others are empty.
IsFilled(a) == a.sub # NO_SUBSCRIPT
HasSources(args, m, W) ==
  /\ DOMAIN args = 1 .. m
  /\ \A w \in W : \E k \in DOMAIN args : IsFilled(args[k]) /\ args[k].source = w
  /\ \A k \in DOMAIN args : IsFilled(args[k]) => args[k].source \in W
  /\ \A k, l \in DOMAIN args : IsFilled(args[k]) /\ IsFilled(args[l]) /\ args[k].source = args[l].source => k = l

PhiFilled(phi, b) == HasSources(phi.args, Cardinality(Preds(program, b)), Sources(b, phi.defs[1].name))

FilledSoFar == \A b \in Blocks : \A i \in DOMAIN code[b] : IsPhi(code[b][i]) => PhiFilled(code[b][i], b)

\* What fills in arguments looks at the leading phi functions only.
LedByPhis(s) == \A i \in DOMAIN s : \A j \in 1 .. i : IsPhi(s[i]) => IsPhi(s[j])
PhisLead == \A b \in Blocks : LedByPhis(code[b])

\* Each call was made by the one below it, which has struck its block off.
Rooted ==
  stage = "rename" =>
    \A j \in DOMAIN frames :
      /\ frames[j].block \in Reached(program)
      /\ j > 1 => frames[j].block \in ImmediatelyDominated(program, frames[j - 1].block) \ frames[j - 1].children

ArgsInv == UsesInv /\ FilledSoFar /\ PhisLead /\ Rooted

\* If not all have filled in an argument, one is empty.
LEMMA ArgumentLeft ==
  ASSUME NEW P, IsFiniteSet(P), NEW W \in SUBSET P, NEW b \in P \ W, NEW args, HasSources(args, Cardinality(P), W)
  PROVE  \E k \in DOMAIN args : ~ IsFilled(args[k])
PROOF
  <1> SUFFICES ASSUME \A k \in DOMAIN args : IsFilled(args[k]) PROVE FALSE
    OBVIOUS
  <1>1. PICK m \in Nat : m = Cardinality(P)
    BY FS_CardinalityType
  <1>2. IsFiniteSet(1 .. m) /\ Cardinality(1 .. m) = m
    <2>1. IsFiniteSet(1 .. m) /\ Cardinality(1 .. m) = IF 1 > m THEN 0 ELSE m - 1 + 1
      BY FS_Interval
    <2> QED
      BY <2>1
  <1>3. IsFiniteSet(W) /\ Cardinality(W) <= m /\ Cardinality(W) # m /\ Cardinality(W) \in Nat
    BY <1>1, FS_Subset, FS_CardinalityType
  <1> DEFINE f == [k \in 1 .. m |-> args[k].source]
  <1>4. DOMAIN args = 1 .. m
    BY <1>1 DEF HasSources
  <1>5. f \in [1 .. m -> W]
    BY <1>4 DEF HasSources
  <1>6. PICK k \in 1 .. m, l \in 1 .. m : k # l /\ f[k] = f[l]
    <2> HIDE DEF f
    <2>1. Cardinality(W) < Cardinality(1 .. m)
      BY <1>2, <1>3
    <2> QED
      BY <2>1, <1>2, <1>3, <1>5, FS_PigeonHole
  <1> QED
    BY <1>4, <1>6 DEF HasSources

\* If all have, none is.
LEMMA NoArgumentLeft ==
  ASSUME NEW P, IsFiniteSet(P), NEW args, HasSources(args, Cardinality(P), P)
  PROVE  {args[k].source : k \in DOMAIN args} = P
PROOF
  <1>1. PICK m \in Nat : m = Cardinality(P)
    BY FS_CardinalityType
  <1>2. IsFiniteSet(1 .. m) /\ Cardinality(1 .. m) = m
    <2>1. IsFiniteSet(1 .. m) /\ Cardinality(1 .. m) = IF 1 > m THEN 0 ELSE m - 1 + 1
      BY FS_Interval
    <2> QED
      BY <2>1
  <1>3. DOMAIN args = 1 .. m
    BY <1>1 DEF HasSources
  <1>4. ASSUME NEW k \in 1 .. m, ~ IsFilled(args[k])
        PROVE  FALSE
    <2> DEFINE I == (1 .. m) \ {k}
               f == [w \in P |-> CHOOSE l \in 1 .. m : IsFilled(args[l]) /\ args[l].source = w]
    <2>1. ASSUME NEW w \in P
          PROVE  f[w] \in I /\ args[f[w]].source = w
      <3>1. \E l \in 1 .. m : IsFilled(args[l]) /\ args[l].source = w
        BY <1>3 DEF HasSources
      <3>2. f[w] \in 1 .. m /\ IsFilled(args[f[w]]) /\ args[f[w]].source = w
        BY <3>1
      <3> QED
        BY <3>2, <1>4
    <2>2. f \in [P -> I]
      BY <2>1
    <2>3. IsFiniteSet(I) /\ Cardinality(I) = m - 1
      BY <1>2, FS_RemoveElement
    <2> HIDE DEF f, I
    <2>4. PICK w \in P, x \in P : w # x /\ f[w] = f[x]
      <3>1. Cardinality(I) < Cardinality(P)
        BY <2>3, <1>1
      <3> QED
        BY <3>1, <2>2, <2>3, FS_PigeonHole
    <2> QED
      BY <2>1, <2>4
  <1>5. \A k \in DOMAIN args : args[k].source \in P
    BY <1>3, <1>4 DEF HasSources
  <1>6. \A w \in P : \E k \in DOMAIN args : args[k].source = w
    BY DEF HasSources
  <1> QED
    BY <1>5, <1>6

\* An empty argument is filled in.
LEMMA OneMoreFilled ==
  ASSUME NEW m, NEW W, NEW args, HasSources(args, m, W), NEW b, b \notin W,
         NEW k \in DOMAIN args, ~ IsFilled(args[k]), NEW e, IsFilled(e), e.source = b
  PROVE  HasSources([args EXCEPT ![k] = e], m, W \cup {b})
PROOF
  <1> DEFINE A == [args EXCEPT ![k] = e]
  <1>1. DOMAIN A = DOMAIN args /\ A[k] = e /\ \A l \in DOMAIN args : l # k => A[l] = args[l]
    OBVIOUS
  <1> HIDE DEF A
  <1>2. \A w \in W \cup {b} : \E l \in DOMAIN A : IsFilled(A[l]) /\ A[l].source = w
    <2>1. ASSUME NEW w \in W
          PROVE  \E l \in DOMAIN A : IsFilled(A[l]) /\ A[l].source = w
      <3>1. PICK l \in DOMAIN args : IsFilled(args[l]) /\ args[l].source = w
        BY DEF HasSources
      <3> QED
        BY <3>1, <1>1
    <2> QED
      BY <2>1, <1>1
  <1>3. \A l \in DOMAIN A : IsFilled(A[l]) => A[l].source \in W \cup {b}
    BY <1>1 DEF HasSources
  <1>4. ASSUME NEW i \in DOMAIN A, NEW j \in DOMAIN A, IsFilled(A[i]), IsFilled(A[j]), A[i].source = A[j].source
        PROVE  i = j
    BY <1>1, <1>4 DEF HasSources
  <1>5. DOMAIN A = 1 .. m
    BY <1>1 DEF HasSources
  <1>6. HasSources(A, m, W \cup {b})
    BY <1>2, <1>3, <1>4, <1>5 DEF HasSources
  <1> QED
    BY <1>6 DEF A

\* Where the phi functions lead they are all leading.
LEMMA AllLead ==
  ASSUME NEW S, NEW s \in Seq(S), LedByPhis(s), NEW k \in DOMAIN s, IsPhi(s[k])
  PROVE  k \in 1 .. LeadingPhis(s)
PROOF
  <1> DEFINE K == {i \in 1 .. Len(s) : \A j \in 1 .. i : IsPhi(s[j])}
  <1>1. PICK m \in Nat : m = Len(s) /\ DOMAIN s = 1 .. m
    OBVIOUS
  <1>2. IsFiniteSet(1 .. m) /\ IsFiniteSet(1 .. k) /\ Cardinality(1 .. k) = k /\ k \in Nat \ {0}
    <2>1. k \in Nat \ {0} /\ k \in Int /\ m \in Int /\ 1 \in Int
      BY <1>1
    <2>2. IsFiniteSet(1 .. k) /\ Cardinality(1 .. k) = IF 1 > k THEN 0 ELSE k - 1 + 1
      BY <2>1, FS_Interval
    <2>3. IsFiniteSet(1 .. m)
      BY <2>1, FS_Interval
    <2> QED
      BY <2>1, <2>2, <2>3
  <1>3. 1 .. k \subseteq K
    <2>1. ASSUME NEW i \in 1 .. k
          PROVE  i \in 1 .. m /\ \A j \in 1 .. i : IsPhi(s[j])
      <3>1. i \in 1 .. m /\ \A j \in 1 .. i : j \in 1 .. k
        BY <1>1
      <3> QED
        BY <3>1 DEF LedByPhis
    <2> QED
      BY <2>1, <1>1
  <1>4. IsFiniteSet(K)
    BY <1>1, <1>2, FS_Subset
  <1> HIDE DEF K
  <1>5. Cardinality(1 .. k) <= Cardinality(K) /\ Cardinality(K) \in Nat
    BY <1>3, <1>4, FS_Subset, FS_CardinalityType
  <1>6. LeadingPhis(s) = Cardinality(K)
    BY DEF LeadingPhis, K
  <1> QED
    BY <1>2, <1>5, <1>6

\* The functions are graphs, so their blocks are finitely many.
LEMMA ProgramIsGraph ==
  ASSUME CodeOK
  PROVE  /\ IsGraph(program) /\ 0 \in Reached(program) /\ Reached(program) \subseteq Blocks
         /\ \A b \in Blocks : IsFiniteSet(Preds(program, b))
PROOF
  <1>1. IsGraph(program)
    BY ProgramsAssumption DEF CodeOK
  <1>2. 0 \in Reached(program) /\ Reached(program) \subseteq Blocks
    BY <1>1, ReachedClosed DEF Blocks
  <1>3. IsFiniteSet(Vertices(program))
    BY <1>1, FS_Interval DEF IsGraph, Vertices
  <1>4. \A b \in Blocks : IsFiniteSet(Preds(program, b))
    BY <1>3, FS_Subset DEF Preds
  <1> QED
    BY <1>1, <1>2, <1>4

\* The topmost call is the last one.
LEMMA TopmostCall ==
  ASSUME NEW S, frames \in Seq(S), frames # <<>>
  PROVE  \E m \in Nat \ {0} : m = Len(frames) /\ DOMAIN frames = 1 .. m /\ Top = frames[m]
PROOF
  <1>1. Len(frames) \in Nat \ {0} /\ Top = frames[Len(frames)]
    BY FrontElements DEF Top
  <1>2. DOMAIN frames = 1 .. Len(frames)
    OBVIOUS
  <1> QED
    BY <1>1, <1>2

\* The topmost call and those below it.
LEMMA RemainingSplit ==
  ASSUME NEW S, frames \in Seq(S), frames # <<>>, NEW v \in Reached(program)
  PROVE  v \in Remaining <=> WaitsIn(Top, v) \/ \E j \in 1 .. Len(frames) - 1 : WaitsIn(frames[j], v)
PROOF
  <1>1. PICK m \in Nat \ {0} : m = Len(frames) /\ DOMAIN frames = 1 .. m /\ Top = frames[m]
    BY TopmostCall
  <1>2. m \in 1 .. m /\ \A j \in 1 .. m : j = m \/ j \in 1 .. m - 1
    BY IndexBelow
  <1>3. \A j \in 1 .. m - 1 : j \in 1 .. m
    OBVIOUS
  <1> QED
    BY <1>1, <1>2, <1>3 DEF Remaining

\* What changes the topmost call only.
LEMMA TopOnly ==
  ASSUME NEW S, frames \in Seq(S), frames # <<>>, NEW f \in S, frames' = WithTop(f), program' = program,
         NEW v \in Reached(program)
  PROVE  v \in Remaining' <=> WaitsIn(f, v) \/ \E j \in 1 .. Len(frames) - 1 : WaitsIn(frames[j], v)
PROOF
  <1>1. PICK m \in Nat \ {0} : m = Len(frames) /\ frames'[m] = f /\ \A j \in 1 .. m - 1 : frames'[j] = frames[j]
    BY TopElements
  <1>2. DOMAIN frames' = 1 .. m
    BY <1>1, TopReplaced, TopElements
  <1>3. m \in 1 .. m /\ \A j \in 1 .. m : j = m \/ j \in 1 .. m - 1
    BY IndexBelow
  <1>4. \A j \in 1 .. m - 1 : j \in 1 .. m
    OBVIOUS
  <1>5. v \in Remaining' <=> \E j \in 1 .. m : WaitsIn(frames'[j], v)
    BY <1>2 DEF Remaining, WaitsIn
  <1> QED
    BY <1>1, <1>3, <1>4, <1>5

\* The first call: every block that can be reached is below the entry.
LEMMA AllRemainAtStart == CodeOK /\ StartRenaming => Remaining' = Reached(program)
PROOF
  <1> SUFFICES ASSUME CodeOK, StartRenaming PROVE Remaining' = Reached(program)
    OBVIOUS
  <1>1. frames' = <<Frame(0)>> /\ program' = program
    BY DEF StartRenaming
  <1>2. DOMAIN frames' = {1} /\ frames'[1] = Frame(0)
    BY <1>1
  <1>3. ~ Frame(0).filled /\ Frame(0).block = 0 /\ Frame(0).children = ImmediatelyDominated(program, 0)
    BY DEF Frame
  <1>4. ASSUME NEW v \in Reached(program)
        PROVE  WaitsIn(Frame(0), v)
    <2>1. CASE v = 0
      BY <2>1, <1>3 DEF WaitsIn
    <2>2. CASE v # 0
      <3>1. Dominates(program, 0, v)
        BY ProgramIsGraph, EntryDominates DEF Blocks
      <3>2. \E c \in ImmediatelyDominated(program, 0) : Dominates(program, c, v)
        BY <2>2, <3>1, ProgramIsGraph, ChildrenCover
      <3> QED
        BY <3>2, <1>3 DEF WaitsIn
    <2> QED
      BY <2>1, <2>2
  <1> QED
    BY <1>1, <1>2, <1>4 DEF Remaining, WaitsIn

\* The block that fills in is not below a child that is not called yet.
LEMMA FilledOnce ==
  ASSUME ArgsInv, FillArguments
  PROVE  Top.block \in Remaining /\ Remaining' = Remaining \ {Top.block}
PROOF
  <1> DEFINE f == [Top EXCEPT !.filled = TRUE]
  <1>1. /\ stage = "rename" /\ frames # <<>> /\ frames' = WithTop(f) /\ frames \in Seq(FrameType)
        /\ program' = program /\ CodeOK /\ ~ Top.filled
    BY DEF FillArguments, ArgsInv, UsesInv, IInv, CountOK
  <1>2. Top \in FrameType
    BY <1>1, TopElements
  <1>3. f \in FrameType /\ f.block = Top.block /\ f.children = Top.children /\ f.filled
    BY <1>2 DEF FrameType
  <1> HIDE DEF f
  <1>4. PICK m \in Nat \ {0} : m = Len(frames) /\ DOMAIN frames = 1 .. m /\ Top = frames[m]
    BY <1>1, TopmostCall
  <1>5. PICK b : b = Top.block
    OBVIOUS
  <1>6. m \in 1 .. m
    OBVIOUS
  <1>7. b \in Reached(program)
    BY <1>1, <1>4, <1>5, <1>6 DEF ArgsInv, Rooted
  <1>8. \A v \in Reached(program) : v \in Remaining <=> WaitsIn(Top, v) \/ \E j \in 1 .. m - 1 : WaitsIn(frames[j], v)
    BY <1>1, <1>4, RemainingSplit
  <1>9. \A v \in Reached(program) : v \in Remaining' <=> WaitsIn(f, v) \/ \E j \in 1 .. m - 1 : WaitsIn(frames[j], v)
    BY <1>1, <1>3, <1>4, TopOnly
  <1>10. b \in Remaining
    BY <1>1, <1>5, <1>7, <1>8 DEF WaitsIn
  <1>11. \A v \in Reached(program) \ {b} : WaitsIn(f, v) <=> WaitsIn(Top, v)
    BY <1>3, <1>5 DEF WaitsIn
  <1>12. ~ WaitsIn(f, b)
    <2> SUFFICES ASSUME NEW c \in Top.children, Dominates(program, c, b) PROVE FALSE
      BY <1>3 DEF WaitsIn
    <2>1. c \in ImmediatelyDominated(program, b)
      BY <1>1, <1>4, <1>5, <1>6 DEF ArgsInv, UsesInv, InPath
    <2>2. c # b /\ Dominates(program, b, c)
      BY <2>1 DEF ImmediatelyDominated, StrictDominators
    <2> QED
      BY <2>2, <1>1, <1>7, ProgramIsGraph, DominatesAntisymmetric
  <1>13. ASSUME NEW j \in 1 .. m - 1
         PROVE  ~ WaitsIn(frames[j], b)
    <2>1. /\ j \in 1 .. m /\ j + 1 \in 1 .. m /\ j + 1 > 1 /\ j + 1 - 1 = j /\ j \in 1 .. m - 1
          /\ (j + 1 = m \/ j + 1 \in 1 .. m - 1)
      OBVIOUS
    <2>2. PICK e : e = frames[j + 1].block
      OBVIOUS
    <2>3. frames[j].block # b
      BY <2>1, <1>1, <1>4, <1>5, <1>6 DEF ArgsInv, UsesInv, InPath
    <2>4. Dominates(program, e, b)
      <3>1. CASE j + 1 = m
        BY <3>1, <2>2, <1>4, <1>5 DEF Dominates
      <3>2. CASE j + 1 \in 1 .. m - 1
        BY <3>2, <2>2, <1>1, <1>4, <1>5, <1>6 DEF ArgsInv, UsesInv, InPath
      <3> QED
        BY <2>1, <3>1, <3>2
    <2>5. e \in ImmediatelyDominated(program, frames[j].block) \ frames[j].children
      BY <2>1, <2>2, <1>1, <1>4 DEF ArgsInv, Rooted
    <2>6. ASSUME NEW c \in frames[j].children, Dominates(program, c, b)
          PROVE  FALSE
      <3>1. c \in ImmediatelyDominated(program, frames[j].block)
        BY <2>1, <1>1, <1>4 DEF ArgsInv, UsesInv, InPath
      <3>2. c = e
        BY <3>1, <2>4, <2>5, <2>6, <1>1, <1>7, ProgramIsGraph, ChildrenDisjoint
      <3> QED
        BY <3>2, <2>5
    <2> QED
      BY <2>3, <2>6 DEF WaitsIn
  <1>14. Remaining \subseteq Reached(program) /\ Remaining' \subseteq Reached(program)
    BY <1>1 DEF Remaining
  <1> QED
    BY <1>5, <1>8, <1>9, <1>10, <1>11, <1>12, <1>13, <1>14

\* Renaming an instruction changes nothing of that.
LEMMA RenameKeepsRemaining ==
  ASSUME ArgsInv, RenameInstruction
  PROVE  Remaining' = Remaining /\ Rooted'
PROOF
  <1> DEFINE pushes == [n \in names |-> NumberOfPushes(Current, n, Len(Current.defs))]
             f == [[Top EXCEPT !.next = @ + 1] EXCEPT !.pushed = [n \in names |-> @[n] + pushes[n]]]
  <1>1. /\ frames \in Seq(FrameType) /\ frames # <<>> /\ stage = "rename" /\ program' = program
        /\ frames' = WithTop(f)
    BY DEF ArgsInv, UsesInv, IInv, CountOK, RenameInstruction
  <1>2. DOMAIN Top = {"block", "next", "filled", "children", "pushed"}
    <2>1. Top \in FrameType
      BY <1>1, FrontElements DEF Top
    <2> QED
      BY <2>1 DEF FrameType
  <1>3. f.block = Top.block /\ f.filled = Top.filled /\ f.children = Top.children
    BY <1>2
  <1> HIDE DEF f, pushes
  <1>4. PICK S : frames \in Seq(S) /\ f \in S
    <2>1. frames \in Seq(FrameType \cup {f}) /\ f \in FrameType \cup {f}
      BY <1>1, SeqMonotonic
    <2> QED
      BY <2>1
  <1>5. PICK m \in Nat \ {0} : m = Len(frames) /\ DOMAIN frames = 1 .. m /\ Top = frames[m]
    BY <1>1, TopmostCall
  <1>6. Remaining' = Remaining
    <2>1. \A v \in Reached(program) : v \in Remaining <=> WaitsIn(Top, v) \/ \E j \in 1 .. m - 1 : WaitsIn(frames[j], v)
      BY <1>1, <1>5, RemainingSplit
    <2>2. \A v \in Reached(program) : v \in Remaining' <=> WaitsIn(f, v) \/ \E j \in 1 .. m - 1 : WaitsIn(frames[j], v)
      BY <1>1, <1>4, <1>5, TopOnly
    <2>3. \A v : WaitsIn(f, v) <=> WaitsIn(Top, v)
      BY <1>3 DEF WaitsIn
    <2>4. Remaining \subseteq Reached(program) /\ Remaining' \subseteq Reached(program)
      BY <1>1 DEF Remaining
    <2> QED
      BY <2>1, <2>2, <2>3, <2>4
  <1>7. Rooted'
    <2>1. Len(frames') = m /\ frames'[m] = f /\ \A j \in 1 .. m - 1 : frames'[j] = frames[j]
      BY <1>1, <1>4, <1>5, TopElements
    <2>2. DOMAIN frames' = 1 .. m
      BY <1>1, <1>4, <2>1, TopReplaced
    <2>3. ASSUME NEW j \in 1 .. m
          PROVE  frames'[j].block = frames[j].block /\ frames'[j].children = frames[j].children
      <3>1. j = m \/ j \in 1 .. m - 1
        OBVIOUS
      <3> QED
        BY <3>1, <2>1, <1>3, <1>5
    <2>4. \A j \in 1 .. m : j > 1 => j - 1 \in 1 .. m
      OBVIOUS
    <2> QED
      BY <1>1, <1>5, <2>2, <2>3, <2>4 DEF ArgsInv, Rooted
  <1> QED
    BY <1>6, <1>7

\* The calls stay with their blocks.
LEMMA FillKeepsRooted == ArgsInv /\ FillArguments => Rooted'
PROOF
  <1> SUFFICES ASSUME ArgsInv, FillArguments PROVE Rooted'
    OBVIOUS
  <1> DEFINE f == [Top EXCEPT !.filled = TRUE]
  <1>1. /\ frames \in Seq(FrameType) /\ frames # <<>> /\ stage = "rename" /\ program' = program
        /\ frames' = WithTop(f)
    BY DEF ArgsInv, UsesInv, IInv, CountOK, FillArguments
  <1>2. Top \in FrameType
    BY <1>1, TopElements
  <1>3. f \in FrameType /\ f.block = Top.block /\ f.children = Top.children
    BY <1>2 DEF FrameType
  <1> HIDE DEF f
  <1>5. PICK m \in Nat \ {0} : m = Len(frames) /\ DOMAIN frames = 1 .. m /\ Top = frames[m]
    BY <1>1, TopmostCall
  <1>6. Len(frames') = m /\ frames'[m] = f /\ \A j \in 1 .. m - 1 : frames'[j] = frames[j]
    BY <1>1, <1>3, <1>5, TopElements
  <1>7. DOMAIN frames' = 1 .. m
    BY <1>1, <1>3, <1>6, TopReplaced
  <1>8. ASSUME NEW j \in 1 .. m
        PROVE  frames'[j].block = frames[j].block /\ frames'[j].children = frames[j].children
    <2>1. j = m \/ j \in 1 .. m - 1
      OBVIOUS
    <2> QED
      BY <2>1, <1>3, <1>5, <1>6
  <1>9. \A j \in 1 .. m : j > 1 => j - 1 \in 1 .. m
    OBVIOUS
  <1> QED
    BY <1>1, <1>5, <1>7, <1>8, <1>9 DEF ArgsInv, Rooted

\* The call for a child: what the child dominates is below it.
LEMMA ChildKeepsRemaining ==
  ASSUME ArgsInv, RenameChild
  PROVE  Remaining' = Remaining /\ Rooted'
PROOF
  <1> DEFINE c == Least(Top.children)
             f == [Top EXCEPT !.children = @ \ {c}]
  <1>1. /\ frames \in Seq(FrameType) /\ frames # <<>> /\ stage = "rename" /\ program' = program
        /\ frames' = Append(WithTop(f), Frame(c)) /\ CodeOK /\ Top.filled /\ Top.children # {}
    BY DEF ArgsInv, UsesInv, IInv, CountOK, RenameChild
  <1>2. Top \in FrameType
    BY <1>1, TopElements
  <1>3. f \in FrameType /\ f.block = Top.block /\ f.children = Top.children \ {c} /\ f.filled = Top.filled
    BY <1>2 DEF FrameType
  <1>4. c \in Top.children /\ c \in Blocks
    <2>1. Top.children \subseteq Blocks /\ Blocks \subseteq Nat
      BY <1>2 DEF FrameType, Blocks, Vertices
    <2> QED
      BY <2>1, <1>1, LeastIsMember
  <1>5. PICK d : d = c
    OBVIOUS
  <1> HIDE DEF f, c
  <1>6. PICK m \in Nat \ {0} : m = Len(frames) /\ DOMAIN frames = 1 .. m /\ Top = frames[m]
    BY <1>1, TopmostCall
  <1>7. PICK e \in FrameType : e = Frame(d)
    BY <1>1, <1>4, <1>5, NewFrame
  <1>8. PICK r \in Seq(FrameType) : r = WithTop(f)
    BY <1>1, <1>3, TopReplaced
  <1>9. Len(r) = m /\ r[m] = f /\ \A j \in 1 .. m - 1 : r[j] = frames[j]
    BY <1>1, <1>3, <1>6, <1>8, TopElements
  <1>10. /\ frames' \in Seq(FrameType) /\ Len(frames') = m + 1 /\ frames'[m + 1] = e
         /\ \A j \in 1 .. m : frames'[j] = r[j]
    <2>1. frames' = Append(r, e)
      BY <1>1, <1>5, <1>7, <1>8
    <2> QED
      BY <2>1, <1>7, <1>8, <1>9, AppendProperties
  <1>11. DOMAIN frames' = 1 .. m + 1
    BY <1>10
  <1>12. e.block = d /\ ~ e.filled /\ e.children = ImmediatelyDominated(program, d)
    BY <1>7 DEF Frame
  <1>13. d \in Top.children /\ d \in ImmediatelyDominated(program, Top.block)
    <2>1. m \in 1 .. m
      OBVIOUS
    <2> QED
      BY <2>1, <1>1, <1>4, <1>5, <1>6 DEF ArgsInv, UsesInv, InPath
  <1>14. d \in Reached(program)
    BY <1>13 DEF ImmediatelyDominated
  <1>15. ASSUME NEW v \in Reached(program)
         PROVE  WaitsIn(Top, v) <=> WaitsIn(f, v) \/ WaitsIn(e, v)
    <2>1. WaitsIn(e, v) <=> Dominates(program, d, v)
      <3>1. ASSUME v # d, Dominates(program, d, v)
            PROVE  \E x \in ImmediatelyDominated(program, d) : Dominates(program, x, v)
        BY <3>1, <1>1, ProgramIsGraph, ChildrenCover
      <3>2. ASSUME NEW x \in ImmediatelyDominated(program, d), Dominates(program, x, v)
            PROVE  Dominates(program, d, v)
        <4>1. Dominates(program, d, x)
          BY DEF ImmediatelyDominated, StrictDominators
        <4> QED
          BY <4>1, <3>2, <1>1, ProgramIsGraph, DominatesTransitive
      <3>3. Dominates(program, d, d)
        BY DEF Dominates
      <3> QED
        BY <3>1, <3>2, <3>3, <1>12 DEF WaitsIn
    <2>2. WaitsIn(Top, v) <=> \E x \in Top.children : Dominates(program, x, v)
      BY <1>1 DEF WaitsIn
    <2>3. WaitsIn(f, v) <=> \E x \in Top.children \ {d} : Dominates(program, x, v)
      BY <1>1, <1>3, <1>5 DEF WaitsIn
    <2> QED
      BY <2>1, <2>2, <2>3, <1>13
  <1>16. Remaining' = Remaining
    <2>1. \A v \in Reached(program) : v \in Remaining <=> WaitsIn(Top, v) \/ \E j \in 1 .. m - 1 : WaitsIn(frames[j], v)
      BY <1>1, <1>6, RemainingSplit
    <2>2. \A j \in 1 .. m + 1 : j = m + 1 \/ j = m \/ j \in 1 .. m - 1
      OBVIOUS
    <2>3. m \in 1 .. m + 1 /\ m + 1 \in 1 .. m + 1 /\ \A j \in 1 .. m - 1 : j \in 1 .. m + 1
      OBVIOUS
    <2>4. frames'[m] = f /\ \A j \in 1 .. m - 1 : frames'[j] = frames[j]
      <3>1. m \in 1 .. m /\ \A j \in 1 .. m - 1 : j \in 1 .. m
        OBVIOUS
      <3> QED
        BY <3>1, <1>9, <1>10
    <2>5. \A v \in Reached(program) : v \in Remaining' <=> \E j \in 1 .. m + 1 : WaitsIn(frames'[j], v)
      BY <1>1, <1>11 DEF Remaining, WaitsIn
    <2>6. \A v \in Reached(program) :
             v \in Remaining' <=> WaitsIn(e, v) \/ WaitsIn(f, v) \/ \E j \in 1 .. m - 1 : WaitsIn(frames[j], v)
      BY <2>2, <2>3, <2>4, <2>5, <1>10
    <2>7. Remaining \subseteq Reached(program) /\ Remaining' \subseteq Reached(program)
      BY <1>1 DEF Remaining
    <2> QED
      BY <2>1, <2>6, <2>7, <1>15
  <1>17. Rooted'
    <2>1. ASSUME NEW j \in 1 .. m
          PROVE  frames'[j].block = frames[j].block /\ frames'[j].children \subseteq frames[j].children
      <3>1. j = m \/ j \in 1 .. m - 1
        OBVIOUS
      <3> QED
        BY <3>1, <1>3, <1>6, <1>9, <1>10
    <2>2. ASSUME NEW j \in 1 .. m + 1
          PROVE  /\ frames'[j].block \in Reached(program)
                 /\ j > 1 => frames'[j].block \in ImmediatelyDominated(program, frames'[j - 1].block) \ frames'[j - 1].children
      <3>1. CASE j = m + 1
        <4>1. frames'[m].children = Top.children \ {d} /\ frames'[m].block = Top.block
          <5>1. m \in 1 .. m
            OBVIOUS
          <5> QED
            BY <5>1, <1>3, <1>5, <1>9, <1>10
        <4>2. j - 1 = m
          BY <3>1
        <4> QED
          BY <4>1, <4>2, <3>1, <1>10, <1>12, <1>13, <1>14
      <3>2. CASE j \in 1 .. m
        <4>1. j > 1 => j - 1 \in 1 .. m
          BY <3>2
        <4>2. /\ frames[j].block \in Reached(program)
              /\ j > 1 => frames[j].block \in ImmediatelyDominated(program, frames[j - 1].block) \ frames[j - 1].children
          BY <3>2, <1>1, <1>6 DEF ArgsInv, Rooted
        <4> QED
          BY <4>1, <4>2, <3>2, <2>1
      <3>3. j = m + 1 \/ j \in 1 .. m
        OBVIOUS
      <3> QED
        BY <3>1, <3>2, <3>3
    <2> QED
      BY <2>2, <1>1, <1>11 DEF Rooted
  <1> QED
    BY <1>16, <1>17

\* A call that returns has filled in and called all its children.
LEMMA ReturnKeepsRemaining ==
  ASSUME ArgsInv, ReturnFromBlock
  PROVE  Remaining' = Remaining /\ Rooted'
PROOF
  <1>1. /\ frames \in Seq(FrameType) /\ frames # <<>> /\ stage = "rename" /\ program' = program
        /\ frames' = Front(frames) /\ Top.filled /\ Top.children = {}
    BY DEF ArgsInv, UsesInv, IInv, CountOK, ReturnFromBlock
  <1>2. PICK m \in Nat \ {0} : m = Len(frames) /\ DOMAIN frames = 1 .. m /\ Top = frames[m]
    BY <1>1, TopmostCall
  <1>3. Len(frames') = m - 1 /\ DOMAIN frames' = 1 .. m - 1 /\ \A j \in 1 .. m - 1 : frames'[j] = frames[j]
    <2>1. frames' \in Seq(FrameType) /\ Len(frames') = m - 1 /\ \A j \in 1 .. m - 1 : frames'[j] = frames[j]
      BY <1>1, <1>2, FrontElements
    <2> QED
      BY <2>1
  <1>4. Remaining' = Remaining
    <2>1. \A v \in Reached(program) : v \in Remaining <=> WaitsIn(Top, v) \/ \E j \in 1 .. m - 1 : WaitsIn(frames[j], v)
      BY <1>1, <1>2, RemainingSplit
    <2>2. \A v : ~ WaitsIn(Top, v)
      BY <1>1 DEF WaitsIn
    <2>3. \A v \in Reached(program) : v \in Remaining' <=> \E j \in 1 .. m - 1 : WaitsIn(frames[j], v)
      BY <1>1, <1>3 DEF Remaining, WaitsIn
    <2>4. Remaining \subseteq Reached(program) /\ Remaining' \subseteq Reached(program)
      BY <1>1 DEF Remaining
    <2> QED
      BY <2>1, <2>2, <2>3, <2>4
  <1>5. Rooted'
    <2>1. \A j \in 1 .. m - 1 : j \in 1 .. m /\ (j > 1 => j - 1 \in 1 .. m - 1)
      OBVIOUS
    <2> QED
      BY <2>1, <1>1, <1>2, <1>3 DEF ArgsInv, Rooted
  <1> QED
    BY <1>4, <1>5

\* A version that is filled in is one.
LEMMA VersionIsFilled ==
  ASSUME UsesInv, stage = "rename", NEW n \in names
  PROVE  Version(n) # NO_SUBSCRIPT
PROOF
  <1>1. PICK s : s = Version(n)
    OBVIOUS
  <1>2. GivenBy(n, s, Len(frames))
    BY <1>1, VersionGiven
  <1>3. \A d \in definitions : d[1] \in names => d[2] \in Nat
    BY DEF UsesInv, IInv, CountOK
  <1>4. s = 0 \/ \E d \in definitions : d[1] = n /\ d[2] = s
    BY <1>2 DEF GivenBy, Defines
  <1>5. s \in Nat
    BY <1>3, <1>4
  <1> QED
    BY <1>1, <1>5 DEF NO_SUBSCRIPT

\* The phi functions that get an argument.
LEMMA FillExactly ==
  ASSUME UsesInv, FillArguments, NEW c \in Blocks, NEW k \in DOMAIN code[c]
  PROVE  code'[c][k] = IF c \in Succs(program, Top.block) /\ k \in ToFill(c)
                       THEN WithArgument(code[c][k], Top.block) ELSE code[c][k]
PROOF
  <1> DEFINE b == Top.block
  <1>1. code' = [s \in Blocks |->
                   IF s \notin Succs(program, b) THEN code[s]
                   ELSE [j \in DOMAIN code[s] |->
                           IF j \in ToFill(s) THEN WithArgument(code[s][j], b) ELSE code[s][j]]]
    BY DEF FillArguments
  <1> HIDE DEF b
  <1>2. c \in Succs(program, b) =>
          code'[c][k] = IF k \in ToFill(c) THEN WithArgument(code[c][k], b) ELSE code[c][k]
    BY <1>1
  <1>3. c \notin Succs(program, b) => code'[c][k] = code[c][k]
    BY <1>1
  <1> QED
    BY <1>2, <1>3 DEF b

\* An argument of a phi function that has none from block b is empty, and gets it.
LEMMA ArgumentFilled ==
  ASSUME NEW phi, WellFormed(phi), NEW P, IsFiniteSet(P), NEW W \in SUBSET P, NEW b \in P \ W,
         HasSources(phi.args, Cardinality(P), W), Version(phi.defs[1].name) # NO_SUBSCRIPT
  PROVE  HasSources(WithArgument(phi, b).args, Cardinality(P), W \cup {b})
PROOF
  <1> DEFINE empty == {k \in DOMAIN phi.args : phi.args[k].sub = NO_SUBSCRIPT}
             e == [sub |-> Version(phi.defs[1].name), source |-> b]
  <1>1. empty # {}
    BY ArgumentLeft DEF IsFilled
  <1>2. empty \subseteq Nat
    <2>1. Cardinality(P) \in Nat /\ DOMAIN phi.args = 1 .. Cardinality(P)
      BY FS_CardinalityType DEF HasSources
    <2> QED
      BY <2>1
  <1>3. PICK k : k = Least(empty)
    OBVIOUS
  <1>4. k \in empty
    <2> HIDE DEF empty
    <2> QED
      BY <1>1, <1>2, <1>3, LeastIsMember
  <1>5. WithArgument(phi, b) = [phi EXCEPT !.args = [@ EXCEPT ![k] = e]]
    BY <1>1, <1>3 DEF WithArgument
  <1>6. DOMAIN phi = Fields
    BY DEF WellFormed
  <1>7. WithArgument(phi, b).args = [phi.args EXCEPT ![k] = e]
    BY <1>5, <1>6 DEF Fields
  <1>8. IsFilled(e) /\ e.source = b /\ ~ IsFilled(phi.args[k]) /\ k \in DOMAIN phi.args
    BY <1>4 DEF IsFilled
  <1> HIDE DEF e
  <1>9. HasSources([phi.args EXCEPT ![k] = e], Cardinality(P), W \cup {b})
    BY <1>8, OneMoreFilled
  <1> QED
    BY <1>7, <1>9

\* Each phi function of a successor gets one argument more, no other gets any.
LEMMA FillKeepsFilled == ArgsInv /\ FillArguments => FilledSoFar'
PROOF
  <1> SUFFICES ASSUME ArgsInv, FillArguments PROVE FilledSoFar'
    OBVIOUS
  <1>1. /\ UsesInv /\ CodeOK /\ stage = "rename" /\ stage' = "rename" /\ UNCHANGED <<pass, program, names>>
        /\ Blocks' = Blocks /\ NamesOf(pass)' = NamesOf(pass)
    BY DEF FillArguments, ArgsInv, UsesInv, IInv, Blocks, NamesOf
  <1>2. PICK b : b = Top.block
    OBVIOUS
  <1>3. b \in Remaining /\ Remaining' = Remaining \ {b} /\ b \in Reached(program)
    BY <1>2, FilledOnce DEF Remaining
  <1>4. \A c : PredsReached(c)' = PredsReached(c)
    BY <1>1 DEF PredsReached
  <1>5. ASSUME NEW c \in Blocks, NEW k \in DOMAIN code'[c], NEW y, y = code'[c][k], IsPhi(y)
        PROVE  HasSources(y.args, Cardinality(Preds(program, c)), Sources(c, y.defs[1].name)')
    <2>1. PICK x : x = code[c][k]
      OBVIOUS
    <2>2. k \in DOMAIN code[c] /\ SameInstruction(y, x) /\ Shape(x, c) /\ WellFormed(x)
      <3>1. k \in DOMAIN code[c]
        BY <1>1, <1>5, FillAt DEF Rewrites
      <3> QED
        BY <3>1, <2>1, <1>1, <1>5, FillAt DEF Rewrites, FilledBy
    <2>3. PICK n : n = x.defs[1].name
      OBVIOUS
    <2>4. IsPhi(x) /\ y.defs[1].name = n
      BY <2>2, <2>3, <1>5 DEF SameInstruction, IsPhi, Shape
    <2>5. HasSources(x.args, Cardinality(Preds(program, c)), Sources(c, n))
      BY <2>1, <2>2, <2>3, <2>4 DEF ArgsInv, FilledSoFar, PhiFilled
    <2>6. y = IF c \in Succs(program, b) /\ k \in ToFill(c) THEN WithArgument(x, b) ELSE x
      BY <2>1, <2>2, <1>1, <1>2, <1>5, FillExactly
    <2>7. CASE n \notin NamesOf(pass)
      <3>1. k \notin ToFill(c)
        BY <2>1, <2>3, <2>7 DEF ToFill
      <3>2. Sources(c, n)' = Sources(c, n)
        BY <2>7, <1>1, <1>4 DEF Sources
      <3> QED
        BY <2>4, <2>5, <2>6, <3>1, <3>2
    <2>8. CASE n \in NamesOf(pass) /\ c \notin Succs(program, b)
      <3>1. b \notin PredsReached(c)
        BY <2>8, <1>5 DEF PredsReached, Preds, Succs, Blocks
      <3>2. Sources(c, n)' = Sources(c, n)
        BY <3>1, <2>8, <1>1, <1>3, <1>4 DEF Sources
      <3> QED
        BY <2>4, <2>5, <2>6, <2>8, <3>2
    <2>9. CASE n \in NamesOf(pass) /\ c \in Succs(program, b)
      <3> DEFINE P == Preds(program, c)
                 W == Sources(c, n)
      <3>1. k \in ToFill(c)
        <4>1. PICK S : code[c] \in Seq(S)
          BY <1>1 DEF CodeOK
        <4>2. LedByPhis(code[c])
          BY DEF ArgsInv, PhisLead
        <4>3. k \in 1 .. LeadingPhis(code[c])
          BY <4>1, <4>2, <2>1, <2>2, <2>4, AllLead
        <4> QED
          BY <4>3, <2>1, <2>3, <2>9 DEF ToFill
      <3>2. b \in P \ W /\ W \in SUBSET P /\ IsFiniteSet(P)
        <4>1. b \in P
          BY <2>9, <1>1, <1>3, ProgramIsGraph DEF Preds, Succs, Blocks
        <4>2. b \notin W /\ W \subseteq P
          BY <2>9, <1>1, <1>3 DEF Sources, PredsReached
        <4> QED
          BY <4>1, <4>2, <1>1, ProgramIsGraph
      <3>3. n \in names
        <4>1. PhiNamed(n, c)
          BY <2>1, <2>2, <2>3, <2>4, <1>1 DEF UsesInv, PhisNamed
        <4> QED
          BY <4>1, <2>9, <1>1 DEF PhiNamed
      <3>4. Version(x.defs[1].name) # NO_SUBSCRIPT
        BY <3>3, <2>3, <1>1, VersionIsFilled
      <3>5. y = WithArgument(x, b)
        BY <3>1, <2>6, <2>9
      <3>6. Sources(c, n)' = W \cup {b}
        <4>1. b \in PredsReached(c)
          BY <3>2, <1>3 DEF PredsReached
        <4> QED
          BY <4>1, <2>9, <1>1, <1>3, <1>4 DEF Sources
      <3> HIDE DEF P, W
      <3>7. HasSources(x.args, Cardinality(P), W)
        BY <2>5 DEF P, W
      <3>8. HasSources(y.args, Cardinality(P), W \cup {b})
        BY <3>2, <3>4, <3>5, <3>7, <2>2, ArgumentFilled
      <3> QED
        BY <3>6, <3>8, <2>4 DEF P
    <2> QED
      BY <2>7, <2>8, <2>9
  <1>6. ASSUME NEW c \in Blocks, NEW k \in DOMAIN code'[c], IsPhi(code'[c][k])
        PROVE  PhiFilled(code[c][k], c)'
    BY <1>5, <1>6, <1>1 DEF PhiFilled
  <1> QED
    BY <1>1, <1>6 DEF FilledSoFar, IsPhi

\* Phi functions stay in front when instructions stay what they are.
LEMMA RewritesKeepLead == CodeOK /\ PhisLead /\ Rewrites => PhisLead'
PROOF
  <1> SUFFICES ASSUME CodeOK, PhisLead, Rewrites PROVE PhisLead'
    OBVIOUS
  <1>1. Blocks' = Blocks
    BY DEF Rewrites, Blocks
  <1>2. ASSUME NEW b \in Blocks, NEW s, s = code'[b]
        PROVE  LedByPhis(s)
    <2>1. DOMAIN s = DOMAIN code[b] /\ \A i \in DOMAIN s : IsPhi(s[i]) <=> IsPhi(code[b][i])
      BY <1>2 DEF Rewrites, SameInstruction, IsPhi
    <2>2. ASSUME NEW i \in DOMAIN s, NEW j \in 1 .. i, IsPhi(s[i])
          PROVE  IsPhi(s[j])
      <3>1. LedByPhis(code[b])
        BY DEF PhisLead
      <3>2. IsPhi(code[b][i]) /\ IsPhi(code[b][j])
        BY <2>1, <2>2, <3>1 DEF LedByPhis
      <3>3. j \in DOMAIN s
        <4>1. PICK S : code[b] \in Seq(S)
          BY DEF CodeOK
        <4>2. DOMAIN code[b] = 1 .. Len(code[b]) /\ Len(code[b]) \in Nat
          BY <4>1
        <4> QED
          BY <4>2, <2>1, <2>2
      <3> QED
        BY <2>1, <3>2, <3>3
    <2> QED
      BY <2>2 DEF LedByPhis
  <1> QED
    BY <1>1, <1>2 DEF PhisLead, LedByPhis, IsPhi

\* Arguments stay when neither they nor the blocks that have filled them in change.
LEMMA ArgumentsKept ==
  ASSUME ArgsInv, Rewrites, \A b \in Blocks : \A i \in DOMAIN code[b] : code'[b][i].args = code[b][i].args,
         \A b \in Blocks : \A n : PhiNamed(n, b) => Sources(b, n)' = Sources(b, n)
  PROVE  FilledSoFar'
PROOF
  <1>1. Blocks' = Blocks /\ program' = program
    BY DEF Rewrites, Blocks
  <1>2. ASSUME NEW b \in Blocks, NEW i \in DOMAIN code'[b], IsPhi(code'[b][i])
        PROVE  PhiFilled(code[b][i], b)'
    <2>1. PICK x, y : x = code[b][i] /\ y = code'[b][i]
      OBVIOUS
    <2>2. i \in DOMAIN code[b] /\ SameInstruction(y, x) /\ Shape(x, b) /\ y.args = x.args
      BY <2>1, <1>2 DEF Rewrites, ArgsInv, UsesInv, Shaped
    <2>3. IsPhi(x) /\ y.defs[1].name = x.defs[1].name
      BY <2>1, <2>2, <1>2 DEF SameInstruction, IsPhi, Shape
    <2>4. PICK n : n = x.defs[1].name
      OBVIOUS
    <2>5. PhiNamed(n, b)
      BY <2>1, <2>2, <2>3, <2>4 DEF ArgsInv, UsesInv, PhisNamed
    <2>6. HasSources(y.args, Cardinality(Preds(program, b)), Sources(b, n))
      BY <2>1, <2>2, <2>3, <2>4 DEF ArgsInv, FilledSoFar, PhiFilled
    <2>7. HasSources(y.args, Cardinality(Preds(program, b)), Sources(b, n)')
      BY <2>5, <2>6
    <2> QED
      BY <2>1, <2>3, <2>4, <2>7, <1>1 DEF PhiFilled
  <1> QED
    BY <1>1, <1>2 DEF FilledSoFar, IsPhi

\* The stages in which all predecessors count: no phi function waits for them
\* before a pass places its own, nor after it has renamed.
LEMMA SourcesKept ==
  ASSUME ArgsInv, Elsewhere
  PROVE  \A b \in Blocks : \A n : PhiNamed(n, b) => Sources(b, n)' = Sources(b, n)
PROOF
  <1> SUFFICES ASSUME NEW b \in Blocks, NEW n, PhiNamed(n, b) PROVE Sources(b, n)' = Sources(b, n)
    OBVIOUS
  <1>1. program' = program /\ PredsReached(b)' = PredsReached(b) /\ CodeOK
    BY ElsewhereKeepsCode DEF PredsReached, ArgsInv, UsesInv, IInv
  <1>2. ASSUME pass' = pass PROVE NamesOf(pass)' = NamesOf(pass)
    BY <1>2 DEF NamesOf
  <1>3. ASSUME stage \notin {"place", "rename"}, stage' \notin {"place", "rename"}
        PROVE  Sources(b, n)' = Sources(b, n)
    BY <1>1, <1>3 DEF Sources
  <1>4. CASE ComputeDominanceFrontier \/ Compute_Aorig \/ AddUsedRelatedToDefinedRegisters
    BY <1>3, <1>4 DEF ComputeDominanceFrontier, Compute_Aorig, AddUsedRelatedToDefinedRegisters
  <1>5. CASE StartPlacing
    <2>1. stage = "related" /\ stage' = "place" /\ pass' = pass
      BY <1>5 DEF StartPlacing
    <2>2. n \notin NamesOf(pass)
      BY <2>1 DEF PhiNamed
    <2> QED
      BY <2>1, <2>2, <1>1, <1>2 DEF Sources
  <1>6. CASE NextName
    <2>1. stage = "place" /\ stage' = "place" /\ pass' = pass
      BY <1>6 DEF NextName
    <2> QED
      BY <2>1, <1>1, <1>2 DEF Sources
  <1>7. CASE StartRenaming
    <2>1. stage = "place" /\ stage' = "rename" /\ pass' = pass
      BY <1>7 DEF StartRenaming
    <2>2. Remaining' = Reached(program)
      BY <1>1, <1>7, AllRemainAtStart
    <2>3. PredsReached(b) \ Remaining' = {}
      BY <2>2 DEF PredsReached
    <2> QED
      BY <2>1, <2>3, <1>1, <1>2 DEF Sources
  <1>8. CASE RenameChild \/ ReturnFromBlock
    <2>1. stage = "rename" /\ stage' = "rename" /\ pass' = pass
      BY <1>8 DEF RenameChild, ReturnFromBlock
    <2>2. Remaining' = Remaining
      BY <1>8, ChildKeepsRemaining, ReturnKeepsRemaining
    <2> QED
      BY <2>1, <2>2, <1>1, <1>2 DEF Sources
  <1>9. CASE StartSwitches
    <2>1. stage = "rename" /\ stage' = "switch" /\ frames = <<>>
      BY <1>9 DEF StartSwitches
    <2>2. Remaining = {}
      BY <2>1 DEF Remaining
    <2> QED
      BY <2>1, <2>2, <1>1 DEF Sources
  <1>10. CASE NextSwitch \/ SearchBlock \/ ReturnFromSearch \/ GiveUp
    BY <1>3, <1>10 DEF NextSwitch, SearchBlock, ReturnFromSearch, GiveUp
  <1>11. CASE EndPass
    BY <1>3, <1>11 DEF EndPass
  <1> QED
    BY <1>4, <1>5, <1>6, <1>7, <1>8, <1>9, <1>10, <1>11 DEF Elsewhere

\* Nothing else touches an argument.
LEMMA ElsewhereKeepsArgs == ArgsInv /\ Elsewhere => (FilledSoFar /\ PhisLead)'
PROOF
  <1> SUFFICES ASSUME ArgsInv, Elsewhere PROVE (FilledSoFar /\ PhisLead)'
    OBVIOUS
  <1>1. Rewrites /\ \A b \in Blocks : \A i \in DOMAIN code[b] : code'[b][i].args = code[b][i].args
    BY ElsewhereKeepsCode, SameCodeRewrites
  <1>2. FilledSoFar'
    BY <1>1, SourcesKept, ArgumentsKept
  <1> QED
    BY <1>1, <1>2, RewritesKeepLead DEF ArgsInv, UsesInv, IInv

\* Renaming does not,
LEMMA RenameKeepsArgs == ArgsInv /\ RenameInstruction => (FilledSoFar /\ PhisLead)'
PROOF
  <1> SUFFICES ASSUME ArgsInv, RenameInstruction PROVE (FilledSoFar /\ PhisLead)'
    OBVIOUS
  <1>1. RenamedAt(Top.block, Top.next) /\ Rewrites
    BY RenameAt DEF ArgsInv
  <1>2. ASSUME NEW c \in Blocks, NEW k \in DOMAIN code[c]
        PROVE  code'[c][k].args = code[c][k].args
    <2>1. code'[c][k] = Renamed(code[c][k]) \/ code'[c][k] = code[c][k]
      BY <1>1 DEF RenamedAt
    <2>2. WellFormed(code[c][k]) /\ Shape(code[c][k], c)
      BY <1>1 DEF RenamedAt, ArgsInv, UsesInv, Shaped
    <2> QED
      BY <2>1, <2>2, RenamedParts
  <1>3. ASSUME NEW b \in Blocks, NEW n
        PROVE  Sources(b, n)' = Sources(b, n)
    <2>1. stage = "rename" /\ stage' = "rename" /\ UNCHANGED <<pass, program>> /\ Remaining' = Remaining
      BY RenameKeepsRemaining DEF RenameInstruction
    <2> QED
      BY <2>1 DEF Sources, PredsReached, NamesOf
  <1>4. FilledSoFar'
    BY <1>1, <1>2, <1>3, ArgumentsKept
  <1> QED
    BY <1>1, <1>4, RewritesKeepLead DEF ArgsInv, UsesInv, IInv

\* and a switch has none.
LEMMA CorrectKeepsArgs == ArgsInv /\ CorrectSwitch => (FilledSoFar /\ PhisLead)'
PROOF
  <1> SUFFICES ASSUME ArgsInv, CorrectSwitch PROVE (FilledSoFar /\ PhisLead)'
    OBVIOUS
  <1>1. Rewrites
    BY CorrectRewrites DEF ArgsInv
  <1>2. ASSUME NEW c \in Blocks, NEW k \in DOMAIN code[c]
        PROVE  code'[c][k].args = code[c][k].args
    <2>1. CASE code' = code
      BY <2>1
    <2>2. CASE \E b, i : CorrectedAt(b, i)
      <3>1. PICK b, i : CorrectedAt(b, i)
        BY <2>2
      <3>2. CASE c = b /\ k = i
        BY <3>1, <3>2 DEF CorrectedAt
      <3>3. CASE ~ (c = b /\ k = i)
        <4>1. code'[c][k] = code[c][k]
          BY <3>1, <3>3 DEF CorrectedAt
        <4> QED
          BY <4>1
      <3> QED
        BY <3>2, <3>3
    <2> QED
      BY <2>1, <2>2, CorrectAt DEF ArgsInv
  <1>3. ASSUME NEW b \in Blocks, NEW n
        PROVE  Sources(b, n)' = Sources(b, n)
    <2>1. stage = "search" /\ stage' = "switch" /\ UNCHANGED program
      BY DEF CorrectSwitch
    <2> QED
      BY <2>1 DEF Sources, PredsReached
  <1>4. FilledSoFar'
    BY <1>1, <1>2, <1>3, ArgumentsKept
  <1> QED
    BY <1>1, <1>4, RewritesKeepLead DEF ArgsInv, UsesInv, IInv

\* A phi function that comes in has empty arguments, one for each predecessor,
\* and comes behind phi functions only.
LEMMA PlaceKeepsArgs == ArgsInv /\ PlacePhis => (FilledSoFar /\ PhisLead)'
PROOF
  <1> SUFFICES ASSUME ArgsInv, PlacePhis PROVE (FilledSoFar /\ PhisLead)'
    OBVIOUS
  <1>1. /\ Blocks' = Blocks /\ stage = "place" /\ stage' = "place" /\ UNCHANGED <<program, pass>> /\ UsesInv
        /\ CodeOK /\ CodeOK'
    BY PlacePhisKeepsCode DEF PlacePhis, Blocks, ArgsInv, UsesInv, IInv
  <1>2. PICK n \in NamesOf(pass) : n = Least(waiting)
    BY <1>1, NamePlaced
  <1>3. \A b \in Blocks : \A m : Sources(b, m)' = Sources(b, m)
    BY <1>1 DEF Sources, PredsReached, NamesOf
  <1>4. ASSUME NEW b \in Blocks, NEW j \in DOMAIN code'[b], NEW y, y = code'[b][j], IsPhi(y)
        PROVE  HasSources(y.args, Cardinality(Preds(program, b)), Sources(b, y.defs[1].name))
    <2>1. PICK moved : PlacedIn(b, n, moved)
      BY <1>1, <1>2, PlaceAt
    <2>2. CASE \E x \in DOMAIN code[b] : moved[x] = j
      <3>1. PICK x \in DOMAIN code[b] : moved[x] = j
        BY <2>2
      <3>2. y = code[b][x]
        BY <2>1, <3>1, <1>4 DEF PlacedIn
      <3> QED
        BY <3>2, <1>4 DEF ArgsInv, FilledSoFar, PhiFilled
    <2>3. CASE NewPhi(y, b, n)
      <3>1. Sources(b, y.defs[1].name) = {}
        BY <2>3, <1>1, <1>2 DEF NewPhi, Sources
      <3>2. \A k \in DOMAIN y.args : ~ IsFilled(y.args[k])
        BY <2>3 DEF NewPhi, IsFilled, ToSet
      <3>3. DOMAIN y.args = 1 .. Cardinality(Preds(program, b))
        BY <2>3 DEF NewPhi
      <3> QED
        BY <3>1, <3>2, <3>3 DEF HasSources
    <2> QED
      BY <2>1, <2>2, <2>3, <1>4 DEF PlacedIn
  <1>5. FilledSoFar'
    <2>1. ASSUME NEW b \in Blocks, NEW j \in DOMAIN code'[b], IsPhi(code'[b][j])
          PROVE  PhiFilled(code[b][j], b)'
      <3>1. PICK y, m : y = code'[b][j] /\ m = y.defs[1].name
        OBVIOUS
      <3>2. HasSources(y.args, Cardinality(Preds(program, b)), Sources(b, m))
        BY <3>1, <2>1, <1>4
      <3>3. HasSources(y.args, Cardinality(Preds(program, b)), Sources(b, m)')
        BY <3>2, <1>3
      <3> QED
        BY <3>1, <3>3, <1>1 DEF PhiFilled
    <2> QED
      BY <2>1, <1>1 DEF FilledSoFar, IsPhi
  <1>6. ASSUME NEW b \in Blocks, NEW j \in DOMAIN code'[b], NEW i \in 1 .. j, IsPhi(code'[b][j])
        PROVE  IsPhi(code'[b][i])
    <2>1. PICK moved : PlacedIn(b, n, moved)
      BY <1>1, <1>2, PlaceAt
    <2>2. PICK l \in Nat : DOMAIN code'[b] = 1 .. l /\ j \in 1 .. l /\ i \in 1 .. l
      <3>1. PICK S : code'[b] \in Seq(S)
        BY <1>1 DEF CodeOK
      <3>2. DOMAIN code'[b] = 1 .. Len(code'[b]) /\ Len(code'[b]) \in Nat
        BY <3>1
      <3> QED
        BY <3>2, <1>6
    <2>3. PICK k \in Nat : DOMAIN code[b] = 1 .. k
      <3>1. PICK S : code[b] \in Seq(S)
        BY <1>1 DEF CodeOK
      <3>2. DOMAIN code[b] = 1 .. Len(code[b]) /\ Len(code[b]) \in Nat
        BY <3>1
      <3> QED
        BY <3>2
    <2>4. \A r \in 1 .. l : (\E x \in 1 .. k : moved[x] = r)
                             \/ (NewPhi(code'[b][r], b, n) /\ \A q \in 1 .. r - 1 : IsPhi(code'[b][q]))
      BY <2>1, <2>2, <2>3 DEF PlacedIn
    <2>5. CASE i = j
      BY <2>5, <1>6
    <2>6. CASE i # j /\ NewPhi(code'[b][i], b, n)
      BY <2>6 DEF NewPhi
    <2>7. CASE i # j /\ \A q \in 1 .. j - 1 : IsPhi(code'[b][q])
      <3>1. i \in 1 .. j - 1
        BY <2>2, <2>7
      <3> QED
        BY <3>1, <2>7
    <2>8. ASSUME i # j, NEW x \in 1 .. k, NEW z \in 1 .. k, moved[x] = j, moved[z] = i
          PROVE  IsPhi(code'[b][i])
      <3>1. i < j
        BY <2>2, <2>8
      <3>2. /\ \A p, q \in 1 .. k : p < q => moved[p] < moved[q]
            /\ code'[b][j] = code[b][x] /\ code'[b][i] = code[b][z]
        BY <2>1, <2>3, <2>8 DEF PlacedIn
      <3>3. z \in 1 .. x
        <4>1. ~ x < z
          <5> SUFFICES ASSUME x < z PROVE FALSE
            OBVIOUS
          <5>1. j < i
            BY <3>2, <2>8
          <5> QED
            BY <5>1, <3>1, <2>2
        <4> QED
          BY <4>1
      <3>4. LedByPhis(code[b])
        BY DEF ArgsInv, PhisLead
      <3> QED
        BY <3>2, <3>3, <3>4, <2>3, <1>6 DEF LedByPhis
    <2> QED
      BY <2>2, <2>4, <2>5, <2>6, <2>7, <2>8
  <1>7. PhisLead'
    BY <1>1, <1>6 DEF PhisLead, LedByPhis, IsPhi
  <1> QED
    BY <1>5, <1>7

\* The first call is about the entry.
LEMMA ConstructKeepsRooted == ArgsInv /\ Construct => Rooted'
PROOF
  <1> SUFFICES ASSUME ArgsInv, Construct PROVE Rooted'
    OBVIOUS
  <1>1. CASE stage' # "rename"
    BY <1>1 DEF Rooted
  <1>2. CASE StartRenaming
    <2>1. frames' = <<Frame(0)>> /\ program' = program
      BY <1>2 DEF StartRenaming
    <2>2. DOMAIN frames' = {1} /\ frames'[1].block = 0
      BY <2>1 DEF Frame
    <2>3. 0 \in Reached(program)
      BY ProgramIsGraph DEF ArgsInv, UsesInv, IInv
    <2> QED
      BY <2>1, <2>2, <2>3 DEF Rooted
  <1>3. CASE RenameInstruction \/ FillArguments \/ RenameChild \/ ReturnFromBlock
    BY <1>3, RenameKeepsRemaining, FillKeepsRooted, ChildKeepsRemaining, ReturnKeepsRemaining
  <1>4. stage' # "rename" \/ StartRenaming \/ RenameInstruction \/ FillArguments \/ RenameChild \/ ReturnFromBlock
    BY DEF Construct, ComputeDominanceFrontier, Compute_Aorig, AddUsedRelatedToDefinedRegisters,
           StartPlacing, PlacePhis, NextName, StartSwitches, NextSwitch, SearchBlock, ReturnFromSearch, GiveUp,
           CorrectSwitch, EndPass
  <1> QED
    BY <1>1, <1>2, <1>3, <1>4

\* Every step of the construction keeps the invariant.
LEMMA ConstructKeepsArgs == ArgsInv /\ Construct => ArgsInv'
PROOF
  <1> SUFFICES ASSUME ArgsInv, Construct PROVE ArgsInv'
    OBVIOUS
  <1>1. UsesInv' /\ Rooted'
    BY ConstructKeepsUses, ConstructKeepsRooted DEF ArgsInv
  <1>2. CASE FillArguments
    <2>1. PhisLead'
      BY <1>2, FillAt, RewritesKeepLead DEF ArgsInv, UsesInv, IInv
    <2> QED
      BY <2>1, <1>1, <1>2, FillKeepsFilled DEF ArgsInv
  <1> QED
    BY <1>1, <1>2, ElsewhereKeepsArgs, RenameKeepsArgs, CorrectKeepsArgs, PlaceKeepsArgs
    DEF ArgsInv, Construct, Elsewhere

\* As it was lifted, the function has no phi function.
LEMMA ArgsInvInit == Init => ArgsInv
PROOF
  <1> SUFFICES ASSUME Init PROVE ArgsInv
    OBVIOUS
  <1>1. UsesInv /\ stage = "dominators"
    BY UsesInvInit DEF Init
  <1>2. ASSUME NEW b \in Blocks, NEW i \in DOMAIN code[b]
        PROVE  ~ IsPhi(code[b][i])
    <2>2. PICK insts : insts = program.code[b]
      OBVIOUS
    <2>3. code[b] = [k \in DOMAIN insts |-> Lifted(b, k, insts[k])]
      BY <2>2 DEF Init
    <2>4. insts \in Seq(InstructionsAsLifted)
      BY <2>2, ProgramsAssumption DEF Blocks, Init
    <2>5. i \in 1 .. Len(insts) /\ code[b][i] = Lifted(b, i, insts[i])
      BY <2>3, <2>4, <1>2
    <2>6. insts[i] \in InstructionsAsLifted
      BY <2>4, <2>5, ElementOfSeq
    <2> QED
      BY <2>5, <2>6 DEF Lifted, InstructionsAsLifted, IsPhi
  <1>3. FilledSoFar /\ PhisLead
    BY <1>2 DEF FilledSoFar, PhisLead, LedByPhis
  <1> QED
    BY <1>1, <1>3 DEF ArgsInv, Rooted

\* So does every step of the specification.
LEMMA NextKeepsArgs == ArgsInv /\ [Next]_<<vars, machine>> => ArgsInv'
PROOF
  <1> SUFFICES ASSUME ArgsInv, [Next]_<<vars, machine>> PROVE ArgsInv'
    OBVIOUS
  <1>1. CASE Construct
    BY <1>1, ConstructKeepsArgs
  <1>2. CASE UNCHANGED vars
    <2>1. UNCHANGED <<program, code, pass, stage, frames>>
      BY <1>2 DEF vars, renaming
    <2>2. UsesInv'
      BY <1>2, UsesInvStutters DEF ArgsInv
    <2>3. \A b, n : Sources(b, n)' = Sources(b, n)
      BY <2>1 DEF Sources, PredsReached, NamesOf, Remaining, WaitsIn
    <2>4. FilledSoFar'
      BY <2>1, <2>2, <2>3, SameCodeRewrites, ArgumentsKept DEF ArgsInv
    <2>5. PhisLead' /\ Rooted'
      BY <2>1 DEF ArgsInv, PhisLead, LedByPhis, Rooted, Blocks
    <2> QED
      BY <2>2, <2>4, <2>5 DEF ArgsInv
  <1> QED
    BY <1>1, <1>2 DEF Next

\* When the passes are over all predecessors have filled in.
LEMMA InvArgumentsFilled == ArgsInv => ArgumentsFilled
PROOF
  <1> SUFFICES ASSUME ArgsInv, Constructed, AllReachable(program), NEW b \in Blocks, NEW phi \in Phis(b)
               PROVE  {phi.args[k].source : k \in DOMAIN phi.args} = Preds(program, b)
    BY DEF ArgumentsFilled
  <1>1. CodeOK /\ stage = "done"
    BY DEF ArgsInv, UsesInv, IInv, Constructed
  <1>2. Reached(program) = Vertices(program)
    <2>1. IsGraph(program)
      BY <1>1, ProgramIsGraph
    <2>2. PICK S : S = Reached(program)
      OBVIOUS
    <2>3. S \in SUBSET Vertices(program) /\ 0 \in S /\ \A e \in program.edges : e[1] \in S => e[2] \in S
      BY <2>1, <2>2, ReachedClosed DEF Closed
    <2> QED
      BY <2>2, <2>3 DEF AllReachable
  <1>3. PICK i \in DOMAIN code[b] : phi = code[b][i] /\ IsPhi(code[b][i])
    BY DEF Phis, ToSet
  <1>4. PhiFilled(phi, b)
    BY <1>3 DEF ArgsInv, FilledSoFar
  <1>5. Sources(b, phi.defs[1].name) = Preds(program, b)
    BY <1>1, <1>2 DEF Sources, PredsReached, Preds
  <1>6. IsFiniteSet(Preds(program, b))
    BY <1>1, ProgramIsGraph
  <1>7. HasSources(phi.args, Cardinality(Preds(program, b)), Preds(program, b))
    BY <1>4, <1>5 DEF PhiFilled
  <1> QED
    BY <1>6, <1>7, NoArgumentLeft

(* A phi function has one argument for each predecessor of its block: no   *)
(* block fills in twice, none is left out, and an argument that is filled  *)
(* stays with its predecessor.                                             *)
THEOREM EveryPredecessorFills == Spec => []ArgumentsFilled
PROOF
  <1>1. ExecutionInit => ArgsInv
    BY ArgsInvInit DEF ExecutionInit
  <1> QED
    BY <1>1, NextKeepsArgs, InvArgumentsFilled, PTL DEF Spec

=============================================================================
