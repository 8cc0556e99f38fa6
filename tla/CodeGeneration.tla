--------------------------- MODULE CodeGeneration ---------------------------
(***************************************************************************)
(* DecompiledCodeGenerator: the text of the function.  The recursion of    *)
(* writeCode, writeLoop, writeNWay, writeTwoWay and writeOneWay is a stack *)
(* of the calls and of the rests of bodies that are still to run; every    *)
(* step runs the top of the stack up to the next call.                     *)
(*                                                                         *)
(* A line of text is a record: "block" stands for the statements of block  *)
(* at; "if", "while", "do while" and "break if" test the condition of the  *)
(* branch at the end of block at, and hold if its successor number on is   *)
(* taken (the condition is negated for successor 2); "else", "end" and "do *)
(* while" close what "if", "else", "while", "loop", "do" and "switch"      *)
(* opened.  How an expression is written, and the declarations before the  *)
(* first block, are left out.                                              *)
(*                                                                         *)
(* Graphs have two more fields: table[v], whether the switch of an N-way   *)
(* block v has a jump table, and default[v], its default block.            *)
(***************************************************************************)
EXTENDS BranchStructuring

VARIABLES
  work,         \* what remains of the calls
  code,         \* codeLines
  handled,      \* handledNodeIds
  labels,       \* lineNumberToLabelMap
  usedLabels,   \* usedLabels
  currentLoop,  \* currentLoopHeaderId
  written,      \* graphStructeringInfo->conditionals, to which writeLoop adds
  stage         \* "structuring", "writing", "done" or "undefined"

codeVars == <<work, code, handled, labels, usedLabels, currentLoop, written, stage>>
allCodeVars == <<structureVars, codeVars>>

ASSUME TablesAssumption ==
  \A g \in FlowGraphs :
    /\ g.table \in [Vertices(g) -> BOOLEAN]
    /\ g.default \in [Vertices(g) -> Vertices(g) \cup {NoNode}]

Line(kind, at, on) == [kind |-> kind, at |-> at, on |-> on]
BlockLine(v) == Line("block", v, 0)
End == Line("end", NoNode, 0)

\* A call: what, for block at, inside the loop that is latched by latching,
\* inside a conditional followed by follow.
Call(what, at, latching, follow) ==
  [what |-> what, at |-> at, latching |-> latching, follow |-> follow, rest |-> NoNode]

\* The rest of a body that needs one more number.
Rest(call, what, rest) == [call EXCEPT !.what = what, !.rest = rest]

\* codeLines->push_back.
Push(lines) ==
  [what |-> "push", lines |-> lines]

CodeInit ==
  /\ StructureInit
  /\ work = <<>>
  /\ code = <<>>
  /\ handled = {}
  /\ labels = [n \in {} |-> NoNode]
  /\ usedLabels = {}
  /\ currentLoop = NoNode
  /\ written = [h \in {} |-> [follow |-> NoNode, type |-> "IF_THEN"]]
  /\ stage = "structuring"

Structure ==
  /\ stage = "structuring"
  /\ StructureNext
  /\ UNCHANGED codeVars

GenerateCodeLines ==
  /\ stage = "structuring"
  /\ pass = "done"
  /\ stage' = "writing"
  /\ written' = conditionals
  /\ work' = <<Call("code", 0, NoNode, NoNode)>>
  /\ UNCHANGED <<structureVars, code, handled, labels, usedLabels, currentLoop>>

Top == work[1]

\* The top of the stack is a call of what.
Runs(what) ==
  /\ stage = "writing"
  /\ work # <<>>
  /\ Top.what = what

\* The top is replaced by these calls, after these lines are written.
Continue(lines, calls) ==
  /\ code' = code \o lines
  /\ work' = calls \o Tail(work)

-----------------------------------------------------------------------------
(* Questions the code asks                                                 *)

True(v) == cfg.out[v][1]
False(v) == cfg.out[v][2]

IsExit(v) == cfg.nodeType[v] = "Exit_NODE"
IsOneWay(v) == cfg.nodeType[v] = "ONE_WAY_NODE"

\* The chain of one-way blocks from v, ending where it meets stop, another
\* kind of block, or itself.
Chain(v, stop) ==
  LET Longer[k \in 0 .. cfg.size] ==
        IF k = 0 THEN <<v>>
        ELSE LET c == Longer[k - 1]
                 last == c[Len(c)]
             IN  IF last # stop /\ IsOneWay(last) /\ cfg.out[last][1] \notin Range(c)
                 THEN Append(c, cfg.out[last][1]) ELSE c
  IN  Longer[cfg.size]

EndOfChain(v, stop) == LET c == Chain(v, stop) IN c[Len(c)]

\* hasLoopFreeExit
HasLoopFreeExit(v, stop) ==
  LET e == EndOfChain(v, stop) IN IsExit(e) \/ e = stop

\* hasSimplePathToExitNode, writeSimplePathToExitNode
HasSimplePathToExit(v) == HasLoopFreeExit(v, NoNode)
SimplePathToExit(v) == LET c == Chain(v, NoNode) IN [i \in DOMAIN c |-> BlockLine(c[i])]

LoopFollow == loops[currentLoop].follow

\* hasSimplePathToFollowkNode
HasSimplePathToFollow(v) == currentLoop # NoNode /\ HasLoopFreeExit(v, LoopFollow)

\* writeSimplePathToFollowNode; it comes to an end if the chain does at the
\* follow block.
SimplePathToFollow(v) ==
  LET c == Chain(v, LoopFollow)
  IN  [i \in DOMAIN c |-> IF i = Len(c) THEN Line("break", NoNode, 0) ELSE BlockLine(c[i])]

\* isAbnormalEdgeToLoopFollowNode
LeavesLoop(source, target) ==
  /\ currentLoop # NoNode
  /\ source \in loops[currentLoop].nodes
  /\ target = LoopFollow

\* emitGotoLabel
GotoLines(v) == IF HasSimplePathToExit(v) THEN SimplePathToExit(v) ELSE <<Line("goto", v, 0)>>

LabelsUsedBy(v) == IF HasSimplePathToExit(v) THEN {} ELSE {v}

-----------------------------------------------------------------------------
(* writeCode                                                               *)

SkipCode ==
  /\ Runs("code")
  /\ Top.at \in handled \/ Top.at = Top.follow
  /\ Continue(<<>>, <<>>)
  /\ UNCHANGED <<structureVars, handled, labels, usedLabels, currentLoop, written, stage>>

\* Faulty variant: the label follows the first line of the block.
AddLabelAfter(v) ==
  [n \in DOMAIN labels \cup {Len(code) + 2} |-> IF n \in DOMAIN labels THEN labels[n] ELSE v]

\* map::insert: a line has one label.
AddLabel(v) ==
  [n \in DOMAIN labels \cup {Len(code) + 1} |-> IF n \in DOMAIN labels THEN labels[n] ELSE v]

WriteCode ==
  LET v == Top.at
      body == CASE v \in DOMAIN loops -> <<[Top EXCEPT !.what = "loop"]>>
                [] v \notin DOMAIN loops /\ v \in DOMAIN written -> <<[Top EXCEPT !.what = "two way"]>>
                [] OTHER -> IF v = Top.latching \/ IsExit(v) THEN <<Push(<<BlockLine(v)>>)>>
                            ELSE IF IsOneWay(v) THEN <<[Top EXCEPT !.what = "one way"]>>
                            ELSE <<>>
  IN  /\ Runs("code")
      /\ v \notin handled
      /\ v # Top.follow
      /\ handled' = handled \cup {v}
      /\ labels' = AddLabel(v)
      /\ Continue(<<>>, (IF v \in DOMAIN switches THEN <<[Top EXCEPT !.what = "n way"]>> ELSE <<>>) \o body)
      /\ UNCHANGED <<structureVars, usedLabels, currentLoop, written, stage>>

PushLines ==
  /\ Runs("push")
  /\ Continue(Top.lines, <<>>)
  /\ UNCHANGED <<structureVars, handled, labels, usedLabels, currentLoop, written, stage>>

\* The code writes target, or a jump to it if it has been written.
WriteOrGoto ==
  /\ Runs("code or goto")
  /\ IF Top.at \notin handled
     THEN /\ Continue(<<>>, <<[Top EXCEPT !.what = "code"]>>)
          /\ UNCHANGED usedLabels
     ELSE /\ Continue(GotoLines(Top.at), <<>>)
          /\ usedLabels' = usedLabels \cup LabelsUsedBy(Top.at)
  /\ UNCHANGED <<structureVars, handled, labels, currentLoop, written, stage>>

\* writeOneWay
WriteOneWay ==
  LET v == Top.at
      next == cfg.out[v][1]
  IN  /\ Runs("one way")
      /\ IF next \notin handled /\ LeavesLoop(v, next)
         THEN Continue(<<BlockLine(v), Line("break", NoNode, 0)>>, <<>>)
         ELSE Continue(<<BlockLine(v)>>, <<[Top EXCEPT !.what = "code or goto", !.at = next]>>)
      /\ UNCHANGED <<structureVars, handled, labels, usedLabels, currentLoop, written, stage>>

-----------------------------------------------------------------------------
(* writeLoop                                                               *)

\* Faulty variant: the condition is not negated.
StaysOnTrue(v, leaving) == 1

\* The successor on which a loop goes on: the other one leaves it.
StaysOn(v, leaving) == IF True(v) = leaving THEN 2 ELSE 1

\* The condition of a post-tested loop is negated for the false successor.
ReturnsOn(latching, h) == IF False(latching) = h THEN 2 ELSE 1

OpeningLine(h) ==
  IF loops[h].type = "POST_TESTED" THEN Line("do", NoNode, 0) ELSE Line("loop", NoNode, 0)

\* The successors of the header that writeLoop goes on with.
BodyCalls(h, call) ==
  LET out == cfg.out[h]
      Stays(s) == s \in loops[h].nodes /\ (loops[h].type = "PRE_TESTED" => s # loops[h].follow)
      CallFor(s) == IF Stays(s) THEN <<Call("code or goto", s, loops[h].latching, call.follow)>> ELSE <<>>
  IN  IF h = loops[h].latching THEN <<>> ELSE FlattenSeq([i \in DOMAIN out |-> CallFor(out[i])])

\* The latching block of an outer loop: writeLoop returns without closing.
Closing(h, call, calls) ==
  IF h = call.latching THEN <<>>
  ELSE calls \o <<Rest(call, "end loop", currentLoop)>>

EnterLoop ==
  /\ currentLoop' = Top.at
  /\ handled' = handled \cup {Top.at}
  /\ UNCHANGED <<structureVars, labels, usedLabels, stage>>

WritePreTestedLoop ==
  LET h == Top.at
  IN  /\ Runs("loop")
      /\ loops[h].type = "PRE_TESTED"
      /\ Continue(<<BlockLine(h), Line("while", h, StaysOn(h, loops[h].follow))>>,
                  Closing(h, Top, BodyCalls(h, Top)))
      /\ EnterLoop
      /\ UNCHANGED written

\* A header that does not branch, or that is the latching block as well.
WriteLoop ==
  LET h == Top.at
  IN  /\ Runs("loop")
      /\ loops[h].type # "PRE_TESTED"
      /\ ~ IsTwoWay(h) \/ h = loops[h].latching
      /\ Continue(<<OpeningLine(h), BlockLine(h)>>, Closing(h, Top, BodyCalls(h, Top)))
      /\ EnterLoop
      /\ UNCHANGED written

\* A header that branches inside its loop.
Branches(h) ==
  /\ Runs("loop")
  /\ loops[h].type # "PRE_TESTED"
  /\ IsTwoWay(h) /\ h # loops[h].latching

WriteLoopWithReturn ==
  LET h == Top.at
      on == IF IsExit(True(h)) THEN 1 ELSE 2
  IN  /\ Branches(h)
      /\ IsExit(True(h)) \/ IsExit(False(h))
      /\ Continue(<<OpeningLine(h), BlockLine(h), Line("if", h, on)>>,
                  <<[Top EXCEPT !.what = "code", !.at = cfg.out[h][on]], Push(<<End>>)>>
                    \o Closing(h, Top, BodyCalls(h, Top)))
      /\ EnterLoop
      /\ UNCHANGED written

WriteLoopWithBreak ==
  LET h == Top.at
      on == IF True(h) = loops[h].follow THEN 1 ELSE 2
  IN  /\ Branches(h)
      /\ ~ IsExit(True(h)) /\ ~ IsExit(False(h))
      /\ loops[h].follow \in {True(h), False(h)}
      /\ Continue(<<OpeningLine(h), BlockLine(h), Line("break if", h, on)>>,
                  Closing(h, Top, BodyCalls(h, Top)))
      /\ EnterLoop
      /\ UNCHANGED written

OtherBranch(h) ==
  /\ Branches(h)
  /\ ~ IsExit(True(h)) /\ ~ IsExit(False(h))
  /\ loops[h].follow \notin {True(h), False(h)}

\* A header that is no conditional becomes one, if both successors lead back.
WriteLoopWithConditional ==
  LET h == Top.at
  IN  /\ OtherBranch(h)
      /\ \/ h \in DOMAIN written /\ UNCHANGED written
         \/ /\ h \notin DOMAIN written
            /\ \E follow \in FollowsInLoop(h, h) :
                 written' = [x \in DOMAIN written \cup {h} |->
                               IF x = h THEN [follow |-> follow, type |-> "UNKNOWN_CONDITIONAL"] ELSE written[x]]
      /\ Continue(<<OpeningLine(h)>>,
                  <<Call("two way", h, loops[h].latching, Top.follow)>> \o Closing(h, Top, <<>>))
      /\ EnterLoop

\* If one does not, the header is left out and its successors follow.  Loops
\* through the entry can have such a header, that latches another loop.
WriteLoopWithoutHeader ==
  LET h == Top.at
  IN  /\ OtherBranch(h)
      /\ h \notin DOMAIN written
      /\ FollowsInLoop(h, h) = {}
      /\ Continue(<<OpeningLine(h)>>, Closing(h, Top, BodyCalls(h, Top)))
      /\ EnterLoop
      /\ UNCHANGED written

EndLoop ==
  LET h == Top.at
      l == loops[h].latching
      last == CASE loops[h].type = "PRE_TESTED" -> <<BlockLine(h), End>>
                [] loops[h].type = "POST_TESTED" ->
                     (IF l \in handled THEN <<>> ELSE <<BlockLine(l)>>)
                       \o <<Line("do while", l, ReturnsOn(l, h))>>
                [] loops[h].type = "ENDLESS" -> <<End>>
  IN  /\ Runs("end loop")
      /\ Continue(last, IF loops[h].follow = NoNode THEN <<>>
                        ELSE <<[Top EXCEPT !.what = "code or goto", !.at = loops[h].follow]>>)
      /\ currentLoop' = Top.rest
      /\ UNCHANGED <<structureVars, handled, labels, usedLabels, written, stage>>

-----------------------------------------------------------------------------
(* writeNWay                                                               *)

\* The case blocks are in the order of the map.
WriteNWay ==
  LET v == Top.at
      out == cfg.out[v]
      CaseCalls(s) == IF s = cfg.default[v] THEN <<>>
                      ELSE <<Push(<<Line("case", s, 0)>>),
                             [Top EXCEPT !.what = "code", !.at = s],
                             [Top EXCEPT !.what = "end case"]>>
  IN  /\ Runs("n way")
      /\ cfg.table[v]
      /\ Continue(<<BlockLine(v), Line("switch", v, 0)>>,
                  FlattenSeq([i \in DOMAIN out |-> CaseCalls(out[i])]) \o <<Push(<<End>>)>>)
      /\ UNCHANGED <<structureVars, handled, labels, usedLabels, currentLoop, written, stage>>

\* No break after a line that returns.
EndCase ==
  LET last == code[Len(code)]
  IN  /\ Runs("end case")
      /\ Continue(IF last.kind = "block" /\ IsExit(last.at) THEN <<>> ELSE <<Line("break", NoNode, 0)>>, <<>>)
      /\ UNCHANGED <<structureVars, handled, labels, usedLabels, currentLoop, written, stage>>

\* A null pointer is followed: the last instruction is not a table jump, ...
JumpWithoutTable == Runs("n way") /\ ~ cfg.table[Top.at]

-----------------------------------------------------------------------------
(* writeTwoWay                                                             *)

Breaks(v) == LeavesLoop(v, True(v)) \/ LeavesLoop(v, False(v))

HasPathToFollow(v) ==
  HasSimplePathToFollow(True(v)) \/ HasSimplePathToFollow(False(v))

\* Goes on with the successor other than number on.
OtherSuccessor(call, on) ==
  [call EXCEPT !.what = "code", !.at = cfg.out[call.at][3 - on]]

WriteBreak ==
  LET v == Top.at
      on == IF LeavesLoop(v, True(v)) THEN 1 ELSE 2
  IN  /\ Runs("two way")
      /\ Breaks(v)
      /\ Continue(<<BlockLine(v), Line("break if", v, on)>>, <<OtherSuccessor(Top, on)>>)
      /\ UNCHANGED <<structureVars, handled, labels, usedLabels, currentLoop, written, stage>>

PathOn(v) == IF HasSimplePathToFollow(True(v)) THEN 1 ELSE 2

WritePathToFollow ==
  LET v == Top.at
      on == PathOn(v)
      path == SimplePathToFollow(cfg.out[v][on])
  IN  /\ Runs("two way")
      /\ ~ Breaks(v) /\ HasPathToFollow(v)
      /\ EndOfChain(cfg.out[v][on], LoopFollow) = LoopFollow
      /\ Continue(<<BlockLine(v), Line("if", v, on)>> \o path \o <<End>>, <<OtherSuccessor(Top, on)>>)
      /\ UNCHANGED <<structureVars, handled, labels, usedLabels, currentLoop, written, stage>>

\* ... or the chain ends in an exit block instead of the follow block.
PathToExit ==
  /\ Runs("two way")
  /\ LET v == Top.at
     IN  /\ ~ Breaks(v) /\ HasPathToFollow(v)
         /\ EndOfChain(cfg.out[v][PathOn(v)], LoopFollow) # LoopFollow

Crash ==
  /\ JumpWithoutTable \/ PathToExit
  /\ stage' = "undefined"
  /\ work' = <<>>
  /\ UNCHANGED <<structureVars, code, handled, labels, usedLabels, currentLoop, written>>

PlainBranch(v) == Runs("two way") /\ ~ Breaks(v) /\ ~ HasPathToFollow(v)

WriteIf ==
  LET v == Top.at
      follow == written[v].follow
      on == IF True(v) # follow THEN 1 ELSE 2
      then == [Top EXCEPT !.what = "code or goto", !.at = cfg.out[v][on], !.follow = follow]
  IN  /\ PlainBranch(v)
      /\ follow # NoNode
      /\ Continue(<<BlockLine(v), Line("if", v, on)>>, <<then, Rest(Top, "else", on)>>)
      /\ UNCHANGED <<structureVars, handled, labels, usedLabels, currentLoop, written, stage>>

\* After the then part; rest is the number of its successor.
WriteElse ==
  LET v == Top.at
      follow == written[v].follow
      other == False(v)
      else == [Top EXCEPT !.what = "code", !.at = other, !.follow = follow]
      after == <<Push(<<End>>), Rest(Top, "follow", follow)>>
      elseLine == Line("else", NoNode, 0)
  IN  /\ Runs("else")
      /\ IF other \notin handled
         THEN IF other = follow THEN Continue(<<>>, after) /\ UNCHANGED usedLabels
              ELSE IF LeavesLoop(v, other)
              THEN /\ Continue(<<elseLine>> \o GotoLines(other), after)
                   /\ usedLabels' = usedLabels \cup LabelsUsedBy(other)
              ELSE Continue(<<elseLine>>, <<else>> \o after) /\ UNCHANGED usedLabels
         ELSE IF Top.rest = 1
         THEN /\ Continue(<<elseLine>> \o GotoLines(other), after)
              /\ usedLabels' = usedLabels \cup LabelsUsedBy(other)
         ELSE Continue(<<>>, after) /\ UNCHANGED usedLabels
      /\ UNCHANGED <<structureVars, handled, labels, currentLoop, written, stage>>

\* The follow block is left to the loop if it is the latching block.
WriteFollow ==
  LET follow == Top.rest
  IN  /\ Runs("follow")
      /\ Continue(<<>>, IF follow # Top.latching /\ follow \notin handled
                        THEN <<[Top EXCEPT !.what = "code", !.at = follow]>> ELSE <<>>)
      /\ UNCHANGED <<structureVars, handled, labels, usedLabels, currentLoop, written, stage>>

WriteIfElse ==
  LET v == Top.at
      Part(on) == [Top EXCEPT !.what = "code or goto", !.at = cfg.out[v][on]]
  IN  /\ PlainBranch(v)
      /\ written[v].follow = NoNode
      /\ Continue(<<BlockLine(v), Line("if", v, 1)>>,
                  <<Part(1), Push(<<Line("else", NoNode, 0)>>), Part(2), Push(<<End>>)>>)
      /\ UNCHANGED <<structureVars, handled, labels, usedLabels, currentLoop, written, stage>>

EndOfText ==
  /\ stage = "writing"
  /\ work = <<>>
  /\ stage' = "done"
  /\ UNCHANGED <<structureVars, work, code, handled, labels, usedLabels, currentLoop, written>>

-----------------------------------------------------------------------------

CodeNext ==
  \/ Structure \/ GenerateCodeLines
  \/ SkipCode \/ WriteCode \/ PushLines \/ WriteOrGoto \/ WriteOneWay
  \/ WritePreTestedLoop \/ WriteLoop \/ WriteLoopWithReturn \/ WriteLoopWithBreak
  \/ WriteLoopWithConditional \/ WriteLoopWithoutHeader \/ EndLoop
  \/ WriteNWay \/ EndCase
  \/ WriteBreak \/ WritePathToFollow \/ Crash
  \/ WriteIf \/ WriteElse \/ WriteFollow \/ WriteIfElse
  \/ EndOfText

CodeSpec == CodeInit /\ [][CodeNext]_allCodeVars

-----------------------------------------------------------------------------
(* What the text does                                                      *)

Opens == {"if", "while", "loop", "do", "switch"}
Closes == {"end", "do while"}

\* The depth of braces before line i.
Depth(i) ==
  Cardinality({j \in 1 .. i - 1 : code[j].kind \in Opens})
    - Cardinality({j \in 1 .. i - 1 : code[j].kind \in Closes})

\* The lines that may close what line i opens: an "else" closes an "if".
Closers(i) ==
  LET inside == IF code[i].kind = "else" THEN Depth(i) ELSE Depth(i) + 1
  IN  {j \in i + 1 .. Len(code) :
         code[j].kind \in Closes \cup {"else"} /\ Depth(j) = inside}

Partner(i) == Min(Closers(i))

\* The innermost loop or switch around line i, which a break leaves.
Around(i) ==
  {j \in 1 .. i - 1 : code[j].kind \in Opens \ {"if"} /\ Closers(j) # {} /\ Partner(j) > i}

LabelLines(v) == {n \in DOMAIN labels : labels[n] = v}

Nowhere == 0

\* The line after line i, when the last block left by successor number on.
NextLine(i, last, on) ==
  LET line == code[i]
      holds == line.at = last /\ line.on = on
      After(j) == IF Closers(j) = {} THEN Nowhere ELSE Partner(j) + 1
      Loops == {j \in 1 .. i - 1 : code[j].kind \in Opens /\ Closers(j) # {} /\ Partner(j) = i}
  IN  CASE line.kind \in {"if", "while"} -> IF holds THEN i + 1 ELSE After(i)
        [] line.kind = "else" -> After(i)
        [] line.kind \in {"loop", "do"} -> i + 1
        [] line.kind = "do while" -> IF holds THEN Min(Loops) ELSE i + 1
        [] line.kind = "end" ->
             IF Loops # {} /\ code[Min(Loops)].kind \in {"while", "loop"} THEN Min(Loops) ELSE i + 1
        [] line.kind \in {"break", "break if"} ->
             IF line.kind = "break if" /\ ~ holds THEN i + 1
             ELSE IF Around(i) = {} THEN Nowhere ELSE After(Max(Around(i)))
        [] line.kind = "goto" -> IF LabelLines(line.at) = {} THEN Nowhere ELSE Min(LabelLines(line.at))
        [] line.kind = "case" -> i + 1
        [] line.kind = "switch" ->
             LET cases == {j \in i + 1 .. Len(code) :
                             /\ code[j].kind = "case" /\ Max(Around(j)) = i
                             /\ code[j].at = cfg.out[line.at][on]}
             IN  IF cases = {} THEN After(i) ELSE Min(cases)

IsText(i) == i \in DOMAIN code
IsTest(line) == line.kind \in {"if", "while", "do while", "break if", "switch"}

\* Control gets to a block, to the end of the text, or to a test of another
\* block than the last one.
Stops(i, last) ==
  \/ ~ IsText(i)
  \/ code[i].kind = "block"
  \/ IsTest(code[i]) /\ code[i].at # last

\* Where control gets to from line i.
RunFrom(i, last, on) ==
  LET Go[k \in 0 .. 2 * Len(code)] ==
        IF k = 0 THEN i
        ELSE LET j == Go[k - 1] IN IF Stops(j, last) THEN j ELSE NextLine(j, last, on)
  IN  Go[2 * Len(code)]

Writes(i, v) == IsText(i) /\ code[i] = BlockLine(v)

\* The lines control can get to.
ReachedLines ==
  LET Step(S) == S \cup {RunFrom(p[1] + 1, code[p[1]].at, p[2]) :
                            p \in {q \in S \X (1 .. cfg.size) :
                                    /\ IsText(q[1]) /\ code[q[1]].kind = "block"
                                    /\ q[2] \in DOMAIN cfg.out[code[q[1]].at]}}
      Within[k \in 0 .. Len(code)] ==
        IF k = 0 THEN {RunFrom(1, NoNode, 0)} ELSE LET S == Within[k - 1] IN Step(S)
  IN  Within[Len(code)]

\* The text runs the blocks the graph runs.
FollowsGraph ==
  /\ Writes(RunFrom(1, NoNode, 0), 0)
  /\ \A i \in ReachedLines :
       /\ IsText(i) /\ code[i].kind = "block"
       /\ \A on \in DOMAIN cfg.out[code[i].at] :
            Writes(RunFrom(i + 1, code[i].at, on), cfg.out[code[i].at][on])

-----------------------------------------------------------------------------
(* Properties                                                              *)

HasOneLatching(h) == Cardinality(LatchingBlocks(cfg, h)) = 1
IsHeader(h) == LatchingBlocks(cfg, h) # {}

\* Every loop is entered at its header, and repeated by one edge, which does
\* not come from a loop nested in it.
WellNested ==
  /\ Proper(cfg) /\ Reducible(cfg)
  /\ \A h \in Vertices(cfg) : IsHeader(h) =>
       /\ HasOneLatching(h)
       /\ \A k \in NaturalLoop(h) \ {h} :
            IsHeader(k) => LatchingBlocks(cfg, h) \cap NaturalLoop(k) = {}

\* A goto leads to a line from which the statements of its target are run:
\* the target was written, and its label did not have to give way to that of
\* another block that starts on the same line.
GotosLeadToBlocks ==
  stage = "done" /\ WellNested =>
    \A v \in usedLabels : \E n \in DOMAIN labels : labels[n] = v /\ Writes(RunFrom(n, NoNode, 0), v)

\* The lines that test the branch of block v.
TestsOf(v) == {i \in DOMAIN code : IsTest(code[i]) /\ code[i].at = v}

\* A two-way branch is decided in one place of the text: it is the test of one
\* loop or of one conditional, never of both.
DecidedOnce ==
  WellNested => \A v \in Vertices(cfg) : ~ IsNWay(v) => Cardinality(TestsOf(v)) <= 1

\* The branch of block v is inside the conditional of block h, and one of its
\* paths leads to the follow block of h without passing its own.
LeavesConditional(v, h) ==
  LET outer == written[h].follow
      inner == written[v].follow
  IN  /\ outer # NoNode /\ inner \notin {NoNode, outer}
      /\ h # v /\ Dominates(cfg, h, v) /\ ~ Dominates(cfg, outer, v)
      /\ v \in ReachIn(Vertices(cfg) \ {inner}, outer)

\* The functions for which the text is right: what is excluded is what the
\* passes get wrong.
Translatable ==
  /\ WellNested
  /\ \A v \in Vertices(cfg) : ~ IsNWay(v)
  \* a branch was not given the follow block of a branch in another part,
  /\ \A h \in DOMAIN written :
       written[h].follow # NoNode => h \in ReachIn(Vertices(cfg), written[h].follow)
  \* writeTwoWay knows the follow block of the innermost conditional only,
  /\ \A h, v \in DOMAIN written : ~ LeavesConditional(v, h)
  /\ \A h \in Vertices(cfg) : IsHeader(h) =>
       \* a loop is found and is left by a test,
       /\ h \in DOMAIN loops
       /\ loops[h].type # "ENDLESS"
       \* its latching block follows no nested loop,
       /\ \A k \in DOMAIN loops \ {h} :
            k \in NaturalLoop(h) => loops[k].follow # loops[h].latching
       \* and its header shares no exit block with others.
       /\ \A e \in Succs(cfg, h) : IsExit(e) => Preds(cfg, e) = {h}

\* The text of a function whose loops are tested and left in one of the ways
\* above runs the blocks that the graph runs, whatever the tests give: no
\* block is lost, no condition is upside down, no break leaves another loop.
TextFollowsGraph == stage = "done" /\ Translatable => FollowsGraph

=============================================================================
