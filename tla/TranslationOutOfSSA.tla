------------------------ MODULE TranslationOutOfSSA ------------------------
(***************************************************************************)
(* DataFlowAnalyzer::translateOutOfSSA after the analysis of DataFlow:     *)
(* liveness, interfering memory locations, copies for the phi functions,   *)
(* names for the congruence classes.  Phi functions are handled in the     *)
(* order of their addresses, which may be any.                             *)
(***************************************************************************)
EXTENDS DataFlow, BackTranslation

VARIABLES
  live,             \* liveIn, liveOut, interferenceGraph
  classes,          \* phiCongruenceClassMap
  phiVariables,     \* phiFunctionToVariablesMap, of the phi functions not handled yet
  phiInterference,  \* phiInterferenceMap
  copies,           \* copySubscript
  parameters        \* functionArguments as they are renamed

allVars == <<program, ir, pass, step, todo, done, arguments, live, classes, phiVariables, phiInterference, copies, parameters>>
translation == <<live, classes, phiVariables, phiInterference, copies, parameters>>

NothingLive == [in |-> <<>>, out |-> <<>>, interferes |-> {}]
TranslationInit ==
  /\ Init
  /\ live = NothingLive /\ classes = <<>> /\ phiVariables = <<>> /\ phiInterference = {}
  /\ copies = 0 /\ parameters = <<>>

At(this, next) == pass = this /\ pass' = next /\ UNCHANGED <<program, step, todo, done, arguments>>

AnalyzeLiveness ==
  /\ At("liveness", "replaceMemory")
  /\ live' = Liveness(ir) /\ ir' = AfterLiveness(ir)
  /\ parameters' = arguments
  /\ UNCHANGED <<classes, phiVariables, phiInterference, copies>>

ReplaceMemory ==
  LET s == ReplaceInterferingMemoryLocations(ir, live)
  IN  /\ At("replaceMemory", "initializeClasses")
      /\ ir' = s.ir /\ live' = s.live
      /\ UNCHANGED <<classes, phiVariables, phiInterference, copies, parameters>>

InitializeClasses ==
  /\ At("initializeClasses", "breakInterference")
  /\ classes' = InitialClasses(ir)
  /\ phiInterference' = PhiInterference(ir, live)
  /\ phiVariables' = [id \in LeadingPhisOf(ir) |-> PhiVariables(Inst(ir, id))]
  /\ UNCHANGED <<ir, live, copies, parameters>>

BreakInterference(phi) ==
  LET s == BreakPhi([ir |-> ir, live |-> live, classes |-> classes, phiInterference |-> phiInterference, copies |-> copies],
                    phi, phiVariables[phi])
  IN  /\ At("breakInterference", "breakInterference")
      /\ ir' = s.ir /\ live' = s.live /\ classes' = s.classes /\ copies' = s.copies
      /\ phiVariables' = [id \in DOMAIN phiVariables \ {phi} |-> phiVariables[id]]
      /\ UNCHANGED <<phiInterference, parameters>>

EndBreaking ==
  /\ DOMAIN phiVariables = {}
  /\ At("breakInterference", "eliminatePhis")
  /\ classes' = WithoutSingletons(classes)
  /\ UNCHANGED <<ir, live, phiVariables, phiInterference, copies, parameters>>

EliminatePhis ==
  LET memory == EliminateMemoryClasses(ir, classes)
      simple == EliminateSimpleClasses(memory.ir, memory.classes, parameters)
  IN  /\ At("eliminatePhis", "out")
      /\ ir' = RemoveZeroSubscripts(simple.ir)
      /\ classes' = memory.classes
      /\ parameters' = simple.arguments
      /\ UNCHANGED <<live, phiVariables, phiInterference, copies>>

Translate ==
  \/ AnalyzeLiveness
  \/ ReplaceMemory
  \/ InitializeClasses
  \/ \E phi \in DOMAIN phiVariables : BreakInterference(phi)
  \/ EndBreaking
  \/ EliminatePhis

Next == (Analyze /\ UNCHANGED translation) \/ Translate

\* Some step can be taken until the translation is done, so this is weak
\* fairness of Next; it is written out because to evaluate ENABLED Next TLC
\* would take very long.
Fairness == []<>(pass = "out") \/ []<><<TRUE>>_allVars
Spec == TranslationInit /\ [][Next]_allVars /\ Fairness

=============================================================================
