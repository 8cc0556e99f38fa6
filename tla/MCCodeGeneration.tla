-------------------------- MODULE MCCodeGeneration --------------------------
(***************************************************************************)
(* CodeGeneration on all graphs of up to three blocks, on those of four    *)
(* blocks with a switch at the entry and some with branches to the entry,  *)
(* on the reducible graphs of four and five blocks without a switch in     *)
(* which one edge leads back to the header of a loop, and on graphs of six *)
(* and seven blocks without a loop.                                        *)
(***************************************************************************)
EXTENDS CodeGeneration, MCLoopStructuring

OneEdgeBack(g) ==
  \A h \in Vertices(g) : Cardinality({u \in Preds(g, h) : Dominates(g, h, u)}) <= 1

MCCodeGraphs ==
  SmallGraphs \cup BranchesToEntry \cup LoopFreeGraphs \cup TwoParts
    \cup {g \in SwitchAtEntry : AllReachable(g)}
    \cup {g \in GraphsOfFour \cup GraphsOfFive : AllReachable(g) /\ Reducible(g) /\ OneEdgeBack(g)}

=============================================================================
