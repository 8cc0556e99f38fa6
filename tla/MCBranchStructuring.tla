------------------------- MODULE MCBranchStructuring -------------------------
(***************************************************************************)
(* BranchStructuring on all graphs of up to three blocks and on the graphs *)
(* of four blocks, with and without switches.                              *)
(***************************************************************************)
EXTENDS BranchStructuring, MCLoopStructuring

MCBranchGraphs ==
  SmallGraphs \cup {g \in GraphsOfFour \cup SwitchesInside : AllReachable(g)}

=============================================================================
