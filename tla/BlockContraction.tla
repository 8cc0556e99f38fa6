-------------------------- MODULE BlockContraction --------------------------
(***************************************************************************)
(* What reducing a control-flow graph may do to the program.               *)
(*                                                                         *)
(* A program is a set of blocks and its branches: <<a, v, b>> \in flow     *)
(* says that block a, when it ends in machine state v, continues in        *)
(* block b.  The only step is to contract a silent block, one that does    *)
(* nothing but choose its successor: whoever continued in it continues     *)
(* where it would have continued in the same machine state.  Nothing else  *)
(* moves, and the entry stays.                                             *)
(***************************************************************************)

VARIABLES blocks, silent, entry, flow

vars == <<blocks, silent, entry, flow>>

Rerouted(b) ==
  {e \in flow : e[1] # b /\ e[3] # b} \cup
  {<<pair[1][1], pair[1][2], pair[2][3]>> :
     pair \in {p \in flow \X flow : /\ p[1][1] # b /\ p[1][3] = b
                                    /\ p[2][1] = b /\ p[2][2] = p[1][2]}}

Contract(b) ==
  /\ b \in silent
  /\ b # entry
  /\ \A e \in flow : e[1] = b => e[3] # b
  /\ blocks' = blocks \ {b}
  /\ silent' = silent \ {b}
  /\ flow' = Rerouted(b)
  /\ entry' = entry

Init ==
  /\ silent \subseteq blocks
  /\ entry \in blocks
  /\ \A e \in flow : e[1] \in blocks /\ e[3] \in blocks

Next == \E b \in silent : Contract(b)

Spec == Init /\ [][Next]_vars

=============================================================================
