----------------------------- MODULE Dominance -----------------------------
(***************************************************************************)
(* Control-flow graphs and their dominators.  A graph has the vertices     *)
(* 0 .. size-1, vertex 0 is the entry.  Dominators are defined without     *)
(* paths; the code takes them from boost::lengauer_tarjan_dominator_tree.  *)
(***************************************************************************)
EXTENDS Integers, FiniteSets

Vertices(g) == 0 .. g.size - 1

IsGraph(g) ==
  /\ g.size \in Nat \ {0}
  /\ g.edges \subseteq Vertices(g) \X Vertices(g)

Preds(g, v) == {u \in Vertices(g) : <<u, v>> \in g.edges}
Succs(g, v) == {w \in Vertices(g) : <<v, w>> \in g.edges}

\* No branch leads back to the entry block.
EntryNotTarget(g) == Preds(g, 0) = {}

\* Every vertex can be reached from the entry: no smaller set of vertices
\* contains the entry and is closed under the edges.
AllReachable(g) ==
  \A S \in SUBSET Vertices(g) :
    0 \in S /\ (\A e \in g.edges : e[1] \in S => e[2] \in S) => S = Vertices(g)

\* h dominates v: without h no path leads from the entry to v.
Dominates(g, h, v) ==
  v = h \/ \E S \in SUBSET (Vertices(g) \ {h, v}) :
             /\ 0 \in S \cup {h}
             /\ \A e \in g.edges : e[1] \in S => e[2] \in S \cup {h}

\* The vertices that can be reached from the entry.
Reached(g) ==
  LET Within[k \in 0 .. g.size] ==
        IF k = 0 THEN {0} ELSE LET S == Within[k - 1] IN S \cup UNION {Succs(g, v) : v \in S}
  IN  Within[g.size]

StrictDominators(g, v) == {d \in Vertices(g) \ {v} : Dominates(g, d, v)}

\* dom_tree[d].  Vertices that cannot be reached have no dominator.
ImmediatelyDominated(g, d) ==
  {v \in Vertices(g) \ {0} :
     /\ v \in Reached(g)
     /\ d \in StrictDominators(g, v)
     /\ \A x \in StrictDominators(g, v) : Dominates(g, x, d)}

=============================================================================
