--------------------------- MODULE GraphTraversal ---------------------------
(***************************************************************************)
(* boost::depth_first_search with a DFSOrderVisitor, as GraphTraversal     *)
(* runs it: the vertices 0 .. n-1 are tried in increasing order, the       *)
(* out-edges of a vertex in the order in which they were added.            *)
(***************************************************************************)
EXTENDS Naturals, Sequences, SequencesExt

\* The vertices in the order in which the search finishes them; outEdges[v]
\* is the sequence of the targets of the edges that leave v.
PostOrder(n, outEdges) ==
  LET Vertices == 0 .. n - 1
      Search == [seen : SUBSET Vertices, postorder : Seq(Vertices)]
      Visit[call \in Vertices \X Search] ==
        LET v == call[1]
            search == call[2]
            entered == [search EXCEPT !.seen = @ \cup {v}]
            below == FoldLeft(LAMBDA s, w : Visit[<<w, s>>], entered, outEdges[v])
        IN  IF v \in search.seen THEN search
            ELSE [below EXCEPT !.postorder = Append(@, v)]
      start == [seen |-> {}, postorder |-> <<>>]
  IN  FoldLeft(LAMBDA s, v : Visit[<<v, s>>], start, [i \in 1 .. n |-> i - 1]).postorder

=============================================================================
