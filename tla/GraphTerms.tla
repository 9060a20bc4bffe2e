------------------------------ MODULE GraphTerms ------------------------------
(****************************************************************************)
(* The vocabulary of undirected graphs the branch 3 modules share.  An edge *)
(* is a pair of vertices in increasing order, the form                      *)
(* DynamicForestCoreHDT::addEdge brings every edge to before it uses it.    *)
(****************************************************************************)
EXTENDS Naturals, FiniteSets

CONSTANT Vertices

ASSUME VerticesAssumption == Vertices \subseteq Nat /\ IsFiniteSet(Vertices)

AllEdges == {e \in Vertices \X Vertices : e[1] < e[2]}

Touches(e, v) == e[1] = v \/ e[2] = v
OtherEnd(e, v) == IF e[1] = v THEN e[2] ELSE e[1]

(****************************************************************************)
(* S is a union of components of the graph with edges E: no edge leaves it. *)
(****************************************************************************)
Closed(S, E) == \A e \in E : e[1] \in S <=> e[2] \in S

(****************************************************************************)
(* The vertices reachable from v: those no closed set separates from v.     *)
(****************************************************************************)
Component(E, v) ==
  {u \in Vertices : \A S \in SUBSET Vertices : v \in S /\ Closed(S, E) => u \in S}

Components(E) == [v \in Vertices |-> Component(E, v)]

(****************************************************************************)
(* The side of e[1] when e is taken out of the tree with vertices T whose   *)
(* other edges are E.                                                       *)
(****************************************************************************)
Half(T, E, e) ==
  CHOOSE A \in SUBSET T : e[1] \in A /\ e[2] \notin A /\ Closed(A, E)

(****************************************************************************)
(* A forest by the vertex sets of its trees: joining the trees of u and v,  *)
(* and taking e out of its tree, whose other edges are in E.                *)
(****************************************************************************)
Linked(t, u, v) ==
  LET both == t[u] \cup t[v] IN
  [x \in Vertices |-> IF x \in both THEN both ELSE t[x]]

CutTree(t, E, e) ==
  LET whole == t[e[1]]
      half == Half(whole, E, e)
  IN  [x \in Vertices |-> IF x \in half THEN half
                          ELSE IF x \in whole THEN whole \ half ELSE t[x]]
===============================================================================
