------------------------------ MODULE TreeForest ------------------------------
(****************************************************************************)
(* What an Euler tour forest promises the dynamic graph: a forest whose     *)
(* trees are known by their vertex sets, with a counter per vertex.         *)
(****************************************************************************)
EXTENDS GraphTerms

VARIABLES edges, trees, count

vars == <<edges, trees, count>>

Init ==
  /\ edges = {}
  /\ trees = [v \in Vertices |-> {v}]
  /\ count = [v \in Vertices |-> 0]

Link(e) ==
  /\ e[2] \notin trees[e[1]]
  /\ edges' = edges \cup {e}
  /\ trees' = Linked(trees, e[1], e[2])
  /\ UNCHANGED count

Cut(e) ==
  /\ e \in edges
  /\ edges' = edges \ {e}
  /\ trees' = CutTree(trees, edges', e)
  /\ UNCHANGED count

Count(v) ==
  /\ \E c \in {count[v] - 1, count[v] + 1} \cap Nat : count' = [count EXCEPT ![v] = c]
  /\ UNCHANGED <<edges, trees>>

Next == (\E e \in AllEdges : Link(e) \/ Cut(e)) \/ (\E v \in Vertices : Count(v))

Spec == Init /\ [][Next]_vars
===============================================================================
