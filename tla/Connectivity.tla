----------------------------- MODULE Connectivity -----------------------------
(****************************************************************************)
(* What the dynamic graph of branch 3 promises: edges come and go, and at   *)
(* every moment part[v] is the set of vertices connected to v.  An          *)
(* operation takes effect in one step.                                      *)
(****************************************************************************)
EXTENDS GraphTerms

VARIABLES live, part

vars == <<live, part>>

Init ==
  /\ live = {}
  /\ part = [v \in Vertices |-> {v}]

Add(e) ==
  /\ e \notin live
  /\ live' = live \cup {e}
  /\ part' = Components(live')

Remove(e) ==
  /\ e \in live
  /\ live' = live \ {e}
  /\ part' = Components(live')

Next == \E e \in AllEdges : Add(e) \/ Remove(e)

Spec == Init /\ [][Next]_vars
===============================================================================
