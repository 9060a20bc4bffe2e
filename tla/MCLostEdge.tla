------------------------------ MODULE MCLostEdge ------------------------------
EXTENDS ForestCore

(****************************************************************************)
(* One input of thirteen vertices (and vertex 0) from which only vertices 2 *)
(* and 6 are deleted.                                                       *)
(****************************************************************************)
Fourteen == 0 .. 13

Wires ==
  << <<1,9>>, <<1,11>>, <<2,9>>, <<2,10>>, <<3,5>>, <<4,6>>, <<4,7>>, <<5,10>>,
     <<5,11>>, <<5,12>>, <<6,7>>, <<6,11>>, <<7,9>>, <<8,10>>, <<8,13>>, <<9,13>> >>

OnlyWires == {Wires}

TwoDeletions ==
  \/ AddEdge \/ RemoveVictim \/ Search
  \/ \E x \in {2, 6} : DeleteVertex(x)

LostEdgeSpec == CoreInit /\ [][TwoDeletions]_allVars
===============================================================================
