------------------------------ MODULE MCRawStore ------------------------------
(***************************************************************************)
(* RawStore with two skeletons, one occurrence and four builders: nothing, *)
(* two joined vertices, a hosted occurrence with a core patch, and the     *)
(* same occurrence alone with its port.                                    *)
(***************************************************************************)
EXTENDS RawStore

CONSTANTS o1, u, w, c

NoMap == [o \in {} |-> {}]
Real(v) == [kind |-> "REAL", orig |-> v, occ |-> NoOcc]
Center(v, o) == [kind |-> "OCC_CENTER", orig |-> v, occ |-> o]
Edge(i, j, k) == [a |-> i, b |-> j, kind |-> k, br |-> NoBridge]

MCBuilders ==
  { [V |-> <<>>, E |-> <<>>, nbr |-> NoMap, patch |-> NoMap],
    [V |-> <<Center(c, o1), Real(u), Real(w)>>,
     E |-> <<Edge(1, 2, "REAL_PORT"), Edge(2, 3, "CORE_REAL")>>,
     nbr |-> [o \in {o1} |-> {}], patch |-> [o \in {o1} |-> {2}]],
    [V |-> <<Real(u), Center(c, o1)>>, E |-> <<Edge(2, 1, "REAL_PORT")>>,
     nbr |-> NoMap, patch |-> NoMap],
    [V |-> <<Real(u)>>, E |-> <<>>, nbr |-> NoMap, patch |-> NoMap] }
=============================================================================
