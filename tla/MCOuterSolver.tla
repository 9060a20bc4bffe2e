---------------------------- MODULE MCOuterSolver ------------------------------
EXTENDS OuterSolver

Six == 1 .. 6

(****************************************************************************)
(* Inputs some tree satisfies: for a tree, given by the parents of 1 .. 6,  *)
(* the constraints of some pairs of vertices.                               *)
(****************************************************************************)
AboveIn(tree, v) ==
  LET up[k \in 0 .. 6] == IF k = 0 THEN {v} ELSE LET b == up[k - 1] IN b \cup ({tree[u] : u \in b} \ {0})
  IN  up[6]

LcaIn(tree, u, v) ==
  LET both == AboveIn(tree, u) \cap AboveIn(tree, v)
  IN  CHOOSE c \in both : both \subseteq AboveIn(tree, c)

Constraints(tree, pairs) == {<<p[1], p[2], LcaIn(tree, p[1], p[2])>> : p \in pairs}

Caterpillar == <<0, 1, 1, 2, 4, 4>>
Cherry == <<0, 1, 2, 2, 4, 4>>

(****************************************************************************)
(* The constraints a search of small inputs found the solver to answer      *)
(* wrongly.                                                                 *)
(****************************************************************************)
Misled ==
  {<<5,5,5>>, <<4,5,4>>, <<3,1,1>>, <<1,5,1>>, <<5,2,2>>, <<4,2,2>>, <<6,3,4>>,
   <<5,6,6>>, <<3,4,4>>, <<2,5,2>>}

OnlyMisled == {Misled}

SomeInputs ==
  OnlyMisled
  \cup {Constraints(t, ps \cup {<<1, 5>>, <<3, 6>>, <<6, 5>>}) :
          t \in {Caterpillar, Cherry},
          ps \in SUBSET {<<2, 3>>, <<2, 5>>, <<4, 5>>, <<3, 5>>, <<4, 6>>, <<5, 6>>}}

(****************************************************************************)
(* Five vertices: all trees in which every vertex has a smaller parent, and *)
(* the constraints of up to nine pairs, three of them always there so that  *)
(* some queries begin failing.                                              *)
(****************************************************************************)
SmallTrees == {<<0, 1, a, b, c, 1>> : a \in 1 .. 2, b \in 1 .. 3, c \in 1 .. 4}
SmallPairs == {<<1, 3>>, <<2, 3>>, <<2, 5>>, <<3, 4>>, <<4, 5>>, <<1, 5>>}

SmallInputs ==
  {Constraints(t, ps \cup {<<2, 4>>, <<3, 5>>, <<1, 4>>}) :
     t \in SmallTrees, ps \in SUBSET SmallPairs}

CheckedInputs == SmallInputs \cup (SomeInputs \ OnlyMisled)
===============================================================================
